------------------------------ MODULE SigState ------------------------------
(***************************************************************************)
(* The signatures a node holds for the messages of one consensus instance  *)
(* (consensus/consinterface/messagestate).  Several threads give messages  *)
(* to GotMsg at once: gotMsg picks the signatures that are new, the thread *)
(* checks them with no lock held, and storeMsg keeps the valid ones and    *)
(* returns how many members have signed.  Another thread asks setupSigs    *)
(* for the signatures to send.                                             *)
(*                                                                         *)
(* With plain signatures (signedMsgMap) two threads may check the same     *)
(* signature; with multi-signatures (blsSigState, UseMultiSig) a thread    *)
(* marks the members it checks and a thread whose signature has a marked   *)
(* member waits on a condition variable.                                   *)
(*                                                                         *)
(* All messages here have the same message id.  A plain signature is made  *)
(* by a member or is the threshold signature; a multi-signature has the    *)
(* list of its members, a bit id.  Whether a signature checks is part of   *)
(* the message, as is the order sort.Sort gives equally large ones.        *)
(* An unsigned message has the keys of the members whose encrypted channel *)
(* it came on, and nothing to check.                                       *)
(***************************************************************************)
EXTENDS Integers, SequencesExt, FiniteSetsExt

CONSTANTS
  UseMultiSig,   \* which of the two kinds of signatures is used
  Member,        \* indices of the members
  T,             \* members of a threshold signature, or needed for a coin
  Hash,          \* the messages
  CoinProof,     \* the messages signed with coin proofs
  Unsigned,      \* the messages that are not signed
  Thread,        \* threads in GotMsg
  Incoming,      \* the signed messages received: [hash, sigs]
  Counts         \* the numbers of signatures setupSigs is asked for

VARIABLES
  msgs,          \* hash -> the signatures of that message
  ids,           \* the signers of any message of the message id
  total,         \* the map of trackTotalSigCount
  threads,       \* what each thread is doing, and the sender
  seen           \* hash -> signer -> times reported new, and the panic

sigVars == <<msgs, ids, total, threads, seen>>

B == INSTANCE BitIDs WITH W <- 8, Item <- Member, Operands <- {}, MaxCount <- 0,
                          obj <- 0, spare <- 0, ref <- 0

Thrsh == -1      \* the public key of the threshold signature

Signer == Member \cup {Thrsh}

Idle == [at |-> "idle"]

Init ==
  /\ msgs = [h \in Hash |->
       IF UseMultiSig
       THEN [allSigs |-> <<>>, validatingSigs |-> <<>>, fullSigList |-> <<>>, hasNewSigs |-> 0,
             merged |-> <<>>]
       ELSE [SigMap |-> {}, singleSigCount |-> 0, thrshSigCount |-> 0, coinVal |-> FALSE]]
  /\ ids = IF UseMultiSig THEN [allSigs |-> <<>>]
           ELSE [pubKeyMap |-> {}, singleSigCount |-> 0, thrshSigCount |-> 0]
  /\ total = [tracked |-> FALSE, pubs |-> {}]
  /\ threads = [p \in Thread \cup {"sender"} |-> Idle]
  /\ seen = [new |-> [h \in Hash |-> [s \in Signer |-> 0]], panic |-> ""]

Running(p, at) == seen.panic = "" /\ threads[p].at = at

(***************************************************************************)
(* signedMsgMap                                                            *)
(***************************************************************************)

\* A message with no new signer is dropped.
GotNew(p, h, newItems) ==
  /\ Running(p, "idle")
  /\ threads' = [threads EXCEPT ![p] =
       IF newItems = {} THEN Idle ELSE [at |-> "checking", hash |-> h, sigs |-> newItems]]
  /\ UNCHANGED <<msgs, ids, total, seen>>

gotMsg(p, m) ==
  /\ m.hash \notin Unsigned
  /\ GotNew(p, m.hash, {s \in m.sigs : s.pub \notin msgs[m.hash].SigMap})

gotUnsignedMsg(p, m) ==
  /\ m.hash \in Unsigned
  /\ GotNew(p, m.hash, {s \in m.sigs : s.pub \notin msgs[m.hash].SigMap})

Counted(h, newValid) ==
  seen' = [seen EXCEPT !.new[h] = [s \in Signer |-> @[s] + (IF s \in newValid THEN 1 ELSE 0)]]

Track(validPubs) ==
  total' = IF total.tracked THEN [total EXCEPT !.pubs = @ \cup validPubs] ELSE total

\* The threshold signature counts for its T members.
storeMsg(p) ==
  /\ Running(p, "checking") /\ threads[p].hash \notin Unsigned
  /\ LET h == threads[p].hash
         validSigs == {s.pub : s \in {s \in threads[p].sigs : s.ok}}
         newValidSigs == validSigs \ msgs[h].SigMap
         singles(S) == Cardinality(S \ {Thrsh})
     IN  /\ Track(validSigs)
         /\ ids' = [pubKeyMap |-> ids.pubKeyMap \cup validSigs,
                    singleSigCount |-> ids.singleSigCount + singles(validSigs \ ids.pubKeyMap),
                    thrshSigCount |-> IF Thrsh \in validSigs THEN T ELSE ids.thrshSigCount]
         /\ msgs' = [msgs EXCEPT
              ![h].SigMap = @ \cup validSigs,
              ![h].singleSigCount = @ + singles(newValidSigs),
              ![h].thrshSigCount = IF Thrsh \in newValidSigs THEN T ELSE @]
         /\ Counted(h, newValidSigs)
  /\ threads' = [threads EXCEPT ![p] = Idle]

\* Every key of an unsigned message counts for one member.
storeUnsignedMsg(p) ==
  /\ Running(p, "checking") /\ threads[p].hash \in Unsigned
  /\ LET h == threads[p].hash
         validPubs == {s.pub : s \in threads[p].sigs}
         newValidPubs == validPubs \ msgs[h].SigMap
     IN  /\ Track(validPubs)
         /\ ids' = [ids EXCEPT
              !.pubKeyMap = @ \cup validPubs,
              !.singleSigCount = @ + Cardinality(validPubs \ ids.pubKeyMap)]
         /\ msgs' = [msgs EXCEPT
              ![h].SigMap = @ \cup validPubs,
              ![h].singleSigCount = @ + Cardinality(newValidPubs)]
         /\ Counted(h, newValidPubs)
  /\ threads' = [threads EXCEPT ![p] = Idle]

\* Called once for the messages of a message id.
trackTotalSigCount ==
  /\ seen.panic = "" /\ ~total.tracked
  /\ total' = [tracked |-> TRUE, pubs |-> UNION {msgs[h].SigMap : h \in Hash} \ {Thrsh}]
  /\ UNCHANGED <<msgs, ids, threads, seen>>

\* The messages that are not signed are in a map of their own, which is not read.
getSigCountMsg(h) == IF h \in Unsigned THEN 0 ELSE Max({msgs[h].singleSigCount, msgs[h].thrshSigCount})

getSigCountMsgID == Max({ids.singleSigCount, ids.thrshSigCount})

getTotalSigCount == Max({Cardinality(total.pubs)} \cup {msgs[h].thrshSigCount : h \in Hash})

\* joinSigs makes the threshold signature, or computes the coin, once enough
\* members have signed.
setupSigs(h, addOthersSigsCount) ==
  /\ Running("sender", "idle") /\ h \notin Unsigned
  /\ addOthersSigsCount > 0
  /\ LET enough == Cardinality(msgs[h].SigMap) >= T
     IN  msgs' = [msgs EXCEPT
           ![h].thrshSigCount =
              IF h \notin CoinProof /\ @ = 0 /\ enough /\ T >= addOthersSigsCount THEN T ELSE @,
           ![h].coinVal = @ \/ (h \in CoinProof /\ enough)]
  /\ UNCHANGED <<ids, total, threads, seen>>

(***************************************************************************)
(* blsSigState                                                             *)
(***************************************************************************)

UniqueCount(bid) == Cardinality(ToSet(bid))

\* Picks the signatures with a new member until one of them has a member that
\* is being checked: the thread must wait, and starts over with those picked and
\* those left.
RECURSIVE Pick(_, _, _, _)
Pick(item, newItems, imValidating, sigItems) ==
  IF sigItems = <<>> THEN [wait |-> FALSE, sigs |-> newItems, marks |-> imValidating]
  ELSE LET pbid == Head(sigItems).bid
       IN  IF ~B!HasNewItemsBothHelper(item.allSigs, imValidating, pbid)
           THEN Pick(item, newItems, imValidating, Tail(sigItems))
           ELSE IF B!HasIntersectionHelper(item.validatingSigs, pbid)
           THEN [wait |-> TRUE, sigs |-> newItems \o sigItems, marks |-> <<>>]
           ELSE Pick(item, Append(newItems, Head(sigItems)),
                     B!AddHelper(imValidating, pbid, FALSE, FALSE), Tail(sigItems))

TryValidate(p, h, sigItems) ==
  /\ \E picked \in {Pick(msgs[h], <<>>, <<>>, sigItems)} :
       /\ threads' = [threads EXCEPT ![p] =
            CASE picked.wait -> [at |-> "waiting", hash |-> h, sigs |-> picked.sigs, woken |-> FALSE]
              [] ~picked.wait /\ picked.sigs = <<>> -> Idle
              [] OTHER -> [at |-> "checking", hash |-> h, sigs |-> picked.sigs]]
       /\ msgs' = [msgs EXCEPT ![h].validatingSigs = B!AddHelper(@, picked.marks, FALSE, FALSE)]
  /\ UNCHANGED <<ids, total, seen>>

\* The signatures with the fewest members come first.
SortSigItem(sigs) == SortSeq(sigs, LAMBDA a, b : UniqueCount(a.bid) < UniqueCount(b.bid))

multiGotMsg(p, m) ==
  /\ Running(p, "idle")
  /\ TryValidate(p, m.hash, SortSigItem(m.sigs))

\* A woken thread tries again.
retry(p) ==
  /\ Running(p, "waiting") /\ threads[p].woken
  /\ TryValidate(p, threads[p].hash, threads[p].sigs)

\* A new signature that leaves the merged signature as good as before.
StoredKeepsMerged(item, bid) ==
  IF B!HasNewItemsHelper(item.allSigs, bid)
  THEN [item EXCEPT !.allSigs = B!AddHelper(@, bid, FALSE, FALSE),
                    !.fullSigList = Append(@, bid)]
  ELSE item

Stored(item, bid) ==
  IF B!HasNewItemsHelper(item.allSigs, bid)
  THEN [item EXCEPT !.hasNewSigs = 0,
                    !.allSigs = B!AddHelper(@, bid, FALSE, FALSE),
                    !.fullSigList = Append(@, bid)]
  ELSE item

\* A valid signature's members are no longer being checked.
StoreValid(acc, s) ==
  [item |-> [Stored(acc.item, s.bid) EXCEPT !.validatingSigs = B!SubHelper(@, s.bid, "NotSafe")],
   new |-> IF B!HasNewItemsHelper(acc.item.allSigs, s.bid) THEN Append(acc.new, s.bid) ELSE acc.new]

\* Those of an invalid one must still be marked.
DropInvalid(validatingSigs, s) ==
  IF validatingSigs = B!Failed THEN B!Failed ELSE B!SubHelper(validatingSigs, s.bid, "NonIntersecting")

StoreAll(item, sigs) ==
  FoldLeft(StoreValid, [item |-> item, new |-> <<>>], SelectSeq(sigs, LAMBDA s : s.ok))

multiStoreMsg(p) ==
  /\ Running(p, "checking")
  /\ \E h \in {threads[p].hash} : \E stored \in {StoreAll(msgs[h], threads[p].sigs)} :
       \E left \in {FoldLeft(DropInvalid, stored.item.validatingSigs,
                             SelectSeq(threads[p].sigs, LAMBDA s : ~s.ok))} :
         IF left = B!Failed
         THEN /\ seen' = [seen EXCEPT !.panic = "invalidSub"]
              /\ UNCHANGED <<msgs, ids, threads>>
         ELSE /\ msgs' = [msgs EXCEPT ![h] =
                   [stored.item EXCEPT !.validatingSigs = left, !.fullSigList =
                      SortSeq(@, LAMBDA a, b : UniqueCount(a) < UniqueCount(b))]]
              /\ ids' = [allSigs |-> FoldLeft(LAMBDA a, b : B!AddHelper(a, b, FALSE, FALSE),
                                              ids.allSigs, stored.new)]
              /\ seen' = [seen EXCEPT !.new[h] = [s \in Signer |-> @[s] +
                   (IF s \in UNION {ToSet(b) : b \in ToSet(stored.new)} \ ToSet(msgs[h].allSigs)
                    THEN 1 ELSE 0)]]
              /\ threads' = [threads EXCEPT ![p] = [at |-> "stored", hash |-> h]]
  /\ UNCHANGED total

\* cond.Broadcast, once the lock is given up.
broadcast(p) ==
  /\ Running(p, "stored")
  /\ threads' = [q \in DOMAIN threads |->
       IF q = p THEN Idle
       ELSE IF threads[q].at = "waiting" /\ threads[q].hash = threads[p].hash
       THEN [threads[q] EXCEPT !.woken = TRUE]
       ELSE threads[q]]
  /\ UNCHANGED <<msgs, ids, total, seen>>

\* The first of the signatures allowed that covers most of toCheck, or <<>>.
MostOf(list, toCheck, allowed) ==
  LET Better(best, bid) ==
        IF bid \in allowed /\ B!HasIntersectionCountHelper(toCheck, bid)
                               > B!HasIntersectionCountHelper(toCheck, best)
        THEN bid ELSE best
  IN  FoldLeft(Better, <<>>, list)

\* Signatures with no member in common, the largest first.
RECURSIVE NonConflicting(_, _, _, _)
NonConflicting(list, toCheck, chosen, toMerge) ==
  LET item == MostOf(list, toCheck, {bid \in ToSet(list) : ~B!HasIntersectionHelper(toMerge, bid)})
  IN  IF item = <<>> THEN chosen
      ELSE NonConflicting(list, toCheck, Append(chosen, item), B!AddHelper(toMerge, item, FALSE, FALSE))

createMergedSig(bids) == B!AddHelperSet(TRUE, FALSE, bids)

AddMerged(list, bids) == IF Len(bids) > 1 THEN Append(list, createMergedSig(bids)) ELSE list

\* Signatures are added, repeated members and all, until maxSigCount members
\* are covered or none is left.
RECURSIVE Cover(_, _, _, _, _)
Cover(item, list, maxSigCount, chosen, soFar) ==
  LET toCheck == B!SubHelper(item.allSigs, soFar, "NotSafe")
  IN  IF toCheck = <<>> \/ UniqueCount(soFar) >= maxSigCount THEN chosen
      ELSE LET next == MostOf(list, toCheck, ToSet(list))
           IN  Cover(item, list, maxSigCount, Append(chosen, next),
                     B!AddHelper(soFar, next, FALSE, FALSE))

updateMergedSigState(item, list, maxSigCount, chosen) ==
  [item EXCEPT !.hasNewSigs = maxSigCount,
               !.fullSigList = AddMerged(list, chosen),
               !.merged = createMergedSig(chosen)]

StartWith(item, list, maxSigCount, first) ==
  updateMergedSigState(item, list, maxSigCount,
    Cover(item, list, maxSigCount, <<first>>, B!AddHelper(<<>>, first, FALSE, FALSE)))

StartWithNonConflicting(item, maxSigCount, bids) ==
  StartWith(item, AddMerged(item.fullSigList, bids), maxSigCount, createMergedSig(bids))

computeMergedSigsMultiple(item, maxSigCount) ==
  IF item.allSigs = <<>> \/ item.hasNewSigs >= maxSigCount THEN item
  ELSE StartWithNonConflicting(item, maxSigCount,
         NonConflicting(item.fullSigList, item.allSigs, <<>>, <<>>))

\* setupSigs counts the signers, and takes the lock again to merge.
multiCount(h, generateMySig, addOtherSigsCount) ==
  /\ Running("sender", "idle")
  /\ generateMySig \/ (addOtherSigsCount > 0 /\ msgs[h].allSigs # <<>>)
  /\ threads' = [threads EXCEPT !["sender"] =
       [at |-> "counted", hash |-> h, mine |-> generateMySig, others |-> addOtherSigsCount,
        maxCount |-> Len(msgs[h].allSigs)]]
  /\ seen' = [seen EXCEPT !.panic = IF Len(msgs[h].allSigs) # UniqueCount(msgs[h].allSigs)
                                    THEN "repeatedSigner" ELSE ""]
  /\ UNCHANGED <<msgs, ids, total>>

multiSetupSigs ==
  /\ Running("sender", "counted")
  /\ \E me \in {threads["sender"]} : \E item \in {computeMergedSigsMultiple(msgs[me.hash], me.others)} :
       IF me.others > 0
       THEN /\ msgs' = [msgs EXCEPT ![me.hash] = item]
            /\ \E sigCount \in {(IF me.mine THEN 1 ELSE 0) + UniqueCount(item.merged)} :
                 seen' = [seen EXCEPT !.panic =
                   IF sigCount < me.maxCount /\ sigCount < me.others THEN "tooFewSigs" ELSE ""]
       ELSE UNCHANGED <<msgs, seen>>
  /\ threads' = [threads EXCEPT !["sender"] = Idle]
  /\ UNCHANGED <<ids, total>>

Plain ==
  \/ \E p \in Thread, m \in Incoming : gotMsg(p, m)
  \/ \E p \in Thread, m \in Incoming : gotUnsignedMsg(p, m)
  \/ \E p \in Thread : storeMsg(p)
  \/ \E p \in Thread : storeUnsignedMsg(p)
  \/ trackTotalSigCount
  \/ \E h \in Hash, n \in Counts : setupSigs(h, n)

Multi ==
  \/ \E p \in Thread, m \in Incoming : multiGotMsg(p, m)
  \/ \E p \in Thread : retry(p)
  \/ \E p \in Thread : multiStoreMsg(p)
  \/ \E p \in Thread : broadcast(p)
  \/ \E h \in Hash, mine \in BOOLEAN, n \in Counts : multiCount(h, mine, n)
  \/ multiSetupSigs

Next == (~UseMultiSig /\ Plain) \/ (UseMultiSig /\ Multi)

Spec == Init /\ [][Next]_sigVars

(***************************************************************************)
(* What the counts mean                                                    *)
(***************************************************************************)

PlainCounts ==
  LET signers(h) == msgs[h].SigMap \ {Thrsh}
      all == UNION {signers(h) : h \in Hash}
  IN  /\ \A h \in Hash :
           /\ \A s \in Signer : seen.new[h][s] = IF s \in msgs[h].SigMap THEN 1 ELSE 0
           /\ msgs[h].singleSigCount = Cardinality(signers(h))
           /\ h \notin Unsigned =>
                getSigCountMsg(h) = Max({Cardinality(signers(h)), msgs[h].thrshSigCount})
           /\ msgs[h].thrshSigCount \in {0, T}
           /\ (msgs[h].thrshSigCount = T /\ Thrsh \notin msgs[h].SigMap) =>
                Cardinality(signers(h)) >= T
           /\ getSigCountMsg(h) <= Max({getSigCountMsgID, msgs[h].thrshSigCount})
      /\ getSigCountMsgID >= Cardinality(all)
      /\ total.tracked => getTotalSigCount >= Cardinality(all) /\ total.pubs \subseteq all \cup {Thrsh}

Marked(p) == UNION {ToSet(s.bid) : s \in ToSet(threads[p].sigs)}

MultiCounts ==
  \A h \in Hash :
    LET At(at) == {p \in Thread : threads[p].at = at /\ threads[p].hash = h}
    IN  /\ \A s \in Member : seen.new[h][s] = IF s \in ToSet(msgs[h].allSigs) THEN 1 ELSE 0
        /\ ToSet(msgs[h].validatingSigs) = UNION {Marked(p) : p \in At("checking")}
        /\ \A p, q \in At("checking") : p # q => Marked(p) \cap Marked(q) = {}
        /\ \A p \in At("waiting") : ~threads[p].woken => At("checking") \cup At("stored") # {}
        /\ ToSet(msgs[h].allSigs) \subseteq ToSet(ids.allSigs)
        /\ ToSet(msgs[h].merged) \subseteq ToSet(msgs[h].allSigs)

(***************************************************************************)
(* The signatures of a message are counted exactly, however the threads of *)
(* GotMsg interleave.  Each signer is reported as new to one thread only,  *)
(* so a threshold is crossed by one call of storeMsg; the counts returned  *)
(* are those of the distinct signers of the message, or the threshold      *)
(* signature's.  With multi-signatures what is marked as being checked is  *)
(* what the threads between gotMsg and storeMsg check, no two threads      *)
(* check the same member, a thread that waits has one to wake it, and a    *)
(* merged signature covers what setupSigs counted (its sanity check).  The *)
(* only panic is that of storeMsg on an invalid signature with a member    *)
(* that is not marked any more, or marked once and repeated.               *)
(***************************************************************************)
SignersCounted ==
  /\ seen.panic \in {"", "invalidSub"}
  /\ ~UseMultiSig => PlainCounts
  /\ UseMultiSig /\ seen.panic = "" => MultiCounts

=============================================================================
