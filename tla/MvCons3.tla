------------------------------ MODULE MvCons3 -------------------------------
(***************************************************************************)
(* MvCons3 (consensus/cons/mvcons3): a chain of consensus indexes that run *)
(* at the same time.  The coordinator of an index sends an init message    *)
(* that supports the latest valid index it knows of; an index is valid     *)
(* once n-t members echoed its init message, and decided once it is at the *)
(* end of a path of three valid indexes.                                   *)
(*                                                                         *)
(* A node is a record: the items of the indexes 1..LastIndex, which exist  *)
(* from the start (LastIndex is within KeepFuture and KeepPast), and the   *)
(* local and the started index of ConsState, which drives them.  The       *)
(* operators turn a node into the node after a call, as the code follows   *)
(* prevItem and nextItem; what it broadcasts is appended to out, and a     *)
(* failing check is noted in panicked.                                     *)
(*                                                                         *)
(* The hash of an init message is a pair of its index and a number that    *)
(* tells the messages of a faulty coordinator apart; supports says which   *)
(* hash each init message supports.  The hash of the initial state is      *)
(* <<0, 0>>.  Coordinators rotate; members are fixed.                      *)
(***************************************************************************)
EXTENDS Members, Sequences, SequencesExt

CONSTANTS LastIndex,     \* bound: the indexes
          Rotation       \* the members in the order in which they coordinate

VARIABLES node,          \* the state of each node
          supports,      \* the init messages sent: hash |-> hash supported
          echoes         \* the echoes sent: <<member, hash>>

mv3Vars == <<node, supports, echoes>>

Indexes == 1 .. LastIndex
Genesis == <<0, 0>>
NoHash == <<-1, -1>>
Undecided == "undecided"
DecidedNil == "decidedNil"
DecidedValue == "decidedValue"
NotSent == "NotSent"
Sent == "Sent"
Passed == "Passed"

ASSUME LastIndex \in Nat /\ Range(Rotation) = Members

CheckCoord(i) == Rotation[((i - 1) % GetMemberCount) + 1]

\* GenerateNewItem, and PrevHasBeenReset for the first index.
NewItem(i) ==
    [inits |-> <<>>, sigs |-> {}, supportedEchoHash |-> NoHash,
     sentEcho |-> FALSE, sentEchoHash |-> NoHash, sentEchoSupportIdx |-> 0,
     hasDecided |-> Undecided, echoHash |-> NoHash, echoInitMsg |-> NoHash,
     supportDepth |-> 0, supportItems |-> <<>>, recoverTimer |-> "off", requested |-> FALSE,
     NeedsProposal |-> FALSE, supportIndexHasInit |-> FALSE, myInitMsg |-> NoHash,
     prevTimeoutState |-> IF i = 1 THEN Passed ELSE NotSent, initTimeOutState |-> NotSent]

Panic(s, why) == IF s.panicked = "" THEN [s EXCEPT !.panicked = why] ELSE s
Check(s, ok, why) == IF ok THEN s ELSE Panic(s, why)
Broadcast(s, m) == IF s.panicked = "" THEN [s EXCEPT !.out = Append(@, m)] ELSE s

-----------------------------------------------------------------------------
(* What to support.                                                        *)

Initially == [index |-> 0, hash |-> Genesis, proof |-> FALSE, hasInit |-> TRUE]

RECURSIVE getMostRecentSupportRec(_, _)
getMostRecentSupportRec(s, i) ==
    LET it == s.item[i]
        hasInit == it.echoInitMsg # NoHash
        Echoed(below) ==
            IF /\ it.sentEcho /\ it.hasDecided # DecidedNil /\ it.initTimeOutState # Passed
               /\ it.sentEchoSupportIdx = below.index
            THEN [index |-> i, hash |-> it.sentEchoHash, proof |-> FALSE, hasInit |-> hasInit]
            ELSE below
    IN CASE it.hasDecided # DecidedNil /\ it.echoHash # NoHash
                -> [index |-> i, hash |-> it.echoHash, proof |-> TRUE, hasInit |-> hasInit]
         [] i = 1 -> Initially
         [] OTHER -> Echoed(getMostRecentSupportRec(s, i - 1))

getMostRecentSupport(s, i) == IF i = 1 THEN Initially ELSE getMostRecentSupportRec(s, i - 1)

\* The first init message, in the order of arrival, that supports what this node would support.
ToEcho(s, i) ==
    SelectSeq(s.item[i].inits, LAMBDA x : x.supports = getMostRecentSupport(s, i).hash)

\* validatedInitHashes: whether the init message of a hash is there, and what it supports.
HasInitOf(it, h) == \E k \in DOMAIN it.inits : it.inits[k].hash = h
Supports(it, h) == it.inits[CHOOSE k \in DOMAIN it.inits : it.inits[k].hash = h].supports

-----------------------------------------------------------------------------
(* addSupport: item i learns that a valid index from supports hash of      *)
(* index to, at the given depth, over the indexes in items.                *)

HasDecided(it) ==
    \/ it.hasDecided = DecidedNil
    \/ it.hasDecided = DecidedValue /\ it.echoInitMsg # NoHash

DecideNil(s, i) ==
    [Check(s, s.item[i].hasDecided # DecidedValue, "nil after a value")
        EXCEPT !.item[i].hasDecided = DecidedNil]

\* The statistics read the second last index of the path: there has to be one.
DecideValue(s, i, items) ==
    [Check(Check(s, s.item[i].hasDecided # DecidedNil, "a value after nil"),
           s.item[i].hasDecided = Undecided => Len(items) >= 2, "index out of range")
        EXCEPT !.item[i].hasDecided = DecidedValue]

CommitDepth == 3
NilDepth == CommitDepth + 1

RECURSIVE addSupport(_, _, _, _, _, _)
addSupport(s, i, from, hash, depth, items) ==
    LET it == s.item[i]
        Below(u) == IF u.panicked = "" /\ i > 1 THEN addSupport(u, i - 1, from, hash, depth, items) ELSE u
        Supported(u) ==
            Check([u EXCEPT !.item[i].supportDepth = depth, !.item[i].supportItems = items],
                  it.echoHash \in {NoHash, hash}, "multiple support hashes")
        TellPrev(u) ==
            IF it.echoInitMsg = NoHash THEN u
            ELSE LET w == IF u.panicked = "" /\ i > 1
                          THEN addSupport(u, i - 1, i, Supports(it, it.echoInitMsg), depth + 1, Append(items, i))
                          ELSE u
                 IN Check(w, depth >= CommitDepth /\ i > 1 => w.item[i - 1].hasDecided # Undecided, "previous undecided")
    IN CASE i > hash[1] -> Below(IF depth >= NilDepth THEN DecideNil(s, i) ELSE s)
         [] i = hash[1] /\ depth > it.supportDepth
                -> TellPrev(Supported(IF depth >= CommitDepth THEN DecideValue(s, i, items) ELSE s))
         [] i < hash[1] -> Panic(s, "out of order indexes")
         [] OTHER -> s

-----------------------------------------------------------------------------
(* checkProgress, passTimer and prevTimeoutPassed call each other along    *)
(* prevItem and nextItem.                                                  *)

recSentEcho(s, i) == [s EXCEPT !.item = [j \in Indexes |-> IF j <= i THEN [@[j] EXCEPT !.sentEcho = TRUE] ELSE @[j]]]

Echo(s, i, x) ==
    Broadcast(recSentEcho([s EXCEPT !.item[i].sentEchoHash = x.hash,
                                    !.item[i].sentEchoSupportIdx = x.supports[1]], i),
              <<"Echo", x.hash>>)

\* Variant: lower indexes may still be echoed.
EchoAnyOrder(s, i) ==
    LET ready == ToEcho(s, i) IN
    IF s.item[i].sentEcho \/ s.item[i].prevTimeoutState # Passed \/ ready = <<>> THEN s
    ELSE Broadcast([s EXCEPT !.item[i].sentEcho = TRUE, !.item[i].sentEchoHash = ready[1].hash,
                             !.item[i].sentEchoSupportIdx = ready[1].supports[1]], <<"Echo", ready[1].hash>>)

CheckEcho(s, i) ==
    LET ready == ToEcho(s, i) IN
    IF s.item[i].sentEcho \/ s.item[i].prevTimeoutState # Passed \/ ready = <<>> THEN s
    ELSE Echo(s, i, ready[1])

CheckSupportedHash(s, i) ==
    LET h == s.item[i].supportedEchoHash IN
    IF h = NoHash THEN s
    ELSE [Check(s, s.item[i].echoHash \in {NoHash, h}, "two supported hashes") EXCEPT !.item[i].echoHash = h]

CheckInit(s, i) ==
    LET it == s.item[i]
        known == [s EXCEPT !.item[i].echoInitMsg = it.echoHash, !.item[i].recoverTimer = "off"]
    IN CASE HasDecided(it) \/ it.echoHash = NoHash -> s
         [] ~ HasInitOf(it, it.echoHash) ->
                IF it.hasDecided = DecidedValue /\ it.recoverTimer = "off"
                THEN [s EXCEPT !.item[i].recoverTimer = "running"] ELSE s
         [] it.echoInitMsg = NoHash ->
                IF i = 1 \/ known.panicked # "" THEN known
                ELSE addSupport(known, i - 1, i, Supports(it, it.echoHash), it.supportDepth + 1, it.supportItems)
         [] OTHER -> s

RECURSIVE checkProgress(_, _)
RECURSIVE passTimer(_, _)
RECURSIVE prevTimeoutPassed(_, _)

prevTimeoutPassed(s, i) ==
    IF s.item[i].prevTimeoutState = Passed THEN s
    ELSE checkProgress([s EXCEPT !.item[i].prevTimeoutState = Passed], i)

passTimer(s, i) ==
    LET set == [s EXCEPT !.item[i].initTimeOutState = Passed]
        Next_(u) == IF u.panicked = "" /\ i < LastIndex /\ u.item[i].prevTimeoutState = Passed
                    THEN prevTimeoutPassed(u, i + 1) ELSE u
    IN IF s.item[i].initTimeOutState = Passed THEN s
       ELSE Next_(IF i > 1 THEN passTimer(set, i - 1) ELSE set)

checkProgress(s, i) ==
    LET Pass(u) == IF u.item[i].echoHash # NoHash THEN passTimer(u, i) ELSE u
        Prev(u) == IF u.panicked = "" /\ i > 1 THEN checkProgress(u, i - 1) ELSE u
    IN Prev(Pass(CheckInit(CheckSupportedHash(CheckEcho(s, i), i), i)))

-----------------------------------------------------------------------------
(* Start, proposals, and the loop of ConsState that moves the local index  *)
(* past decided items and starts an item when the one before lets it.      *)

\* startCons at node p.
startCons(p, s, i) ==
    LET sup == getMostRecentSupport(s, i)
        Coord(u) ==
            IF CheckCoord(i) # p THEN u
            ELSE [Check(u, sup.index = 0 \/ sup.proof, "should have a proof")
                     EXCEPT !.item[i].NeedsProposal = TRUE, !.item[i].myInitMsg = sup.hash,
                            !.item[i].supportIndexHasInit = sup.hasInit]
        Timer(u) == IF u.item[i].initTimeOutState = NotSent
                    THEN [u EXCEPT !.item[i].initTimeOutState = Sent] ELSE u
    IN Timer(Coord(Check(s, i > 1 => s.item[i - 1].initTimeOutState = Passed, "previous timer")))

CanStartNextOnInit(it) == it.echoInitMsg # NoHash        \* variant: a timeout is not enough
CanStartNext(it) ==
    /\ it.echoHash = NoHash \/ it.echoInitMsg # NoHash
    /\ it.echoInitMsg # NoHash \/ it.initTimeOutState = Passed

\* ConsState.checkProgress: DoneIndex for decided items, then the concurrent starts.
RECURSIVE Advance(_, _)
Advance(p, s) ==
    LET next == s.started + 1
        done == [s EXCEPT !.local = @ + 1]
    IN CASE s.panicked # "" \/ s.local > LastIndex -> s
         [] HasDecided(s.item[s.local]) ->
                Advance(p, IF s.started < done.local /\ next <= LastIndex
                           THEN startCons(p, [done EXCEPT !.started = next], next) ELSE done)
         [] next <= LastIndex /\ CanStartNext(s.item[s.started]) ->
                Advance(p, startCons(p, [s EXCEPT !.started = next], next))
         [] OTHER -> s

\* GetProposalIndex returns ready.
NeedsProposalNow(s, i) ==
    /\ s.item[i].NeedsProposal
    /\ s.item[i].supportIndexHasInit \/ getMostRecentSupport(s, i).hasInit

-----------------------------------------------------------------------------
(* The nodes.  A call at node p leaves u; what it broadcasts is sent.      *)

NewNode == [item |-> [i \in Indexes |-> NewItem(i)], local |-> 1, started |-> 1, queue |-> {},
            out |-> <<>>, panicked |-> ""]

Mv3Init ==
    /\ node = [p \in Members |-> startCons(p, NewNode, 1)]
    /\ supports = <<>>
    /\ echoes = {}

Up(p) == node[p].panicked = ""

\* The main loop returns to ConsState with u.
Returns(p, u) ==
    /\ node' = [node EXCEPT ![p] = [u EXCEPT !.out = <<>>]]
    /\ echoes' = echoes \cup {<<p, u.out[k][2]>> : k \in DOMAIN u.out}

\* GotProposal: the state machine has given a proposal.
GotProposal(p, i) ==
    /\ Up(p) /\ NeedsProposalNow(node[p], i)
    /\ node' = [node EXCEPT ![p].item[i].NeedsProposal = FALSE]
    /\ supports' = supports @@ (<<i, 0>> :> node[p].item[i].myInitMsg)
    /\ UNCHANGED echoes

\* ProcessMessage of an init message, by whoever sent it again; GotMsg has checked the coordinator.
ProcessInit(p, h) ==
    LET s == node[p]
        i == h[1]
        x == [hash |-> h, supports |-> supports[h]]
    IN /\ Up(p) /\ h \in DOMAIN supports /\ ~ HasInitOf(s.item[i], h)
       /\ Returns(p, Advance(p, checkProgress([s EXCEPT !.item[i].inits = Append(@, x)], i)))
       /\ UNCHANGED supports

\* GotMsg of echoes of hash h signed by S, in a message thread.
StoreEchoes(p, h, S) ==
    LET it == node[p].item[h[1]]
        sigs == it.sigs \cup (S \X {h})
        count == Cardinality({q \in Members : <<q, h>> \in sigs})
        s == [node[p] EXCEPT !.item[h[1]].sigs = sigs, !.queue = @ \cup {h[1]}]
    IN /\ Up(p) /\ ~ (S \X {h}) \subseteq it.sigs
       /\ \A q \in S : <<q, h>> \in echoes \/ q \in Faulty
       /\ node' = [node EXCEPT ![p] =
             IF count < nmt THEN s
             ELSE Check([s EXCEPT !.item[h[1]].supportedEchoHash = h],
                        it.supportedEchoHash \in {NoHash, h}, "two hashes to support")]
       /\ UNCHANGED <<supports, echoes>>

\* ProcessMessage of an echo.
ProcessEcho(p, i) ==
    /\ Up(p) /\ i \in node[p].queue
    /\ Returns(p, Advance(p, checkProgress([node[p] EXCEPT !.queue = @ \ {i}], i)))
    /\ UNCHANGED supports

\* ProcessMessage of the init timeout, unless the timer was stopped.
InitTimeout(p, i) ==
    LET it == node[p].item[i] IN
    /\ Up(p) /\ it.initTimeOutState = Sent /\ it.echoInitMsg = NoHash
    /\ Returns(p, Advance(p, checkProgress(passTimer(node[p], i), i)))
    /\ UNCHANGED supports

\* ProcessMessage of the recover timeout: ask for the init message, once.
RecoverTimeout(p, i) ==
    /\ Up(p) /\ node[p].item[i].recoverTimer = "running"
    /\ node' = [node EXCEPT ![p].item[i].recoverTimer = "fired",
                            ![p].item[i].requested = @ \/ node[p].item[i].echoInitMsg = NoHash]
    /\ UNCHANGED <<supports, echoes>>

\* A faulty coordinator sends another init message, which may support anything.
FaultyInit(h, below) ==
    /\ CheckCoord(h[1]) \in Faulty /\ h \notin DOMAIN supports /\ below[1] < h[1]
    /\ supports' = supports @@ (h :> below)
    /\ UNCHANGED <<node, echoes>>

-----------------------------------------------------------------------------
(* Properties.                                                             *)


\* A node that echoes an index never echoes a lower one afterwards, and supports nothing older
\* than what it knew to be valid: what it votes for only moves forward.
EchoesForward ==
    [][\A p \in Correct : \A e \in echoes' \ echoes :
          e[1] = p => /\ \A d \in echoes : d[1] = p => d[2][1] < e[2][1]
                      /\ \A j \in 1 .. e[2][1] - 1 :
                            /\ node[p].item[j].echoHash # NoHash
                            /\ node[p].item[j].hasDecided # DecidedNil
                            => supports[e[2]][1] >= j]_mv3Vars
=============================================================================
