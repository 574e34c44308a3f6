---------------------------- MODULE StateMachines ----------------------------
(***************************************************************************)
(* The state machines of consensus/statemachine as ConsInterfaceState      *)
(* uses them at one node: StartIndex copies the machine of an earlier      *)
(* index, HasDecided gives it its decision, and DoneKeep or DoneClear says *)
(* whether it stays.  The machines of a node share the count of decisions  *)
(* and the flag that ends the run.                                         *)
(*                                                                         *)
(* There are three ways to use them.  "seq": the machine of an index is    *)
(* started from the index before, when that has decided.  "concurrent"     *)
(* (AllowConcurrent > 0): machines are started early to make proposals and *)
(* are thrown away and made again at their decision.  "chain" (MvCons3): a *)
(* machine is started from the index its proposal supports and gets a      *)
(* pre-decision before its decision is final; an index may in the end have *)
(* decided nil, and then its machine is cleared.                           *)
(*                                                                         *)
(* A proposal is a record: the proof of the verifiable random function     *)
(* (who made it, over which bytes) and a value, which is the counter, the  *)
(* bit, the number of bytes, the index of a simple proposal or the ids of  *)
(* test transactions.  The 32 random bytes are the sequence of the         *)
(* proposers that made them.                                               *)
(***************************************************************************)
EXTENDS Integers, Sequences, FiniteSets, SequencesExt

CONSTANTS Kinds,          \* state machines that are run
          Modes,          \* "seq", "concurrent", "chain"
          Proposers,
          AllowConcurrent,
          LastProposal,   \* computeSMFinish
          MaxIndex        \* bound: indexes decided

VARIABLES use,      \* the kind of machine, how it is used and whether it makes random bytes
          sms,      \* ProposalInfo
          shared,   \* doneCount, closed and the messages on doneChan, shared through pointers
          pre,      \* PreDecisions and SupportIndex: the proposal each index may decide
          decs      \* the decisions so far, and whether a sanity check failed

smVars == <<use, sms, shared, pre, decs>>

NoSM == [index |-> -1]
Nil == [nil |-> TRUE]
ProposalSize == 2        \* proposalSizeBytes
Indexes == 0..MaxIndex

NewSM == [index |-> 0, decided |-> FALSE, done |-> "NotDone", createdFrom |-> <<>>, proposalIndex |-> 0, maxTxId |-> 0, rand |-> <<>>]

-----------------------------------------------------------------------------
(* AbsRandSM *)
RandGetProposal(sm, u, who) == IF u.useRand THEN [by |-> who, over |-> sm.rand] ELSE [none |-> TRUE]
RandValid(sm, u, p) == u.useRand => p.proof = [by |-> p.by, over |-> sm.rand]
RandHasDecided(sm, u, p) ==
    IF u.useRand /\ RandValid(sm, u, p) THEN [sm EXCEPT !.rand = Append(@, p.by)] ELSE sm

-----------------------------------------------------------------------------
(* What each kind of machine proposes, accepts, does with a decision and checks at the end of a test. *)
checkBinary(p) == p # Nil /\ p.value \in {0, 1}

CounterGetProposal(sm, u, who) == {[by |-> who, proof |-> RandGetProposal(sm, u, who), value |-> sm.proposalIndex]}
CounterGetByzProposal(p) == [p EXCEPT !.value = @ + 1]
CounterValidateUnordered(sm, u, p) == p = Nil \/ RandValid(sm, u, p)     \* variant: the order is never checked
CounterValidateProposal(sm, u, p) == p = Nil \/ (RandValid(sm, u, p) /\ (u.needsConcurrent = 0 => p.value = sm.proposalIndex))
CounterHasDecided(sm, u, p) == IF p = Nil THEN sm ELSE [RandHasDecided(sm, u, p) EXCEPT !.proposalIndex = @ + 1]
CounterCheckDecisions(ds) ==    \* the decisions out of order
    LET before(i) == Cardinality({j \in 1..(i - 1) : ds[j] # Nil})
    IN  {i \in DOMAIN ds : ds[i] # Nil /\ ds[i].value # before(i)}

MvGetProposal(sm, u, who) == {[by |-> who, proof |-> RandGetProposal(sm, u, who), value |-> ProposalSize]}
MvGetByzProposal(p) == p                                                \* other bytes, as many
MvValidateProposal(sm, u, p) == p = Nil \/ (RandValid(sm, u, p) /\ p.value = ProposalSize)
MvHasDecided(sm, u, p) == IF p = Nil THEN sm ELSE RandHasDecided(sm, u, p)
MvCheckDecisions(ds) == {i \in DOMAIN ds : ds[i] # Nil /\ ds[i].value # ProposalSize}

\* SimpleTxProposer: ids above the largest one committed; the pool they come from is that of Currency
TxValid(sm, ids) == \A k \in DOMAIN ids : ids[k] > sm.maxTxId
TxGetProposal(sm, u, who) ==
    {[by |-> who, proof |-> RandGetProposal(sm, u, who), value |-> ids] :
        ids \in {<<sm.maxTxId + 1>>, <<sm.maxTxId + 2, sm.maxTxId + 1>>}}
TxGetByzProposal(p) == [p EXCEPT !.value = Tail(@)]
TxValidateProposal(sm, u, p) == p # Nil /\ RandValid(sm, u, p) /\ TxValid(sm, p.value)
LargestId(ids, m) == FoldLeft(LAMBDA a, b : IF b > a THEN b ELSE a, m, ids)
TxHasDecided(sm, u, p) == IF p = Nil THEN sm ELSE [RandHasDecided(sm, u, p) EXCEPT !.maxTxId = LargestId(p.value, @)]
TxIds(ds) == FlattenSeq([i \in DOMAIN ds |-> IF ds[i] = Nil THEN <<>> ELSE ds[i].value])
TxCheckDecisions(ds) ==         \* the decisions out of order
    {i \in DOMAIN ds : ds[i] # Nil /\ \E k \in DOMAIN ds[i].value : ds[i].value[k] < LargestId(TxIds(SubSeq(ds, 1, i - 1)), 0)}

BinGetProposal(who) == {[by |-> who, value |-> v] : v \in {0, 1}}
BinGetByzProposal(p) == [p EXCEPT !.value = 1 - @]
BinValidateProposal(p) == checkBinary(p)
BinCheckDecisions(ds) == {i \in DOMAIN ds : ~checkBinary(ds[i])}

SimpleGetProposal(sm, who) == {[by |-> who, value |-> sm.index]}
SimpleCheckDecisions(ds) == {i \in DOMAIN ds : ds[i] = Nil \/ ds[i].value # i}

GetProposal(sm, u, who) ==
    CASE u.kind = "counter" -> CounterGetProposal(sm, u, who)
      [] u.kind = "mv" -> MvGetProposal(sm, u, who)
      [] u.kind = "tx" -> TxGetProposal(sm, u, who)
      [] u.kind = "binary" -> BinGetProposal(who)
      [] u.kind = "simple" -> SimpleGetProposal(sm, who)
GetByzProposal(u, p) ==
    CASE u.kind = "counter" -> CounterGetByzProposal(p)
      [] u.kind = "mv" -> MvGetByzProposal(p)
      [] u.kind = "tx" -> TxGetByzProposal(p)
      [] u.kind = "binary" -> BinGetByzProposal(p)
      [] u.kind = "simple" -> p
\* SimpleCons asks for no validation.
ValidateProposal(sm, u, p) ==
    CASE u.kind = "counter" -> CounterValidateProposal(sm, u, p)
      [] u.kind = "mv" -> MvValidateProposal(sm, u, p)
      [] u.kind = "tx" -> TxValidateProposal(sm, u, p)
      [] u.kind = "binary" -> BinValidateProposal(p)
      [] u.kind = "simple" -> TRUE
BadDecisions(u, ds) ==
    CASE u.kind \in {"counter", "tx"} -> {}
      [] u.kind = "mv" -> MvCheckDecisions(ds)
      [] u.kind = "binary" -> BinCheckDecisions(ds)
      [] u.kind = "simple" -> SimpleCheckDecisions(ds)

-----------------------------------------------------------------------------
(* AbsStateMachine: each operation gives the machine afterwards, or Panic. *)
Panic == [index |-> -2]

StartIndex(sm, i) ==
    IF sm.done = "DoneClear" THEN Panic
    ELSE [sm EXCEPT !.index = i, !.decided = FALSE, !.done = "NotDone", !.createdFrom = Append(@, i)]

AbsHasDecided(sm, sh, i) == IF sm.decided \/ (~sh.closed /\ i # sm.index) THEN Panic ELSE [sm EXCEPT !.decided = TRUE]
Told(sm, u, p) ==
    CASE sm = Panic \/ u.kind = "simple" -> sm
      [] u.kind = "binary" -> IF checkBinary(p) THEN sm ELSE Panic
      [] u.kind = "mv" -> MvHasDecided(sm, u, p)
      [] u.kind = "tx" -> TxHasDecided(sm, u, p)
      [] u.kind = "counter" -> CounterHasDecided(sm, u, p)
HasDecided(sm, u, sh, i, p) == Told(AbsHasDecided(sm, sh, i), u, p)

DoneKeep(sm) == IF sm # Panic /\ sm.done = "NotDone" THEN [sm EXCEPT !.done = "DoneKeep"] ELSE Panic
DoneClear(sm) == IF sm.done = "NotDone" THEN [sm EXCEPT !.done = "DoneClear"] ELSE Panic

\* the part of AbsDoneKeep that all machines share
CountDoneAgain(sm, sh) ==    \* variant: every kept machine past the last one ends the run
    IF sm.index = 0 THEN sh
    ELSE IF sh.doneCount + 1 >= LastProposal
         THEN [doneCount |-> sh.doneCount + 1, closed |-> TRUE, sent |-> sh.sent + 1]
         ELSE [sh EXCEPT !.doneCount = @ + 1]
CountDone(sm, sh) ==
    IF sm.index = 0 THEN sh
    ELSE IF ~sh.closed /\ sh.doneCount + 1 >= LastProposal
         THEN [doneCount |-> sh.doneCount + 1, closed |-> TRUE, sent |-> sh.sent + 1]
         ELSE [sh EXCEPT !.doneCount = @ + 1]

Collect(sm) == IF sm.done = "NotDone" THEN Panic ELSE NoSM

-----------------------------------------------------------------------------
(* How ConsInterfaceState uses them. *)
LocalIndex == Len(decs.list) + 1
Has(i) == sms[i].index >= 0
Kept == {i \in Indexes : Has(i) /\ sms[i].done = "DoneKeep"}
LastKept == CHOOSE i \in Kept : \A j \in Kept : j <= i
NoPre == [support |-> -1]

Init ==
    /\ use \in {u \in [kind : Kinds, mode : Modes, useRand : BOOLEAN, needsConcurrent : {0, AllowConcurrent}] :
                    /\ u.useRand => u.kind \in {"counter", "mv", "tx"}
                    /\ (u.needsConcurrent # 0) <=> (u.mode = "concurrent")
                    /\ u.mode = "chain" => u.kind \in {"counter", "mv", "tx"}}
    /\ sms = [i \in Indexes |-> CASE i = 0 -> DoneKeep(NewSM) [] i = 1 -> StartIndex(NewSM, 1) [] OTHER -> NoSM]
    /\ shared = [doneCount |-> 0, closed |-> FALSE, sent |-> 0]
    /\ pre = [i \in Indexes |-> NoPre]
    /\ decs = [list |-> <<>>, panicked |-> FALSE]

Noted(new) == [decs EXCEPT !.panicked = @ \/ \E i \in Indexes : new[i] = Panic]

\* the indexes whose machine may have validated a proposal for i
Supports(i) == IF use.mode = "concurrent" THEN {j \in Indexes : i - AllowConcurrent <= j /\ j < i} ELSE {i - 1}
Ready(j) == Has(j) /\ (sms[j].decided \/ j = 0) /\ sms[j].done # "DoneClear"

\* CheckProposalNeeded starts machines ahead of their turn to get proposals from them.
CheckProposalNeeded(i) ==
    /\ use.mode = "concurrent" /\ i > LocalIndex /\ i < LocalIndex + AllowConcurrent
    /\ ~Has(i) /\ Ready(LocalIndex - 1)
    /\ sms' = [sms EXCEPT ![i] = StartIndex(sms[LocalIndex - 1], i)]
    /\ decs' = Noted(sms')
    /\ UNCHANGED <<use, shared, pre>>

\* What a node may receive for index i, from correct and from faulty proposers.
Proposals(i, j) ==
    LET ps == UNION {GetProposal(StartIndex(sms[j], i), use, q) : q \in Proposers}
    IN  ps \cup {GetByzProposal(use, p) : p \in ps}
           \cup (IF use.kind = "mv" THEN {[p EXCEPT !.value = @ + 1] : p \in ps} ELSE {})
           \cup (IF use.useRand THEN {[p EXCEPT !.proof.over = Append(@, p.by)] : p \in ps} ELSE {})
Accepted(i, j) == {p \in Proposals(i, j) : ValidateProposal(sms[j], use, p)}

\* CheckPreDecision, for algorithms that need later indexes to decide: the machine of index i is started from
\* the index j its proposal supports and gets the proposal as if it had been decided.
CheckPreDecision(i, j, p) ==
    /\ use.mode = "chain" /\ j < i /\ i >= LocalIndex
    /\ pre[i] = NoPre /\ (~Has(i) \/ (i = 1 /\ j = 0)) /\ Ready(j)
    /\ p \in Accepted(i, j)
    /\ sms' = [sms EXCEPT ![i] = HasDecided(IF Has(i) THEN @ ELSE StartIndex(sms[j], i), use, shared, i, p)]
    /\ pre' = [pre EXCEPT ![i] = [support |-> j, proposal |-> p]]
    /\ decs' = Noted(sms')
    /\ UNCHANGED <<use, shared>>

\* DoneIndex without pre-decisions: the machine is told the decision and kept.  One that was started early is
\* cleared first and made again.  Binary and simple algorithms never decide nil.
Restarted(i) ==
    CASE ~Has(i) -> StartIndex(sms[i - 1], i)
      [] use.mode # "concurrent" -> sms[i]
      [] OTHER -> IF DoneClear(sms[i]) = Panic THEN Panic ELSE StartIndex(sms[i - 1], i)
KeepDecided(sm, i, p) ==
    /\ sms' = [sms EXCEPT ![i] = IF sm = Panic THEN Panic ELSE DoneKeep(HasDecided(sm, use, shared, i, p))]
    /\ shared' = CountDone(sm, shared)
    /\ decs' = [list |-> Append(decs.list, p), panicked |-> Noted(sms').panicked]
DoneIndex(p) ==
    LET i == LocalIndex
    IN  /\ use.mode # "chain" /\ i <= MaxIndex
        /\ \/ p = Nil /\ use.kind \in {"counter", "mv", "tx"}
           \/ \E j \in Supports(i) : Ready(j) /\ p \in Accepted(i, j)
        /\ KeepDecided(Restarted(i), i, p)
        /\ UNCHANGED <<use, pre>>

\* DoneIndex with pre-decisions: the index is on the path of the indexes kept so far, and then decides its
\* pre-decision, or is not, and decides nil.
DoneIndexChain(onPath) ==
    LET i == LocalIndex
    IN  /\ use.mode = "chain" /\ i <= MaxIndex
        /\ IF onPath
           THEN /\ pre[i] # NoPre /\ pre[i].support = LastKept
                /\ sms' = [sms EXCEPT ![i] = DoneKeep(@)]
                /\ shared' = CountDone(sms[i], shared)
                /\ decs' = [list |-> Append(decs.list, pre[i].proposal), panicked |-> Noted(sms').panicked]
           ELSE /\ sms' = IF Has(i) THEN [sms EXCEPT ![i] = DoneClear(@)] ELSE sms
                /\ decs' = [list |-> Append(decs.list, Nil), panicked |-> Noted(sms').panicked]
                /\ UNCHANGED shared
        /\ UNCHANGED <<use, pre>>

\* clearIndex for the indexes before the last one kept, in order
ClearIndex(i) ==
    /\ i < LastKept /\ Has(i) /\ \A k \in 0..(i - 1) : ~Has(k)
    /\ sms' = [sms EXCEPT ![i] = Collect(@)]
    /\ decs' = Noted(sms')
    /\ UNCHANGED <<use, shared, pre>>

Next ==
    \/ \E i \in Indexes : CheckProposalNeeded(i)
    \/ \E i, j \in Indexes : j < i /\ Ready(j) /\ \E p \in Accepted(i, j) : CheckPreDecision(i, j, p)
    \/ \E p \in {Nil} \cup UNION {Accepted(LocalIndex, j) : j \in {k \in Supports(LocalIndex) : Ready(k)}} : DoneIndex(p)
    \/ \E b \in BOOLEAN : DoneIndexChain(b)
    \/ \E i \in Indexes : ClearIndex(i)

Spec == Init /\ [][Next]_smVars

-----------------------------------------------------------------------------
\* Whatever machines were started, cleared and started again, the decisions that end up in the log pass
\* CheckDecisions, the last machine kept has the random bytes and the counter or largest id of exactly the
\* non-nil decisions, in order where the indexes follow one another, no sanity
\* check of a machine fails, and the run is ended once, with the kept decision that reaches LastProposal.
NonNil == SelectSeq(decs.list, LAMBDA p : p # Nil)
Replayable ==
    /\ ~decs.panicked
    /\ BadDecisions(use, decs.list) = {}
    /\ use.mode # "concurrent" =>
            /\ use.kind = "counter" => CounterCheckDecisions(decs.list) = {}
            /\ use.kind = "tx" => TxCheckDecisions(decs.list) = {}
            /\ use.useRand => sms[LastKept].rand = [k \in DOMAIN NonNil |-> NonNil[k].by]
    /\ use.kind = "counter" => sms[LastKept].proposalIndex = Len(NonNil)
    /\ use.kind = "tx" => sms[LastKept].maxTxId = LargestId(TxIds(decs.list), 0)
    /\ shared.sent = IF shared.closed THEN 1 ELSE 0
    /\ shared.closed <=> shared.doneCount >= LastProposal
    /\ shared.doneCount = IF use.mode = "chain" THEN Len(NonNil) ELSE Len(decs.list)
====
