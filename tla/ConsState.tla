----------------------------- MODULE ConsState -----------------------------
(***************************************************************************)
(* One node's sequence of consensus instances: ConsState (the main loop,   *)
(* cons/cons_state.go), ConsInterfaceState (the instances and their state  *)
(* machines, consinterface/consinterfacestate.go) and the queues of        *)
(* AbsMainChannel (channel/abs_main_channel.go) between the message        *)
(* threads and the main loop.  An instance is a black box that decides     *)
(* while it processes a message (the algorithms have modules of their own).*)
(***************************************************************************)
EXTENDS Integers, Sequences, FiniteSets

CONSTANTS
  MaxIndex,          \* bound: instances that get messages and can decide
  Msg,               \* messages from the network: [index, type]
  Configurations,    \* the configurations the node may run with
  InternalBuffSize

ASSUME ConsStateAssumption ==
  /\ MaxIndex \in Nat \ {0} /\ InternalBuffSize \in Nat \ {0}
  /\ Msg \subseteq [index : 1..MaxIndex, type : {"init", "vote"}]
  /\ \A c \in Configurations :
       /\ c.KeepPast \in Nat \ {0} /\ c.KeepFuture \in Nat \ {0}
       /\ c.DropFuture \in Nat /\ c.DropFuture > c.KeepFuture
       /\ c.AllowConcurrent \in 0..c.KeepFuture
       /\ c.AllowConcurrent > 1 => c.MCType = "True"
       /\ c.MCType \in {"True", "Current", "Later"} /\ c.NilDecisions \in BOOLEAN
       /\ c.Proposes \subseteq Nat
       /\ c.MaxMsgReprocessCount \in Nat /\ c.MaxCrashes \in Nat

VARIABLE conf        \* the configuration of the node, fixed

KeepPast == conf.KeepPast
KeepFuture == conf.KeepFuture
DropFuture == conf.DropFuture
AllowConcurrent == conf.AllowConcurrent
MaxMsgReprocessCount == conf.MaxMsgReprocessCount
MCType == conf.MCType                  \* the member checker
Proposes == conf.Proposes              \* instances this node has to propose in
NilDecisions == conf.NilDecisions      \* can an instance decide nil
MaxCrashes == conf.MaxCrashes          \* bound: crashes of the node

Top == MaxIndex + 1 + AllowConcurrent    \* bound: the largest index allocated
Index == 1..Top

Decision == IF NilDecisions THEN {"nil", "val"} ELSE {"val"}

VARIABLES
  LocalIndex, StartedIndex,   \* smallest undecided, largest started index
  lastItem, consItemsMap,     \* largest and the set of allocated instances
  gcUpTo, lastNonNilDecs,
  Started, Decided,           \* instances on which Start was called, that decided
  received,                   \* messages in the instances' message states
  handled,                    \* messages their instance has processed
  proposed,                   \* instances that got the local proposal
  SM,                         \* ProposalInfo, GotProposal and Proposal
  ProposalsToValidate,        \* proposals waiting for their state machine
  futureMessages, futureMessagesMinIndex,
  threads,                    \* messages held by message threads and reprocess goroutines
  InternalChan,
  store,                      \* decisions on disk
  outcome,                    \* what the instances decide (external)
  pc,                         \* where the main thread is
  isInStorageInit,
  panicked, crashes

items == <<lastItem, consItemsMap, gcUpTo, lastNonNilDecs>>
inst == <<Started, Decided, received, handled, proposed>>
queues == <<ProposalsToValidate, futureMessages, futureMessagesMinIndex, threads, InternalChan>>
disk == <<store, outcome>>
ctl == <<pc, isInStorageInit, panicked, crashes>>
vars == <<conf, LocalIndex, StartedIndex, items, inst, SM, queues, disk, ctl>>

\* A message on its way to the main loop.  "raw": not deserialized; "found":
\* the thread has its instance, not yet stored in it; "deser": stored in the
\* instance; "lost", "stale": "found" and "deser" for an instance that has been
\* cleared since.
Entry(m, status, from) == [m |-> m, status |-> status, from |-> from]
EntryType ==
  [m : Msg, status : {"raw", "found", "lost", "deser", "stale"}, from : {"net", "msg", "bytes"}]

TypeOK ==
  /\ conf \in Configurations
  /\ LocalIndex \in 1..(MaxIndex + 1) /\ StartedIndex \in Index /\ lastItem \in Index
  /\ consItemsMap \subseteq Index /\ gcUpTo \in Index
  /\ lastNonNilDecs \in Seq(Index) /\ Len(lastNonNilDecs) <= KeepPast
  /\ Started \subseteq consItemsMap /\ Decided \subseteq consItemsMap /\ proposed \subseteq Started
  /\ handled \subseteq received /\ received \subseteq Msg
  /\ SM.ProposalInfo \in [0..Top -> {"none", "open", "kept"}]
  /\ SM.GotProposal \subseteq Index /\ SM.Proposal \in Seq(Index)
  /\ ProposalsToValidate \subseteq [sup : Index, e : EntryType]
  /\ futureMessages \subseteq EntryType /\ futureMessagesMinIndex \in Nat
  /\ threads \subseteq EntryType /\ InternalChan \subseteq EntryType
  /\ store \in [1..MaxIndex -> {"none", "nil", "val"}]
  /\ outcome \in [1..MaxIndex -> {"none", "nil", "val"}]
  /\ pc \in {"down", "load", "start", "recv", "done", "next", "concurrent", "future"}
  /\ isInStorageInit \in BOOLEAN /\ panicked \in BOOLEAN
  /\ crashes \in 0..MaxCrashes

-----------------------------------------------------------------------------
SubOrZero(a, b) == IF a < b THEN 0 ELSE a - b
Larger(a, b) == IF a < b THEN b ELSE a

\* IsReady of the member checker of instance i: CurrentTrueMemberChecker knows
\* its members once the instance before it has decided.
IsReady(i) == MCType = "Current" => i <= LocalIndex

\* getIndex: the instances allocated after a lookup of i, and its sanity checks.
getIndex(map, last, i) == IF i \in map THEN map ELSE map \cup (last + 1)..i
getIndexPanics(map, last, i) == i \notin map /\ (i <= last \/ last \notin map)

TooOld(i) == i < SubOrZero(LocalIndex, KeepPast)

\* ReprocessCount: goroutines of ReprocessMessage (one per message) and of
\* ReprocessMessageBytes (one per cleared instance).
ReprocessCount(ts) ==
  Cardinality({e \in ts : e.from = "msg"}) + Cardinality({e.m.index : e \in {f \in ts : f.from = "bytes"}})

\* ReprocessMessage and ReprocessMessageBytes for the entries es: they are
\* taken while the count allows it, the others are dropped.
ReprocessMessage(es) ==
  {k \in SUBSET es :
     /\ \A e, f \in es : (e.from = "bytes" /\ f.from = "bytes" /\ e.m.index = f.m.index) => (e \in k <=> f \in k)
     /\ ReprocessCount(threads \cup k) <= Larger(MaxMsgReprocessCount, ReprocessCount(threads))
     /\ k # es => ReprocessCount(threads \cup k) >= MaxMsgReprocessCount}

AsMsg(e) == Entry(e.m, e.status, "msg")

\* GetProposalIndex: an instance this node proposes in is ready once started.
GetProposalIndexReady(started, i) == i \in started \cap Proposes

\* Variant of CheckProposalNeeded: the request is not recorded.
CheckProposalNeededAgain(s, i, startedIndex, started) ==
  IF i > startedIndex \/ ~GetProposalIndexReady(started, i)
     \/ (s.ProposalInfo[i] = "none" /\ s.ProposalInfo[i - 1] = "none")
  THEN s
  ELSE [s EXCEPT !.Proposal = Append(@, i)]

\* Variant of CheckProposalNeeded: recorded also if there is no state machine to ask.
CheckProposalNeededFlagsFirst(s, i, startedIndex, started) ==
  IF i > startedIndex \/ ~GetProposalIndexReady(started, i) \/ i \in s.GotProposal THEN s
  ELSE IF s.ProposalInfo[i] = "none" /\ s.ProposalInfo[i - 1] = "none"
  THEN [s EXCEPT !.GotProposal = @ \cup {i}]
  ELSE [s EXCEPT
          !.ProposalInfo[i] = IF @ = "none" /\ AllowConcurrent > 0 THEN "open" ELSE @,
          !.GotProposal = @ \cup {i},
          !.Proposal = Append(@, i)]

\* CheckProposalNeeded(i): ask the state machine of i for a proposal, once.
CheckProposalNeeded(s, i, startedIndex, started) ==
  IF i > startedIndex \/ ~GetProposalIndexReady(started, i) \/ i \in s.GotProposal
     \/ (s.ProposalInfo[i] = "none" /\ s.ProposalInfo[i - 1] = "none")
  THEN s
  ELSE [s EXCEPT
          !.ProposalInfo[i] = IF @ = "none" /\ AllowConcurrent > 0 THEN "open" ELSE @,
          !.GotProposal = @ \cup {i},
          !.Proposal = Append(@, i)]

\* Its sanity check: without concurrency the support state machine has decided.
CheckProposalNeededPanics(s, i, startedIndex, started) ==
  /\ i <= startedIndex /\ GetProposalIndexReady(started, i) /\ i \notin s.GotProposal
  /\ AllowConcurrent = 0 /\ s.ProposalInfo[i] = "none" /\ i # 1 /\ s.ProposalInfo[i - 1] = "open"

\* CheckPreDecision: with concurrent instances, one whose predecessor has input
\* its decision to the state machine gets a state machine: only LocalIndex can.
CheckPreDecision(s, started) ==
  IF \/ isInStorageInit \/ AllowConcurrent = 0 \/ s.ProposalInfo[LocalIndex] # "none"
     \/ s.ProposalInfo[LocalIndex - 1] # "kept"
  THEN s
  ELSE LET ask == GetProposalIndexReady(started, LocalIndex) /\ LocalIndex \notin s.GotProposal
       IN [s EXCEPT !.ProposalInfo[LocalIndex] = "open",
                    !.GotProposal = IF ask THEN @ \cup {LocalIndex} ELSE @,
                    !.Proposal = IF ask THEN Append(@, LocalIndex) ELSE @]

\* The part of checkProgress(i) before its loop.
ProgressSM(s, i, started) ==
  LET s1 == IF i >= LocalIndex
            THEN CheckProposalNeeded(CheckPreDecision(s, started), i, StartedIndex, started)
            ELSE s
  IN CheckProposalNeeded(s1, LocalIndex, StartedIndex, started)

\* The head of the loop of checkProgress.
LoopHead(i, decided) == IF i \in decided THEN "done" ELSE "concurrent"

-----------------------------------------------------------------------------
\* NewConsInterfaceState and SetInitSM: the state machines of index 0 and 1.
InitSM ==
  [ProposalInfo |-> [i \in 0..Top |-> IF i = 0 THEN "kept" ELSE IF i = 1 THEN "open" ELSE "none"],
   GotProposal |-> {}, Proposal |-> <<>>]

Init ==
  /\ conf \in Configurations
  /\ LocalIndex = 1 /\ StartedIndex = 1 /\ lastItem = 1 /\ consItemsMap = {1}
  /\ gcUpTo = 1 /\ lastNonNilDecs = <<>>
  /\ Started = {} /\ Decided = {} /\ received = {} /\ handled = {} /\ proposed = {}
  /\ SM = InitSM
  /\ ProposalsToValidate = {} /\ futureMessages = {} /\ futureMessagesMinIndex = 1
  /\ threads = {} /\ InternalChan = {}
  /\ isInStorageInit = TRUE /\ panicked = FALSE
  /\ store = [i \in 1..MaxIndex |-> "none"]
  /\ outcome = [i \in 1..MaxIndex |-> "none"]
  /\ pc = "load" /\ crashes = 0

-----------------------------------------------------------------------------
(* Message threads: UnwrapMessage, FinishUnwrapMessage, then GotMsg of the *)
(* instance's message state.                                               *)

InFlight(m) ==
  \E e \in threads \cup InternalChan \cup futureMessages \cup {p.e : p \in ProposalsToValidate} : e.m = m

\* A message of another node reaches a message thread (again, if a copy was dropped).
Receive(m) ==
  /\ pc \notin {"down", "load"}
  /\ ~InFlight(m) /\ m \notin received
  /\ threads' = threads \cup {Entry(m, "raw", "net")}
  /\ UNCHANGED <<LocalIndex, StartedIndex, items, inst, SM, ProposalsToValidate, futureMessages,
                 futureMessagesMinIndex, InternalChan, disk, pc, isInStorageInit, panicked, crashes>>

ToChan(e, status) ==
  /\ Cardinality(InternalChan) < InternalBuffSize
  /\ InternalChan' = InternalChan \cup {Entry(e.m, status, "net")}
  /\ threads' = threads \ {e}

\* FinishUnwrapMessage: look up the instance (GetMemberChecker).
FinishUnwrapMessage(e) ==
  LET i == e.m.index
      tooNew == i > StartedIndex + DropFuture
      noParent == i > StartedIndex + KeepFuture
  IN
  /\ e.status = "raw"
  /\ IF TooOld(i) \/ tooNew
     THEN threads' = threads \ {e} /\ UNCHANGED <<InternalChan, items, panicked>>
     ELSE IF noParent
     THEN ToChan(e, "raw") /\ UNCHANGED <<items, panicked>>
     ELSE /\ consItemsMap' = getIndex(consItemsMap, lastItem, i)
          /\ lastItem' = Larger(lastItem, i)
          /\ panicked' = (panicked \/ getIndexPanics(consItemsMap, lastItem, i))
          /\ IF IsReady(i)
             THEN threads' = (threads \ {e}) \cup {[e EXCEPT !.status = "found"]} /\ UNCHANGED InternalChan
             ELSE ToChan(e, "raw")
          /\ UNCHANGED <<gcUpTo, lastNonNilDecs>>
  /\ UNCHANGED <<LocalIndex, StartedIndex, inst, SM, ProposalsToValidate, futureMessages,
                 futureMessagesMinIndex, disk, pc, isInStorageInit, crashes>>

\* GotMsg: store the message in the message state the thread holds.
GotMsg(e) ==
  /\ e.status \in {"found", "lost"}
  /\ IF e.status = "found" /\ e.m \in received
     THEN threads' = threads \ {e} /\ UNCHANGED <<InternalChan, received>>
     ELSE /\ ToChan(e, IF e.status = "found" THEN "deser" ELSE "stale")
          /\ received' = IF e.status = "found" /\ e.m.index \in consItemsMap
                         THEN received \cup {e.m} ELSE received
  /\ UNCHANGED <<LocalIndex, StartedIndex, items, Started, Decided, handled, proposed, SM, ProposalsToValidate,
                 futureMessages, futureMessagesMinIndex, disk, ctl>>

\* A goroutine of ReprocessMessage with a message that is deserialized already.
SendReprocessed(e) ==
  /\ e.status \in {"deser", "stale"}
  /\ ToChan(e, e.status)
  /\ UNCHANGED <<LocalIndex, StartedIndex, items, inst, SM, ProposalsToValidate, futureMessages,
                 futureMessagesMinIndex, disk, ctl>>

Thread == \E e \in threads : FinishUnwrapMessage(e) \/ GotMsg(e) \/ SendReprocessed(e)

-----------------------------------------------------------------------------
(* The main loop.                                                          *)

\* ProcessLocalMessage: the local proposal reaches its instance, checkProgress.
ProcessLocalMessage ==
  LET i == Head(SM.Proposal)
      s == [SM EXCEPT !.Proposal = Tail(@)]
  IN
  /\ pc = "recv" /\ SM.Proposal # <<>>
  /\ IF TooOld(i)
     THEN SM' = s /\ UNCHANGED <<proposed, pc, panicked>>
     ELSE LET p == ProgressSM(s, i, Started) IN
          /\ proposed' = proposed \cup {i}
          /\ SM' = p
          /\ pc' = LoopHead(LocalIndex, Decided)
          \* AbsGotProposal: "got multiple proposals for same cons", "... after it was needed"
          /\ panicked' = (panicked \/ i \in proposed \/ ~GetProposalIndexReady(Started, i)
                          \/ CheckProposalNeededPanics(s, i, StartedIndex, Started))
  /\ UNCHANGED <<LocalIndex, StartedIndex, items, Started, Decided, received, handled, queues, disk,
                 isInStorageInit, crashes>>

\* CheckValidateProposal: the index whose state machine validates a proposal of
\* instance i, and whether that state machine is ready.
SupportIndex(i) ==
  IF AllowConcurrent > 0 THEN Larger(LocalIndex - 1, SubOrZero(i, AllowConcurrent)) ELSE i - 1
NeedsValidation(m) == m.type = "init"
ReadyToProcess(m) ==
  NeedsValidation(m) => SupportIndex(m.index) = 0 \/ SM.ProposalInfo[SupportIndex(m.index)] = "kept"

\* ProcessMessage of the instance, then checkProgress if it made progress.  An
\* instance that has handled all its messages has decided.
ProcessDeserialized(e, sanity) ==
  LET i == e.m.index IN
  /\ handled' = handled \cup {e.m}
  /\ \E decides, progress \in BOOLEAN :
       /\ decides => i \notin Decided /\ progress
       /\ (i \notin Decided /\ {m \in Msg : m.index = i} \subseteq handled') => decides
       /\ Decided' = IF decides THEN Decided \cup {i} ELSE Decided
       /\ IF decides /\ outcome[i] = "none"
          THEN \E d \in Decision : outcome' = [outcome EXCEPT ![i] = d]
          ELSE UNCHANGED outcome
       /\ IF progress
          THEN /\ SM' = ProgressSM(SM, i, Started)
               /\ pc' = LoopHead(LocalIndex, Decided')
               /\ panicked' = (panicked \/ sanity \/ CheckProposalNeededPanics(SM, i, StartedIndex, Started))
          ELSE panicked' = (panicked \/ sanity) /\ UNCHANGED <<SM, pc>>

\* ProcessMessage of ConsState for the next message of InternalChan.
ProcessMessage(e) ==
  LET i == e.m.index
      sanity == getIndexPanics(consItemsMap, lastItem, i)
  IN
  /\ pc = "recv" /\ SM.Proposal = <<>>
  /\ InternalChan' = InternalChan \ {e}
  /\ \/ /\ TooOld(i) \/ i > StartedIndex + DropFuture
        /\ UNCHANGED <<lastItem, consItemsMap, handled, Decided, SM, ProposalsToValidate, futureMessages,
                       threads, outcome, pc, panicked>>
     \/ /\ i > StartedIndex + KeepFuture /\ i <= StartedIndex + DropFuture
        /\ futureMessages' = futureMessages \cup {e}
        /\ UNCHANGED <<lastItem, consItemsMap, handled, Decided, SM, ProposalsToValidate, threads,
                       outcome, pc, panicked>>
     \/ /\ ~TooOld(i) /\ i <= StartedIndex + KeepFuture
        /\ consItemsMap' = getIndex(consItemsMap, lastItem, i)
        /\ lastItem' = Larger(lastItem, i)
        /\ \/ /\ e.status = "raw" /\ IsReady(i)
              /\ \E k \in ReprocessMessage({AsMsg(e)}) : threads' = threads \cup k
              /\ UNCHANGED <<handled, Decided, SM, ProposalsToValidate, futureMessages, outcome, pc>>
              /\ panicked' = (panicked \/ sanity)
           \/ /\ e.status = "raw" /\ ~IsReady(i)
              /\ futureMessages' = futureMessages \cup {e}
              /\ UNCHANGED <<handled, Decided, SM, ProposalsToValidate, threads, outcome, pc>>
              \* "should know members by now"
              /\ panicked' = (panicked \/ i = LocalIndex \/ sanity)
           \/ /\ e.status = "stale"
              /\ UNCHANGED <<handled, Decided, SM, ProposalsToValidate, futureMessages, threads, outcome, pc>>
              /\ panicked' = (panicked \/ sanity)
           \/ /\ e.status = "deser" /\ ~ReadyToProcess(e.m)
              /\ ProposalsToValidate' = ProposalsToValidate \cup {[sup |-> SupportIndex(i), e |-> e]}
              /\ UNCHANGED <<handled, Decided, SM, futureMessages, threads, outcome, pc>>
              /\ panicked' = (panicked \/ sanity)
           \/ /\ e.status = "deser" /\ ReadyToProcess(e.m)
              /\ ProcessDeserialized(e, sanity)
              /\ UNCHANGED <<ProposalsToValidate, futureMessages, threads>>
  /\ UNCHANGED <<LocalIndex, StartedIndex, gcUpTo, lastNonNilDecs, Started, received, proposed,
                 futureMessagesMinIndex, store, isInStorageInit, crashes>>

\* clearIndex for the instances in vs: what is left of a set of messages, of
\* the state machines, and of the threads that hold one of the instances.
MsgsWithout(ms, vs) == {m \in ms : m.index \notin vs}
SMWithout(s, vs) ==
  [s EXCEPT !.ProposalInfo = [i \in 0..Top |-> IF i \in vs THEN "none" ELSE @[i]], !.GotProposal = @ \ vs]
MarkCleared(e, vs) ==
  IF e.m.index \notin vs THEN e
  ELSE [e EXCEPT !.status = CASE @ = "found" -> "lost" [] @ = "deser" -> "stale" [] OTHER -> @]

\* Garbage collection at the end of DoneIndex, from the decisions before it.
NonNilDecs(decs, d) ==
  LET ds == IF d = "val" THEN Append(decs, LocalIndex) ELSE decs
  IN IF Len(ds) > KeepPast THEN Tail(ds) ELSE ds
gcUntilOffByOne(decs, d) ==   \* variant
  IF d = "val" /\ Len(decs) = KeepPast THEN Head(NonNilDecs(decs, d)) ELSE 0
gcUntil(decs, d) ==
  IF d = "val" /\ Len(decs) = KeepPast THEN SubOrZero(Head(NonNilDecs(decs, d)), 1) ELSE 0

\* reprocessProposals: the proposals that wait for the decision of index i.
reprocessProposalsNone(i) == {}   \* variant
reprocessProposals(i) == {p \in ProposalsToValidate : p.sup = i}

\* updateMC: the last instance left once those from i + 2 on are cleared.
lastItemAfterKept(changedMembers, i, last) == last   \* variant
lastItemAfter(changedMembers, i, last) == IF changedMembers THEN i + 1 ELSE last

\* The decision of index i goes to disk, unless it comes from there.
WriteNonNil(i, d) == IF isInStorageInit \/ d = "nil" THEN store ELSE [store EXCEPT ![i] = d]   \* variant
Write(i, d) == IF isInStorageInit THEN store ELSE [store EXCEPT ![i] = d]

\* checkProgress for a decided LocalIndex: write it to disk, then DoneIndex:
\* input the decision to the state machine, reprocess the proposals that waited
\* for it, updateMC (allocate the next instance; if the members change, clear
\* the later instances and reprocess their messages), collect garbage.
DoneIndex ==
  LET i == LocalIndex
      d == outcome[i]
      ready == {AsMsg(p.e) : p \in reprocessProposals(i)}
      map == getIndex(consItemsMap, lastItem, i + 1)
      last == Larger(lastItem, i + 1)
      collected == gcUpTo..(gcUntil(lastNonNilDecs, d) - 1)
  IN
  /\ pc = "done"
  /\ \E changedMembers \in IF MCType = "Later" /\ d = "val" THEN BOOLEAN ELSE {FALSE} :
       LET invalid == IF changedMembers THEN (i + 2)..last ELSE {}
           again == {Entry(m, "raw", "bytes") : m \in {n \in received : n.index \in invalid}}
           gone == invalid \cup collected
       IN
       /\ \E k \in ReprocessMessage(ready \cup again) :
            threads' = {MarkCleared(e, invalid) : e \in threads \cup k}
       /\ InternalChan' = {MarkCleared(e, invalid) : e \in InternalChan}
       /\ ProposalsToValidate' = {[p EXCEPT !.e = MarkCleared(@, invalid)] :
                                     p \in ProposalsToValidate \ reprocessProposals(i)}
       /\ consItemsMap' = map \ gone
       /\ lastItem' = lastItemAfter(changedMembers, i, last)
       /\ Started' = Started \ gone /\ Decided' = Decided \ gone /\ proposed' = proposed \ gone
       /\ received' = MsgsWithout(received, gone) /\ handled' = MsgsWithout(handled, gone)
       /\ SM' = SMWithout([SM EXCEPT !.ProposalInfo[i] = "kept"], gone)
  /\ store' = Write(i, d)
  /\ lastNonNilDecs' = NonNilDecs(lastNonNilDecs, d)
  /\ gcUpTo' = IF collected = {} THEN gcUpTo ELSE gcUntil(lastNonNilDecs, d) - 1
  /\ LocalIndex' = i + 1
  /\ pc' = "next"
  /\ panicked' = \/ panicked
                 \/ getIndexPanics(consItemsMap, lastItem, i + 1) \/ i \notin consItemsMap
                 \/ SM.ProposalInfo[i - 1] = "none"                    \* allocSM
                 \/ \E v \in collected : v + 1 \notin map              \* PrevHasBeenReset
  /\ UNCHANGED <<StartedIndex, futureMessages, futureMessagesMinIndex, outcome, isInStorageInit, crashes>>

\* The messages kept in futureMessages for index i.
KeptFor(i) == {e \in futureMessages : e.m.index = i}

\* Is an instance to be started after a decision.
StartsNext == StartedIndex < LocalIndex

\* checkProgress after DoneIndex: start the next instance unless it runs
\* already, ask for its proposal, reprocess the messages kept for it.
StartNext ==
  LET i == LocalIndex
      starts == StartsNext
      startedIndex == IF starts THEN StartedIndex + 1 ELSE StartedIndex
      started == IF starts THEN Started \cup {i} ELSE Started
      kept == KeptFor(i)
  IN
  /\ pc = "next"
  /\ StartedIndex' = startedIndex
  /\ Started' = started
  /\ SM' = CheckProposalNeeded(SM, i, startedIndex, started)
  /\ \E k \in ReprocessMessage({AsMsg(e) : e \in kept}) : threads' = threads \cup k
  /\ futureMessages' = futureMessages \ kept
  /\ futureMessagesMinIndex' = Larger(futureMessagesMinIndex, i + 1)
  /\ pc' = LoopHead(i, Decided)
  /\ panicked' = \/ panicked
                 \/ i \notin consItemsMap \/ ~IsReady(i)
                 \/ (starts /\ StartedIndex # LocalIndex - 1)          \* "bad order of starting consensus"
                 \/ CheckProposalNeededPanics(SM, i, startedIndex, started)
  /\ UNCHANGED <<LocalIndex, items, Decided, received, handled, proposed, ProposalsToValidate, InternalChan,
                 disk, isInStorageInit, crashes>>

\* checkProgress: start one more concurrent instance, or go on.
CanStartConcurrent ==
  /\ ~isInStorageInit /\ AllowConcurrent > 0
  /\ StartedIndex < LocalIndex + KeepFuture
  /\ StartedIndex < LocalIndex + AllowConcurrent - 1
  /\ IsReady(StartedIndex)

StartConcurrent ==
  LET i == StartedIndex + 1
      started == Started \cup {i}
      s == CheckPreDecision(SM, started)
  IN
  /\ pc = "concurrent"
  /\ IF CanStartConcurrent
     THEN /\ StartedIndex' = i
          /\ consItemsMap' = getIndex(consItemsMap, lastItem, i)
          /\ lastItem' = Larger(lastItem, i)
          /\ Started' = started
          /\ SM' = CheckProposalNeeded(s, i, i, started)
          /\ panicked' = (panicked \/ getIndexPanics(consItemsMap, lastItem, i))
          /\ UNCHANGED pc
     ELSE pc' = "future" /\ UNCHANGED <<StartedIndex, consItemsMap, lastItem, Started, SM, panicked>>
  /\ UNCHANGED <<LocalIndex, gcUpTo, lastNonNilDecs, Decided, received, handled, proposed, queues, disk,
                 isInStorageInit, crashes>>

\* checkProgress: reprocess the future messages of the indexes that came into
\* the window, up to the first one with messages whose members are not known.
ProcessFutureMessages ==
  LET limit == StartedIndex + KeepFuture
      waiting == {e.m.index : e \in futureMessages}
      blocked == {i \in futureMessagesMinIndex..limit : i \in waiting /\ ~IsReady(i)}
      stop == IF futureMessagesMinIndex > limit THEN futureMessagesMinIndex
              ELSE CHOOSE i \in blocked \cup {limit + 1} : \A j \in blocked : i <= j
      kept == {e \in futureMessages : e.m.index \in futureMessagesMinIndex..(stop - 1)}
      looked == {i \in waiting : i \in futureMessagesMinIndex..stop /\ i <= limit}
  IN
  /\ pc = "future"
  /\ \E k \in ReprocessMessage({AsMsg(e) : e \in kept}) : threads' = threads \cup k
  /\ futureMessages' = futureMessages \ kept
  /\ futureMessagesMinIndex' = stop
  /\ lastItem' = CHOOSE i \in looked \cup {lastItem} : \A j \in looked \cup {lastItem} : j <= i
  /\ consItemsMap' = getIndex(consItemsMap, lastItem, lastItem')
  /\ pc' = IF isInStorageInit THEN "load" ELSE "recv"
  \* GetMemberChecker fails for an index that left the window
  /\ panicked' = (panicked \/ \E i \in looked : TooOld(i) \/ getIndexPanics(consItemsMap, lastItem, i))
  /\ UNCHANGED <<LocalIndex, StartedIndex, gcUpTo, lastNonNilDecs, inst, SM, ProposalsToValidate, InternalChan,
                 disk, isInStorageInit, crashes>>

-----------------------------------------------------------------------------
(* Start and restart.                                                      *)

EndInit(p) == IF p = <<>> THEN <<>> ELSE <<p[Len(p)]>>

\* NewConsState: replay the messages stored for the next index (its instance
\* decides again), or finish the initialization.
NewConsState ==
  LET i == LocalIndex
      stored == i <= MaxIndex /\ store[i] # "none"
  IN
  /\ pc = "load"
  /\ IF stored
     THEN /\ Decided' = Decided \cup {i}
          /\ received' = received \cup {m \in Msg : m.index = i}
          /\ handled' = handled \cup {m \in Msg : m.index = i}
          /\ SM' = ProgressSM(SM, i, Started)
          /\ pc' = LoopHead(i, Decided')
          /\ UNCHANGED isInStorageInit
     ELSE /\ isInStorageInit' = FALSE
          /\ SM' = [SM EXCEPT !.Proposal = EndInit(@)]
          /\ pc' = "start"
          /\ UNCHANGED <<Decided, received, handled>>
  /\ UNCHANGED <<LocalIndex, StartedIndex, items, Started, proposed, queues, disk, panicked, crashes>>

\* Start, called by RunMainLoop.
Start ==
  LET started == IF LocalIndex = 1 THEN Started \cup {1} ELSE Started IN
  /\ pc = "start"
  /\ Started' = started
  /\ SM' = ProgressSM(SM, LocalIndex, started)
  /\ pc' = LoopHead(LocalIndex, Decided)
  /\ UNCHANGED <<LocalIndex, StartedIndex, items, Decided, received, handled, proposed, queues, disk,
                 isInStorageInit, panicked, crashes>>

\* The node crashes: only the disk survives.
Crash ==
  /\ pc # "down" /\ crashes < MaxCrashes
  /\ crashes' = crashes + 1
  /\ pc' = "down"
  /\ LocalIndex' = 1 /\ StartedIndex' = 1 /\ lastItem' = 1 /\ consItemsMap' = {1}
  /\ gcUpTo' = 1 /\ lastNonNilDecs' = <<>>
  /\ Started' = {} /\ Decided' = {} /\ received' = {} /\ handled' = {} /\ proposed' = {}
  /\ SM' = InitSM
  /\ ProposalsToValidate' = {} /\ futureMessages' = {} /\ futureMessagesMinIndex' = 1
  /\ threads' = {} /\ InternalChan' = {}
  /\ isInStorageInit' = TRUE /\ panicked' = FALSE
  /\ UNCHANGED disk

Restart == pc = "down" /\ pc' = "load"
           /\ UNCHANGED <<LocalIndex, StartedIndex, items, inst, SM, queues, disk, isInStorageInit, panicked, crashes>>

MainLoop ==
  \/ ProcessLocalMessage
  \/ \E e \in InternalChan : ProcessMessage(e)
  \/ DoneIndex \/ StartNext \/ StartConcurrent \/ ProcessFutureMessages
  \/ NewConsState \/ Start

Next ==
  /\ UNCHANGED conf
  /\ (\E m \in Msg : Receive(m)) \/ Thread \/ MainLoop \/ Crash \/ Restart

Spec == Init /\ [][Next]_vars

\* InternalChan is first in first out and has no starvation; threads and
\* goroutines run; a node that lacks messages gets them again (NoProgress).
FairSpec ==
  /\ Spec
  /\ WF_vars(UNCHANGED conf /\ (MainLoop \/ Restart))
  /\ \A m \in Msg :
       /\ SF_vars(UNCHANGED conf /\ \E e \in InternalChan : e.m = m /\ ProcessMessage(e))
       /\ SF_vars(UNCHANGED conf /\ \E e \in threads :
                     e.m = m /\ (FinishUnwrapMessage(e) \/ GotMsg(e) \/ SendReprocessed(e)))
       /\ WF_vars(UNCHANGED conf /\ Receive(m))

-----------------------------------------------------------------------------
(* Properties.                                                             *)

\* No sanity check of the code panics: getIndex ("should be allocated"),
\* DoneIndex and allocSM (no state machine to start from, collected neighbour),
\* checkProgress ("bad order of starting consensus", "mc should be ready"),
\* ProcessMessage ("should know members by now"), AbsGotProposal.
NoPanic == ~panicked

\* Garbage collection (DoneIndex) stays behind the window GetMemberChecker
\* serves: an instance that can still be looked up is allocated, and the state
\* machine that validates its proposals is there if it has decided.  Ahead of
\* it, the instances between LocalIndex and StartedIndex, and no later ones, are
\* started when the main loop waits for a message: none is skipped by the start
\* after a decision, the concurrent starts or a restart.
WindowKept ==
  /\ \A i \in 1..lastItem :
       ~TooOld(i) => /\ i \in consItemsMap
                     /\ i <= LocalIndex => SM.ProposalInfo[i - 1] = "kept"
  /\ pc = "recv" => /\ LocalIndex <= StartedIndex
                    /\ \A i \in LocalIndex..Top : i \in Started <=> i <= StartedIndex

\* The disk holds, without a gap, the decision of every index the state machine
\* has moved past, in this run of the node and in those before a crash: the
\* replay of NewConsState stops at the first missing index, and a NoProgress
\* request is answered from the disk.
Durable ==
  /\ \A i \in 1..(LocalIndex - 1) : store[i] # "none"
  /\ \A i \in 1..MaxIndex : store[i] # "none" => store[i] = outcome[i] /\ \A j \in 1..i : store[j] # "none"


\* Nothing that was set aside is forgotten.  A message in futureMessages waits
\* for an index beyond the window or for members that are unknown (checkProgress
\* looks from futureMessagesMinIndex on only); a proposal set aside by
\* CheckValidateProposal waits for a decision that is still to come, since only
\* that decision makes DoneIndex look at it again; and when nothing is in
\* progress, each message the current instance's message state has accepted (and
\* so refuses to accept again) has been processed by the instance.
NothingForgotten ==
  pc = "recv" =>
    /\ \A e \in futureMessages : e.m.index > StartedIndex + KeepFuture \/ ~IsReady(e.m.index)
    /\ \A p \in ProposalsToValidate : p.sup >= LocalIndex
    /\ (SM.Proposal = <<>> /\ threads = {} /\ InternalChan = {}) =>
         \A m \in received : m.index = LocalIndex => m \in handled

\* Every instance decides in the end and the node moves past it, whatever the
\* order in which messages of past, current and future instances arrive.
Progress == <>(LocalIndex = MaxIndex + 1)

=============================================================================
