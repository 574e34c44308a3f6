------------------------------- MODULE Causal -------------------------------
(***************************************************************************)
(* Causally ordered consensus over asset transfers.  There is no global    *)
(* sequence of instances: an instance is named by the outputs (assets) it   *)
(* consumes, and what it decides creates the outputs of later instances.    *)
(* The module composes                                                     *)
(*   - consinterface/causalconsinterfacestate.go: the maps that tie outputs *)
(*     to the instances that made and consumed them, the allocation of      *)
(*     instances, their collection, and the answers to a node that is       *)
(*     behind;                                                              *)
(*   - cons/causal_cons_state.go: the main loop and the replay of the disk; *)
(*   - statemachine/asset: accounts, value transfers, and the proposer,     *)
(*     on statemachine/abs_causal_state_machine.go.                         *)
(*                                                                         *)
(* An output is <<k, i>>: the k-th output of instance i; its hash in the    *)
(* code is the hash of k and of the inputs of i.  An instance is the set of *)
(* its inputs; accounts are kept sorted by hash, so the order of the inputs *)
(* is a function of the set.  Root is the parent of the initial assets.     *)
(*                                                                         *)
(* Every node is a member, owns one initial asset and follows the code.     *)
(* The consensus that runs inside an instance is external: every node that  *)
(* decides an instance decides the same value, one of the transfers sent    *)
(* for it, or nil.  The list of items sorted by their last progress is left *)
(* out: any item may be the one that timed out.                             *)
(***************************************************************************)
EXTENDS Integers, Sequences, FiniteSets, FiniteSetsExt, SequencesExt

CONSTANTS
  Node,                  \* the members, which are also the owners
  InitValue,             \* node -> value of its initial asset
  Recipients,            \* node -> the owners it may send to
  LastProposal,          \* transfers each node makes
  WarmUpInstances,       \* transfers of the warm-up
  MaxAdditionalIndices,  \* config.MaxAdditionalIndices
  MaxCrashes, MaxNil     \* bounds on crashes and on nil decisions

VARIABLES
  st,      \* node -> its memory
  disk,    \* node -> the decided instances, in the order they were written
  agreed,  \* instance -> what its consensus decided (external)
  env      \* the transfers sent, and the crashes and nil decisions so far

vars == <<st, disk, agreed, env>>

Root == {}
Nil == [nil |-> TRUE]
Lookup(f, x) == IF x \in DOMAIN f THEN f[x] ELSE {}
Has(f, x, v) == x \in DOMAIN f /\ f[x] = v
Without(f, S) == [x \in DOMAIN f \ S |-> f[x]]
Ids(assets) == {a.id : a \in assets}
Value(assets) == MapThenSumSet(LAMBDA a : a.v, assets)
OnDisk(p) == {disk[p][k].in : k \in DOMAIN disk[p]}

-----------------------------------------------------------------------------
(* Accounts and transfers *)

\* CheckAssets: the account holds every asset asked for.
CheckAssets(s, q, in) == in \subseteq Ids(s.acc[q])

\* ConsumeAssets: the account must hold every input.
ConsumeAssets(s, q, in) ==
  [s EXCEPT !.acc[q] = {a \in @ : a.id \notin in},
            !.panic = @ \/ ~CheckAssets(s, q, in)]

\* AddAsset: an account never holds an asset twice.
AddAsset(s, q, a) ==
  [s EXCEPT !.acc[q] = @ \cup {a}, !.panic = @ \/ a.id \in Ids(s.acc[q])]


ConsumeTransfer(s, tr) ==
  FoldLeft(LAMBDA x, k : AddAsset(x, tr.to[k], tr.out[k]),
           ConsumeAssets(s, tr.sender, tr.in), [k \in DOMAIN tr.out |-> k])

\* GenValueAssetOutput: output k of the inputs carries the k-th amount.
GenValueAssetOutput(in, amounts) ==
  [k \in DOMAIN amounts |-> [id |-> <<k - 1, in>>, v |-> amounts[k]]]

CheckFormat(tr) ==
  /\ Cardinality(tr.in) \in 1 .. MaxAdditionalIndices
  /\ Len(tr.out) <= MaxAdditionalIndices
  /\ Len(tr.out) = Len(tr.to)
  /\ \A j, k \in DOMAIN tr.out : tr.out[j].id = tr.out[k].id => j = k

\* CheckValueOutputFunc: no output is empty, the inputs cover the outputs and
\* the ids are the ones the inputs give.
CheckValueOutputFunc(ins, tr) ==
  /\ \A k \in DOMAIN tr.out : tr.out[k].v > 0 /\ tr.out[k].id = <<k - 1, tr.in>>
  /\ Value(ins) >= Value(Range(tr.out))

ValidateTransfer(s, tr) ==
  /\ CheckFormat(tr)
  /\ CheckAssets(s, tr.sender, tr.in)
  /\ CheckValueOutputFunc({a \in s.acc[tr.sender] : a.id \in tr.in}, tr)

\* GenerateAssetTransfer: the signed transfer.  Its check, on which the proposer
\* panics, is in getProposal.
GenerateAssetTransfer(sender, ins, outs, to) ==
  [sender |-> sender, in |-> Ids(ins), out |-> outs, to |-> to]

\* GenValueAssetTransfer: all the assets of the sender go in; 1 goes to a
\* random owner and the change back to the sender.
GenValueAssetTransfer(s, p, to) ==
  GenerateAssetTransfer(p, s.acc[p],
    GenValueAssetOutput(Ids(s.acc[p]), <<1, Value(s.acc[p]) - 1>>), <<to, p>>)

\* SendToSelf: the inputs of an instance that decided nil come back to their
\* owner under new ids.
SendToSelf(s, q, in) ==
  LET ins == SetToSeq({a \in s.acc[q] : a.id \in in})
  IN  [sender |-> q, in |-> in,
       out |-> GenValueAssetOutput(in, [k \in DOMAIN ins |-> ins[k].v]),
       to |-> [k \in DOMAIN ins |-> q]]

-----------------------------------------------------------------------------
(* The proposer *)

\* getProposal: a node proposes when its own last instance decided, or when the
\* warm-up of everyone just ended; between its own warm-up and that of the
\* others it waits.  The recipient is drawn when the proposal is handed on; the
\* checks of the generated transfer do not depend on it.
getProposal(s, p, lastProposer, decidedNil) ==
  LET mine == lastProposer = p
      s1 == [s EXCEPT !.myProposalCount = @ + IF mine /\ ~decidedNil THEN 1 ELSE 0]
      ended == s1.warmUpFinished /\ s1.warming
      go == ended \/ (mine /\ ~(s1.warming /\ p \in s1.warmUpFinishedMap))
      s2 == IF ended THEN [s1 EXCEPT !.warming = FALSE] ELSE s1
      tr == GenValueAssetTransfer(s2, p, p)
  IN  IF go /\ s2.myProposalCount <= LastProposal /\ s2.acc[p] # {}
      THEN [s2 EXCEPT !.proposals = Append(@, tr),
                      !.panic = @ \/ ~ValidateTransfer(s2, tr)]
      ELSE s2

\* The counters HasDecided keeps of the transfers of each owner.
CountTransfer(s, q) ==
  LET n == s.transferCount[q] + 1
      done == s.warmUpFinishedMap \cup
                (IF s.warming /\ n = WarmUpInstances THEN {q} ELSE {})
  IN  [s EXCEPT !.transferCount[q] = n,
                !.warmUpFinishedMap = done,
                !.warmUpFinished = @ \/ (s.warming /\ done = Node),
                !.finishedMap = @ \cup (IF n = LastProposal THEN {q} ELSE {})]

\* The transfer a decision stands for.
DecidedTransfer(s, q, i, dec) == IF dec = Nil THEN SendToSelf(s, q, i) ELSE dec

\* AbsHasDecided: an instance decides once, and makes none of its own inputs.
AbsHasDecided(s, i, outs) ==
  [s EXCEPT !.items[i] = "decided",
            !.panic = @ \/ s.items[i] = "decided" \/ outs \cap i # {}]

\* HasDecided of the proposer: the table is updated and a decided transfer must
\* still be valid.  AbsHasDecided and getProposal follow, see DoneIndex.
HasDecided(s, q, i, dec) ==
  LET tr == DecidedTransfer(s, q, i, dec)
      ok == IF dec = Nil THEN CheckAssets(s, q, i)
            ELSE dec.sender = q /\ ValidateTransfer(s, dec)
      s1 == [ConsumeTransfer(s, tr) EXCEPT !.panic = @ \/ ~ok]
  IN  IF dec = Nil THEN s1 ELSE CountTransfer(s1, q)

-----------------------------------------------------------------------------
(* The interface state of a node *)

InitSM(p) ==
  LET assets == [q \in Node |-> [id |-> <<q, Root>>, v |-> InitValue[q]]]
      outs == {<<q, Root>> : q \in Node}
  IN  [acc |-> [q \in Node |-> {assets[q]}],
       owner |-> [o \in outs |-> o[1]],
       childToParentMap |-> [o \in outs |-> Root],
       parentToChildMap |-> [i \in {Root} |-> outs],
       parentToChildConsumers |-> [i \in {Root} |-> {}],
       outputToConsumer |-> [o \in {} |-> {}],
       items |-> [i \in {Root} |-> "decided"],
       future |-> [o \in {} |-> {}],
       net |-> {}, inbox |-> {}, refused |-> {},
       proposals |-> <<>>, myProposalCount |-> 0,
       transferCount |-> [q \in Node |-> 0],
       warming |-> TRUE, warmUpFinished |-> FALSE,
       warmUpFinishedMap |-> {}, finishedMap |-> {},
       panic |-> FALSE]

CanGen(s, i) == i \subseteq DOMAIN s.childToParentMap
SameOwner(s, i) == \A o1, o2 \in i : s.owner[o1] = s.owner[o2]

\* GetMemberChecker: the instance is allocated here.
GetMemberChecker(s, i) == i \in DOMAIN s.items

\* AbsStartIndex: a new state machine, undecided, named by what it consumes.
AbsStartIndex(s, i) == [s EXCEPT !.items = (i :> "new") @@ @]

\* GenerateNewSM: the parents of the inputs must have decided, and made them.
GenerateNewSM(s, i) ==
  [AbsStartIndex(s, i) EXCEPT
     !.panic = @ \/ \E o \in i : \/ ~Has(s.items, s.childToParentMap[o], "decided")
                                \/ s.childToParentMap[o] # o[2]]

\* addChildConsumerToParent: i consumes an output of par.
addChildConsumerToParent(s, par, i) ==
  [s EXCEPT !.parentToChildConsumers = (par :> (Lookup(@, par) \cup {i})) @@ @]

\* genIndex allocates an instance once all its inputs exist, and notes it as a
\* consumer with the parents of the inputs.
genIndex(s, i) ==
  IF GetMemberChecker(s, i) THEN s
  ELSE FoldSet(LAMBDA par, x : addChildConsumerToParent(x, par, i),
               GenerateNewSM(s, i), {s.childToParentMap[o] : o \in i})

\* parentGcIdx also dropping what recovery needs (a variant).
parentGcIdxAll(s, x) ==
  [s EXCEPT !.items = Without(@, {x}),
            !.parentToChildMap = Without(@, {x}),
            !.outputToConsumer = Without(@, {o \in DOMAIN @ : o[2] = x}),
            !.parentToChildConsumers = Without(@, {x})]

\* parentGcIdx forgets an instance whose outputs are all consumed.  The maps
\* used for recovery stay.
parentGcIdx(s, x) ==
  [s EXCEPT !.items = Without(@, {x}), !.parentToChildMap = Without(@, {x})]

\* One consumed input of the decided instance i.
ConsumeOutput(s, i, o) ==
  LET par == s.childToParentMap[o]
      left == s.parentToChildMap[par] \ {o}
      s1 == [addChildConsumerToParent(s, par, i) EXCEPT
               !.panic = @ \/ o \notin s.parentToChildMap[par],
               !.outputToConsumer = (o :> i) @@ @,
               !.owner = Without(@, {o}),
               !.childToParentMap = Without(@, {o}),
               !.parentToChildMap[par] = left]
  IN  IF left = {} THEN parentGcIdx(s1, par) ELSE s1

\* reprocessProposals: what waited for the new outputs is unwrapped again.
reprocessProposals(s, outs) ==
  [s EXCEPT !.net = @ \cup UNION {Lookup(s.future, o) : o \in outs},
            !.future = Without(@, outs)]

\* DoneIndex.  The state machine decides and makes its next proposal, the new
\* outputs are entered and what waits for them is reprocessed, the inputs are
\* removed, and parents without outputs are collected.
DoneIndex(s, p, i, dec) ==
  IF ~(i \subseteq DOMAIN s.owner /\ SameOwner(s, i))
  THEN [s EXCEPT !.panic = TRUE]
  ELSE LET q == s.owner[CHOOSE o \in i : TRUE]
           tr == DecidedTransfer(s, q, i, dec)
           outs == Ids(Range(tr.out))
           s1 == getProposal(AbsHasDecided(HasDecided(s, q, i, dec), i, outs),
                             p, q, dec = Nil)
           s2 == [s1 EXCEPT
                    !.childToParentMap = [o \in outs |-> i] @@ @,
                    !.owner = [o \in outs |->
                                 tr.to[CHOOSE k \in DOMAIN tr.out :
                                         tr.out[k].id = o]] @@ @,
                    !.parentToChildMap = (i :> outs) @@ @]
       IN  FoldSet(LAMBDA o, x : ConsumeOutput(x, i, o),
                   reprocessProposals(s2, outs), i)

\* GenChildIndices: the consumer of an output the asking node still has, and
\* what was consumed from it on.
RECURSIVE Descendants(_, _, _)
Descendants(s, todo, found) ==
  LET next == UNION {Lookup(s.parentToChildConsumers, x) : x \in todo} \ found
  IN  IF next = {} THEN found ELSE Descendants(s, next, found \cup next)

GenChildIndices(s, o) ==
  IF o \in DOMAIN s.outputToConsumer
  THEN LET i == s.outputToConsumer[o] IN Descendants(s, {i}, {i})
  ELSE {}

-----------------------------------------------------------------------------
(* The main loop *)

\* EndInit keeps the last proposal made during the replay.
EndInit(s) ==
  [s EXCEPT !.proposals =
     IF @ = <<>> THEN <<>> ELSE <<Last(@)>>]

\* NewCausalConsState: StartInit, then the decided instances of the disk.
NewCausalConsState(p, log) ==
  EndInit(FoldLeft(LAMBDA s, e : DoneIndex(genIndex(s, e.in), p, e.in, e.dec),
                   getProposal(InitSM(p), p, p, FALSE), log))

Init ==
  /\ disk = [p \in Node |-> <<>>]
  /\ st = [p \in Node |-> NewCausalConsState(p, <<>>)]
  /\ agreed = [i \in {} |-> Nil]
  /\ env = [sent |-> {}, crashes |-> 0, nils |-> 0]

\* ProcessLocalMessage: a proposal for an instance already stored is dropped;
\* otherwise its instance is allocated and the proposal broadcast.
ProcessLocalMessage(p) ==
  LET s == st[p]
      tr == Head(s.proposals)
      rest == [s EXCEPT !.proposals = Tail(@)]
  IN  /\ s.proposals # <<>>
      /\ IF tr.in \in OnDisk(p)
         THEN st' = [st EXCEPT ![p] = rest] /\ UNCHANGED env
         ELSE IF ~CanGen(s, tr.in) \/ ~SameOwner(s, tr.in)
         THEN st' = [st EXCEPT ![p].panic = TRUE] /\ UNCHANGED env
         ELSE \E to \in Recipients[p] :
                LET m == [tr EXCEPT !.to = <<to, p>>]
                IN  /\ env' = [env EXCEPT !.sent = @ \cup {m}]
                    /\ st' = [q \in Node |->
                                [(IF q = p THEN genIndex(rest, tr.in) ELSE st[q])
                                   EXCEPT !.net = @ \cup {m}]]
      /\ UNCHANGED <<disk, agreed>>

\* FinishUnwrapMessage, on a message thread: allocate the instance if possible.
Unwrap(p, m) ==
  LET s == [st[p] EXCEPT !.net = @ \ {m}]
  IN  /\ m \in st[p].net
      /\ st' = [st EXCEPT ![p] =
           IF GetMemberChecker(s, m.in) \/ (CanGen(s, m.in) /\ SameOwner(s, m.in))
           THEN [genIndex(s, m.in) EXCEPT !.inbox = @ \cup {<<m, TRUE>>}]
           ELSE IF CanGen(s, m.in) THEN [s EXCEPT !.refused = @ \cup {m}]
           ELSE [s EXCEPT !.inbox = @ \cup {<<m, FALSE>>}]]
      /\ UNCHANGED <<disk, agreed, env>>

\* AddFutureMessage: wait for the first missing output, or look again at once.
AddFutureMessage(s, m) ==
  LET missing == m.in \ DOMAIN s.childToParentMap
      o == CHOOSE x \in missing : TRUE
  IN  IF missing = {} THEN [s EXCEPT !.net = @ \cup {m}]
      ELSE [s EXCEPT !.future = (o :> (Lookup(@, o) \cup {m})) @@ @]

\* ValidateProposal of the parent's state machine; the proposer is the sender of
\* the transfer.
ValidateProposal(s, m) == ValidateTransfer(s, m)

\* CheckValidateProposal: a proposal with an input whose parent is not decided
\* waits for it, the others must be valid transfers of the proposer.
CheckValidateProposal(s, m) ==
  IF ~CanGen(s, m.in) THEN AddFutureMessage(s, m)
  ELSE IF ValidateProposal(s, m) THEN [s EXCEPT !.items[m.in] = "started"]
  ELSE [s EXCEPT !.refused = @ \cup {m}]

\* ProcessMessage, on the main loop.
ProcessMessage(p, m, deser) ==
  LET s == [st[p] EXCEPT !.inbox = @ \ {<<m, deser>>}]
      i == m.in
  IN  /\ <<m, deser>> \in st[p].inbox
      /\ st' = [st EXCEPT ![p] =
           CASE i \in OnDisk(p) -> s
             [] i \notin OnDisk(p) /\ ~GetMemberChecker(s, i) ->
                  [AddFutureMessage(s, m) EXCEPT !.panic = @ \/ deser]
             [] i \notin OnDisk(p) /\ GetMemberChecker(s, i) /\ ~deser ->
                  [s EXCEPT !.net = @ \cup {m}]
             [] OTHER -> CheckValidateProposal(s, m)]
      /\ UNCHANGED <<disk, agreed, env>>

\* The consensus of an instance decides at p: checkProgress calls DoneIndex and
\* then writes the decision to the disk.
checkProgress(p, i) ==
  /\ Has(st[p].items, i, "started")
  /\ \E dec \in IF i \in DOMAIN agreed THEN {agreed[i]}
                ELSE {tr \in env.sent : tr.in = i} \cup
                     (IF env.nils < MaxNil THEN {Nil} ELSE {}) :
       /\ agreed' = (i :> dec) @@ agreed
       /\ env' = [env EXCEPT !.nils = @ + IF i \notin DOMAIN agreed /\ dec = Nil
                                          THEN 1 ELSE 0]
       /\ st' = [st EXCEPT ![p] = DoneIndex(@, p, i, dec)]
       /\ disk' = [disk EXCEPT ![p] = Append(@, [in |-> i, dec |-> dec])]

\* The outputs a node reports when nothing moves: those of the decided items it
\* still keeps, and the initial ones.
Reported(s) == UNION Range(s.parentToChildMap)

\* sendNoProgressMsg and the answer of q.  A timeout while messages are on
\* their way would only bring them twice, so p is idle.
NoProgress(p, q) ==
  /\ st[p].net = {} /\ st[p].inbox = {} /\ st[p].proposals = <<>>
  /\ \E o \in Reported(st[p]) :
       LET reply == GenChildIndices(st[q], o)
           news == {m \in env.sent : m.in \in reply \ OnDisk(p)
                                       /\ ~Has(st[p].items, m.in, "started")}
       IN  /\ news # {}
           /\ st' = [st EXCEPT ![p].net = news,
                ![q].panic = @ \/ \E j \in reply : j \notin OnDisk(q)
                                                   /\ j \notin DOMAIN st[q].items]
  /\ UNCHANGED <<disk, agreed, env>>

\* A node stops and starts again from its disk.
Crash(p) ==
  /\ env.crashes < MaxCrashes
  /\ env' = [env EXCEPT !.crashes = @ + 1]
  /\ st' = [st EXCEPT ![p] = NewCausalConsState(p, disk[p])]
  /\ UNCHANGED <<disk, agreed>>

Next ==
  \E p \in Node :
    \/ ProcessLocalMessage(p)
    \/ \E m \in st[p].net : Unwrap(p, m)
    \/ \E x \in st[p].inbox : ProcessMessage(p, x[1], x[2])
    \/ \E i \in DOMAIN st[p].items : checkProgress(p, i)
    \/ \E q \in Node \ {p} : NoProgress(p, q)
    \/ Crash(p)

Spec == Init /\ [][Next]_vars

-----------------------------------------------------------------------------

\* The ledger of every node is that of the instances it decided.  No node
\* panics or refuses a proposal; the accounts hold exactly the outputs the
\* interface state takes for unconsumed, with the same owners; no value is made
\* or lost; no output is consumed by two instances; nodes that decided the same
\* instances, in whatever order and with whatever restarts in between, have the
\* same accounts.
OneLedger ==
  /\ \A p \in Node :
       LET s == st[p]
       IN  /\ ~s.panic /\ s.refused = {}
           /\ DOMAIN s.owner = DOMAIN s.childToParentMap
           /\ \A q \in Node : Ids(s.acc[q]) = {o \in DOMAIN s.owner : s.owner[o] = q}
           /\ Value(UNION Range(s.acc)) = MapThenSumSet(LAMBDA q : InitValue[q], Node)
           /\ \A i, j \in OnDisk(p) : i # j => i \cap j = {}
  /\ \A p, q \in Node : OnDisk(p) = OnDisk(q) => st[p].acc = st[q].acc

\* A node that is behind can catch up.  If q decided an instance p did not, then
\* one of the outputs p reports when it makes no progress leads q to an instance
\* it decided and p can allocate now; and no message of p waits for an output
\* that p already has, or had.
CatchUp ==
  /\ \A p, q \in Node :
       ~(OnDisk(q) \subseteq OnDisk(p)) =>
         \E o \in Reported(st[p]) :
           \E i \in GenChildIndices(st[q], o) \ OnDisk(p) :
             i \in OnDisk(q) /\ CanGen(st[p], i)
  /\ \A p \in Node : \A o \in DOMAIN st[p].future :
       /\ o \notin DOMAIN st[p].childToParentMap
       /\ \A i \in OnDisk(p) : o \notin i
=============================================================================
