------------------------------- MODULE MvBin --------------------------------
(***************************************************************************)
(* Nodes that run one instance of a multi-value consensus made of a        *)
(* randomised binary one: MvCons1 over BinConsRnd1 (gc.alg = 1) or         *)
(* MvBinConsRnd2 over BinConsRnd2 (gc.alg = 2).  The threads are those of  *)
(* BinConsRnd.  The main loop gives a message of the binary instance to    *)
(* that instance, then runs the check of the reduction (checkEchoState,    *)
(* checkProgress), then the rounds of the binary instance from round 1 on. *)
(* Between two rounds the message threads get in; the check of the         *)
(* reduction is one step.                                                  *)
(*                                                                         *)
(* gc.coord is the coordinator.                                            *)
(***************************************************************************)
EXTENDS BinConsRnd, MvNode

CONSTANT Values         \* the values a coordinator may send

M1 == INSTANCE MvCons1
M2 == INSTANCE MvBinConsRnd2

MvNew(g, p) == IF g.alg = 1 THEN M1!New(g, p, Values) ELSE M2!New(g, p, Values)
MvGotMsg(s, d) == IF gc.alg = 1 THEN M1!GotMsg(gc, s, d) ELSE M2!GotMsg(gc, s, d)

MvInitWith(configs) ==
    /\ gc \in configs
    /\ node = [p \in Correct |-> MvNew(gc, p)]
    /\ sent = {}
    /\ storing = [p \in Correct |-> {}]
    /\ queue = [p \in Correct |-> {}]
    /\ SelfMessages = [p \in Correct |-> <<>>]
    /\ checking = [p \in Correct |-> NoRound]
    /\ gotProposal = [p \in Correct |-> Unknown]

IsMv(m) == m[1] \in {"Init", "Echo", "Commit", "InitTimeout", "EchoTimeout", "RecoverTimeout"}

\* The check of the reduction: the node after it and whether the rounds are checked.
CheckMv(s) == IF gc.alg = 1 THEN M1!checkEchoState(s) ELSE M2!checkProgress(s)
ProcessMv(s, m) ==
    CASE m[1] = "RecoverTimeout" ->
           [node |-> IF s.decisionInitMsg = NoHash THEN BroadcastRequestRecover(s) ELSE s,
            check |-> FALSE]
      [] OTHER ->
           LET c == IF gc.alg = 1 THEN M1!ProcessMessage(s, m) ELSE M2!ProcessMessage(s, m) IN
           [c EXCEPT !.node = IF m[1] = "Init" THEN SendRecover(@) ELSE @]

-----------------------------------------------------------------------------
\* An init message has the signature of the coordinator only.
MvStoreMsg(p, m, S) == (m[1] = "Init" => S = {gc.coord}) /\ StoreMsg(p, m, S)

MvUpdateRound(p, d) ==
    /\ d \in storing[p]
    /\ node' = [node EXCEPT ![p] = MvGotMsg(@, d)]
    /\ storing' = [storing EXCEPT ![p] = @ \ {d}]
    /\ queue' = [queue EXCEPT ![p] = @ \cup {d.msg}]
    /\ UNCHANGED <<gc, sent, SelfMessages, checking, gotProposal>>

\* A timer posts its message to the main loop.
TimerMessage(k) == CASE k = "init" -> <<"InitTimeout", 0, 0>>
                     [] k = "echo" -> <<"EchoTimeout", 0, 0>>
                     [] k = "recover" -> <<"RecoverTimeout", 0, 0>>
Fire(p, k) ==
    /\ node[p].timer[k] = Running
    /\ node' = [node EXCEPT ![p].timer[k] = Fired]
    /\ queue' = [queue EXCEPT ![p] = @ \cup {TimerMessage(k)}]
    /\ UNCHANGED <<gc, sent, storing, SelfMessages, checking, gotProposal>>

-----------------------------------------------------------------------------
\* The coordinator's proposal.
MvGotProposal(p, v) ==
    /\ Idle(p) /\ gotProposal[p] = Unknown /\ p = gc.coord
    /\ Receives(p, v, IF gc.alg = 1 THEN M1!GotProposal(node[p], v) ELSE M2!GotProposal(node[p], v))

\* The handler goes on: with the rounds of the binary instance, or it ends.
EndsWith(s) == IF BinDecided(s) # Unknown THEN stopTimers(s) ELSE s
End(s) == [node |-> [s EXCEPT !.stage = "idle"], round |-> NoRound]
After(c) ==                 \* after the check of the reduction
    IF c.check /\ BinDecided(c.node) = Unknown
    THEN [node |-> [c.node EXCEPT !.stage = "mv"], round |-> 1]
    ELSE End(IF c.check THEN EndsWith(c.node) ELSE c.node)
\* A message of the binary instance goes there first.
HandleBin(s, m) == IF Stops(s, m[2]) \/ m[2] >= gc.MaxRound THEN After(CheckMv(s))
                   ELSE [node |-> [s EXCEPT !.stage = "bin"], round |-> m[2]]
Handle(s, m) == IF IsMv(m) THEN After(ProcessMv(s, m)) ELSE HandleBin(Coins(s, m), m)

MvGot(s, m) == MvGotMsg(s, Counts(s, m))
MvGotSelfMsg(p, h) ==
    /\ Becomes(p, h.node)
    /\ checking' = [checking EXCEPT ![p] = h.round]
    /\ SelfMessages' = [SelfMessages EXCEPT ![p] = Tail(@) \o h.node.out]
MvProcessSelfMessage(p) ==
    LET m == Head(SelfMessages[p]) IN
    /\ Idle(p) /\ SelfMessages[p] # <<>>
    /\ IF m \in DOMAIN node[p].sigs /\ Accepts(node[p], m, {p})
       THEN MvGotSelfMsg(p, Handle(MvGot(Store(node[p], m, {p}), m), m))
       ELSE DropSelfMsg(p)
    /\ UNCHANGED <<gc, storing, queue, gotProposal>>

MvGoesOn(p, h) ==
    /\ Becomes(p, h.node) /\ Sends(p, h.node)
    /\ checking' = [checking EXCEPT ![p] = h.round]
MvProcessMessage(p, m) ==
    /\ Idle(p) /\ SelfMessages[p] = <<>>
    /\ m \in queue[p]
    /\ queue' = [queue EXCEPT ![p] = @ \ {m}]
    /\ MvGoesOn(p, Handle(node[p], m))
    /\ UNCHANGED <<gc, storing, gotProposal>>

\* After CheckRound of round r: the next round, or after those that follow a message of the
\* binary instance the check of the reduction.
AfterRound(r, c) ==
    IF c.more /\ r + 1 < gc.MaxRound THEN [node |-> c.node, round |-> r + 1]
    ELSE IF c.node.stage = "bin" THEN After(CheckMv(c.node))
    ELSE End(EndsWith(c.node))
MvCheckRound(p) ==
    /\ ~ Idle(p)
    /\ MvGoesOn(p, AfterRound(checking[p], CheckRoundOf(node[p], checking[p])))
    /\ UNCHANGED <<gc, storing, queue, gotProposal>>

\* The main loop takes the request of node q for the init message of hash h.
RequestRecover(p, q, h) ==
    /\ Idle(p) /\ SelfMessages[p] = <<>>
    /\ <<q, <<"Recover", 0, h>>>> \in sent
    /\ node' = [node EXCEPT ![p] = GotRequestRecover(@, q, h)]
    /\ UNCHANGED <<gc, sent, storing, queue, SelfMessages, checking, gotProposal>>

MvNext ==
    \E p \in Correct :
        \/ \E m \in DOMAIN node[p].sigs : \E S \in SUBSET Signers(m) : MvStoreMsg(p, m, S)
        \/ \E d \in storing[p] : MvUpdateRound(p, d)
        \/ \E k \in DOMAIN node[p].timer : Fire(p, k)
        \/ \E v \in Values : MvGotProposal(p, v)
        \/ MvProcessSelfMessage(p)
        \/ \E m \in queue[p] : MvProcessMessage(p, m)
        \/ MvCheckRound(p)
        \/ \E q \in Correct, h \in Values : RequestRecover(p, q, h)

-----------------------------------------------------------------------------
(* Properties.                                                             *)

\* The decisions are those of an instance of Consensus: the binary instances agree on whether
\* there is a value, and the echoes or commits on which one, whatever a faulty coordinator sends
\* to whom.  A decided value has reached a correct node from the coordinator, and nothing (Zero)
\* is decided only if a correct node has supported 0 after a timeout.
Proposed ==
    {v \in Values : \/ <<gc.coord, <<"Init", 0, v>>>> \in sent
                   \/ \E p \in Correct : node[p].sigs[<<"Init", 0, v>>] # {}}
    \cup {z \in {Zero} : \E p \in Correct : <<p, <<IF gc.alg = 1 THEN "AuxProof" ELSE "BV", 1, 0>>>> \in sent}
MvCons == INSTANCE Consensus
            WITH Nodes <- Correct, Value <- Values \cup {Zero}, None <- NoHash,
                 proposed <- Proposed,
                 decision <- [p \in Correct |-> GetDecision(node[p])]
ImplementsMvConsensus == MvCons!Spec
=============================================================================
