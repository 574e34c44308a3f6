----------------------------- MODULE BinConsRnd -----------------------------
(***************************************************************************)
(* Nodes that run one instance of a randomised binary consensus algorithm  *)
(* (consensus/cons/binconsrnd1 to 6) with one of the coins of              *)
(* consensus/coin.  gc.alg selects the algorithm; a module per algorithm   *)
(* has what its operations do to the state of a node, this one the threads *)
(* that run them:                                                          *)
(*   - message threads run GotMsg, which stores the signatures under one   *)
(*     lock (StoreMsg) and raises the counts of the round under another    *)
(*     (UpdateRound);                                                      *)
(*   - the main loop takes the proposal, the node's own messages and what  *)
(*     the threads have handed over, and runs CheckRound from the round of *)
(*     the message on, taking the mutex again for each round.              *)
(* CheckRound is not followed beyond round gc.MaxRound - 1.                *)
(***************************************************************************)
EXTENDS RndNode

CONSTANT Threads        \* bound on the messages of a node between StoreMsg and UpdateRound

VARIABLES gc,           \* the configuration, fixed
          node,         \* the instance and the message state of each correct node
          sent,         \* the (node, message) pairs broadcast by correct nodes
          storing,      \* messages between the two locks of GotMsg, with their counts
          queue,        \* messages handed to the main loop
          SelfMessages, \* own messages not yet processed
          checking,     \* the round CheckRound is at, or NoRound
          gotProposal   \* the proposal of each node, or Unknown

vars == <<gc, node, sent, storing, queue, SelfMessages, checking, gotProposal>>

NoRound == -1

R1 == INSTANCE BinConsRnd1
R2 == INSTANCE BinConsRnd2
R3 == INSTANCE BinConsRnd3
R4 == INSTANCE BinConsRnd4
R5 == INSTANCE BinConsRnd5
R6 == INSTANCE BinConsRnd6

New(g, p) == CASE g.alg = 1 -> R1!New(g, p)
               [] g.alg = 2 -> R2!New(g, p)
               [] g.alg = 3 -> R3!New(g, p)
               [] g.alg = 4 -> R4!New(g, p)
               [] g.alg = 5 -> R5!New(g, p)
               [] g.alg = 6 -> R6!New(g, p)

GotMsg(s, d) == CASE gc.alg = 1 -> R1!GotMsg(gc, s, d)
                  [] gc.alg = 2 -> R2!GotMsg(gc, s, d)
                  [] gc.alg = 3 -> R3!GotMsg(gc, s, d)
                  [] gc.alg = 4 -> R4!GotMsg(gc, s, d)
                  [] gc.alg = 5 -> R5!GotMsg(gc, s, d)
                  [] gc.alg = 6 -> R6!GotMsg(gc, s, d)

CheckRoundOf(s, r) == CASE gc.alg = 1 -> R1!CheckRound(gc, s, r)
                        [] gc.alg = 2 -> R2!CheckRound(gc, s, r)
                        [] gc.alg = 3 -> R3!CheckRound(gc, s, r)
                        [] gc.alg = 4 -> R4!CheckRound(gc, s, r)
                        [] gc.alg = 5 -> R5!CheckRound(gc, s, r)
                        [] gc.alg = 6 -> R6!CheckRound(gc, s, r)

GotProposalOf(s, v) == CASE gc.alg = 1 -> R1!GotProposal(gc, s, v)
                         [] gc.alg = 2 -> R2!GotProposal(gc, s, v)
                         [] gc.alg = 3 -> R3!GotProposal(gc, s, v)
                         [] gc.alg = 4 -> R4!GotProposal(gc, s, v)
                         [] gc.alg = 5 -> R5!GotProposal(gc, s, v)
                         [] gc.alg = 6 -> R6!GotProposal(gc, s, v)

\* ProcessMessage drops a message of round r.
Stops(s, r) ==
    \/ s.terminated /\ (gc.alg \in {2, 4, 6} => r > s.terminatedRound)
    \/ /\ gc.alg \in {4, 6} /\ gc.StopOnCommit = "NextRound" /\ s.Decided # Unknown
       /\ r > s.decidedRound + (IF gc.alg = 6 /\ s.decidedRound = 1 THEN 2 ELSE 1)

\* What ProcessMessage does with a message of the coin before it looks at the rounds;
\* BinConsRnd1 drops the message first.
Coins(s, m) == IF gc.alg = 1 /\ s.terminated THEN s ELSE CheckCoinMessage(s, m)

InitWith(configs) ==
    /\ gc \in configs
    /\ node = [p \in Correct |-> New(gc, p)]
    /\ sent = {}
    /\ storing = [p \in Correct |-> {}]
    /\ queue = [p \in Correct |-> {}]
    /\ SelfMessages = [p \in Correct |-> <<>>]
    /\ checking = [p \in Correct |-> NoRound]
    /\ gotProposal = [p \in Correct |-> Unknown]

-----------------------------------------------------------------------------
\* Node p becomes s, without what s has broadcast, which is sent to all and to p itself.
Becomes(p, s) ==
    /\ node' = [node EXCEPT ![p] = [s EXCEPT !.out = <<>>]]
    /\ sent' = sent \cup {<<p, s.out[i]>> : i \in DOMAIN s.out}

Sends(p, s) == SelfMessages' = [SelfMessages EXCEPT ![p] = @ \o s.out]

Signers(m) == {p \in Correct : <<p, m>> \in sent} \cup Faulty

\* The messages that share the MsgID of m.
SameMsgID(s, m) == {k \in DOMAIN s.sigs : k[1] = m[1] /\ k[2] = m[2]}

\* Node s with the signatures S of m stored, and the counts that go with the message.
Store(s, m, S) == [s EXCEPT !.sigs[m] = @ \cup S]
Counts(s, m) == [msg |-> m, NewTotalSigCount |-> Cardinality(s.sigs[m]),
                 NewMsgIDSigCount |-> TotalSigCount(s, SameMsgID(s, m))]

\* A message whose coin is known or that has no new signatures is dropped.
Accepts(s, m, S) == ~ CheckFinishedMessage(s, m) /\ ~ S \subseteq s.sigs[m]

StoreMsg(p, m, S) ==
    /\ S \subseteq Signers(m)
    /\ Accepts(node[p], m, S)
    /\ Cardinality(storing[p]) < Threads
    /\ node' = [node EXCEPT ![p] = Store(@, m, S)]
    /\ storing' = [storing EXCEPT ![p] = @ \cup {Counts(Store(node[p], m, S), m)}]
    /\ UNCHANGED <<gc, sent, queue, SelfMessages, checking, gotProposal>>

UpdateRound(p, d) ==
    /\ d \in storing[p]
    /\ node' = [node EXCEPT ![p] = GotMsg(@, d)]
    /\ storing' = [storing EXCEPT ![p] = @ \ {d}]
    /\ queue' = [queue EXCEPT ![p] = @ \cup {d.msg}]
    /\ UNCHANGED <<gc, sent, SelfMessages, checking, gotProposal>>

-----------------------------------------------------------------------------
Idle(p) == checking[p] = NoRound

Receives(p, v, s) ==
    /\ gotProposal' = [gotProposal EXCEPT ![p] = v]
    /\ Becomes(p, s) /\ Sends(p, s)
    /\ UNCHANGED <<gc, storing, queue, checking>>

GotProposal(p, v) ==
    /\ Idle(p) /\ gotProposal[p] = Unknown
    /\ Receives(p, v, GotProposalOf(node[p], v))

\* The rounds are checked from that of the message on.
Check(p, s, r) == checking' = [checking EXCEPT ![p] = IF Stops(s, r) \/ r >= gc.MaxRound
                                                      THEN NoRound ELSE r]

\* The main loop runs GotMsg on the node's own messages, before those of other threads.
GotSelfMsg(p, m, s) ==
    /\ Becomes(p, s) /\ Check(p, s, m[2])
    /\ SelfMessages' = [SelfMessages EXCEPT ![p] = Tail(@) \o s.out]
DropSelfMsg(p) ==
    /\ SelfMessages' = [SelfMessages EXCEPT ![p] = Tail(@)]
    /\ UNCHANGED <<node, sent, checking>>
Got(s, m) == GotMsg(s, Counts(s, m))
ProcessSelfMessage(p) ==
    LET m == Head(SelfMessages[p]) IN
    /\ Idle(p) /\ SelfMessages[p] # <<>>
    /\ IF Accepts(node[p], m, {p})
       THEN GotSelfMsg(p, m, Coins(Got(Store(node[p], m, {p}), m), m))
       ELSE DropSelfMsg(p)
    /\ UNCHANGED <<gc, storing, queue, gotProposal>>

Processed(p, m, s) == Becomes(p, s) /\ Sends(p, s) /\ Check(p, s, m[2])
ProcessMessage(p, m) ==
    /\ Idle(p) /\ SelfMessages[p] = <<>>
    /\ m \in queue[p]
    /\ queue' = [queue EXCEPT ![p] = @ \ {m}]
    /\ Processed(p, m, Coins(node[p], m))
    /\ UNCHANGED <<gc, storing, gotProposal>>

\* The loop of ProcessMessage goes on with the next round, or ends.
Checked(p, r, c) ==
    /\ Becomes(p, c.node) /\ Sends(p, c.node)
    /\ checking' = [checking EXCEPT ![p] = IF c.more /\ r + 1 < gc.MaxRound THEN r + 1 ELSE NoRound]
CheckRound(p) ==
    /\ ~ Idle(p)
    /\ Checked(p, checking[p], CheckRoundOf(node[p], checking[p]))
    /\ UNCHANGED <<gc, storing, queue, gotProposal>>

Next ==
    \E p \in Correct :
        \/ \E m \in DOMAIN node[p].sigs : \E S \in SUBSET Signers(m) : StoreMsg(p, m, S)
        \/ \E d \in storing[p] : UpdateRound(p, d)
        \/ \E v \in Bin : GotProposal(p, v)
        \/ ProcessSelfMessage(p)
        \/ \E m \in queue[p] : ProcessMessage(p, m)
        \/ CheckRound(p)

-----------------------------------------------------------------------------
(* Properties.                                                             *)

\* The sanity checks of the algorithms never fail, and no nil supportBvInfo is read, although
\* the counts and coins that CheckRound reads are changed by other threads (the panics of
\* CheckRound, of the functions it calls, and of GotProposal).
NoPanic == \A p \in Correct : ~ node[p].panicked

\* A correct node votes for at most one value in a round: the votes of its estimate, of the coin
\* (AllowSupportCoin) and those that follow from a coin that came early exclude each other, in
\* whatever order the main loop gets to the rounds (sentProposal, sentAux).
Votes == {"AuxProof", "AuxBoth", "AuxStage0", "AuxStage1"}
OneVote ==
    \A x, y \in sent : x[1] = y[1] /\ x[2][1] \in Votes /\ x[2][1] = y[2][1] /\ x[2][2] = y[2][2]
                           => x[2][3] = y[2][3]

\* The decisions are those of an instance of Consensus: no two nodes decide differently, in
\* whatever rounds they decide, nobody changes a decision, and a decided value was proposed by a
\* correct node, whatever the faulty member votes and the coins show.
Cons == INSTANCE Consensus
            WITH Nodes <- Correct, Value <- Bin, None <- Unknown,
                 proposed <- {gotProposal[p] : p \in Correct} \ {Unknown},
                 decision <- [p \in Correct |-> node[p].Decided]
ImplementsConsensus == Cons!Spec
=============================================================================
