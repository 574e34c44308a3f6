--------------------------- MODULE RbBcast1_proofs ---------------------------
(***************************************************************************)
(* RbBcast1 for every number of members, of hashes and of threads:         *)
(*   - SafeInv, inductive, gives Agreement and NoPanic, and every step is  *)
(*     one of Consensus or changes none of its state (Refinement);         *)
(*   - RestInv, inductive with it, says where the work that a node still   *)
(*     has to do is kept, which gives Totality and Delivery.               *)
(***************************************************************************)
EXTENDS RbBcast1, Members_proofs

-----------------------------------------------------------------------------
(* Types: every step leaves every variable in its set.                     *)

\* Correct and faulty nodes are members of the committee.
LEMMA CorrectMembers == Correct \subseteq Members /\ Faulty \subseteq Members
BY MembersAssumption DEF Correct

\* The first of a node's own messages is one of Messages, and the rest is a sequence of them.
LEMMA OwnMessage ==
    ASSUME TypeOK, NEW p \in Correct, SelfMessages[p] # <<>>
    PROVE  /\ Head(SelfMessages[p]) \in Messages
           /\ Tail(SelfMessages[p]) \in Seq(Messages)
<1>1. SelfMessages[p] \in Seq(Messages)
  BY DEF TypeOK, LoopTypes
<1> QED BY <1>1

\* The recover timer runs only at a node that has the hash of its decision.
TimerStarted == \A p \in Correct : requestRecoverTimer[p] # "nil" => decisionHash[p] # Nil

\* Every step keeps the types.
LEMMA NextTypeOK == TypeOK /\ TimerStarted /\ [Next]_vars => TypeOK'
<1>StoreMsgTypeOK.
    ASSUME TypeOK, NEW p \in Correct, NEW h \in Hash, NEW S \in SUBSET Signers(h), StoreMsg(p, h, S), UNCHANGED Coord
    PROVE  TypeOK'
  <2> USE <1>StoreMsgTypeOK
  <2> DEFINE d == [hash |-> h, NewTotalSigCount |-> Cardinality(SigMap[p][h] \cup S)]
  <2>1. SigMap[p][h] \cup S \in SUBSET Members
    BY CorrectMembers DEF TypeOK, NetTypes, CountTypes, Signers
  <2>2. d \in [hash : Hash, NewTotalSigCount : 0..GetMemberCount]
    BY <2>1, CountSubset
  <2>3. storing' \in [Correct -> SUBSET [hash : Hash, NewTotalSigCount : 0..GetMemberCount]]
    BY <2>2, Zenon DEF StoreMsg, TypeOK, CountTypes
  <2>4. SigMap' \in [Correct -> [Hash -> SUBSET Members]]
    BY Zenon, <2>1 DEF StoreMsg, TypeOK, CountTypes
  <2> QED BY Zenon, <2>3, <2>4 DEF StoreMsg, TypeOK, NetTypes, CountTypes, LoopTypes, DecisionTypes, netVars, decVars, recVars
<1>UpdateTypeOK.
    ASSUME TypeOK, NEW p \in Correct, NEW d \in storing[p], Update(p, d), UNCHANGED Coord
    PROVE  TypeOK'
  <2> USE <1>UpdateTypeOK
  <2>1. d \in [hash : Hash, NewTotalSigCount : 0..GetMemberCount]
    BY DEF TypeOK, CountTypes
  <2>2. supportedEchoHash' \in [Correct -> Hash \cup {Nil}]
    BY Zenon, <2>1 DEF Update, UpdateSupported, TypeOK, CountTypes
  <2>3. panicked' \in [Correct -> BOOLEAN]
    BY <2>1, Zenon DEF Update, UpdateSupported, TypeOK, DecisionTypes
  <2>4. /\ storing' \in [Correct -> SUBSET [hash : Hash, NewTotalSigCount : 0..GetMemberCount]]
        /\ queue' \in [Correct -> SUBSET ({Echo} \cup [kind : {"init"}, hash : Hash])]
    BY DEF Update, TypeOK, NetTypes, CountTypes, LoopTypes
  <2> QED BY Zenon, <2>2, <2>3, <2>4 DEF Update, TypeOK, NetTypes, CountTypes, LoopTypes, DecisionTypes, netVars, decVars, recVars
<1>StoreInitTypeOK.
    ASSUME TypeOK, NEW p \in Correct, NEW h \in Hash, StoreInit(p, h), UNCHANGED Coord
    PROVE  TypeOK'
  <2> USE <1>StoreInitTypeOK
  <2>1. InitItem(h) \in [kind : {"init"}, hash : Hash]
    BY DEF InitItem
  <2> QED BY <2>1 DEF StoreInit, TypeOK, NetTypes, CountTypes, LoopTypes, DecisionTypes, netVars, decVars, recVars
<1>GotProposalTypeOK.
    ASSUME TypeOK, NEW p \in Correct, NEW h \in Hash, GotProposal(p, h), UNCHANGED Coord
    PROVE  TypeOK'
  <2> USE <1>GotProposalTypeOK
  <2>1. InitItem(h) \in Messages
    BY DEF InitItem, Messages
  <2>2. SelfMessages' \in [Correct -> Seq(Messages)]
    <3>1. Append(SelfMessages[p], InitItem(h)) \in Seq(Messages)
      BY <2>1 DEF TypeOK, LoopTypes
    <3> QED BY <3>1, Zenon DEF GotProposal, TypeOK, LoopTypes
  <2> QED BY Zenon, <2>2 DEF GotProposal, TypeOK, NetTypes, CountTypes, LoopTypes, DecisionTypes, netVars, decVars, recVars
  \* The recovery messages that a node sends back are of the right type.
<1>SendRecoverTypeOK.
    ASSUME TypeOK, NEW p \in Correct, NEW reqs \in SUBSET Requests, NEW inits, SendRecover(p, reqs, inits)
    PROVE  /\ recovers' \subseteq [to : Correct, hash : Hash]
           /\ requestedRecover' \in [Correct -> SUBSET Requests]
  <2> USE <1>SendRecoverTypeOK
  <2>1. \A r \in reqs : r.from \in Correct /\ r.hash \in Hash
    BY DEF Requests
  <2> QED BY <2>1 DEF SendRecover, TypeOK, NetTypes, DecisionTypes
<1>ProcessInitTypeOK.
    ASSUME TypeOK, NEW p \in Correct, NEW h \in Hash, ProcessInit(p, h), UNCHANGED Coord
    PROVE  TypeOK'
  <2> USE <1>ProcessInitTypeOK
  <2>1. /\ recovers' \subseteq [to : Correct, hash : Hash]
        /\ requestedRecover' \in [Correct -> SUBSET Requests]
    BY Zenon, <1>SendRecoverTypeOK DEF ProcessInit, ValidateInit, TypeOK, NetTypes, DecisionTypes
  <2> QED BY Zenon, <2>1 DEF ProcessInit, ValidateInit, TypeOK, NetTypes, CountTypes, LoopTypes, DecisionTypes, decVars
<1>ProcessMessageTypeOK.
    ASSUME TypeOK, NEW p \in Correct, ProcessMessage(p), UNCHANGED Coord
    PROVE  TypeOK'
  BY Zenon, <1>ProcessMessageTypeOK DEF ProcessMessage, TypeOK, NetTypes, CountTypes, LoopTypes, DecisionTypes, netVars, decVars, recVars
<1>ProcessSelfMessageTypeOK.
    ASSUME TypeOK, NEW p \in Correct, ProcessSelfMessage(p), UNCHANGED Coord
    PROVE  TypeOK'
  <2> USE <1>ProcessSelfMessageTypeOK
  <2> DEFINE m == Head(SelfMessages[p])
             d == [hash |-> m.hash, NewTotalSigCount |-> Cardinality(SigMap[p][m.hash] \cup {p})]
  <2>1. m.hash \in Hash /\ Tail(SelfMessages[p]) \in Seq(Messages)
    BY Zenon, OwnMessage DEF ProcessSelfMessage, Messages
  <2>2. SelfMessages' \in [Correct -> Seq(Messages)]
    BY <2>1, Zenon DEF ProcessSelfMessage, TypeOK, LoopTypes
  <2>3. CASE m.kind = "init"
    <3>1. ValidateInit(p, m.hash) /\ UNCHANGED <<SigMap, supportedEchoHash, panicked>>
      BY Zenon, <2>3 DEF ProcessSelfMessage
    <3>2. /\ recovers' \subseteq [to : Correct, hash : Hash]
          /\ requestedRecover' \in [Correct -> SUBSET Requests]
      BY Zenon, <3>1, <1>SendRecoverTypeOK DEF ValidateInit, TypeOK, NetTypes, DecisionTypes
    <3> QED BY Zenon, <2>1, <2>2, <3>1, <3>2 DEF ProcessSelfMessage, ValidateInit, TypeOK, NetTypes, CountTypes, LoopTypes, DecisionTypes, decVars
  <2>4. CASE m.kind = "echo" /\ p \notin SigMap[p][m.hash]
    <3> HIDE DEF d
    <3>1. /\ SigMap' = [SigMap EXCEPT ![p][m.hash] = @ \cup {p}]
          /\ UpdateSupported(p, d)
          /\ pc' = [pc EXCEPT ![p] = "echo"]
          /\ UNCHANGED <<validatedInitHashes, recovers, requestedRecover>>
      BY Zenon, <2>4 DEF ProcessSelfMessage, d
    <3>2. d.hash \in Hash
      BY <2>1 DEF d
    <3>3. SigMap' \in [Correct -> [Hash -> SUBSET Members]]
      BY <2>1, <3>1, CorrectMembers DEF TypeOK, CountTypes
    <3>4. supportedEchoHash' \in [Correct -> Hash \cup {Nil}]
      BY Zenon, <3>1, <3>2 DEF UpdateSupported, TypeOK, CountTypes
    <3>5. panicked' \in [Correct -> BOOLEAN]
      BY <3>1, <3>2, Zenon DEF UpdateSupported, TypeOK, DecisionTypes
    <3> QED BY Zenon, <2>2, <3>1, <3>3, <3>4, <3>5 DEF ProcessSelfMessage, TypeOK, NetTypes, CountTypes, LoopTypes, DecisionTypes, decVars
  <2>5. CASE m.kind = "echo" /\ p \in SigMap[p][m.hash]
    BY Zenon, <2>2, <2>5 DEF ProcessSelfMessage, TypeOK, NetTypes, CountTypes, LoopTypes, DecisionTypes, decVars
  <2> QED BY Zenon, <2>3, <2>4, <2>5 DEF ProcessSelfMessage
<1>CheckSendEchoTypeOK.
    ASSUME TypeOK, NEW p \in Correct, CheckSendEcho(p), UNCHANGED Coord
    PROVE  TypeOK'
  <2> USE <1>CheckSendEchoTypeOK
  <2>1. pc' \in [Correct -> {"recv", "echo", "decide"}]
    BY Zenon DEF CheckSendEcho, TypeOK, LoopTypes
  <2>2. CASE decided[p] \/ sentEcho[p] \/ validatedInitHashes[p] = {}
    BY Zenon, <2>1, <2>2 DEF CheckSendEcho, TypeOK, NetTypes, CountTypes, LoopTypes, DecisionTypes, decVars, recVars
  <2>3. CASE ~ (decided[p] \/ sentEcho[p] \/ validatedInitHashes[p] = {})
    <3>1. PICK h \in validatedInitHashes[p] :
             /\ sent' = [sent EXCEPT ![h] = @ \cup {p}]
             /\ SelfMessages' = [SelfMessages EXCEPT ![p] =
                                    Append(@, [kind |-> "echo", hash |-> h])]
      BY Zenon, <2>3 DEF CheckSendEcho
    <3>2. h \in Hash
      BY DEF TypeOK, LoopTypes
    <3>3. sent' \in [Hash -> SUBSET Correct]
      BY <3>1, <3>2 DEF TypeOK, NetTypes
    <3>4. SelfMessages' \in [Correct -> Seq(Messages)]
      <4>1. [kind |-> "echo", hash |-> h] \in Messages
        BY <3>2 DEF Messages
      <4>2. Append(SelfMessages[p], [kind |-> "echo", hash |-> h]) \in Seq(Messages)
        BY <4>1 DEF TypeOK, LoopTypes
      <4> QED BY <3>1, <4>2, Zenon DEF TypeOK, LoopTypes
    <3>5. sentEcho' \in [Correct -> BOOLEAN]
      BY Zenon, <2>3 DEF CheckSendEcho, TypeOK, LoopTypes
    <3> QED BY <2>1, <3>3, <3>4, <3>5 DEF CheckSendEcho, TypeOK, NetTypes, CountTypes, LoopTypes, DecisionTypes, decVars, recVars
  <2> QED BY <2>2, <2>3
<1>DecideTypeOK.
    ASSUME TypeOK, NEW p \in Correct, Decide(p), UNCHANGED Coord
    PROVE  TypeOK'
  <2> USE <1>DecideTypeOK
  <2>1. panicked' \in [Correct -> BOOLEAN]
    BY Zenon DEF Decide, TypeOK, DecisionTypes
  <2>2. decided' \in [Correct -> BOOLEAN]
    <3>1. \/ UNCHANGED decided
          \/ decided' = [decided EXCEPT ![p] = supportedEchoHash[p] \in validatedInitHashes[p]]
      BY Zenon DEF Decide, decVars
    <3>2. (supportedEchoHash[p] \in validatedInitHashes[p]) \in BOOLEAN
      OBVIOUS
    <3>3. PICK v \in BOOLEAN : UNCHANGED decided \/ decided' = [decided EXCEPT ![p] = v]
      BY <3>1, <3>2, Zenon
    <3>4. decided \in [Correct -> BOOLEAN]
      BY DEF TypeOK, DecisionTypes
    <3> QED BY <3>3, <3>4
  <2>3. decisionHash' \in [Correct -> Hash \cup {Nil}]
    <3>1. supportedEchoHash[p] \in Hash \cup {Nil}
      BY DEF TypeOK, CountTypes
    <3>2. \/ UNCHANGED decisionHash
          \/ decisionHash' = [decisionHash EXCEPT ![p] = supportedEchoHash[p]]
      BY Zenon DEF Decide, decVars
    <3> QED BY Zenon, <3>1, <3>2 DEF TypeOK, DecisionTypes
  <2>4. requestRecoverTimer' \in [Correct -> {"nil", "running", "fired"}]
    <3>1. \/ UNCHANGED requestRecoverTimer
          \/ \E v \in {"nil", "running", "fired"} :
                requestRecoverTimer' = [requestRecoverTimer EXCEPT ![p] = v]
      BY Zenon DEF Decide, TypeOK, DecisionTypes
    <3> QED BY Zenon, <3>1 DEF TypeOK, DecisionTypes
  <2>5. pc' \in [Correct -> {"recv", "echo", "decide"}]
    BY Zenon DEF Decide, TypeOK, LoopTypes
  <2> QED BY <2>1, <2>2, <2>3, <2>4, <2>5 DEF Decide, TypeOK, NetTypes, CountTypes, LoopTypes, DecisionTypes, netVars
<1>RecoverTimeoutTypeOK.
    ASSUME TypeOK, TimerStarted, NEW p \in Correct, RecoverTimeout(p), UNCHANGED Coord
    PROVE  TypeOK'
  <2> USE <1>RecoverTimeoutTypeOK
  <2>1. decisionHash[p] \in Hash
    BY DEF RecoverTimeout, TimerStarted, TypeOK, DecisionTypes
  <2>2. requests' \subseteq Requests
    BY <2>1 DEF RecoverTimeout, TypeOK, NetTypes, Requests
  <2> QED BY Zenon, <2>2 DEF RecoverTimeout, TypeOK, NetTypes, CountTypes, LoopTypes, DecisionTypes, decVars
<1>GotRequestRecoverTypeOK.
    ASSUME TypeOK, NEW p \in Correct, NEW r \in requests, GotRequestRecover(p, r), UNCHANGED Coord
    PROVE  TypeOK'
  <2> USE <1>GotRequestRecoverTypeOK
  <2>1. /\ recovers' \subseteq [to : Correct, hash : Hash]
        /\ requestedRecover' \in [Correct -> SUBSET Requests]
    BY Zenon, <1>SendRecoverTypeOK DEF GotRequestRecover, TypeOK, NetTypes, DecisionTypes
  <2> QED BY Zenon, <2>1 DEF GotRequestRecover, TypeOK, NetTypes, CountTypes, LoopTypes, DecisionTypes, decVars
<1> SUFFICES ASSUME TypeOK, TimerStarted, [Next]_vars PROVE TypeOK'
  OBVIOUS
<1>1. CASE UNCHANGED vars
  BY Zenon, <1>1 DEF TypeOK, NetTypes, CountTypes, LoopTypes, DecisionTypes, vars
<1>2. CASE Next
  <2>1. UNCHANGED Coord
    BY <1>2 DEF Next
  <2>2. PICK p \in Correct : GotMsg(p) \/ MainLoop(p)
    BY <1>2 DEF Next
  <2>3. CASE GotMsg(p)
    BY Zenon, <2>1, <2>3, <1>StoreMsgTypeOK, <1>UpdateTypeOK, <1>StoreInitTypeOK DEF GotMsg, RecvInit, RecvRecover
  <2>4. CASE MainLoop(p)
    <3>1. CASE \E h \in Hash : GotProposal(p, h) \/ ProcessInit(p, h)
      BY <2>1, <3>1, <1>GotProposalTypeOK, <1>ProcessInitTypeOK
    <3>2. CASE ProcessMessage(p) \/ ProcessSelfMessage(p)
      BY <2>1, <3>2, <1>ProcessMessageTypeOK, <1>ProcessSelfMessageTypeOK
    <3>3. CASE checkProgress(p)
      BY <2>1, <3>3, <1>CheckSendEchoTypeOK, <1>DecideTypeOK DEF checkProgress
    <3>4. CASE RecoverTimeout(p)
      BY <2>1, <3>4, <1>RecoverTimeoutTypeOK
    <3>5. CASE \E r \in requests : GotRequestRecover(p, r)
      BY <2>1, <3>5, <1>GotRequestRecoverTypeOK
    <3> QED BY <2>4, <3>1, <3>2, <3>3, <3>4, <3>5 DEF MainLoop
  <2> QED BY <2>2, <2>3, <2>4
<1> QED BY <1>1, <1>2

-----------------------------------------------------------------------------
(* The inductive invariant behind agreement.                               *)
\* A correct node echoes one hash, of an init message it has validated.
OneEcho ==
    /\ \A p \in Correct, g, h \in Hash : p \in sent[g] /\ p \in sent[h] => g = h
    /\ \A p \in Correct, h \in Hash : p \in sent[h] => sentEcho[p] /\ h \in validatedInitHashes[p]

\* What a node has stored was sent, or comes from a faulty member; the counts that its threads
\* carry and its supported hash rest on what it has stored.
StoredSent == \A p \in Correct, h \in Hash : SigMap[p][h] \subseteq Signers(h)

CountsStored ==
    \A p \in Correct : \A d \in storing[p] : d.NewTotalSigCount <= Cardinality(SigMap[p][d.hash])

SupportStored ==
    \A p \in Correct :
        supportedEchoHash[p] # Nil => Cardinality(SigMap[p][supportedEchoHash[p]]) >= nmt

\* A node's own echoes are broadcast to the others too.
OwnSent ==
    \A p \in Correct : \A i \in 1..Len(SelfMessages[p]) :
        SelfMessages[p][i].kind = "echo" => p \in sent[SelfMessages[p][i].hash]

\* What is decided is supported.
DecisionSupported == \A p \in Correct : decisionHash[p] \in {Nil, supportedEchoHash[p]}

SafeInv == /\ TypeOK
           /\ TimerStarted
           /\ OneEcho
           /\ StoredSent
           /\ CountsStored
           /\ SupportStored
           /\ OwnSent
           /\ DecisionSupported
           /\ NoPanic

\* The parts of the type invariant, for the steps that need one of them.
LEMMA SafeTypes == SafeInv => NetTypes /\ CountTypes /\ LoopTypes /\ DecisionTypes
BY Zenon DEF SafeInv, TypeOK

\* n-t echoes are there for one hash only.
LEMMA OneQuorum ==
    ASSUME TypeOK, OneEcho, NEW g \in Hash, NEW h \in Hash,
           NEW A \in SUBSET Signers(g), NEW B \in SUBSET Signers(h),
           Cardinality(A) >= nmt, Cardinality(B) >= nmt
    PROVE  g = h
<1>1. A \in SUBSET Members /\ B \in SUBSET Members
  BY CorrectMembers DEF TypeOK, NetTypes, Signers
<1>2. PICK q \in Correct : q \in A /\ q \in B
  BY <1>1, QuorumsMeet
<1>3. q \in sent[g] /\ q \in sent[h]
  BY <1>2 DEF Signers, Correct
<1> QED BY <1>3 DEF OneEcho

\* Stored signatures are never dropped, so that what was counted stays counted.
MoreStored == \A q \in Correct, g \in Hash : SigMap[q][g] \subseteq SigMap'[q][g]

\* Adding signatures raises the counts of echoes.
LEMMA MoreCounted ==
    ASSUME TypeOK, TypeOK', MoreStored
    PROVE  \A q \in Correct, g \in Hash :
               /\ Cardinality(SigMap[q][g]) \in 0..GetMemberCount
               /\ Cardinality(SigMap'[q][g]) \in 0..GetMemberCount
               /\ Cardinality(SigMap[q][g]) <= Cardinality(SigMap'[q][g])
<1> TAKE q \in Correct, g \in Hash
<1>1. SigMap'[q][g] \in SUBSET Members
  BY DEF TypeOK, CountTypes
<1>2. SigMap[q][g] \in SUBSET SigMap'[q][g]
  BY DEF MoreStored
<1> QED BY <1>1, <1>2, CountSubset

\* A supported hash keeps the echoes that made it so: echoes are only added.
LEMMA KeepsSupport ==
    ASSUME TypeOK, TypeOK', MoreStored, SupportStored, NEW q \in Correct, supportedEchoHash[q] # Nil
    PROVE  Cardinality(SigMap'[q][supportedEchoHash[q]]) >= nmt
<1>1. supportedEchoHash[q] \in Hash /\ Cardinality(SigMap[q][supportedEchoHash[q]]) >= nmt
  BY DEF SupportStored, TypeOK, CountTypes
<1> QED BY <1>1, MoreCounted, MemberCounts

\* Updating the supported hash from a count that what is stored bears out: no conflict arises.
LEMMA UpdateSupportedSafe ==
    ASSUME TypeOK, TypeOK', OneEcho, SupportStored, DecisionSupported, NoPanic, MoreStored,
           StoredSent', UNCHANGED <<sent, decisionHash>>, NEW p \in Correct,
           NEW d \in [hash : Hash, NewTotalSigCount : 0..GetMemberCount],
           d.NewTotalSigCount <= Cardinality(SigMap'[p][d.hash]), UpdateSupported(p, d)
    PROVE  /\ SupportStored' /\ DecisionSupported' /\ NoPanic'
           /\ \A q \in Correct : supportedEchoHash'[q] \in {supportedEchoHash[q], d.hash}
           /\ EnoughEchos(d) => supportedEchoHash'[p] = d.hash
           /\ \A q \in Correct : supportedEchoHash[q] # Nil
                                    => supportedEchoHash'[q] = supportedEchoHash[q]
           /\ \A q \in Correct \ {p} : supportedEchoHash'[q] = supportedEchoHash[q]
<1> DEFINE s == supportedEchoHash[p]
<1>1. Cardinality(SigMap'[p][d.hash]) \in Int /\ d.NewTotalSigCount \in Int /\ nmt \in Int
  BY MoreCounted, MemberCounts
<1>2. ASSUME EnoughEchos(d), s # Nil PROVE s = d.hash
  <2>1. s \in Hash /\ Cardinality(SigMap'[p][s]) >= nmt
    BY <1>2, KeepsSupport DEF TypeOK, CountTypes
  <2>2. Cardinality(SigMap'[p][d.hash]) >= nmt
    BY <1>1, <1>2 DEF EnoughEchos
  <2>3. SigMap'[p][s] \in SUBSET Signers(s) /\ SigMap'[p][d.hash] \in SUBSET Signers(d.hash)
    BY Zenon, <2>1 DEF StoredSent, Signers
  <2> QED BY <2>1, <2>2, <2>3, OneQuorum
<1>3. ~ (EnoughEchos(d) /\ s \notin {Nil, d.hash})
  BY <1>2
<1>4. /\ panicked' = [panicked EXCEPT ![p] = @ \/ FALSE]
      /\ supportedEchoHash' = [supportedEchoHash EXCEPT ![p] = IF EnoughEchos(d) THEN d.hash ELSE @]
  BY <1>3, Zenon DEF UpdateSupported
<1>5. NoPanic'
  BY <1>4 DEF NoPanic, TypeOK, DecisionTypes
<1>6. \A q \in Correct : supportedEchoHash'[q] =
          IF q = p /\ EnoughEchos(d) THEN d.hash ELSE supportedEchoHash[q]
  BY <1>4 DEF TypeOK, CountTypes
<1>7. SupportStored'
  <2> SUFFICES ASSUME NEW q \in Correct, supportedEchoHash'[q] # Nil
               PROVE  Cardinality(SigMap'[q][supportedEchoHash'[q]]) >= nmt
    BY DEF SupportStored
  <2>1. CASE q = p /\ EnoughEchos(d)
    BY <1>1, <1>6, <2>1 DEF EnoughEchos
  <2>2. CASE ~ (q = p /\ EnoughEchos(d))
    BY <1>6, <2>2, KeepsSupport
  <2> QED BY <2>1, <2>2
<1>8. DecisionSupported'
  BY <1>2, <1>6 DEF DecisionSupported
<1> QED BY <1>2, <1>5, <1>6, <1>7, <1>8

\* The elements of a tail are elements of the sequence.
LEMMA TailElement ==
    ASSUME NEW S, NEW s \in Seq(S), s # <<>>, NEW i \in 1..Len(Tail(s))
    PROVE  i + 1 \in 1..Len(s) /\ Tail(s)[i] = s[i + 1]
OBVIOUS

\* Sending the echo: what the step does when it sends one.
SendsEcho(p, h) ==
    /\ ~ decided[p] /\ ~ sentEcho[p]
    /\ sent' = [sent EXCEPT ![h] = @ \cup {p}]
    /\ SelfMessages' = [SelfMessages EXCEPT ![p] = Append(@, [kind |-> "echo", hash |-> h])]
    /\ sentEcho' = [sentEcho EXCEPT ![p] = TRUE]

\* checkProgress sends no echo, or one for a validated init.
LEMMA CheckSendEchoCases ==
    ASSUME NEW p \in Correct, CheckSendEcho(p)
    PROVE  \/ /\ decided[p] \/ sentEcho[p] \/ validatedInitHashes[p] = {}
              /\ UNCHANGED <<sent, SelfMessages, sentEcho>>
           \/ \E h \in validatedInitHashes[p] : SendsEcho(p, h)
BY Zenon DEF CheckSendEcho, SendsEcho

\* Deciding: the supported hash never differs from one that was decided before.
Decides(p, h) ==
    /\ h # Nil /\ decisionHash[p] \in {Nil, h}
    /\ decisionHash' = [decisionHash EXCEPT ![p] = h]
    /\ decided' = [decided EXCEPT ![p] = h \in validatedInitHashes[p]]
    /\ requestRecoverTimer' = [requestRecoverTimer EXCEPT ![p] =
         IF h \notin validatedInitHashes[p] /\ @ = "nil" THEN "running" ELSE @]

\* checkProgress decides nothing, or the supported hash, and does not panic.
LEMMA DecideCases ==
    ASSUME SafeInv, NEW p \in Correct, Decide(p)
    PROVE  /\ NoPanic'
           /\ \/ supportedEchoHash[p] = Nil /\ UNCHANGED <<decisionHash, decided, requestRecoverTimer>>
              \/ Decides(p, supportedEchoHash[p])
<1> DEFINE h == supportedEchoHash[p]
<1>1. decisionHash[p] \in {Nil, h}
  BY DEF SafeInv, DecisionSupported
<1>2. panicked' = [panicked EXCEPT ![p] = @ \/ FALSE]
  BY <1>1, Zenon DEF Decide
<1>3. NoPanic'
  BY <1>2 DEF SafeInv, NoPanic, TypeOK, DecisionTypes
<1>4. \/ h = Nil /\ UNCHANGED <<decVars, requestRecoverTimer>>
      \/ Decides(p, h)
  BY <1>1, Zenon DEF Decide, Decides
<1> QED BY <1>3, <1>4 DEF decVars

\* SafeInv holds throughout: an echo is sent once and only for a validated init message, and every
\* count, supported hash and decision of GotMsg and checkProgress rests on stored echoes.
THEOREM Safety == Spec => []SafeInv
<1>InitTypeOK. Init => TypeOK
  BY MemberCounts, BroadcastAssumption DEF Init, TypeOK, NetTypes, CountTypes, LoopTypes, DecisionTypes, Messages, Requests
<1>InitSafe. Init => SafeInv
  <2> SUFFICES ASSUME Init PROVE SafeInv
    OBVIOUS
  <2>1. TypeOK
    BY <1>InitTypeOK
  <2>2. TimerStarted /\ DecisionSupported /\ SupportStored
    BY DEF Init, TimerStarted, DecisionSupported, SupportStored
  <2>3. OneEcho /\ StoredSent
    BY DEF Init, OneEcho, StoredSent, Signers
  <2>4. CountsStored /\ OwnSent /\ NoPanic
    BY DEF Init, CountsStored, OwnSent, NoPanic
  <2> QED BY <2>1, <2>2, <2>3, <2>4 DEF SafeInv
  \* Counts and support, when signatures are added and no support changes.
<1>KeepsCounts.
    ASSUME TypeOK, TypeOK', MoreStored, CountsStored, NEW q \in Correct, NEW d \in storing[q]
    PROVE  d.NewTotalSigCount <= Cardinality(SigMap'[q][d.hash])
  <2> USE <1>KeepsCounts
  <2>1. d.hash \in Hash /\ d.NewTotalSigCount \in Int
    BY MemberCounts DEF TypeOK, CountTypes
  <2>2. d.NewTotalSigCount <= Cardinality(SigMap[q][d.hash])
    BY DEF CountsStored
  <2>3. Cardinality(SigMap[q][d.hash]) <= Cardinality(SigMap'[q][d.hash])
    BY <2>1, MoreCounted
  <2>4. Cardinality(SigMap[q][d.hash]) \in Int /\ Cardinality(SigMap'[q][d.hash]) \in Int
    BY <2>1, MoreCounted, MemberCounts
  <2> QED BY <2>1, <2>2, <2>3, <2>4
<1>StoreMsgSafe.
    ASSUME SafeInv, TypeOK', NEW p \in Correct, NEW h \in Hash, NEW S \in SUBSET Signers(h),
           StoreMsg(p, h, S), UNCHANGED Coord
    PROVE  SafeInv'
  <2> USE <1>StoreMsgSafe
  <2> USE DEF SafeInv
  <2>2. TimerStarted' /\ DecisionSupported' /\ OneEcho' /\ OwnSent' /\ NoPanic'
    BY Zenon DEF StoreMsg, netVars, decVars, recVars, TimerStarted, DecisionSupported, OneEcho, OwnSent, NoPanic
  <2>3. /\ SigMap'[p][h] = SigMap[p][h] \cup S
        /\ \A q \in Correct, g \in Hash : (q # p \/ g # h) => SigMap'[q][g] = SigMap[q][g]
    BY DEF StoreMsg, TypeOK, CountTypes
  <2>4. MoreStored
    BY <2>3 DEF MoreStored
  <2>5. StoredSent'
    BY <2>3 DEF StoreMsg, StoredSent, Signers, netVars
  <2>6. SupportStored'
    BY Zenon, <2>4, KeepsSupport DEF StoreMsg, SupportStored
  <2>7. CountsStored'
    <3> SUFFICES ASSUME NEW q \in Correct, NEW d \in storing'[q]
                 PROVE  d.NewTotalSigCount <= Cardinality(SigMap'[q][d.hash])
      BY DEF CountsStored
    <3>1. CASE d \in storing[q]
      BY <2>4, <3>1, <1>KeepsCounts
    <3>2. CASE d \notin storing[q]
      <4>1. q = p /\ d = [hash |-> h, NewTotalSigCount |-> Cardinality(SigMap[p][h] \cup S)]
        BY <3>2 DEF StoreMsg, TypeOK, CountTypes
      <4>2. d.hash = h /\ d.NewTotalSigCount = Cardinality(SigMap'[p][h])
        BY <2>3, <4>1
      <4>3. Cardinality(SigMap'[p][h]) \in Int
        BY <2>4, MoreCounted, MemberCounts
      <4> QED BY <4>1, <4>2, <4>3
    <3> QED BY <3>1, <3>2
  <2> QED BY <2>2, <2>5, <2>6, <2>7
<1>UpdateSafe.
    ASSUME SafeInv, TypeOK', NEW p \in Correct, NEW d \in storing[p], Update(p, d), UNCHANGED Coord
    PROVE  SafeInv'
  <2> USE <1>UpdateSafe
  <2> USE DEF SafeInv
  <2>2. TimerStarted' /\ OneEcho' /\ OwnSent' /\ StoredSent' /\ MoreStored
    BY Zenon DEF Update, netVars, decVars, recVars, TimerStarted, OneEcho, OwnSent, StoredSent, MoreStored, Signers
  <2>3. CountsStored'
    BY Zenon DEF Update, CountsStored, TypeOK, CountTypes
  <2>4. /\ d \in [hash : Hash, NewTotalSigCount : 0..GetMemberCount]
        /\ d.NewTotalSigCount <= Cardinality(SigMap'[p][d.hash])
    BY Zenon DEF Update, CountsStored, TypeOK, CountTypes
  <2>5. SupportStored' /\ DecisionSupported' /\ NoPanic'
    BY Zenon, <2>2, <2>4, UpdateSupportedSafe DEF Update, netVars, decVars
  <2> QED BY <2>2, <2>3, <2>5
  \* The steps that touch neither echoes nor decisions.
<1>OtherSafe.
    ASSUME SafeInv, TypeOK', TimerStarted', OwnSent',
           UNCHANGED <<sent, SigMap, supportedEchoHash, storing, sentEcho, decisionHash, panicked>>,
           \A p \in Correct : validatedInitHashes[p] \subseteq validatedInitHashes'[p]
    PROVE  SafeInv'
  BY Zenon, <1>OtherSafe DEF SafeInv, OneEcho, StoredSent, CountsStored, SupportStored, DecisionSupported, NoPanic, Signers
<1>StoreInitSafe.
    ASSUME SafeInv, TypeOK', NEW p \in Correct, NEW h \in Hash, StoreInit(p, h), UNCHANGED Coord
    PROVE  SafeInv'
  <2> USE <1>StoreInitSafe
  <2>2. TimerStarted' /\ OwnSent'
    BY Zenon DEF SafeInv, StoreInit, netVars, decVars, recVars, TimerStarted, OwnSent
  <2> QED BY <2>2, <1>OtherSafe DEF StoreInit, netVars, decVars
<1>GotProposalSafe.
    ASSUME SafeInv, TypeOK', NEW p \in Correct, NEW h \in Hash, GotProposal(p, h), UNCHANGED Coord
    PROVE  SafeInv'
  <2> USE <1>GotProposalSafe
  <2> USE DEF SafeInv
  <2>2. TimerStarted'
    BY DEF GotProposal, decVars, recVars, TimerStarted
  <2>3. OwnSent'
    <3> SUFFICES ASSUME NEW q \in Correct, NEW i \in 1..Len(SelfMessages'[q]),
                        SelfMessages'[q][i].kind = "echo"
                 PROVE  q \in sent[SelfMessages'[q][i].hash]
      BY Zenon DEF GotProposal, OwnSent
    <3>1. CASE q = p
      <4>1. SelfMessages[p] \in Seq(Messages)
        BY Zenon DEF TypeOK, LoopTypes
      <4>2. SelfMessages'[p] = Append(SelfMessages[p], InitItem(h))
        BY Zenon DEF GotProposal, TypeOK, LoopTypes
      <4>3. i \in 1..Len(SelfMessages[p]) /\ SelfMessages'[p][i] = SelfMessages[p][i]
        BY <3>1, <4>1, <4>2 DEF InitItem
      <4> QED BY <3>1, <4>3 DEF OwnSent
    <3>2. CASE q # p
      BY <3>2 DEF GotProposal, TypeOK, OwnSent
    <3> QED BY <3>1, <3>2
  <2> QED BY Zenon, <2>2, <2>3, <1>OtherSafe DEF GotProposal, decVars
<1>ProcessInitSafe.
    ASSUME SafeInv, TypeOK', NEW p \in Correct, NEW h \in Hash, ProcessInit(p, h), UNCHANGED Coord
    PROVE  SafeInv'
  <2> USE <1>ProcessInitSafe
  <2> USE DEF SafeInv
  <2>2. TimerStarted' /\ OwnSent'
    BY Zenon DEF ProcessInit, decVars, TimerStarted, OwnSent
  <2>3. \A q \in Correct : validatedInitHashes[q] \subseteq validatedInitHashes'[q]
    BY DEF ProcessInit, ValidateInit, TypeOK, LoopTypes
  <2> QED BY Zenon, <2>2, <2>3, <1>OtherSafe DEF ProcessInit, decVars
<1>ProcessMessageSafe.
    ASSUME SafeInv, TypeOK', NEW p \in Correct, ProcessMessage(p), UNCHANGED Coord
    PROVE  SafeInv'
  <2> USE <1>ProcessMessageSafe
  <2>2. TimerStarted' /\ OwnSent'
    BY Zenon DEF SafeInv, ProcessMessage, netVars, decVars, recVars, TimerStarted, OwnSent
  <2> QED BY <2>2, <1>OtherSafe DEF ProcessMessage, netVars, decVars
  \* Taking the first of a node's own messages leaves the others.
<1>OwnSentTail.
    ASSUME TypeOK, OwnSent, UNCHANGED sent, NEW p \in Correct, SelfMessages[p] # <<>>,
           SelfMessages' = [SelfMessages EXCEPT ![p] = Tail(@)]
    PROVE  /\ OwnSent'
           /\ Head(SelfMessages[p]).kind = "echo" => p \in sent[Head(SelfMessages[p]).hash]
  <2> USE <1>OwnSentTail
  <2>1. SelfMessages[p] \in Seq(Messages)
    BY DEF TypeOK, LoopTypes
  <2>2. /\ Len(SelfMessages[p]) \in Nat \ {0}
        /\ Head(SelfMessages[p]) = SelfMessages[p][1]
    BY <2>1
  <2>3. Head(SelfMessages[p]).kind = "echo" => p \in sent[Head(SelfMessages[p]).hash]
    BY <2>2 DEF OwnSent
  <2>4. OwnSent'
    <3> SUFFICES ASSUME NEW q \in Correct, NEW i \in 1..Len(SelfMessages'[q]),
                        SelfMessages'[q][i].kind = "echo"
                 PROVE  q \in sent[SelfMessages'[q][i].hash]
      BY Zenon DEF OwnSent
    <3>1. CASE q = p
      <4>1. SelfMessages'[p] = Tail(SelfMessages[p])
        BY DEF TypeOK, LoopTypes
      <4>2. i + 1 \in 1..Len(SelfMessages[p]) /\ SelfMessages'[p][i] = SelfMessages[p][i + 1]
        BY Zenon, <2>1, <3>1, <4>1, TailElement
      <4> QED BY Zenon, <3>1, <4>2 DEF OwnSent
    <3>2. CASE q # p
      BY Zenon, <3>2 DEF TypeOK, LoopTypes, OwnSent
    <3> QED BY Zenon, <3>1, <3>2
  <2> QED BY <2>3, <2>4
<1>ProcessSelfMessageSafe.
    ASSUME SafeInv, TypeOK', NEW p \in Correct, ProcessSelfMessage(p), UNCHANGED Coord
    PROVE  SafeInv'
  <2> USE <1>ProcessSelfMessageSafe
  <2> USE DEF SafeInv
  <2> DEFINE m == Head(SelfMessages[p])
             d == [hash |-> m.hash, NewTotalSigCount |-> Cardinality(SigMap[p][m.hash] \cup {p})]
  <2>2. m.hash \in Hash
    BY Zenon, OwnMessage DEF ProcessSelfMessage, Messages
  <2>3. OwnSent' /\ (m.kind = "echo" => p \in sent[m.hash])
    BY Zenon, <1>OwnSentTail DEF ProcessSelfMessage
  <2>4. TimerStarted'
    BY Zenon DEF ProcessSelfMessage, decVars, TimerStarted
  <2>5. CASE m.kind = "init" \/ p \in SigMap[p][m.hash]
    <3>1. \/ ValidateInit(p, m.hash) /\ UNCHANGED <<SigMap, supportedEchoHash, panicked>>
          \/ UNCHANGED <<SigMap, supportedEchoHash, panicked, validatedInitHashes>>
      BY Zenon, <2>5 DEF ProcessSelfMessage
    <3>2. \A q \in Correct : validatedInitHashes[q] \subseteq validatedInitHashes'[q]
      <4>1. \/ validatedInitHashes' = validatedInitHashes
            \/ validatedInitHashes' = [validatedInitHashes EXCEPT ![p] = @ \cup {m.hash}]
        BY <3>1 DEF ValidateInit
      <4>2. validatedInitHashes \in [Correct -> SUBSET Hash]
        BY Zenon DEF TypeOK, LoopTypes
      <4> HIDE DEF m, SafeInv
      <4> QED BY <4>1, <4>2, Zenon
    <3> QED BY Zenon, <2>3, <2>4, <3>1, <3>2, <1>OtherSafe DEF ProcessSelfMessage, decVars
  <2>6. CASE m.kind = "echo" /\ p \notin SigMap[p][m.hash]
    <3> HIDE DEF d
    <3>1. /\ SigMap' = [SigMap EXCEPT ![p][m.hash] = @ \cup {p}]
          /\ UpdateSupported(p, d)
          /\ UNCHANGED validatedInitHashes
      BY Zenon, <2>6 DEF ProcessSelfMessage, d
    <3>2. /\ SigMap'[p][m.hash] = SigMap[p][m.hash] \cup {p}
          /\ \A q \in Correct, g \in Hash : (q # p \/ g # m.hash) => SigMap'[q][g] = SigMap[q][g]
      BY <2>2, <3>1 DEF TypeOK, CountTypes
    <3>3. MoreStored
      BY Zenon, <3>2 DEF MoreStored
    <3>4. UNCHANGED <<sent, sentEcho, decisionHash, storing>>
      BY Zenon DEF ProcessSelfMessage, decVars
    <3>5. OneEcho'
      BY Zenon, <3>1, <3>4 DEF OneEcho
    <3>6. StoredSent'
      BY <2>2, <2>3, <2>6, <3>2, <3>4 DEF StoredSent, Signers
    <3>7. CountsStored'
      BY <3>3, <3>4, <1>KeepsCounts DEF CountsStored
    <3>8. /\ d \in [hash : Hash, NewTotalSigCount : 0..GetMemberCount]
          /\ d.NewTotalSigCount <= Cardinality(SigMap'[p][d.hash])
      <4>1. d.hash = m.hash /\ d.NewTotalSigCount = Cardinality(SigMap'[p][m.hash])
        BY Zenon, <3>2 DEF d
      <4>2. Cardinality(SigMap'[p][m.hash]) \in 0..GetMemberCount
        BY Zenon, <2>2, <3>3, MoreCounted
      <4>3. d = [hash |-> m.hash, NewTotalSigCount |-> Cardinality(SigMap'[p][m.hash])]
        BY Zenon, <3>2 DEF d
      <4> QED BY <2>2, <4>1, <4>2, <4>3, MemberCounts
    <3>9. SupportStored' /\ DecisionSupported' /\ NoPanic'
      BY Zenon, <3>1, <3>3, <3>4, <3>6, <3>8, UpdateSupportedSafe
    <3> QED BY <2>3, <2>4, <3>5, <3>6, <3>7, <3>9
  <2> QED BY Zenon, <2>5, <2>6 DEF ProcessSelfMessage
<1>CheckSendEchoSafe.
    ASSUME SafeInv, TypeOK', NEW p \in Correct, CheckSendEcho(p), UNCHANGED Coord
    PROVE  SafeInv'
  <2> USE <1>CheckSendEchoSafe
  <2> USE DEF SafeInv
  <2>2. TimerStarted'
    BY Zenon DEF CheckSendEcho, decVars, recVars, TimerStarted
  <2>3. CASE UNCHANGED <<sent, SelfMessages, sentEcho>>
    <3>1. OwnSent'
      BY <2>3 DEF OwnSent
    <3> QED BY Zenon, <2>2, <2>3, <3>1, <1>OtherSafe DEF CheckSendEcho, decVars
  <2>4. ASSUME NEW h \in validatedInitHashes[p], SendsEcho(p, h)
        PROVE  SafeInv'
    <3>1. h \in Hash /\ \A g \in Hash : p \notin sent[g]
      BY <2>4 DEF TypeOK, NetTypes, OneEcho, SendsEcho
    <3>2. \A g \in Hash : sent'[g] = IF g = h THEN sent[g] \cup {p} ELSE sent[g]
      BY Zenon, <2>4, <3>1 DEF TypeOK, NetTypes, SendsEcho
    <3>3. OneEcho'
      BY <2>4, <3>1, <3>2 DEF OneEcho, CheckSendEcho, SendsEcho, TypeOK, LoopTypes
    <3>4. StoredSent'
      BY Zenon, <3>2 DEF StoredSent, Signers, CheckSendEcho
    <3>5. OwnSent'
      <4> SUFFICES ASSUME NEW q \in Correct, NEW i \in 1..Len(SelfMessages'[q]),
                          SelfMessages'[q][i].kind = "echo"
                   PROVE  q \in sent'[SelfMessages'[q][i].hash]
        BY Zenon DEF OwnSent
      <4>1. ASSUME NEW r \in Correct, NEW j \in 1..Len(SelfMessages[r]),
                   SelfMessages[r][j].kind = "echo"
            PROVE  r \in sent'[SelfMessages[r][j].hash]
        <5>1. SelfMessages[r] \in Seq(Messages)
          BY Zenon DEF TypeOK, LoopTypes
        <5>2. SelfMessages[r][j] \in Messages
          BY <5>1
        <5>3. SelfMessages[r][j].hash \in Hash
          BY <5>2 DEF Messages
        <5> QED BY Zenon, <4>1, <5>3, <3>2 DEF OwnSent
      <4>2. CASE q = p
        <5>1. SelfMessages[p] \in Seq(Messages)
          BY DEF TypeOK, LoopTypes
        <5>2. SelfMessages'[p] = Append(SelfMessages[p], [kind |-> "echo", hash |-> h])
          BY <2>4 DEF SendsEcho, TypeOK, LoopTypes
        <5>3. CASE i \in 1..Len(SelfMessages[p])
          BY <4>1, <4>2, <5>1, <5>2, <5>3
        <5>4. CASE i = Len(SelfMessages[p]) + 1
          <6>1. SelfMessages'[p][i] = [kind |-> "echo", hash |-> h]
            BY <5>1, <5>2, <5>4
          <6>2. SelfMessages'[q][i].hash = h
            BY <4>2, <6>1
          <6> QED BY Zenon, <4>2, <6>2, <3>1, <3>2
        <5> QED BY <4>2, <5>1, <5>2, <5>3, <5>4
      <4>3. CASE q # p
        <5>1. SelfMessages'[q] = SelfMessages[q]
          BY <2>4, <4>3 DEF SendsEcho, TypeOK, LoopTypes
        <5> QED BY <4>1, <5>1
      <4> QED BY <4>2, <4>3
    <3>6. CountsStored' /\ SupportStored' /\ DecisionSupported' /\ NoPanic'
      BY Zenon DEF CheckSendEcho, decVars, CountsStored, SupportStored, DecisionSupported, NoPanic
    <3> QED BY <2>2, <3>3, <3>4, <3>5, <3>6
  <2> QED BY <2>3, <2>4, CheckSendEchoCases
<1>DecideSafe.
    ASSUME SafeInv, TypeOK', NEW p \in Correct, Decide(p), UNCHANGED Coord
    PROVE  SafeInv'
  <2> USE <1>DecideSafe
  <2> USE DEF SafeInv
  <2>2. OneEcho' /\ StoredSent' /\ CountsStored' /\ SupportStored' /\ OwnSent'
    BY Zenon DEF Decide, netVars, OneEcho, StoredSent, CountsStored, SupportStored, OwnSent, Signers
  <2>3. NoPanic'
    BY DecideCases
  <2>4. UNCHANGED supportedEchoHash
    BY DEF Decide
  <2>5. CASE UNCHANGED <<decisionHash, decided, requestRecoverTimer>>
    <3>1. DecisionSupported' /\ TimerStarted'
      BY <2>4, <2>5 DEF DecisionSupported, TimerStarted
    <3> QED BY <2>2, <2>3, <3>1
  <2>6. CASE Decides(p, supportedEchoHash[p])
    <3>1. \A q \in Correct : decisionHash'[q] = IF q = p THEN supportedEchoHash[p] ELSE decisionHash[q]
      BY <2>6 DEF Decides, TypeOK, CountTypes, DecisionTypes
    <3>2. \A q \in Correct \ {p} : requestRecoverTimer'[q] = requestRecoverTimer[q]
      BY <2>6, Zenon DEF Decides, TypeOK, DecisionTypes
    <3>3. DecisionSupported'
      BY <2>4, <3>1 DEF DecisionSupported
    <3>4. TimerStarted'
      BY <2>6, <3>1, <3>2 DEF TimerStarted, Decides
    <3> QED BY <2>2, <2>3, <3>3, <3>4
  <2> QED BY <2>5, <2>6, DecideCases
<1>RecoverTimeoutSafe.
    ASSUME SafeInv, TypeOK', NEW p \in Correct, RecoverTimeout(p), UNCHANGED Coord
    PROVE  SafeInv'
  <2> USE <1>RecoverTimeoutSafe
  <2> USE DEF SafeInv
  <2>2. TimerStarted' /\ OwnSent'
    BY DEF RecoverTimeout, decVars, TimerStarted, OwnSent, TypeOK
  <2> QED BY Zenon, <2>2, <1>OtherSafe DEF RecoverTimeout, decVars
<1>GotRequestRecoverSafe.
    ASSUME SafeInv, TypeOK', NEW p \in Correct, NEW r \in requests, GotRequestRecover(p, r), UNCHANGED Coord
    PROVE  SafeInv'
  <2> USE <1>GotRequestRecoverSafe
  <2> USE DEF SafeInv
  <2>2. TimerStarted' /\ OwnSent'
    BY Zenon DEF GotRequestRecover, decVars, TimerStarted, OwnSent
  <2> QED BY Zenon, <2>2, <1>OtherSafe DEF GotRequestRecover, decVars
<1>NextSafe. SafeInv /\ [Next]_vars => SafeInv'
  <2> SUFFICES ASSUME SafeInv, [Next]_vars PROVE SafeInv'
    OBVIOUS
  <2> TypeOK'
    BY NextTypeOK DEF SafeInv
  <2>1. CASE UNCHANGED vars
    <3>2. TimerStarted' /\ OwnSent'
      BY Zenon, <2>1 DEF SafeInv, TimerStarted, OwnSent, vars
    <3> QED BY <2>1, <3>2, <1>OtherSafe DEF vars
  <2>2. CASE Next
    <3>1. UNCHANGED Coord
      BY <2>2 DEF Next
    <3>2. PICK p \in Correct : GotMsg(p) \/ MainLoop(p)
      BY <2>2 DEF Next
    <3>3. CASE GotMsg(p)
      BY Zenon, <3>1, <3>3, <1>StoreMsgSafe, <1>UpdateSafe, <1>StoreInitSafe DEF GotMsg, RecvInit, RecvRecover
    <3>4. CASE MainLoop(p)
      <4>1. CASE \E h \in Hash : GotProposal(p, h) \/ ProcessInit(p, h)
        BY <3>1, <4>1, <1>GotProposalSafe, <1>ProcessInitSafe
      <4>2. CASE ProcessMessage(p) \/ ProcessSelfMessage(p)
        BY <3>1, <4>2, <1>ProcessMessageSafe, <1>ProcessSelfMessageSafe
      <4>3. CASE checkProgress(p)
        BY <3>1, <4>3, <1>CheckSendEchoSafe, <1>DecideSafe DEF checkProgress
      <4>4. CASE RecoverTimeout(p)
        BY <3>1, <4>4, <1>RecoverTimeoutSafe
      <4>5. CASE \E r \in requests : GotRequestRecover(p, r)
        BY <3>1, <4>5, <1>GotRequestRecoverSafe
      <4> QED BY <3>4, <4>1, <4>2, <4>3, <4>4, <4>5 DEF MainLoop
    <3> QED BY <3>2, <3>3, <3>4
  <2> QED BY <2>1, <2>2
<1> QED BY <1>InitSafe, <1>NextSafe, PTL DEF Spec

\* Two decided hashes have n-t echoes each.
LEMMA SafeAgreement == SafeInv => Agreement
<1> SUFFICES ASSUME SafeInv, NEW p \in Correct, NEW q \in Correct,
                    decisionHash[p] # Nil, decisionHash[q] # Nil
             PROVE  decisionHash[p] = decisionHash[q]
  BY DEF Agreement
<1> DEFINE g == decisionHash[p]
           h == decisionHash[q]
<1>1. g \in Hash /\ h \in Hash /\ g = supportedEchoHash[p] /\ h = supportedEchoHash[q]
  BY DEF SafeInv, TypeOK, CountTypes, DecisionSupported
<1>2. Cardinality(SigMap[p][g]) >= nmt /\ Cardinality(SigMap[q][h]) >= nmt
  BY <1>1 DEF SafeInv, SupportStored
<1>3. SigMap[p][g] \in SUBSET Signers(g) /\ SigMap[q][h] \in SUBSET Signers(h)
  BY <1>1 DEF SafeInv, StoredSent
<1> QED BY <1>1, <1>2, <1>3, OneQuorum DEF SafeInv

\* No two correct nodes decide different hashes, whatever the faulty members, the coordinator
\* among them, send to whom (GotMsg, checkProgress).
THEOREM AgreementHolds == Spec => []Agreement
BY Safety, SafeAgreement, PTL

\* The panics of GotMsg and checkProgress are never reached.
THEOREM NoPanicHolds == Spec => []NoPanic
<1>1. SafeInv => NoPanic
  BY DEF SafeInv
<1> QED BY <1>1, Safety, PTL

-----------------------------------------------------------------------------
(* Refinement of Consensus.                                                *)
\* The broadcast implements the abstract consensus: a node decides once, a hash that a correct
\* node has validated and echoed, and the one the others decide.
THEOREM Refinement == Spec => ImplementsConsensus
  \* An echo proposes its hash.
<1>EchoRefines.
    ASSUME SafeInv, NEW p \in Correct, CheckSendEcho(p)
    PROVE  C!Propose \/ UNCHANGED <<sent, decisionHash>>
  <2> USE <1>EchoRefines
  <2>1. UNCHANGED decisionHash
    BY DEF CheckSendEcho, decVars
  <2>2. CASE UNCHANGED <<sent, SelfMessages, sentEcho>>
    BY <2>1, <2>2
  <2>3. ASSUME NEW h \in validatedInitHashes[p], SendsEcho(p, h)
        PROVE  C!Propose
    <3>1. h \in Hash
      BY DEF SafeInv, TypeOK, LoopTypes
    <3>2. \A g \in Hash : sent'[g] = IF g = h THEN sent[g] \cup {p} ELSE sent[g]
      BY Zenon, <2>3, <3>1 DEF SafeInv, TypeOK, NetTypes, SendsEcho
    <3>3. {g \in Hash : sent'[g] # {}} = {g \in Hash : sent[g] # {}} \cup {h}
      BY Zenon, <3>1, <3>2
    <3> QED BY Zenon, <2>1, <3>1, <3>3 DEF C!Propose
  <2> QED BY <2>2, <2>3, CheckSendEchoCases
  \* A decision is one of Consensus: of an echoed hash that no other node's decision contradicts.
<1>DecideRefines.
    ASSUME SafeInv, SafeInv', NEW p \in Correct, Decide(p)
    PROVE  (\E h \in Hash : C!Decide(p, h)) \/ UNCHANGED <<sent, decisionHash>>
  <2> USE <1>DecideRefines
  <2> DEFINE h == supportedEchoHash[p]
  <2>1. UNCHANGED sent
    BY DEF Decide, netVars
  <2>2. CASE UNCHANGED <<decisionHash, decided, requestRecoverTimer>>
    BY <2>1, <2>2
  <2>3. CASE Decides(p, h)
    <3>1. h \in Hash /\ h # Nil /\ decisionHash' = [decisionHash EXCEPT ![p] = h]
      BY <2>3 DEF Decides, SafeInv, TypeOK, DecisionTypes
    <3>2. sent[h] # {}
      <4>1. Cardinality(SigMap[p][h]) >= nmt
        BY <3>1 DEF SafeInv, SupportStored
      <4>2. SigMap[p][h] \in SUBSET Signers(h) /\ SigMap[p][h] \in SUBSET Members
        BY <3>1 DEF SafeInv, StoredSent, TypeOK, CountTypes
      <4>3. PICK q \in Correct : q \in SigMap[p][h]
        BY <4>1, <4>2, QuorumsMeet
      <4> QED BY <4>2, <4>3 DEF Signers, Correct
    <3>3. \A q \in Correct : decisionHash[q] \in {Nil, h}
      <4> SUFFICES ASSUME NEW q \in Correct, decisionHash[q] # Nil PROVE decisionHash[q] = h
        OBVIOUS
      <4>1. decisionHash'[p] = h
        BY <3>1, SafeTypes DEF DecisionTypes
      <4>2. CASE q = p
        BY <2>3, <4>2 DEF Decides
      <4>3. CASE q # p
        <5>1. decisionHash'[q] = decisionHash[q]
          BY <3>1, <4>3, SafeTypes DEF DecisionTypes
        <5>2. Agreement'
          BY SafeAgreement, PTL
        <5> QED BY <3>1, <4>1, <5>1, <5>2 DEF Agreement
      <4> QED BY <4>2, <4>3
    <3>4. C!Decide(p, h)
      BY <2>1, <3>1, <3>2, <3>3 DEF C!Decide
    <3> QED BY <3>1, <3>4
  <2> QED BY <2>2, <2>3, DecideCases
  \* All other steps change neither what is echoed nor what is decided.
<1>SilentSteps.
    ASSUME NEW p \in Correct, GotMsg(p) \/ MainLoop(p)
    PROVE  CheckSendEcho(p) \/ Decide(p) \/ UNCHANGED <<sent, decisionHash>>
  <2> USE <1>SilentSteps
  <2>1. CASE GotMsg(p)
    BY Zenon, <2>1 DEF GotMsg, StoreMsg, Update, RecvInit, RecvRecover, StoreInit, netVars, decVars
  <2>2. CASE MainLoop(p)
    BY Zenon, <2>2 DEF MainLoop, checkProgress, GotProposal, ProcessInit, ProcessMessage, ProcessSelfMessage,
                RecoverTimeout, GotRequestRecover, netVars, decVars
  <2> QED BY <2>1, <2>2
<1>InitRefines. Init => C!Init
  BY DEF Init, C!Init
<1>NextRefines.
    SafeInv /\ SafeInv' /\ [Next]_vars => [C!Next]_<<{h \in Hash : sent[h] # {}}, decisionHash>>
  <2> SUFFICES ASSUME SafeInv, SafeInv', [Next]_vars
               PROVE  C!Next \/ UNCHANGED <<{h \in Hash : sent[h] # {}}, decisionHash>>
    OBVIOUS
  <2>1. CASE UNCHANGED vars
    BY <2>1 DEF vars
  <2>2. CASE Next
    <3>1. PICK p \in Correct : GotMsg(p) \/ MainLoop(p)
      BY <2>2 DEF Next
    <3>2. CASE UNCHANGED <<sent, decisionHash>>
      BY <3>2
    <3>3. CASE CheckSendEcho(p)
      BY <3>2, <3>3, <1>EchoRefines DEF C!Next
    <3>4. CASE Decide(p)
      BY <3>2, <3>4, <1>DecideRefines DEF C!Next
    <3> QED BY <3>1, <3>2, <3>3, <3>4, <1>SilentSteps
  <2> QED BY <2>1, <2>2
<1>1. Spec => C!Init
  BY <1>InitRefines DEF Spec
<1> QED BY <1>1, Safety, <1>NextRefines, PTL DEF Spec, ImplementsConsensus, C!Spec

-----------------------------------------------------------------------------
(* The inductive invariant behind reliable broadcast: nothing that a node  *)
(* still has to do is lost between the threads, the main loop and the      *)
(* recovery.                                                               *)
\* n-t stored echoes are supported, or a thread that has counted them is about to see to it.
Settled ==
    \A p \in Correct, h \in Hash :
        Cardinality(SigMap[p][h]) >= nmt =>
            supportedEchoHash[p] = h \/ \E d \in storing[p] : d.hash = h /\ EnoughEchos(d)

\* A node that supports a hash and has not decided it is about to run checkProgress.
Noticed ==
    \A p \in Correct :
        supportedEchoHash[p] # Nil /\ decisionHash[p] = Nil => pc[p] # "recv" \/ Echo \in queue[p]

\* It has decided the value when its init message is here, or is about to; otherwise it waits for
\* the recover timeout or has asked for the init message.
DecidedHere == \A p \in Correct : decided[p] => decisionHash[p] \in validatedInitHashes[p]

InitNoticed ==
    \A p \in Correct : decisionHash[p] \in validatedInitHashes[p] => decided[p] \/ pc[p] # "recv"

InitAwaited ==
    \A p \in Correct :
        decisionHash[p] \notin validatedInitHashes[p] \cup {Nil} =>
            requestRecoverTimer[p] = "running" \/ sentRequestRecover[p]

\* A request is on its way, waits for the init message at the other node, or has been answered.
Asked ==
    \A p \in Correct : sentRequestRecover[p] =>
        /\ decisionHash[p] # Nil
        /\ \A q \in Correct \ {p} :
              \/ [from |-> p, to |-> q, hash |-> decisionHash[p]] \in requests \cup requestedRecover[q]
              \/ [to |-> p, hash |-> decisionHash[p]] \in recovers

Waiting == \A q \in Correct : \A r \in requestedRecover[q] : r.hash \notin validatedInitHashes[q]

\* A correct coordinator sends one init message, and no node knows of another.
OneInit == init # {} => Coord \in Correct /\ \E h \in Hash : init = {h}

FromCoord ==
    Coord \in Correct =>
        /\ \A p \in Correct : /\ validatedInitHashes[p] \subseteq init
                              /\ \A h \in Hash : InitItem(h) \in queue[p] => h \in init
                              /\ \A i \in 1..Len(SelfMessages[p]) :
                                    SelfMessages[p][i].kind = "init" => SelfMessages[p][i].hash \in init
        /\ \A r \in recovers : r.hash \in init

\* A node that has an init message echoes one, unless it decides first.
EchoDue ==
    \A p \in Correct : validatedInitHashes[p] # {} => sentEcho[p] \/ decided[p] \/ pc[p] = "echo"

EchoSent == \A p \in Correct : sentEcho[p] => \E h \in Hash : p \in sent[h]

RestInv == /\ Settled
           /\ Noticed
           /\ DecidedHere
           /\ InitNoticed
           /\ InitAwaited
           /\ Asked
           /\ Waiting
           /\ OneInit
           /\ FromCoord
           /\ EchoDue
           /\ EchoSent

\* RestInv holds throughout: no count, message, init message or request that a node still has to
\* act on is lost between GotMsg, the main loop and the recovery.
THEOREM RestInvariance == Spec => []RestInv
<1>InitRest. Init => RestInv
  <2> SUFFICES ASSUME Init PROVE RestInv
    OBVIOUS
  <2>1. Settled
    <3> SUFFICES ASSUME NEW p \in Correct, NEW h \in Hash, Cardinality(SigMap[p][h]) >= nmt PROVE FALSE
      BY DEF Settled
    <3>1. SigMap[p][h] = {}
      BY DEF Init
    <3> QED BY <3>1, FS_EmptySet, MemberCounts
  <2>2. Noticed /\ DecidedHere /\ InitNoticed /\ InitAwaited /\ EchoDue /\ EchoSent
    BY Zenon, BroadcastAssumption DEF Init, Noticed, DecidedHere, InitNoticed, InitAwaited, EchoDue, EchoSent
  <2>3. Asked /\ Waiting /\ OneInit /\ FromCoord
    BY DEF Init, Asked, Waiting, OneInit, FromCoord
  <2> QED BY <2>1, <2>2, <2>3 DEF RestInv
<1>StoreMsgRest.
    ASSUME SafeInv, SafeInv', RestInv, NEW p \in Correct, NEW h \in Hash, NEW S \in SUBSET Signers(h),
           StoreMsg(p, h, S), UNCHANGED Coord
    PROVE  RestInv'
  <2> USE <1>StoreMsgRest
  <2> USE DEF RestInv
  <2>1. Settled'
    <3> SUFFICES ASSUME NEW q \in Correct, NEW g \in Hash, Cardinality(SigMap'[q][g]) >= nmt
                 PROVE  \/ supportedEchoHash'[q] = g
                        \/ \E d \in storing'[q] : d.hash = g /\ EnoughEchos(d)
      BY DEF Settled
    <3>1. CASE q = p /\ g = h
      <4> DEFINE d == [hash |-> h, NewTotalSigCount |-> Cardinality(SigMap[p][h] \cup S)]
      <4>1. SigMap'[p][h] = SigMap[p][h] \cup S /\ d \in storing'[p]
        BY SafeTypes DEF StoreMsg, CountTypes
      <4>2. d.hash = g /\ EnoughEchos(d)
        BY Zenon, <3>1, <4>1 DEF EnoughEchos
      <4> QED BY Zenon, <3>1, <4>1, <4>2
    <3>2. CASE ~ (q = p /\ g = h)
      <4>1. SigMap'[q][g] = SigMap[q][g] /\ storing[q] \subseteq storing'[q]
        BY <3>2, SafeTypes DEF StoreMsg, CountTypes
      <4>2. UNCHANGED supportedEchoHash
        BY Zenon DEF StoreMsg
      <4> QED BY <4>1, <4>2 DEF Settled
    <3> QED BY <3>1, <3>2
  <2>2. UNCHANGED <<supportedEchoHash, decisionHash, decided, pc, queue, validatedInitHashes, sentEcho,
                    requestRecoverTimer, sentRequestRecover, requests, requestedRecover, recovers,
                    init, sent, SelfMessages>>
    BY Zenon DEF StoreMsg, netVars, decVars, recVars
  <2>3. Noticed' /\ DecidedHere' /\ InitNoticed' /\ InitAwaited' /\ EchoDue' /\ EchoSent'
    BY Zenon, <2>2 DEF Noticed, DecidedHere, InitNoticed, InitAwaited, EchoDue, EchoSent
  <2>4. Asked' /\ Waiting' /\ OneInit' /\ FromCoord'
    BY Zenon, <2>2 DEF Asked, Waiting, OneInit, FromCoord
  <2> QED BY Zenon, <2>1, <2>3, <2>4
  \* The supported hash changes only through a count that then leaves no other one behind.
<1>UpdateSettled.
    ASSUME SafeInv, SafeInv', Settled, MoreStored, UNCHANGED <<sent, decisionHash>>, NEW p \in Correct,
           NEW d \in [hash : Hash, NewTotalSigCount : 0..GetMemberCount],
           d.NewTotalSigCount <= Cardinality(SigMap'[p][d.hash]), UpdateSupported(p, d),
           \A q \in Correct, g \in Hash :
               SigMap'[q][g] = SigMap[q][g]
                 \/ (q = p /\ g = d.hash /\ d.NewTotalSigCount = Cardinality(SigMap'[p][g])),
           \A q \in Correct : storing[q] \ {d} \subseteq storing'[q],
           \A q \in Correct \ {p} : storing'[q] = storing[q]
    PROVE  Settled'
  <2> USE <1>UpdateSettled
  <2>1. /\ EnoughEchos(d) => supportedEchoHash'[p] = d.hash
        /\ \A q \in Correct : supportedEchoHash[q] # Nil => supportedEchoHash'[q] = supportedEchoHash[q]
        /\ \A q \in Correct \ {p} : supportedEchoHash'[q] = supportedEchoHash[q]
    BY Zenon, UpdateSupportedSafe DEF SafeInv
  <2> SUFFICES ASSUME NEW q \in Correct, NEW g \in Hash, Cardinality(SigMap'[q][g]) >= nmt
               PROVE  \/ supportedEchoHash'[q] = g
                      \/ \E e \in storing'[q] : e.hash = g /\ EnoughEchos(e)
    BY Zenon DEF Settled
  <2>2. CASE SigMap'[q][g] = SigMap[q][g]
    <3>1. supportedEchoHash[q] = g \/ \E e \in storing[q] : e.hash = g /\ EnoughEchos(e)
      BY Zenon, <2>2 DEF Settled
    <3>2. CASE supportedEchoHash[q] = g
      BY <2>1, <3>2, BroadcastAssumption
    <3>3. ASSUME NEW e \in storing[q], e.hash = g, EnoughEchos(e)
          PROVE  \/ supportedEchoHash'[q] = g
                 \/ \E x \in storing'[q] : x.hash = g /\ EnoughEchos(x)
      <4>1. CASE q = p /\ e = d
        BY <2>1, <3>3, <4>1
      <4>2. CASE ~ (q = p /\ e = d)
        BY <3>3, <4>2
      <4> QED BY <4>1, <4>2
    <3> QED BY Zenon, <3>1, <3>2, <3>3
  <2>3. CASE q = p /\ g = d.hash /\ d.NewTotalSigCount = Cardinality(SigMap'[p][g])
    BY <2>1, <2>3 DEF EnoughEchos
  <2> QED BY Zenon, <2>2, <2>3
<1>UpdateRest.
    ASSUME SafeInv, SafeInv', RestInv, NEW p \in Correct, NEW d \in storing[p], Update(p, d), UNCHANGED Coord
    PROVE  RestInv'
  <2> USE <1>UpdateRest
  <2> USE DEF RestInv
  <2>1. UNCHANGED <<decisionHash, decided, pc, validatedInitHashes, sentEcho, SigMap,
                    requestRecoverTimer, sentRequestRecover, requests, requestedRecover, recovers,
                    init, sent, SelfMessages>>
    BY DEF Update, netVars, decVars, recVars
  <2>2. Settled'
    <3>1. /\ d \in [hash : Hash, NewTotalSigCount : 0..GetMemberCount]
          /\ d.NewTotalSigCount <= Cardinality(SigMap'[p][d.hash])
      BY Zenon, <2>1 DEF SafeInv, CountsStored, TypeOK, CountTypes
    <3>2. /\ \A q \in Correct : storing[q] \ {d} \subseteq storing'[q]
          /\ \A q \in Correct \ {p} : storing'[q] = storing[q]
      BY SafeTypes DEF Update, CountTypes
    <3>3. MoreStored /\ UpdateSupported(p, d)
      BY <2>1 DEF Update, MoreStored
    <3> QED BY Zenon, <2>1, <3>1, <3>2, <3>3, <1>UpdateSettled
  <2>3. \A q \in Correct : queue'[q] = IF q = p THEN queue[q] \cup {Echo} ELSE queue[q]
    BY Zenon DEF Update, SafeInv, TypeOK, LoopTypes
  <2>4. \A q \in Correct \ {p} : supportedEchoHash'[q] = supportedEchoHash[q]
    BY SafeTypes DEF Update, UpdateSupported, CountTypes
  <2>5. Noticed'
    BY Zenon, <2>1, <2>3, <2>4 DEF Noticed
  <2>6. DecidedHere' /\ InitNoticed' /\ InitAwaited' /\ EchoDue' /\ EchoSent'
    BY Zenon, <2>1 DEF DecidedHere, InitNoticed, InitAwaited, EchoDue, EchoSent
  <2>7. Asked' /\ Waiting' /\ OneInit'
    BY Zenon, <2>1 DEF Asked, Waiting, OneInit
  <2>8. FromCoord'
    <3>1. \A h \in Hash : InitItem(h) # Echo
      BY DEF InitItem, Echo
    <3> QED BY Zenon, <2>1, <2>3, <3>1 DEF FromCoord
  <2> QED BY <2>2, <2>5, <2>6, <2>7, <2>8
<1>StoreInitRest.
    ASSUME SafeInv, RestInv, NEW p \in Correct, NEW h \in Hash, RecvInit(p, h) \/ RecvRecover(p, h),
           UNCHANGED Coord
    PROVE  RestInv'
  <2> USE <1>StoreInitRest
  <2> USE DEF RestInv
  <2>1. StoreInit(p, h)
    BY DEF RecvInit, RecvRecover
  <2>2. UNCHANGED <<supportedEchoHash, storing, SigMap, decisionHash, decided, pc, validatedInitHashes,
                    sentEcho, requestRecoverTimer, sentRequestRecover, requests, requestedRecover,
                    recovers, init, sent, SelfMessages>>
    BY <2>1 DEF StoreInit, netVars, decVars, recVars
  <2>3. \A q \in Correct : queue'[q] = IF q = p THEN queue[q] \cup {InitItem(h)} ELSE queue[q]
    BY Zenon, <2>1 DEF StoreInit, SafeInv, TypeOK, LoopTypes
  <2>4. Settled' /\ DecidedHere' /\ InitNoticed' /\ InitAwaited' /\ EchoDue' /\ EchoSent'
    BY Zenon, <2>2 DEF Settled, DecidedHere, InitNoticed, InitAwaited, EchoDue, EchoSent
  <2>5. Noticed'
    BY Zenon, <2>2, <2>3 DEF Noticed
  <2>6. Asked' /\ Waiting' /\ OneInit'
    BY Zenon, <2>2 DEF Asked, Waiting, OneInit
  <2>7. FromCoord'
    <3>1. Coord \in Correct => h \in init
      BY DEF RecvInit, RecvRecover, FromCoord, Correct
    <3>2. \A g \in Hash : InitItem(g) = InitItem(h) => g = h
      BY DEF InitItem
    <3> QED BY Zenon, <2>2, <2>3, <3>1, <3>2 DEF FromCoord
  <2> QED BY <2>4, <2>5, <2>6, <2>7
<1>GotProposalRest.
    ASSUME SafeInv, RestInv, NEW p \in Correct, NEW h \in Hash, GotProposal(p, h), UNCHANGED Coord
    PROVE  RestInv'
  <2> USE <1>GotProposalRest
  <2> USE DEF RestInv
  <2>1. UNCHANGED <<supportedEchoHash, storing, SigMap, decisionHash, decided, pc, validatedInitHashes,
                    queue, sentEcho, requestRecoverTimer, sentRequestRecover, requests,
                    requestedRecover, recovers, sent>>
    BY DEF GotProposal, decVars, recVars
  <2>2. /\ Settled' /\ Noticed' /\ DecidedHere' /\ InitNoticed'
        /\ InitAwaited' /\ EchoDue' /\ EchoSent'
    BY Zenon, <2>1 DEF Settled, Noticed, DecidedHere, InitNoticed, InitAwaited, EchoDue, EchoSent
  <2>3. Asked' /\ Waiting' /\ OneInit'
    BY Zenon, <2>1 DEF Asked, Waiting, OneInit, GotProposal
  <2>4. FromCoord'
    <3>1. init = {} /\ init' = {h}
      BY DEF GotProposal
    <3>2. ASSUME Coord \in Correct, NEW q \in Correct, NEW i \in 1..Len(SelfMessages'[q]),
                 SelfMessages'[q][i].kind = "init"
          PROVE  SelfMessages'[q][i].hash = h
      <4>1. CASE q = p
        <5>1. SelfMessages[p] \in Seq(Messages)
          BY Zenon DEF SafeInv, TypeOK, LoopTypes
        <5>2. SelfMessages'[p] = Append(SelfMessages[p], InitItem(h))
          BY Zenon DEF GotProposal, SafeInv, TypeOK, LoopTypes
        <5>3. CASE i \in 1..Len(SelfMessages[p])
          BY <3>1, <3>2, <4>1, <5>1, <5>2, <5>3 DEF FromCoord
        <5>4. CASE i = Len(SelfMessages[p]) + 1
          <6>1. SelfMessages'[p][i] = InitItem(h)
            BY <5>1, <5>2, <5>4
          <6> QED BY <4>1, <6>1 DEF InitItem
        <5> QED BY <4>1, <5>1, <5>2, <5>3, <5>4
      <4>2. CASE q # p
        <5>1. SelfMessages'[q] = SelfMessages[q]
          BY Zenon, <4>2 DEF GotProposal, SafeInv, TypeOK, LoopTypes
        <5> QED BY <3>1, <3>2, <5>1 DEF FromCoord
      <4> QED BY <4>1, <4>2
    <3> QED BY Zenon, <2>1, <3>1, <3>2 DEF FromCoord
  <2> QED BY <2>2, <2>3, <2>4
  \* Answering requests: none is lost, and those that keep waiting are for what is not here.
<1>SendRecoverRest.
    ASSUME SafeInv, SafeInv', Asked, Waiting, NEW p \in Correct, NEW reqs \in SUBSET Requests,
           SendRecover(p, reqs, validatedInitHashes'[p]),
           requestedRecover[p] \subseteq reqs,
           \A r \in requests \ requests' : r.to = p /\ r \in reqs,
           \A q \in Correct \ {p} : validatedInitHashes'[q] = validatedInitHashes[q],
           UNCHANGED <<decisionHash, sentRequestRecover>>
    PROVE  Asked' /\ Waiting'
  <2> USE <1>SendRecoverRest
  <2> DEFINE answered == {r \in reqs : r.hash \in validatedInitHashes'[p]}
  <2>1. /\ recovers' = recovers \cup {[to |-> r.from, hash |-> r.hash] : r \in answered}
        /\ \A q \in Correct : requestedRecover'[q] = IF q = p THEN reqs \ answered ELSE requestedRecover[q]
    BY Zenon DEF SendRecover, SafeInv, TypeOK, NetTypes, DecisionTypes
  <2>2. Waiting'
    BY Zenon, <2>1 DEF Waiting
  <2>3. Asked'
    <3> SUFFICES ASSUME NEW s \in Correct, sentRequestRecover[s], NEW q \in Correct \ {s}
                 PROVE  /\ decisionHash[s] # Nil
                        /\ \/ [from |-> s, to |-> q, hash |-> decisionHash[s]] \in requests' \cup requestedRecover'[q]
                           \/ [to |-> s, hash |-> decisionHash[s]] \in recovers'
      BY Zenon DEF Asked
    <3> DEFINE r == [from |-> s, to |-> q, hash |-> decisionHash[s]]
               a == [to |-> s, hash |-> decisionHash[s]]
    <3>1. decisionHash[s] # Nil /\ (r \in requests \cup requestedRecover[q] \/ a \in recovers)
      BY DEF Asked
    <3>2. r.from = s /\ r.to = q /\ r.hash = decisionHash[s]
      OBVIOUS
    <3>3. a = [to |-> r.from, hash |-> r.hash]
      OBVIOUS
    <3> HIDE DEF r, a
    <3>4. CASE a \in recovers
      BY Zenon, <2>1, <3>1, <3>4 DEF r, a
    <3>5. CASE r \in requests'
      BY <3>1, <3>5 DEF r
    <3>6. CASE q # p /\ r \in requestedRecover[q]
      BY Zenon, <2>1, <3>1, <3>6 DEF r
    <3>7. CASE r \in reqs /\ q = p
      <4>1. CASE r \in answered
        BY Zenon, <2>1, <3>1, <3>3, <4>1 DEF a
      <4>2. CASE r \notin answered
        BY Zenon, <2>1, <3>1, <3>7, <4>2 DEF r
      <4> QED BY Zenon, <4>1, <4>2
    <3> QED BY <3>1, <3>2, <3>4, <3>5, <3>6, <3>7
  <2> QED BY <2>2, <2>3
  \* Storing an init message, which the coordinator has sent if it is correct.
<1>ValidateInitRest.
    ASSUME SafeInv, SafeInv', RestInv, NEW p \in Correct, NEW h \in Hash, ValidateInit(p, h),
           Coord \in Correct => h \in init,
           \A q \in Correct \ {p} : Echo \in queue[q] => Echo \in queue'[q],
           UNCHANGED <<Coord, init, sent, requests, SigMap, supportedEchoHash, storing, sentEcho,
                       decisionHash, decided, requestRecoverTimer, sentRequestRecover>>
    PROVE  /\ Settled' /\ Noticed' /\ DecidedHere' /\ InitNoticed' /\ InitAwaited'
           /\ EchoDue' /\ EchoSent' /\ Asked' /\ Waiting' /\ OneInit'
           /\ Coord \in Correct =>
                 /\ \A q \in Correct : validatedInitHashes'[q] \subseteq init
                 /\ \A r \in recovers' : r.hash \in init
  <2> USE <1>ValidateInitRest
  <2> USE DEF RestInv
  <2>1. \A q \in Correct : pc'[q] = IF q = p THEN "echo" ELSE pc[q]
    BY SafeTypes DEF ValidateInit, LoopTypes
  <2>2. \A q \in Correct : validatedInitHashes'[q] =
            IF q = p THEN validatedInitHashes[q] \cup {h} ELSE validatedInitHashes[q]
    BY Zenon DEF ValidateInit, SafeInv, TypeOK, LoopTypes
  <2>3. Settled' /\ EchoSent' /\ OneInit'
    BY Zenon DEF Settled, EchoSent, OneInit
  <2>4. Noticed' /\ EchoDue'
    BY Zenon, <2>1, <2>2 DEF Noticed, EchoDue
  <2>5. DecidedHere' /\ InitNoticed' /\ InitAwaited'
    BY Zenon, <2>1, <2>2 DEF DecidedHere, InitNoticed, InitAwaited
  <2>6. SendRecover(p, requestedRecover[p], validatedInitHashes'[p])
    BY <2>2 DEF ValidateInit
  <2>7. Asked' /\ Waiting'
    <3>1. requestedRecover[p] \in SUBSET Requests
      BY Zenon DEF SafeInv, TypeOK, DecisionTypes
    <3>2. \A q \in Correct \ {p} : validatedInitHashes'[q] = validatedInitHashes[q]
      BY Zenon, <2>2
    <3> QED BY Zenon, <2>6, <3>1, <3>2, <1>SendRecoverRest
  <2>8. ASSUME Coord \in Correct
        PROVE  /\ \A q \in Correct : validatedInitHashes'[q] \subseteq init
               /\ \A r \in recovers' : r.hash \in init
    <3>1. \A q \in Correct : validatedInitHashes'[q] \subseteq init
      BY Zenon, <2>2, <2>8 DEF FromCoord
    <3>2. \A r \in recovers' : r \in recovers \/ r.hash \in validatedInitHashes'[p]
      BY <2>6 DEF SendRecover
    <3> QED BY Zenon, <2>8, <3>1, <3>2 DEF FromCoord
  <2> QED BY Zenon, <2>3, <2>4, <2>5, <2>7, <2>8
<1>ProcessInitRest.
    ASSUME SafeInv, SafeInv', RestInv, NEW p \in Correct, NEW h \in Hash, ProcessInit(p, h),
           UNCHANGED Coord
    PROVE  RestInv'
  <2> USE <1>ProcessInitRest
  <2>1. Coord \in Correct => h \in init
    BY Zenon DEF ProcessInit, RestInv, FromCoord
  <2>2. \A q \in Correct : queue'[q] = IF q = p THEN queue[q] \ {InitItem(h)} ELSE queue[q]
    BY Zenon DEF ProcessInit, SafeInv, TypeOK, LoopTypes
  <2>3. UNCHANGED <<init, sent, requests, SigMap, supportedEchoHash, storing, sentEcho, SelfMessages,
                    decisionHash, decided, requestRecoverTimer, sentRequestRecover>>
    BY Zenon DEF ProcessInit, decVars
  <2>4. /\ Settled' /\ Noticed' /\ DecidedHere' /\ InitNoticed' /\ InitAwaited'
        /\ EchoDue' /\ EchoSent' /\ Asked' /\ Waiting' /\ OneInit'
        /\ Coord \in Correct =>
              /\ \A q \in Correct : validatedInitHashes'[q] \subseteq init
              /\ \A r \in recovers' : r.hash \in init
    BY <2>1, <2>2, <2>3, <1>ValidateInitRest DEF ProcessInit
  <2>5. FromCoord'
    BY Zenon, <2>2, <2>3, <2>4 DEF RestInv, FromCoord
  <2> QED BY <2>4, <2>5 DEF RestInv
<1>ProcessMessageRest.
    ASSUME SafeInv, RestInv, NEW p \in Correct, ProcessMessage(p), UNCHANGED Coord
    PROVE  RestInv'
  <2> USE <1>ProcessMessageRest
  <2> USE DEF RestInv
  <2>1. UNCHANGED <<supportedEchoHash, storing, SigMap, decisionHash, decided, validatedInitHashes,
                    sentEcho, requestRecoverTimer, sentRequestRecover, requests, requestedRecover,
                    recovers, init, sent, SelfMessages>>
    BY DEF ProcessMessage, netVars, decVars, recVars
  <2>2. /\ \A q \in Correct : pc'[q] = IF q = p THEN "echo" ELSE pc[q]
        /\ \A q \in Correct : queue'[q] = IF q = p THEN queue[q] \ {Echo} ELSE queue[q]
    BY Zenon DEF ProcessMessage, SafeInv, TypeOK, LoopTypes
  <2>3. Settled' /\ DecidedHere' /\ InitAwaited' /\ EchoSent'
    BY Zenon, <2>1 DEF Settled, DecidedHere, InitAwaited, EchoSent
  <2>4. Noticed' /\ InitNoticed' /\ EchoDue'
    BY Zenon, <2>1, <2>2 DEF Noticed, InitNoticed, EchoDue
  <2>5. Asked' /\ Waiting' /\ OneInit'
    BY Zenon, <2>1 DEF Asked, Waiting, OneInit
  <2>6. FromCoord'
    BY Zenon, <2>1, <2>2 DEF FromCoord
  <2> QED BY <2>3, <2>4, <2>5, <2>6
  \* Taking the first of a node's own messages, of which an init message is the coordinator's.
<1>OwnInitTail.
    ASSUME SafeInv, FromCoord, Coord \in Correct, NEW p \in Correct, SelfMessages[p] # <<>>,
           SelfMessages' = [SelfMessages EXCEPT ![p] = Tail(@)]
    PROVE  /\ Head(SelfMessages[p]).kind = "init" => Head(SelfMessages[p]).hash \in init
           /\ \A q \in Correct : \A i \in 1..Len(SelfMessages'[q]) :
                 SelfMessages'[q][i].kind = "init" => SelfMessages'[q][i].hash \in init
  <2> USE <1>OwnInitTail
  <2>1. SelfMessages[p] \in Seq(Messages) /\ SelfMessages'[p] = Tail(SelfMessages[p])
    BY DEF SafeInv, TypeOK, LoopTypes
  <2>2. /\ Len(SelfMessages[p]) \in Nat \ {0}
        /\ Head(SelfMessages[p]) = SelfMessages[p][1]
    BY <2>1
  <2>3. Head(SelfMessages[p]).kind = "init" => Head(SelfMessages[p]).hash \in init
    BY <2>2 DEF FromCoord
  <2>4. ASSUME NEW q \in Correct, NEW i \in 1..Len(SelfMessages'[q]), SelfMessages'[q][i].kind = "init"
        PROVE  SelfMessages'[q][i].hash \in init
    <3>1. CASE q = p
      <4>1. i + 1 \in 1..Len(SelfMessages[p]) /\ SelfMessages'[p][i] = SelfMessages[p][i + 1]
        BY Zenon, <2>1, <3>1, TailElement
      <4> QED BY <2>4, <3>1, <4>1 DEF FromCoord
    <3>2. CASE q # p
      <4>1. SelfMessages'[q] = SelfMessages[q]
        BY <3>2 DEF SafeInv, TypeOK, LoopTypes
      <4> QED BY Zenon, <2>4, <4>1 DEF FromCoord
    <3> QED BY Zenon, <3>1, <3>2
  <2> QED BY Zenon, <2>3, <2>4
<1>ProcessSelfMessageRest.
    ASSUME SafeInv, SafeInv', RestInv, NEW p \in Correct, ProcessSelfMessage(p), UNCHANGED Coord
    PROVE  RestInv'
  <2> USE <1>ProcessSelfMessageRest
  <2> DEFINE m == Head(SelfMessages[p])
             d == [hash |-> m.hash, NewTotalSigCount |-> Cardinality(SigMap[p][m.hash] \cup {p})]
  <2>1. UNCHANGED <<init, sent, requests, storing, queue, sentEcho, decisionHash, decided,
                    requestRecoverTimer, sentRequestRecover>>
    BY Zenon DEF ProcessSelfMessage, decVars
  <2>2. m.hash \in Hash
    BY Zenon, OwnMessage DEF ProcessSelfMessage, SafeInv, Messages
  <2>3. Coord \in Correct =>
           /\ m.kind = "init" => m.hash \in init
           /\ \A q \in Correct : \A i \in 1..Len(SelfMessages'[q]) :
                 SelfMessages'[q][i].kind = "init" => SelfMessages'[q][i].hash \in init
    BY Zenon, <1>OwnInitTail DEF ProcessSelfMessage, RestInv
  <2>4. CASE m.kind = "init"
    <3>1. ValidateInit(p, m.hash) /\ UNCHANGED <<SigMap, supportedEchoHash>>
      BY Zenon, <2>4 DEF ProcessSelfMessage
    <3>2. \A q \in Correct \ {p} : Echo \in queue[q] => Echo \in queue'[q]
      BY <2>1
    <3>3. Coord \in Correct => m.hash \in init
      BY Zenon, <2>3, <2>4
    <3> HIDE DEF m
    <3>4. /\ Settled' /\ Noticed' /\ DecidedHere' /\ InitNoticed' /\ InitAwaited'
          /\ EchoDue' /\ EchoSent' /\ Asked' /\ Waiting' /\ OneInit'
          /\ Coord \in Correct =>
                /\ \A q \in Correct : validatedInitHashes'[q] \subseteq init
                /\ \A r \in recovers' : r.hash \in init
      BY Zenon, <2>1, <2>2, <3>1, <3>2, <3>3, <1>ValidateInitRest
    <3>5. FromCoord'
      BY Zenon, <2>1, <2>3, <3>4 DEF RestInv, FromCoord
    <3> QED BY Zenon, <3>4, <3>5 DEF RestInv
  <2>5. CASE m.kind = "echo"
    <3> USE DEF RestInv
    <3>1. UNCHANGED <<validatedInitHashes, recovers, requestedRecover>>
      BY Zenon, <2>5 DEF ProcessSelfMessage
    <3>2. DecidedHere' /\ InitAwaited' /\ EchoSent' /\ Asked' /\ Waiting' /\ OneInit'
      BY Zenon, <2>1, <3>1 DEF DecidedHere, InitAwaited, EchoSent, Asked, Waiting, OneInit
    <3>3. FromCoord'
      BY Zenon, <2>1, <2>3, <3>1 DEF FromCoord
    <3>4. CASE p \in SigMap[p][m.hash]
      <4>1. UNCHANGED <<SigMap, supportedEchoHash, pc>>
        BY Zenon, <2>5, <3>4 DEF ProcessSelfMessage
      <4>2. Settled' /\ Noticed' /\ InitNoticed' /\ EchoDue'
        BY Zenon, <2>1, <3>1, <4>1 DEF Settled, Noticed, InitNoticed, EchoDue
      <4> QED BY <3>2, <3>3, <4>2
    <3>5. CASE p \notin SigMap[p][m.hash]
      <4> HIDE DEF d
      <4>1. /\ SigMap' = [SigMap EXCEPT ![p][m.hash] = @ \cup {p}]
            /\ UpdateSupported(p, d)
            /\ pc' = [pc EXCEPT ![p] = "echo"]
        BY Zenon, <2>5, <3>5 DEF ProcessSelfMessage, d
      <4>2. /\ SigMap'[p][m.hash] = SigMap[p][m.hash] \cup {p}
            /\ \A q \in Correct, g \in Hash : (q # p \/ g # m.hash) => SigMap'[q][g] = SigMap[q][g]
        BY <2>2, <4>1, SafeTypes DEF CountTypes
      <4>3. MoreStored
        BY Zenon, <4>2 DEF MoreStored
      <4>4. /\ d = [hash |-> m.hash, NewTotalSigCount |-> Cardinality(SigMap'[p][m.hash])]
            /\ d.hash = m.hash /\ d.NewTotalSigCount = Cardinality(SigMap'[p][m.hash])
        BY Zenon, <4>2 DEF d
      <4>5. Cardinality(SigMap'[p][m.hash]) \in 0..GetMemberCount
        BY Zenon, <2>2, <4>3, MoreCounted DEF SafeInv
      <4>6. /\ d \in [hash : Hash, NewTotalSigCount : 0..GetMemberCount]
            /\ d.NewTotalSigCount <= Cardinality(SigMap'[p][d.hash])
        BY <2>2, <4>4, <4>5, MemberCounts
      <4>7. Settled'
        <5>1. \A q \in Correct, g \in Hash :
                 SigMap'[q][g] = SigMap[q][g]
                   \/ (q = p /\ g = d.hash /\ d.NewTotalSigCount = Cardinality(SigMap'[p][g]))
          BY Zenon, <4>2, <4>4
        <5>2. UNCHANGED <<sent, decisionHash, storing>>
          BY <2>1
        <5> QED BY Zenon, <4>1, <4>3, <4>6, <5>1, <5>2, <1>UpdateSettled
      <4>8. \A q \in Correct \ {p} : pc'[q] = pc[q] /\ supportedEchoHash'[q] = supportedEchoHash[q]
        BY <4>1, SafeTypes DEF UpdateSupported, CountTypes, LoopTypes
      <4>9. pc'[p] = "echo"
        BY Zenon, <4>1, SafeTypes DEF LoopTypes
      <4>10. Noticed' /\ InitNoticed' /\ EchoDue'
        BY Zenon, <2>1, <3>1, <4>8, <4>9 DEF Noticed, InitNoticed, EchoDue
      <4> QED BY <3>2, <3>3, <4>7, <4>10
    <3> QED BY Zenon, <3>4, <3>5
  <2> QED BY Zenon, <2>4, <2>5 DEF ProcessSelfMessage
<1>CheckSendEchoRest.
    ASSUME SafeInv, SafeInv', RestInv, NEW p \in Correct, CheckSendEcho(p), UNCHANGED Coord
    PROVE  RestInv'
  <2> USE <1>CheckSendEchoRest
  <2> USE DEF RestInv
  <2>1. UNCHANGED <<supportedEchoHash, storing, SigMap, decisionHash, decided, validatedInitHashes,
                    requestRecoverTimer, sentRequestRecover, requests, requestedRecover, recovers,
                    queue, init>>
    BY Zenon DEF CheckSendEcho, decVars, recVars
  <2>2. \A q \in Correct : pc'[q] = IF q # p THEN pc[q] ELSE IF decided[p] THEN "recv" ELSE "decide"
    BY SafeTypes DEF CheckSendEcho, LoopTypes, DecisionTypes
  <2>3. Settled' /\ DecidedHere' /\ InitAwaited' /\ Asked' /\ Waiting' /\ OneInit'
    BY Zenon, <2>1 DEF Settled, DecidedHere, InitAwaited, Asked, Waiting, OneInit
  <2>4. Noticed' /\ InitNoticed'
    <3>1. decided[p] => decisionHash[p] # Nil
      BY BroadcastAssumption, SafeTypes DEF DecidedHere, LoopTypes, DecisionTypes
    <3> QED BY <2>1, <2>2, <3>1 DEF Noticed, InitNoticed
  <2>5. CASE /\ decided[p] \/ sentEcho[p] \/ validatedInitHashes[p] = {}
             /\ UNCHANGED <<sent, SelfMessages, sentEcho>>
    <3>1. EchoDue' /\ EchoSent' /\ FromCoord'
      BY <2>1, <2>2, <2>5 DEF EchoDue, EchoSent, FromCoord
    <3> QED BY Zenon, <2>3, <2>4, <3>1
  <2>6. ASSUME NEW h \in validatedInitHashes[p], SendsEcho(p, h)
        PROVE  RestInv'
    <3>1. h \in Hash
      BY Zenon DEF SafeInv, TypeOK, LoopTypes
    <3>2. \A g \in Hash : sent'[g] = IF g = h THEN sent[g] \cup {p} ELSE sent[g]
      BY Zenon, <2>6, <3>1 DEF SafeInv, TypeOK, NetTypes, SendsEcho
    <3>3. \A q \in Correct : sentEcho'[q] = IF q = p THEN TRUE ELSE sentEcho[q]
      BY <2>6, Zenon DEF SafeInv, TypeOK, LoopTypes, SendsEcho
    <3>4. EchoDue'
      BY Zenon, <2>1, <2>2, <3>3 DEF EchoDue
    <3>5. EchoSent'
      BY Zenon, <3>1, <3>2, <3>3 DEF EchoSent
    <3>6. FromCoord'
      <4>1. ASSUME Coord \in Correct, NEW q \in Correct, NEW i \in 1..Len(SelfMessages'[q]),
                   SelfMessages'[q][i].kind = "init"
            PROVE  SelfMessages'[q][i].hash \in init
        <5>1. CASE q = p
          <6>1. SelfMessages[p] \in Seq(Messages)
            BY Zenon DEF SafeInv, TypeOK, LoopTypes
          <6>2. SelfMessages'[p] = Append(SelfMessages[p], [kind |-> "echo", hash |-> h])
            BY <2>6, SafeTypes DEF SendsEcho, LoopTypes
          <6>3. i \in 1..Len(SelfMessages[p]) /\ SelfMessages'[p][i] = SelfMessages[p][i]
            BY <4>1, <5>1, <6>1, <6>2
          <6> QED BY <4>1, <5>1, <6>3 DEF FromCoord
        <5>2. CASE q # p
          <6>1. SelfMessages'[q] = SelfMessages[q]
            BY <2>6, <5>2, SafeTypes DEF SendsEcho, LoopTypes
          <6> QED BY <4>1, <6>1 DEF FromCoord
        <5> QED BY Zenon, <5>1, <5>2
      <4> QED BY Zenon, <2>1, <4>1 DEF FromCoord
    <3> QED BY <2>3, <2>4, <3>4, <3>5, <3>6
  <2> QED BY Zenon, <2>5, <2>6, CheckSendEchoCases
<1>DecideRest.
    ASSUME SafeInv, RestInv, NEW p \in Correct, Decide(p), UNCHANGED Coord
    PROVE  RestInv'
  <2> USE <1>DecideRest
  <2> USE DEF RestInv
  <2> DEFINE h == supportedEchoHash[p]
  <2>1. UNCHANGED <<supportedEchoHash, storing, SigMap, validatedInitHashes, sentEcho,
                    sentRequestRecover, requests, requestedRecover, recovers, queue, init, sent,
                    SelfMessages>>
    BY Zenon DEF Decide, netVars
  <2>2. pc[p] = "decide" /\ \A q \in Correct : pc'[q] = IF q = p THEN "recv" ELSE pc[q]
    BY Zenon DEF Decide, SafeInv, TypeOK, LoopTypes
  <2>3. Settled' /\ EchoSent' /\ Waiting' /\ OneInit' /\ FromCoord'
    BY Zenon, <2>1 DEF Settled, EchoSent, Waiting, OneInit, FromCoord
  <2>4. CASE h = Nil /\ UNCHANGED <<decisionHash, decided, requestRecoverTimer>>
    <3>1. decisionHash[p] = Nil /\ Nil \notin validatedInitHashes[p]
      BY Zenon, <2>4, BroadcastAssumption DEF SafeInv, DecisionSupported, TypeOK, LoopTypes, DecisionTypes
    <3>2. Noticed' /\ InitNoticed' /\ EchoDue'
      BY Zenon, <2>1, <2>2, <2>4, <3>1 DEF Noticed, InitNoticed, EchoDue
    <3>3. DecidedHere' /\ InitAwaited' /\ Asked'
      BY Zenon, <2>1, <2>4 DEF DecidedHere, InitAwaited, Asked
    <3> QED BY <2>3, <3>2, <3>3
  <2>5. CASE Decides(p, h)
    <3> HIDE DEF h
    <3>1. h # Nil /\ decisionHash[p] \in {Nil, h}
      BY <2>5 DEF Decides
    <3>2. \A q \in Correct : decisionHash'[q] = IF q = p THEN h ELSE decisionHash[q]
      BY Zenon, <2>5 DEF Decides, SafeInv, TypeOK, DecisionTypes
    <3>3. \A q \in Correct \ {p} :
             decided'[q] = decided[q] /\ requestRecoverTimer'[q] = requestRecoverTimer[q]
      BY <2>5, Zenon DEF Decides, SafeInv, TypeOK, DecisionTypes
    <3>4. decided'[p] = (h \in validatedInitHashes[p])
      BY <2>5, Zenon DEF Decides, SafeInv, TypeOK, LoopTypes, DecisionTypes
    <3>5. h \notin validatedInitHashes[p] /\ requestRecoverTimer[p] = "nil"
             => requestRecoverTimer'[p] = "running"
      BY Zenon, <2>5 DEF Decides, SafeInv, TypeOK, LoopTypes, DecisionTypes
    <3>6. requestRecoverTimer[p] # "nil" => requestRecoverTimer'[p] = requestRecoverTimer[p]
      BY Zenon, <2>5 DEF Decides, SafeInv, TypeOK, DecisionTypes
    <3>7. decided[p] => decided'[p]
      BY <3>1, <3>4, BroadcastAssumption, SafeTypes DEF DecidedHere, LoopTypes, DecisionTypes
    <3>8. Noticed' /\ DecidedHere' /\ InitNoticed'
      BY Zenon, <2>1, <2>2, <3>1, <3>2, <3>3, <3>4 DEF Noticed, DecidedHere, InitNoticed
    <3>9. EchoDue'
      BY Zenon, <2>1, <2>2, <3>3, <3>7 DEF EchoDue
    <3>10. InitAwaited'
      <4>1. requestRecoverTimer[p] # "nil" => decisionHash[p] = h
        BY <3>1 DEF SafeInv, TimerStarted
      <4> QED BY <2>1, <3>2, <3>3, <3>5, <3>6, <4>1, <3>1 DEF InitAwaited
    <3>11. Asked'
      <4>1. \A q \in Correct : sentRequestRecover[q] => decisionHash'[q] = decisionHash[q]
        BY Zenon, <3>1, <3>2 DEF Asked
      <4> QED BY Zenon, <2>1, <4>1 DEF Asked
    <3> QED BY Zenon, <2>3, <3>8, <3>9, <3>10, <3>11
  <2> QED BY Zenon, <2>4, <2>5, DecideCases
<1>RecoverTimeoutRest.
    ASSUME SafeInv, RestInv, NEW p \in Correct, RecoverTimeout(p), UNCHANGED Coord
    PROVE  RestInv'
  <2> USE <1>RecoverTimeoutRest
  <2> USE DEF RestInv
  <2>1. UNCHANGED <<supportedEchoHash, storing, SigMap, validatedInitHashes, sentEcho, decisionHash,
                    decided, requestedRecover, recovers, queue, pc, init, sent, SelfMessages>>
    BY DEF RecoverTimeout, decVars
  <2>2. /\ Settled' /\ Noticed' /\ DecidedHere' /\ InitNoticed' /\ EchoDue' /\ EchoSent'
        /\ Waiting' /\ OneInit' /\ FromCoord'
    BY Zenon, <2>1 DEF Settled, Noticed, DecidedHere, InitNoticed, EchoDue, EchoSent, Waiting, OneInit, FromCoord
  <2>3. \A q \in Correct \ {p} : /\ requestRecoverTimer'[q] = requestRecoverTimer[q]
                                 /\ sentRequestRecover'[q] = sentRequestRecover[q]
    BY Zenon DEF RecoverTimeout, SafeInv, TypeOK, DecisionTypes
  <2>4. decided[p] \/ sentRequestRecover'[p]
    BY Zenon DEF RecoverTimeout, SafeInv, TypeOK, DecisionTypes
  <2>5. InitAwaited'
    BY Zenon, <2>1, <2>3, <2>4 DEF InitAwaited, DecidedHere
  <2>6. Asked'
    <3>1. requests \subseteq requests'
      BY Zenon DEF RecoverTimeout
    <3>2. CASE sentRequestRecover'[p] = sentRequestRecover[p]
      BY <2>1, <2>3, <3>1, <3>2 DEF Asked
    <3>3. CASE ~ decided[p] /\ ~ sentRequestRecover[p]
      <4>1. \A q \in Correct \ {p} : [from |-> p, to |-> q, hash |-> decisionHash[p]] \in requests'
        BY Zenon, <3>3 DEF RecoverTimeout
      <4>2. decisionHash[p] # Nil
        BY Zenon DEF RecoverTimeout, SafeInv, TimerStarted
      <4> QED BY Zenon, <2>1, <2>3, <3>1, <4>1, <4>2 DEF Asked
    <3> QED BY Zenon, <3>2, <3>3 DEF RecoverTimeout
  <2> QED BY Zenon, <2>2, <2>5, <2>6
<1>GotRequestRecoverRest.
    ASSUME SafeInv, SafeInv', RestInv, NEW p \in Correct, NEW r \in requests, GotRequestRecover(p, r),
           UNCHANGED Coord
    PROVE  RestInv'
  <2> USE <1>GotRequestRecoverRest
  <2> USE DEF RestInv
  <2>1. UNCHANGED <<supportedEchoHash, storing, SigMap, validatedInitHashes, sentEcho, decisionHash,
                    decided, requestRecoverTimer, sentRequestRecover, queue, pc, init, sent, SelfMessages>>
    BY DEF GotRequestRecover, decVars
  <2>2. /\ Settled' /\ Noticed' /\ DecidedHere' /\ InitNoticed' /\ InitAwaited' /\ EchoDue' /\ EchoSent'
        /\ OneInit'
    BY Zenon, <2>1 DEF Settled, Noticed, DecidedHere, InitNoticed, InitAwaited, EchoDue, EchoSent, OneInit
  <2>3. SendRecover(p, requestedRecover[p] \cup {r}, validatedInitHashes'[p])
    BY Zenon, <2>1 DEF GotRequestRecover
  <2>4. Asked' /\ Waiting'
    <3>1. requestedRecover[p] \cup {r} \in SUBSET Requests
      BY Zenon DEF SafeInv, TypeOK, NetTypes, DecisionTypes
    <3>2. \A x \in requests \ requests' : x.to = p /\ x \in requestedRecover[p] \cup {r}
      BY Zenon DEF GotRequestRecover
    <3> QED BY <2>1, <2>3, <3>1, <3>2, <1>SendRecoverRest
  <2>5. FromCoord'
    <3>1. \A x \in recovers' : x \in recovers \/ x.hash \in validatedInitHashes[p]
      BY <2>1, <2>3 DEF SendRecover
    <3> QED BY Zenon, <2>1, <3>1 DEF FromCoord
  <2> QED BY Zenon, <2>2, <2>4, <2>5
<1>NextRest. SafeInv /\ SafeInv' /\ RestInv /\ [Next]_vars => RestInv'
  <2> SUFFICES ASSUME SafeInv, SafeInv', RestInv, [Next]_vars PROVE RestInv'
    OBVIOUS
  <2>1. CASE UNCHANGED vars
    <3> USE DEF RestInv
    <3>1. /\ Settled' /\ Noticed' /\ DecidedHere' /\ InitNoticed' /\ InitAwaited' /\ EchoDue'
          /\ EchoSent'
      BY Zenon, <2>1 DEF vars, Settled, Noticed, DecidedHere, InitNoticed, InitAwaited, EchoDue, EchoSent
    <3>2. Asked' /\ Waiting' /\ OneInit' /\ FromCoord'
      BY Zenon, <2>1 DEF vars, Asked, Waiting, OneInit, FromCoord
    <3> QED BY <3>1, <3>2
  <2>2. CASE Next
    <3>1. UNCHANGED Coord
      BY <2>2 DEF Next
    <3>2. PICK p \in Correct : GotMsg(p) \/ MainLoop(p)
      BY Zenon, <2>2 DEF Next
    <3>3. CASE GotMsg(p)
      BY Zenon, <3>1, <3>3, <1>StoreMsgRest, <1>UpdateRest, <1>StoreInitRest DEF GotMsg
    <3>4. CASE MainLoop(p)
      <4>1. CASE \E h \in Hash : GotProposal(p, h) \/ ProcessInit(p, h)
        BY <3>1, <4>1, <1>GotProposalRest, <1>ProcessInitRest
      <4>2. CASE ProcessMessage(p) \/ ProcessSelfMessage(p)
        BY <3>1, <4>2, <1>ProcessMessageRest, <1>ProcessSelfMessageRest
      <4>3. CASE checkProgress(p)
        BY <3>1, <4>3, <1>CheckSendEchoRest, <1>DecideRest DEF checkProgress
      <4>4. CASE RecoverTimeout(p)
        BY <3>1, <4>4, <1>RecoverTimeoutRest
      <4>5. CASE \E r \in requests : GotRequestRecover(p, r)
        BY <3>1, <4>5, <1>GotRequestRecoverRest
      <4> QED BY <3>4, <4>1, <4>2, <4>3, <4>4, <4>5 DEF MainLoop
    <3> QED BY <3>2, <3>3, <3>4
  <2> QED BY <2>1, <2>2
<1> QED BY Safety, <1>InitRest, <1>NextRest, PTL DEF Spec

\* At rest, a node that has stored n-t echoes has decided their hash.
LEMMA QuorumDecides ==
    ASSUME SafeInv, RestInv, AtRest, NEW q \in Correct, NEW h \in Hash,
           NEW A \in SUBSET SigMap[q][h], Cardinality(A) >= nmt
    PROVE  decisionHash[q] = h
<1>1. SigMap[q][h] \in SUBSET Members
  BY Zenon, SafeTypes DEF CountTypes
<1>2. Cardinality(SigMap[q][h]) >= nmt
  BY <1>1, CountSubset, MemberCounts
<1>3. supportedEchoHash[q] = h
  <2>1. Settled
    BY Zenon DEF RestInv
  <2>2. storing[q] = {}
    BY Zenon DEF AtRest
  <2>3. supportedEchoHash[q] = h \/ \E d \in storing[q] : d.hash = h /\ EnoughEchos(d)
    BY Zenon, <1>2, <2>1 DEF Settled
  <2> QED BY Zenon, <2>2, <2>3
<1>4. decisionHash[q] # Nil
  <2>1. Noticed
    BY Zenon DEF RestInv
  <2>2. pc[q] = "recv" /\ queue[q] = {}
    BY Zenon DEF AtRest, Idle
  <2>3. h # Nil
    BY Zenon, BroadcastAssumption
  <2>4. supportedEchoHash[q] # Nil /\ decisionHash[q] = Nil => pc[q] # "recv" \/ Echo \in queue[q]
    BY Zenon, <2>1 DEF Noticed
  <2> QED BY Zenon, <1>3, <2>2, <2>3, <2>4
<1> QED BY Zenon, <1>3, <1>4 DEF SafeInv, DecisionSupported

\* What one node has decided every other one has decided too, when nothing is left to do.
LEMMA RestTotality == SafeInv /\ RestInv => Totality
<1> SUFFICES ASSUME SafeInv, RestInv, AtRest, NEW p \in Correct, decided[p], NEW q \in Correct
             PROVE  decided[q]
  BY DEF Totality
<1> DEFINE h == decisionHash[p]
<1>1. h \in Hash /\ h \in validatedInitHashes[p]
  BY Zenon DEF RestInv, DecidedHere, SafeInv, TypeOK, LoopTypes
<1>2. Cardinality(SigMap[p][h]) >= nmt
  <2>1. SupportStored /\ DecisionSupported
    BY Zenon DEF SafeInv
  <2> QED BY <1>1, BroadcastAssumption, <2>1 DEF DecisionSupported, SupportStored
<1>3. SigMap[p][h] \subseteq SigMap[q][h]
  BY <1>1 DEF AtRest, Available
<1>4. decisionHash[q] = h
  BY <1>1, <1>2, <1>3, QuorumDecides
<1>5. ASSUME h \notin validatedInitHashes[q] PROVE FALSE
  <2>1. sentRequestRecover[q] /\ p # q
    <3>1. InitAwaited
      BY Zenon DEF RestInv
    <3> QED BY <1>1, <1>4, <1>5, BroadcastAssumption, <3>1 DEF InitAwaited, AtRest
  <2>2. \/ [from |-> q, to |-> p, hash |-> h] \in requests \cup requestedRecover[p]
        \/ [to |-> q, hash |-> h] \in recovers
    <3>1. Asked
      BY Zenon DEF RestInv
    <3> QED BY <1>4, <2>1, <3>1 DEF Asked
  <2>3. [from |-> q, to |-> p, hash |-> h] \notin requests
    BY Zenon DEF AtRest
  <2>4. [from |-> q, to |-> p, hash |-> h] \notin requestedRecover[p]
    BY <1>1 DEF RestInv, Waiting
  <2>5. [to |-> q, hash |-> h] \notin recovers
    BY <1>1, <1>5 DEF AtRest
  <2> QED BY Zenon, <2>2, <2>3, <2>4, <2>5
<1>Parts. InitNoticed
  BY Zenon DEF RestInv
<1> QED BY <1>4, <1>5, <1>Parts DEF InitNoticed, AtRest, Idle

\* A correct coordinator's proposal is decided by all before nothing is left to do.
LEMMA RestDelivery == SafeInv /\ RestInv => Delivery
<1> SUFFICES ASSUME SafeInv, RestInv, AtRest, init # {}, NEW q \in Correct
             PROVE  decided[q] /\ decisionHash[q] \in init
  BY DEF Delivery
<1>1. Coord \in Correct
  BY DEF RestInv, OneInit
<1>2. PICK h \in Hash : init = {h}
  BY DEF RestInv, OneInit
<1>3. \A p \in Correct : validatedInitHashes[p] = {h}
  BY Zenon, <1>1, <1>2 DEF RestInv, FromCoord, AtRest
<1>4. decided[q]
  <2>1. CASE \E p \in Correct : decided[p]
    BY Zenon, <2>1, RestTotality DEF Totality
  <2>2. CASE \A p \in Correct : ~ decided[p]
    <3>1. \A p \in Correct : sentEcho[p]
      BY <1>3, <2>2 DEF RestInv, EchoDue, AtRest, Idle
    <3>2. \A p \in Correct : p \in sent[h]
      <4>1. EchoSent /\ OneEcho
        BY Zenon DEF RestInv, SafeInv
      <4> QED BY <1>3, <3>1, <4>1 DEF EchoSent, OneEcho
    <3>3. Correct \in SUBSET SigMap[q][h]
      BY Zenon, <3>2 DEF AtRest, Available
    <3>4. decisionHash[q] = h
      BY <3>3, CorrectCount, QuorumDecides
    <3>Parts. InitNoticed
      BY Zenon DEF RestInv
    <3> QED BY <1>3, <3>4, <3>Parts DEF InitNoticed, AtRest, Idle
  <2> QED BY <2>1, <2>2
<1>5. decisionHash[q] \in init
  BY <1>2, <1>3, <1>4 DEF RestInv, DecidedHere
<1> QED BY <1>4, <1>5

\* Reliable broadcast for every number of nodes and of threads, every assignment of faulty members
\* and every order of messages, timeouts and recoveries: the correct nodes never come to rest with
\* some of them having decided and others not (GotMsg, checkProgress, absmvrecover.go).
THEOREM TotalityHolds == Spec => []Totality
BY Safety, RestInvariance, RestTotality, PTL

\* Nor do they come to rest undecided once a correct coordinator has proposed; what they then have
\* decided is its proposal.
THEOREM DeliveryHolds == Spec => []Delivery
BY Safety, RestInvariance, RestDelivery, PTL
=============================================================================
