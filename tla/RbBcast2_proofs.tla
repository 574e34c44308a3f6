--------------------------- MODULE RbBcast2_proofs ---------------------------
(***************************************************************************)
(* RbBcast2 for every number of members, of hashes and of threads, with    *)
(* and without signatures: SafeInv, inductive, gives Agreement and         *)
(* NoPanic, and every step is one of Consensus or changes none of its      *)
(* state (Refinement).  Its core is that a commit of a correct node is     *)
(* backed by n-t echoes.                                                   *)
(***************************************************************************)
EXTENDS RbBcast2, Members_proofs

-----------------------------------------------------------------------------
(* Types: every step leaves every variable in its set.                     *)

\* Correct and faulty nodes are members of the committee.
LEMMA CorrectMembers == Correct \subseteq Members /\ Faulty \subseteq Members
BY MembersAssumption DEF Correct

\* The first of a node's own messages is one of Messages, and the rest is a sequence of them.
LEMMA OwnMessage ==
    ASSUME TypeOK, NEW p \in Correct, SelfMessages[p] # <<>>
    PROVE  /\ Head(SelfMessages[p]) \in Messages
           /\ Tail(SelfMessages[p]) \in Seq(Messages)
<1>1. SelfMessages[p] \in Seq(Messages)
  BY DEF TypeOK, LoopTypes
<1> QED BY <1>1

\* Storing a message of the node's own, of kind k for h.
OwnCount(p, k, h) == [kind |-> k, hash |-> h, NewTotalSigCount |-> Cardinality(SigMap[p][k][h] \cup {p})]

StoresOwn(p, k, h) ==
    /\ p \notin SigMap[p][k][h]
    /\ SigMap' = [SigMap EXCEPT ![p][k][h] = SigMap[p][k][h] \cup {p}]
    /\ UpdateSupported(p, OwnCount(p, k, h))
    /\ pc' = [pc EXCEPT ![p] = "start"]
    /\ UNCHANGED <<validatedInitHashes, recovers, requestedRecover>>

\* An own message is an init, which is validated, or a vote, which is stored and counted.
LEMMA SelfMessageCases ==
    ASSUME TypeOK, NEW p \in Correct, ProcessSelfMessage(p)
    PROVE  \E h \in Hash :
              \/ /\ Head(SelfMessages[p]) = [kind |-> "init", hash |-> h]
                 /\ ValidateInit(p, h)
                 /\ UNCHANGED <<SigMap, supVars, panicked>>
              \/ \E k \in Kind : /\ Head(SelfMessages[p]) = [kind |-> k, hash |-> h]
                                 /\ StoresOwn(p, k, h)
              \/ UNCHANGED <<SigMap, supVars, panicked, pc, validatedInitHashes, recovers, requestedRecover>>
<1> DEFINE m == Head(SelfMessages[p])
<1>1. m \in Messages
  BY Zenon, OwnMessage DEF ProcessSelfMessage
<1>2. /\ m.kind \in Kind \cup {"init"} /\ m.hash \in Hash
      /\ m = [kind |-> m.kind, hash |-> m.hash]
  BY <1>1 DEF Messages
<1>3. \/ m.kind = "init" /\ ValidateInit(p, m.hash) /\ UNCHANGED <<SigMap, supVars, panicked>>
      \/ m.kind # "init" /\ StoresOwn(p, m.kind, m.hash)
      \/ UNCHANGED <<SigMap, supVars, panicked, pc, validatedInitHashes, recovers, requestedRecover>>
  BY Zenon DEF ProcessSelfMessage, StoresOwn, OwnCount
<1> HIDE DEF m
<1> QED BY <1>2, <1>3, Zenon DEF m

\* The count taken of an own vote is well typed.
LEMMA OwnCountType ==
    ASSUME TypeOK, NEW p \in Correct, NEW k \in Kind, NEW h \in Hash
    PROVE  OwnCount(p, k, h) \in Counts /\ SigMap[p][k][h] \cup {p} \in SUBSET Members
<1>1. SigMap[p][k][h] \cup {p} \in SUBSET Members
  BY CorrectMembers DEF TypeOK, CountTypes
<1>2. Cardinality(SigMap[p][k][h] \cup {p}) \in 0..GetMemberCount
  BY <1>1, CountSubset
<1> QED BY <1>1, <1>2 DEF OwnCount, Counts

\* checkProgress sends no echo, or one for a validated init.
LEMMA CheckSendEchoCases ==
    ASSUME TypeOK, NEW p \in Correct, CheckSendEcho(p)
    PROVE  \/ /\ decided[p] \/ sentEcho[p] \/ validatedInitHashes[p] = {}
              /\ UNCHANGED <<sent, SelfMessages, sentEcho>>
           \/ /\ ~ sentEcho[p]
              /\ sentEcho' = [sentEcho EXCEPT ![p] = TRUE]
              /\ \E h \in Hash : h \in validatedInitHashes[p] /\ Broadcast(p, "echo", h)
<1>1. validatedInitHashes[p] \subseteq Hash
  BY DEF TypeOK, LoopTypes
<1> QED BY <1>1, Zenon DEF CheckSendEcho

\* A commit is sent for the hash with n-t echoes, or for the one with more than t commits.
SendsCommit(p, h) ==
    /\ h # Nil
    /\ Broadcast(p, "commit", h)
    /\ sentCommit' = [sentCommit EXCEPT ![p] = TRUE]
    /\ pc' = [pc EXCEPT ![p] = "decide"]

\* A count of more than t commits is of some hash.
CommitNamed == \A p \in Correct : supportedCommitCount[p] > t => supportedCommitHash[p] # Nil

\* The recover timer runs only at a node that has the hash of its decision.
TimerStarted == \A p \in Correct : requestRecoverTimer[p] # "nil" => decisionHash[p] # Nil

\* Every step keeps the types.
LEMMA NextTypeOK == TypeOK /\ TimerStarted /\ CommitNamed /\ [Next]_vars => TypeOK'
<1>StoreMsgTypeOK.
    ASSUME TypeOK, NEW p \in Correct, NEW k \in Kind, NEW h \in Hash, NEW S \in SUBSET Signers(k, h),
           StoreMsg(p, k, h, S), UNCHANGED conf
    PROVE  TypeOK'
  <2> USE <1>StoreMsgTypeOK
  <2> DEFINE d == [kind |-> k, hash |-> h, NewTotalSigCount |-> Cardinality(SigMap[p][k][h] \cup S)]
  <2>1. SigMap[p][k][h] \cup S \in SUBSET Members
    <3>1. sent[k][h] \in SUBSET Correct /\ SigMap[p][k][h] \in SUBSET Members
      BY DEF TypeOK, NetTypes, CountTypes
    <3> QED BY <3>1, CorrectMembers DEF Signers
  <2>2. d \in Counts
    BY <2>1, CountSubset DEF Counts
  <2>3. storing' \in [Correct -> SUBSET Counts]
    BY <2>2, Zenon DEF StoreMsg, TypeOK, CountTypes
  <2>4. SigMap' \in [Correct -> [Kind -> [Hash -> SUBSET Members]]]
    BY Zenon, <2>1 DEF StoreMsg, TypeOK, CountTypes
  <2> QED BY Zenon, <2>3, <2>4 DEF StoreMsg, TypeOK, NetTypes, CountTypes, LoopTypes, DecisionTypes, conf, netVars, supVars, recVars
  \* The supported hashes and the count of commits, after GotMsg has seen the count d.
<1>UpdateSupportedTypeOK.
    ASSUME TypeOK, NEW p \in Correct, NEW d \in Counts, UpdateSupported(p, d)
    PROVE  /\ supportedEchoHash' \in [Correct -> Hash \cup {Nil}]
           /\ supportedCommitHash' \in [Correct -> Hash \cup {Nil}]
           /\ supportedCommitCount' \in [Correct -> 0..GetMemberCount]
           /\ panicked' \in [Correct -> BOOLEAN]
  <2> USE <1>UpdateSupportedTypeOK
  <2>1. d.hash \in Hash /\ d.NewTotalSigCount \in 0..GetMemberCount
    BY DEF Counts
  <2>2. CASE Conflicts(p, d)
    BY Zenon, <2>2 DEF UpdateSupported, TypeOK, CountTypes, DecisionTypes, supVars
  <2>3. CASE ~ Conflicts(p, d)
    <3>1. \A a, b \in 0..GetMemberCount : Raise(a, b) \in 0..GetMemberCount
      BY DEF Raise
    <3>2. supportedEchoHash' \in [Correct -> Hash \cup {Nil}]
      <4>1. supportedEchoHash' =
              [supportedEchoHash EXCEPT ![p] = IF EnoughEchos(d) THEN d.hash ELSE supportedEchoHash[p]]
        BY <2>3 DEF UpdateSupported
      <4> QED BY <2>1, <4>1 DEF TypeOK, CountTypes
    <3>3. supportedCommitHash' \in [Correct -> Hash \cup {Nil}]
      <4>1. supportedCommitHash' =
              [supportedCommitHash EXCEPT ![p] = IF EnoughCommits(d) THEN d.hash ELSE supportedCommitHash[p]]
        BY <2>3 DEF UpdateSupported
      <4> QED BY <2>1, <4>1 DEF TypeOK, CountTypes
    <3>4. supportedCommitCount' \in [Correct -> 0..GetMemberCount]
      <4>1. supportedCommitCount' =
              [supportedCommitCount EXCEPT ![p] =
                 IF EnoughCommits(d) THEN Raise(supportedCommitCount[p], d.NewTotalSigCount)
                 ELSE supportedCommitCount[p]]
        BY <2>3 DEF UpdateSupported
      <4>2. Raise(supportedCommitCount[p], d.NewTotalSigCount) \in 0..GetMemberCount
        BY Zenon, <2>1, <3>1 DEF TypeOK, CountTypes
      <4> QED BY <4>1, <4>2 DEF TypeOK, CountTypes
    <3> QED BY Zenon, <2>3, <3>2, <3>3, <3>4 DEF UpdateSupported, TypeOK, DecisionTypes
  <2> QED BY <2>2, <2>3
<1>UpdateTypeOK.
    ASSUME TypeOK, NEW p \in Correct, NEW d \in storing[p], Update(p, d), UNCHANGED conf
    PROVE  TypeOK'
  <2> USE <1>UpdateTypeOK
  <2>1. d \in Counts
    BY DEF TypeOK, CountTypes
  <2>2. /\ supportedEchoHash' \in [Correct -> Hash \cup {Nil}]
        /\ supportedCommitHash' \in [Correct -> Hash \cup {Nil}]
        /\ supportedCommitCount' \in [Correct -> 0..GetMemberCount]
        /\ panicked' \in [Correct -> BOOLEAN]
    BY <2>1, <1>UpdateSupportedTypeOK DEF Update
  <2>3. storing' \in [Correct -> SUBSET Counts] /\ queue' \in [Correct -> SUBSET Items]
    BY Zenon DEF Update, TypeOK, CountTypes, LoopTypes, Items
  <2> QED BY Zenon, <2>2, <2>3 DEF Update, TypeOK, NetTypes, CountTypes, LoopTypes, DecisionTypes, conf, netVars, recVars
<1>StoreInitTypeOK.
    ASSUME TypeOK, NEW p \in Correct, NEW h \in Hash, StoreInit(p, h), UNCHANGED conf
    PROVE  TypeOK'
  <2> USE <1>StoreInitTypeOK
  <2>1. InitItem(h) \in Items
    BY DEF InitItem, Items
  <2> QED BY Zenon, <2>1 DEF StoreInit, TypeOK, NetTypes, CountTypes, LoopTypes, DecisionTypes, conf, netVars, supVars, recVars
  \* A message that a node sends to itself.
<1>AppendTypeOK.
    ASSUME TypeOK, NEW p \in Correct, NEW m \in Messages
    PROVE  [SelfMessages EXCEPT ![p] = Append(SelfMessages[p], m)] \in [Correct -> Seq(Messages)]
  <2> USE <1>AppendTypeOK
  <2>1. /\ SelfMessages \in [Correct -> Seq(Messages)]
        /\ Append(SelfMessages[p], m) \in Seq(Messages)
    BY DEF TypeOK, LoopTypes
  <2> QED BY <2>1, Zenon
<1>GotProposalTypeOK.
    ASSUME TypeOK, NEW p \in Correct, NEW h \in Hash, GotProposal(p, h), UNCHANGED conf
    PROVE  TypeOK'
  <2> USE <1>GotProposalTypeOK
  <2>1. InitItem(h) \in Messages
    BY DEF InitItem, Messages
  <2>2. SelfMessages' \in [Correct -> Seq(Messages)]
    BY <2>1, <1>AppendTypeOK DEF GotProposal
  <2> QED BY Zenon, <2>2 DEF GotProposal, TypeOK, NetTypes, CountTypes, LoopTypes, DecisionTypes, conf, supVars, recVars
<1>BroadcastTypeOK.
    ASSUME TypeOK, NEW p \in Correct, NEW k \in Kind, NEW h \in Hash, Broadcast(p, k, h)
    PROVE  /\ sent' \in [Kind -> [Hash -> SUBSET Correct]]
           /\ SelfMessages' \in [Correct -> Seq(Messages)]
  <2> USE <1>BroadcastTypeOK
  <2>1. [kind |-> k, hash |-> h] \in Messages
    BY DEF Messages
  <2>2. SelfMessages' \in [Correct -> Seq(Messages)]
    BY <2>1, <1>AppendTypeOK DEF Broadcast
  <2>3. sent' \in [Kind -> [Hash -> SUBSET Correct]]
    BY DEF Broadcast, TypeOK, NetTypes
  <2> QED BY <2>2, <2>3
  \* The recovery messages that a node sends back are of the right type.
<1>SendRecoverTypeOK.
    ASSUME TypeOK, NEW p \in Correct, NEW reqs \in SUBSET Requests, NEW inits, SendRecover(p, reqs, inits)
    PROVE  /\ recovers' \subseteq [to : Correct, hash : Hash]
           /\ requestedRecover' \in [Correct -> SUBSET Requests]
  <2> USE <1>SendRecoverTypeOK
  <2>1. \A r \in reqs : r.from \in Correct /\ r.hash \in Hash
    BY DEF Requests
  <2> QED BY <2>1 DEF SendRecover, TypeOK, NetTypes, DecisionTypes
<1>ProcessInitTypeOK.
    ASSUME TypeOK, NEW p \in Correct, NEW h \in Hash, ProcessInit(p, h), UNCHANGED conf
    PROVE  TypeOK'
  <2> USE <1>ProcessInitTypeOK
  <2>1. /\ recovers' \subseteq [to : Correct, hash : Hash]
        /\ requestedRecover' \in [Correct -> SUBSET Requests]
    BY Zenon, <1>SendRecoverTypeOK DEF ProcessInit, ValidateInit, TypeOK, DecisionTypes
  <2> QED BY Zenon, <2>1 DEF ProcessInit, ValidateInit, TypeOK, NetTypes, CountTypes, LoopTypes, DecisionTypes, conf, supVars
<1>ProcessMessageTypeOK.
    ASSUME TypeOK, NEW p \in Correct, ProcessMessage(p), UNCHANGED conf
    PROVE  TypeOK'
  BY Zenon, <1>ProcessMessageTypeOK DEF ProcessMessage, TypeOK, NetTypes, CountTypes, LoopTypes, DecisionTypes, conf, netVars, supVars, recVars
<1>ProcessSelfMessageTypeOK.
    ASSUME TypeOK, NEW p \in Correct, ProcessSelfMessage(p), UNCHANGED conf
    PROVE  TypeOK'
  <2> USE <1>ProcessSelfMessageTypeOK
  <2>1. SelfMessages' \in [Correct -> Seq(Messages)]
    <3>1. Tail(SelfMessages[p]) \in Seq(Messages)
      BY Zenon, OwnMessage DEF ProcessSelfMessage
    <3> QED BY <3>1, Zenon DEF ProcessSelfMessage, TypeOK, LoopTypes
  <2>2. UNCHANGED <<init, sent, requests, storing, queue, sentEcho, sentCommit, decisionHash, decided,
                    requestRecoverTimer, sentRequestRecover>>
    BY Zenon DEF ProcessSelfMessage
  <2>3. ASSUME NEW h \in Hash, ValidateInit(p, h), UNCHANGED <<SigMap, supVars, panicked>>
        PROVE  TypeOK'
    <3>1. /\ recovers' \subseteq [to : Correct, hash : Hash]
          /\ requestedRecover' \in [Correct -> SUBSET Requests]
      BY Zenon, <2>3, <1>SendRecoverTypeOK DEF ValidateInit, TypeOK, DecisionTypes
    <3> QED BY Zenon, <2>1, <2>2, <2>3, <3>1 DEF ValidateInit, TypeOK, NetTypes, CountTypes, LoopTypes, DecisionTypes, conf, supVars
  <2>4. ASSUME NEW k \in Kind, NEW h \in Hash, StoresOwn(p, k, h)
        PROVE  TypeOK'
    <3>1. OwnCount(p, k, h) \in Counts /\ SigMap[p][k][h] \cup {p} \in SUBSET Members
      BY OwnCountType
    <3>2. /\ supportedEchoHash' \in [Correct -> Hash \cup {Nil}]
          /\ supportedCommitHash' \in [Correct -> Hash \cup {Nil}]
          /\ supportedCommitCount' \in [Correct -> 0..GetMemberCount]
          /\ panicked' \in [Correct -> BOOLEAN]
      BY Zenon, <2>4, <3>1, <1>UpdateSupportedTypeOK DEF StoresOwn
    <3>3. SigMap' \in [Correct -> [Kind -> [Hash -> SUBSET Members]]]
      BY Zenon, <2>4, <3>1 DEF StoresOwn, TypeOK, CountTypes
    <3>4. pc' \in [Correct -> {"recv", "start", "echoHash", "commitHash", "decide"}]
      BY Zenon, <2>4 DEF StoresOwn, TypeOK, LoopTypes
    <3> QED BY Zenon, <2>1, <2>2, <2>4, <3>2, <3>3, <3>4 DEF StoresOwn, TypeOK, NetTypes, CountTypes, LoopTypes, DecisionTypes, conf
  <2>5. CASE UNCHANGED <<SigMap, supVars, panicked, pc, validatedInitHashes, recovers, requestedRecover>>
    BY Zenon, <2>1, <2>2, <2>5 DEF TypeOK, NetTypes, CountTypes, LoopTypes, DecisionTypes, conf, supVars
  <2> QED BY Zenon, <2>3, <2>4, <2>5, SelfMessageCases
<1>CheckSendEchoTypeOK.
    ASSUME TypeOK, NEW p \in Correct, CheckSendEcho(p), UNCHANGED conf
    PROVE  TypeOK'
  <2> USE <1>CheckSendEchoTypeOK
  <2>1. pc' \in [Correct -> {"recv", "start", "echoHash", "commitHash", "decide"}]
    BY Zenon DEF CheckSendEcho, TypeOK, LoopTypes
  <2>2. /\ sent' \in [Kind -> [Hash -> SUBSET Correct]]
        /\ SelfMessages' \in [Correct -> Seq(Messages)]
        /\ sentEcho' \in [Correct -> BOOLEAN]
    <3>1. CASE UNCHANGED <<sent, SelfMessages, sentEcho>>
      BY <3>1 DEF TypeOK, NetTypes, LoopTypes
    <3>2. ASSUME NEW h \in Hash, Broadcast(p, "echo", h), sentEcho' = [sentEcho EXCEPT ![p] = TRUE]
          PROVE  /\ sent' \in [Kind -> [Hash -> SUBSET Correct]]
                 /\ SelfMessages' \in [Correct -> Seq(Messages)]
                 /\ sentEcho' \in [Correct -> BOOLEAN]
      <4>1. "echo" \in Kind
        BY DEF Kind
      <4>2. sentEcho' \in [Correct -> BOOLEAN]
        BY <3>2 DEF TypeOK, LoopTypes
      <4> QED BY <3>2, <4>1, <4>2, <1>BroadcastTypeOK
    <3> QED BY <3>1, <3>2, CheckSendEchoCases
  <2> QED BY Zenon, <2>1, <2>2 DEF CheckSendEcho, TypeOK, NetTypes, CountTypes, LoopTypes, DecisionTypes, conf, supVars, recVars
<1>SendsCommitTypeOK.
    ASSUME TypeOK, NEW p \in Correct, NEW h \in Hash, SendsCommit(p, h)
    PROVE  /\ sent' \in [Kind -> [Hash -> SUBSET Correct]]
           /\ SelfMessages' \in [Correct -> Seq(Messages)]
           /\ sentCommit' \in [Correct -> BOOLEAN]
           /\ pc' \in [Correct -> {"recv", "start", "echoHash", "commitHash", "decide"}]
  <2> USE <1>SendsCommitTypeOK
  <2>1. "commit" \in Kind
    BY DEF Kind
  <2>2. /\ sentCommit' \in [Correct -> BOOLEAN]
        /\ pc' \in [Correct -> {"recv", "start", "echoHash", "commitHash", "decide"}]
    BY DEF SendsCommit, TypeOK, LoopTypes
  <2> QED BY <2>1, <2>2, <1>BroadcastTypeOK DEF SendsCommit
<1>CheckEchoHashTypeOK.
    ASSUME TypeOK, NEW p \in Correct, CheckEchoHash(p), UNCHANGED conf
    PROVE  TypeOK'
  <2> USE <1>CheckEchoHashTypeOK
  <2>1. CASE supportedEchoHash[p] # Nil
    <3>1. supportedEchoHash[p] \in Hash /\ SendsCommit(p, supportedEchoHash[p])
      BY <2>1 DEF CheckEchoHash, SendsCommit, TypeOK, CountTypes
    <3> QED BY Zenon, <3>1, <1>SendsCommitTypeOK DEF CheckEchoHash, TypeOK, NetTypes, CountTypes, LoopTypes, DecisionTypes, conf, supVars, recVars
  <2>2. CASE supportedEchoHash[p] = Nil
    BY Zenon, <2>2 DEF CheckEchoHash, TypeOK, NetTypes, CountTypes, LoopTypes, DecisionTypes, conf, supVars, recVars
  <2> QED BY <2>1, <2>2
<1>CheckCommitHashTypeOK.
    ASSUME TypeOK, CommitNamed, NEW p \in Correct, CheckCommitHash(p), UNCHANGED conf
    PROVE  TypeOK'
  <2> USE <1>CheckCommitHashTypeOK
  <2>1. CASE supportedCommitCount[p] > t
    <3>1. supportedCommitHash[p] \in Hash /\ SendsCommit(p, supportedCommitHash[p])
      BY Zenon, <2>1 DEF CheckCommitHash, SendsCommit, TypeOK, CountTypes, CommitNamed
    <3> QED BY Zenon, <3>1, <1>SendsCommitTypeOK DEF CheckCommitHash, TypeOK, NetTypes, CountTypes, LoopTypes, DecisionTypes, conf, supVars, recVars
  <2>2. CASE ~ (supportedCommitCount[p] > t)
    BY Zenon, <2>2 DEF CheckCommitHash, TypeOK, NetTypes, CountTypes, LoopTypes, DecisionTypes, conf, supVars, recVars
  <2> QED BY <2>1, <2>2
<1>DecideTypeOK.
    ASSUME TypeOK, NEW p \in Correct, Decide(p), UNCHANGED conf
    PROVE  TypeOK'
  <2> USE <1>DecideTypeOK
  <2>1. panicked' \in [Correct -> BOOLEAN]
    BY Zenon DEF Decide, TypeOK, DecisionTypes
  <2>2. decided' \in [Correct -> BOOLEAN]
    <3>1. \/ UNCHANGED decided
          \/ decided' = [decided EXCEPT ![p] = supportedCommitHash[p] \in validatedInitHashes[p]]
      BY Zenon DEF Decide
    <3>2. (supportedCommitHash[p] \in validatedInitHashes[p]) \in BOOLEAN
      OBVIOUS
    <3>3. PICK v \in BOOLEAN : UNCHANGED decided \/ decided' = [decided EXCEPT ![p] = v]
      BY <3>1, <3>2, Zenon
    <3>4. decided \in [Correct -> BOOLEAN]
      BY DEF TypeOK, DecisionTypes
    <3> QED BY <3>3, <3>4
  <2>3. decisionHash' \in [Correct -> Hash \cup {Nil}]
    <3>1. supportedCommitHash[p] \in Hash \cup {Nil}
      BY DEF TypeOK, CountTypes
    <3>2. \/ UNCHANGED decisionHash
          \/ decisionHash' = [decisionHash EXCEPT ![p] = supportedCommitHash[p]]
      BY Zenon DEF Decide
    <3> QED BY Zenon, <3>1, <3>2 DEF TypeOK, DecisionTypes
  <2>4. requestRecoverTimer' \in [Correct -> {"nil", "running", "fired"}]
    <3>1. \/ UNCHANGED requestRecoverTimer
          \/ \E v \in {"nil", "running", "fired"} :
                requestRecoverTimer' = [requestRecoverTimer EXCEPT ![p] = v]
      BY Zenon DEF Decide, TypeOK, DecisionTypes
    <3> QED BY Zenon, <3>1 DEF TypeOK, DecisionTypes
  <2>5. pc' \in [Correct -> {"recv", "start", "echoHash", "commitHash", "decide"}]
    BY Zenon DEF Decide, TypeOK, LoopTypes
  <2> QED BY Zenon, <2>1, <2>2, <2>3, <2>4, <2>5 DEF Decide, TypeOK, NetTypes, CountTypes, LoopTypes, DecisionTypes, conf, netVars, supVars
<1>RecoverTimeoutTypeOK.
    ASSUME TypeOK, TimerStarted, NEW p \in Correct, RecoverTimeout(p), UNCHANGED conf
    PROVE  TypeOK'
  <2> USE <1>RecoverTimeoutTypeOK
  <2>1. decisionHash[p] \in Hash
    BY Zenon DEF RecoverTimeout, TimerStarted, TypeOK, DecisionTypes
  <2>2. requests' \subseteq Requests
    BY <2>1 DEF RecoverTimeout, TypeOK, NetTypes, Requests
  <2> QED BY Zenon, <2>2 DEF RecoverTimeout, TypeOK, NetTypes, CountTypes, LoopTypes, DecisionTypes, conf, supVars
<1>GotRequestRecoverTypeOK.
    ASSUME TypeOK, NEW p \in Correct, NEW r \in requests, GotRequestRecover(p, r), UNCHANGED conf
    PROVE  TypeOK'
  <2> USE <1>GotRequestRecoverTypeOK
  <2>1. /\ recovers' \subseteq [to : Correct, hash : Hash]
        /\ requestedRecover' \in [Correct -> SUBSET Requests]
    BY Zenon, <1>SendRecoverTypeOK DEF GotRequestRecover, TypeOK, NetTypes, DecisionTypes
  <2> QED BY Zenon, <2>1 DEF GotRequestRecover, TypeOK, NetTypes, CountTypes, LoopTypes, DecisionTypes, conf, supVars
<1> SUFFICES ASSUME TypeOK, TimerStarted, CommitNamed, [Next]_vars PROVE TypeOK'
  OBVIOUS
<1>1. CASE UNCHANGED vars
  BY Zenon, <1>1 DEF TypeOK, NetTypes, CountTypes, LoopTypes, DecisionTypes, vars, conf
<1>2. CASE Next
  <2>1. UNCHANGED conf
    BY <1>2 DEF Next
  <2>2. PICK p \in Correct : GotMsg(p) \/ MainLoop(p)
    BY <1>2 DEF Next
  <2>3. CASE GotMsg(p)
    BY Zenon, <2>1, <2>3, <1>StoreMsgTypeOK, <1>UpdateTypeOK, <1>StoreInitTypeOK DEF GotMsg, RecvInit, RecvRecover
  <2>4. CASE MainLoop(p)
    <3>1. CASE \E h \in Hash : GotProposal(p, h) \/ ProcessInit(p, h)
      BY <2>1, <3>1, <1>GotProposalTypeOK, <1>ProcessInitTypeOK
    <3>2. CASE ProcessMessage(p) \/ ProcessSelfMessage(p)
      BY <2>1, <3>2, <1>ProcessMessageTypeOK, <1>ProcessSelfMessageTypeOK
    <3>3. CASE checkProgress(p)
      BY <2>1, <3>3, <1>CheckSendEchoTypeOK, <1>CheckEchoHashTypeOK, <1>CheckCommitHashTypeOK, <1>DecideTypeOK DEF checkProgress
    <3>4. CASE RecoverTimeout(p)
      BY <2>1, <3>4, <1>RecoverTimeoutTypeOK
    <3>5. CASE \E r \in requests : GotRequestRecover(p, r)
      BY <2>1, <3>5, <1>GotRequestRecoverTypeOK
    <3> QED BY <2>4, <3>1, <3>2, <3>3, <3>4, <3>5 DEF MainLoop
  <2> QED BY <2>2, <2>3, <2>4
<1> QED BY <1>1, <1>2

-----------------------------------------------------------------------------
(* The inductive invariant behind agreement.                               *)
\* A correct node echoes one hash, of an init message it has validated.
OneEcho ==
    /\ \A p \in Correct, g, h \in Hash : p \in sent["echo"][g] /\ p \in sent["echo"][h] => g = h
    /\ \A p \in Correct, h \in Hash :
          p \in sent["echo"][h] => sentEcho[p] /\ h \in validatedInitHashes[p]

\* It commits only to a hash that n-t members have echoed.
EchoQuorum(h) == Cardinality(Signers("echo", h)) >= nmt

CommitBacked == \A p \in Correct, h \in Hash : p \in sent["commit"][h] => EchoQuorum(h)

\* What a node has stored was sent, or comes from a faulty member; the counts that its threads
\* carry and its supported hashes rest on what it has stored.
StoredSent == \A p \in Correct, k \in Kind, h \in Hash : SigMap[p][k][h] \subseteq Signers(k, h)

CountsStored ==
    \A p \in Correct : \A d \in storing[p] :
        d.NewTotalSigCount <= Cardinality(SigMap[p][d.kind][d.hash])

EchoStored ==
    \A p \in Correct :
        supportedEchoHash[p] # Nil => Cardinality(SigMap[p]["echo"][supportedEchoHash[p]]) >= nmt

CommitStored ==
    \A p \in Correct :
        supportedCommitHash[p] # Nil =>
            /\ supportedCommitCount[p] > t
            /\ supportedCommitCount[p] <= Cardinality(SigMap[p]["commit"][supportedCommitHash[p]])

\* A node's own echoes and commits are broadcast to the others too.
OwnSent ==
    \A p \in Correct : \A i \in 1..Len(SelfMessages[p]) :
        SelfMessages[p][i].kind \in Kind => p \in sent[SelfMessages[p][i].kind][SelfMessages[p][i].hash]

\* What is decided has n-t commits.
DecisionSupported ==
    \A p \in Correct : decisionHash[p] # Nil =>
        decisionHash[p] = supportedCommitHash[p] /\ supportedCommitCount[p] >= nmt

SafeInv == /\ TypeOK
           /\ TimerStarted
           /\ CommitNamed
           /\ OneEcho
           /\ CommitBacked
           /\ StoredSent
           /\ CountsStored
           /\ EchoStored
           /\ CommitStored
           /\ OwnSent
           /\ DecisionSupported
           /\ NoPanic

\* The parts of the type invariant, for the steps that need one of them.
LEMMA SafeTypes == SafeInv => NetTypes /\ CountTypes /\ LoopTypes /\ DecisionTypes
BY Zenon DEF SafeInv, TypeOK

\* Echo and commit are the two kinds of vote.
LEMMA KindFacts == "echo" \in Kind /\ "commit" \in Kind
BY DEF Kind

\* Those who may have signed a vote are members.
LEMMA SignersMembers ==
    ASSUME TypeOK, NEW k \in Kind, NEW h \in Hash
    PROVE  Signers(k, h) \in SUBSET Members
<1>1. sent[k][h] \in SUBSET Correct
  BY DEF TypeOK, NetTypes
<1> QED BY <1>1, CorrectMembers DEF Signers

\* n-t echoes are there for one hash only.
LEMMA OneQuorum ==
    ASSUME TypeOK, OneEcho, NEW g \in Hash, NEW h \in Hash, EchoQuorum(g), EchoQuorum(h)
    PROVE  g = h
<1>1. Signers("echo", g) \in SUBSET Members /\ Signers("echo", h) \in SUBSET Members
  BY SignersMembers, KindFacts
<1>2. PICK q \in Correct : q \in Signers("echo", g) /\ q \in Signers("echo", h)
  BY <1>1, QuorumsMeet DEF EchoQuorum
<1>3. q \in sent["echo"][g] /\ q \in sent["echo"][h]
  BY <1>2 DEF Signers, Correct
<1> QED BY <1>3 DEF OneEcho

\* n-t stored echoes show that n-t members have echoed, and so do more than t stored commits, one of
\* which is a correct node's.
LEMMA EchoesBack ==
    ASSUME TypeOK, NEW h \in Hash, NEW A \in SUBSET Signers("echo", h), Cardinality(A) >= nmt
    PROVE  EchoQuorum(h)
<1>1. Signers("echo", h) \in SUBSET Members
  BY SignersMembers, KindFacts
<1> QED BY <1>1, CountSubset, MemberCounts DEF EchoQuorum

\* Of more than t commits one is a correct node's, which had seen a quorum of echoes.
LEMMA CommitsBack ==
    ASSUME TypeOK, CommitBacked, NEW h \in Hash, NEW A \in SUBSET Signers("commit", h),
           Cardinality(A) > t
    PROVE  EchoQuorum(h)
<1>1. A \in SUBSET Members
  BY SignersMembers, KindFacts
<1>2. PICK q \in Correct : q \in A
  BY <1>1, ManyHaveCorrect
<1>3. q \in sent["commit"][h]
  BY <1>2 DEF Signers, Correct
<1> QED BY <1>3 DEF CommitBacked

\* Stored signatures are never dropped, so that what was counted stays counted.
MoreStored == \A q \in Correct, k \in Kind, g \in Hash : SigMap[q][k][g] \subseteq SigMap'[q][k][g]

\* When votes are only added, no count falls.
LEMMA MoreCounted ==
    ASSUME TypeOK, TypeOK', MoreStored
    PROVE  \A q \in Correct, k \in Kind, g \in Hash :
               /\ Cardinality(SigMap[q][k][g]) \in 0..GetMemberCount
               /\ Cardinality(SigMap'[q][k][g]) \in 0..GetMemberCount
               /\ Cardinality(SigMap[q][k][g]) <= Cardinality(SigMap'[q][k][g])
<1> TAKE q \in Correct, k \in Kind, g \in Hash
<1>1. SigMap'[q][k][g] \in SUBSET Members
  BY DEF TypeOK, CountTypes
<1>2. SigMap[q][k][g] \in SUBSET SigMap'[q][k][g]
  BY DEF MoreStored
<1> QED BY Zenon, <1>1, <1>2, CountSubset

\* The supported echo hash keeps its echoes.
LEMMA KeepsEcho ==
    ASSUME TypeOK, TypeOK', MoreStored, EchoStored, NEW q \in Correct, supportedEchoHash[q] # Nil
    PROVE  Cardinality(SigMap'[q]["echo"][supportedEchoHash[q]]) >= nmt
<1>1. /\ supportedEchoHash[q] \in Hash
      /\ Cardinality(SigMap[q]["echo"][supportedEchoHash[q]]) >= nmt
  BY DEF EchoStored, TypeOK, CountTypes
<1> QED BY <1>1, MoreCounted, MemberCounts, KindFacts

\* The supported commit hash keeps its commits.
LEMMA KeepsCommit ==
    ASSUME TypeOK, TypeOK', MoreStored, CommitStored, NEW q \in Correct, supportedCommitHash[q] # Nil
    PROVE  /\ supportedCommitCount[q] > t
           /\ supportedCommitCount[q] <= Cardinality(SigMap'[q]["commit"][supportedCommitHash[q]])
<1>1. /\ supportedCommitHash[q] \in Hash
      /\ supportedCommitCount[q] > t
      /\ supportedCommitCount[q] <= Cardinality(SigMap[q]["commit"][supportedCommitHash[q]])
      /\ supportedCommitCount[q] \in Int
  BY MemberCounts DEF CommitStored, TypeOK, CountTypes
<1> QED BY <1>1, MoreCounted, MemberCounts, KindFacts

\* Updating the supported hashes from a count that what is stored bears out: no conflict arises.
LEMMA NoConflict ==
    ASSUME TypeOK, TypeOK', OneEcho, CommitBacked, EchoStored, CommitStored, MoreStored,
           StoredSent', UNCHANGED sent, NEW p \in Correct, NEW d \in Counts,
           d.NewTotalSigCount <= Cardinality(SigMap'[p][d.kind][d.hash])
    PROVE  ~ Conflicts(p, d)
<1>1. d.kind \in Kind /\ d.hash \in Hash /\ d.NewTotalSigCount \in Int
  BY MemberCounts DEF Counts
<1>2. Cardinality(SigMap'[p][d.kind][d.hash]) \in Int /\ nmt \in Int /\ t \in Int
  BY <1>1, MoreCounted, MemberCounts
<1>3. \A k \in Kind, h \in Hash : SigMap'[p][k][h] \in SUBSET Signers(k, h)
  BY Zenon DEF StoredSent, Signers
<1>4. ASSUME supportedEchoHash[p] # Nil PROVE EchoQuorum(supportedEchoHash[p])
  <2>1. supportedEchoHash[p] \in Hash /\ Cardinality(SigMap'[p]["echo"][supportedEchoHash[p]]) >= nmt
    BY Zenon, <1>4, KeepsEcho DEF TypeOK, CountTypes
  <2> QED BY Zenon, <1>3, <2>1, KindFacts, EchoesBack
<1>5. ASSUME supportedCommitHash[p] # Nil PROVE EchoQuorum(supportedCommitHash[p])
  <2> DEFINE c == Cardinality(SigMap'[p]["commit"][supportedCommitHash[p]])
  <2>1. /\ supportedCommitHash[p] \in Hash
        /\ supportedCommitCount[p] > t /\ supportedCommitCount[p] <= c
    BY Zenon, <1>5, KeepsCommit DEF TypeOK, CountTypes
  <2>2. c \in Int /\ supportedCommitCount[p] \in Int
    <3>1. supportedCommitCount[p] \in Int
      BY MemberCounts DEF TypeOK, CountTypes
    <3> QED BY <2>1, <3>1, KindFacts, MoreCounted, MemberCounts
  <2>3. c > t
    BY <1>2, <2>1, <2>2
  <2> QED BY Zenon, <1>3, <2>1, <2>3, KindFacts, CommitsBack
<1>6. ASSUME d.kind = "echo", d.NewTotalSigCount >= nmt PROVE EchoQuorum(d.hash)
  <2>1. Cardinality(SigMap'[p]["echo"][d.hash]) >= nmt
    BY <1>1, <1>2, <1>6
  <2> QED BY Zenon, <1>1, <1>3, <2>1, KindFacts, EchoesBack
<1>7. ASSUME d.kind = "commit", d.NewTotalSigCount > t PROVE EchoQuorum(d.hash)
  <2>1. Cardinality(SigMap'[p]["commit"][d.hash]) > t
    BY <1>1, <1>2, <1>7
  <2> QED BY Zenon, <1>1, <1>3, <2>1, KindFacts, CommitsBack
<1>8. supportedEchoHash[p] \in Hash \cup {Nil} /\ supportedCommitHash[p] \in Hash \cup {Nil}
  BY Zenon DEF TypeOK, CountTypes
<1> QED BY Zenon, <1>1, <1>4, <1>5, <1>6, <1>7, <1>8, OneQuorum DEF Conflicts

\* So the supported hashes never change once they are there, and the count of commits grows.
Supports(p, d) ==
    /\ \A q \in Correct : supportedEchoHash'[q] =
          IF q = p /\ EnoughEchos(d) THEN d.hash ELSE supportedEchoHash[q]
    /\ \A q \in Correct : supportedCommitHash'[q] =
          IF q = p /\ EnoughCommits(d) THEN d.hash ELSE supportedCommitHash[q]
    /\ \A q \in Correct : supportedCommitCount'[q] =
          IF q = p /\ EnoughCommits(d) THEN Raise(supportedCommitCount[q], d.NewTotalSigCount)
                                       ELSE supportedCommitCount[q]
    /\ EnoughEchos(d) => supportedEchoHash[p] \in {Nil, d.hash}
    /\ EnoughCommits(d) => supportedCommitHash[p] \in {Nil, d.hash}
    /\ UNCHANGED panicked

\* Counting a vote without a conflict sets the supported hash to the one it counts, if any.
LEMMA UpdateSupports ==
    ASSUME TypeOK, NEW p \in Correct, NEW d \in Counts, ~ Conflicts(p, d), UpdateSupported(p, d)
    PROVE  Supports(p, d)
<1>1. /\ supportedEchoHash' =
           [supportedEchoHash EXCEPT ![p] = IF EnoughEchos(d) THEN d.hash ELSE supportedEchoHash[p]]
      /\ supportedCommitHash' =
           [supportedCommitHash EXCEPT ![p] = IF EnoughCommits(d) THEN d.hash ELSE supportedCommitHash[p]]
      /\ supportedCommitCount' =
           [supportedCommitCount EXCEPT ![p] =
              IF EnoughCommits(d) THEN Raise(supportedCommitCount[p], d.NewTotalSigCount)
              ELSE supportedCommitCount[p]]
      /\ UNCHANGED panicked
  BY Zenon DEF UpdateSupported
<1>2. /\ EnoughEchos(d) => supportedEchoHash[p] \in {Nil, d.hash}
      /\ EnoughCommits(d) => supportedCommitHash[p] \in {Nil, d.hash}
  BY DEF Conflicts, EnoughEchos, EnoughCommits
<1>3. \A q \in Correct : supportedEchoHash'[q] =
          IF q = p /\ EnoughEchos(d) THEN d.hash ELSE supportedEchoHash[q]
  BY <1>1, Zenon DEF TypeOK, CountTypes
<1>4. \A q \in Correct : supportedCommitHash'[q] =
          IF q = p /\ EnoughCommits(d) THEN d.hash ELSE supportedCommitHash[q]
  BY <1>1, Zenon DEF TypeOK, CountTypes
<1>5. \A q \in Correct : supportedCommitCount'[q] =
          IF q = p /\ EnoughCommits(d) THEN Raise(supportedCommitCount[q], d.NewTotalSigCount)
                                       ELSE supportedCommitCount[q]
  BY <1>1, Zenon DEF TypeOK, CountTypes
<1> QED BY Zenon, <1>1, <1>2, <1>3, <1>4, <1>5 DEF Supports

\* Counting a vote keeps the invariant of what is supported, and does not panic.
LEMMA UpdateSupportedSafe ==
    ASSUME SafeInv, TypeOK', MoreStored, StoredSent', UNCHANGED <<sent, decisionHash>>,
           NEW p \in Correct, NEW d \in Counts,
           d.NewTotalSigCount <= Cardinality(SigMap'[p][d.kind][d.hash]), UpdateSupported(p, d)
    PROVE  /\ Supports(p, d)
           /\ EchoStored' /\ CommitStored' /\ CommitNamed' /\ DecisionSupported' /\ NoPanic'
<1> USE DEF SafeInv
<1>1. Supports(p, d)
  BY Zenon, NoConflict, UpdateSupports
<1>2. d.kind \in Kind /\ d.hash \in Hash /\ d.NewTotalSigCount \in Int
  BY MemberCounts DEF Counts
<1>3. Cardinality(SigMap'[p][d.kind][d.hash]) \in Int /\ nmt \in Int /\ t \in Int
  BY <1>2, MoreCounted, MemberCounts
<1>4. NoPanic'
  BY Zenon, <1>1 DEF Supports, NoPanic
<1>5. EchoStored'
  <2> SUFFICES ASSUME NEW q \in Correct, supportedEchoHash'[q] # Nil
               PROVE  Cardinality(SigMap'[q]["echo"][supportedEchoHash'[q]]) >= nmt
    BY Zenon DEF EchoStored
  <2>1. CASE q = p /\ EnoughEchos(d)
    BY <1>1, <1>2, <1>3, <2>1 DEF Supports, EnoughEchos
  <2>2. CASE ~ (q = p /\ EnoughEchos(d))
    BY Zenon, <1>1, <2>2, KeepsEcho DEF Supports
  <2> QED BY Zenon, <2>1, <2>2
<1>6. /\ CommitStored' /\ CommitNamed'
      /\ \A q \in Correct : /\ supportedCommitHash[q] # Nil
                                 => supportedCommitHash'[q] = supportedCommitHash[q]
                            /\ supportedCommitCount'[q] >= supportedCommitCount[q]
  <2> SUFFICES ASSUME NEW q \in Correct
               PROVE  /\ supportedCommitHash'[q] # Nil =>
                            /\ supportedCommitCount'[q] > t
                            /\ supportedCommitCount'[q] <= Cardinality(SigMap'[q]["commit"][supportedCommitHash'[q]])
                      /\ supportedCommitCount'[q] > t => supportedCommitHash'[q] # Nil
                      /\ supportedCommitHash[q] # Nil => supportedCommitHash'[q] = supportedCommitHash[q]
                      /\ supportedCommitCount'[q] >= supportedCommitCount[q]
    BY Zenon DEF CommitStored, CommitNamed
  <2>0. supportedCommitCount[q] \in Int
    BY MemberCounts DEF TypeOK, CountTypes
  <2>1. CASE q = p /\ EnoughCommits(d)
    <3>1. /\ supportedCommitHash'[q] = d.hash
          /\ supportedCommitCount'[q] = Raise(supportedCommitCount[q], d.NewTotalSigCount)
          /\ supportedCommitHash[q] \in {Nil, d.hash}
      BY Zenon, <1>1, <2>1 DEF Supports
    <3>2. d.kind = "commit" /\ d.NewTotalSigCount > t
      BY <2>1 DEF EnoughCommits
    <3>3. supportedCommitHash[q] = Nil => supportedCommitCount[q] <= t
      BY <1>3, <2>0 DEF CommitNamed
    <3>4. supportedCommitHash[q] # Nil =>
             supportedCommitCount[q] <= Cardinality(SigMap'[q]["commit"][d.hash])
      BY Zenon, <3>1, KeepsCommit
    <3>5. d.NewTotalSigCount <= Cardinality(SigMap'[q]["commit"][d.hash])
      BY <2>1, <3>2
    <3>6. Cardinality(SigMap'[q]["commit"][d.hash]) \in Int
      BY <1>3, <2>1, <3>2
    <3>7. d.hash # Nil
      BY <1>2, BroadcastAssumption
    <3> QED BY <1>2, <1>3, <2>0, <3>1, <3>2, <3>3, <3>4, <3>5, <3>6, <3>7 DEF Raise
  <2>2. CASE ~ (q = p /\ EnoughCommits(d))
    <3>1. /\ supportedCommitHash'[q] = supportedCommitHash[q]
          /\ supportedCommitCount'[q] = supportedCommitCount[q]
      BY Zenon, <1>1, <2>2 DEF Supports
    <3> QED BY <2>0, <3>1, KeepsCommit DEF CommitNamed
  <2> QED BY Zenon, <2>1, <2>2
<1>7. DecisionSupported'
  <2> SUFFICES ASSUME NEW q \in Correct, decisionHash[q] # Nil
               PROVE  decisionHash[q] = supportedCommitHash'[q] /\ supportedCommitCount'[q] >= nmt
    BY Zenon DEF DecisionSupported
  <2>1. decisionHash[q] = supportedCommitHash[q] /\ supportedCommitCount[q] >= nmt
    BY DEF DecisionSupported
  <2>2. supportedCommitCount[q] \in Int /\ supportedCommitCount'[q] \in Int
    BY MemberCounts DEF TypeOK, CountTypes
  <2> QED BY <1>3, <1>6, <2>1, <2>2
<1> QED BY Zenon, <1>1, <1>4, <1>5, <1>6, <1>7

\* Adding a message to a node's own leaves the earlier ones, and taking the first the later ones.
LEMMA AppendElement ==
    ASSUME TypeOK, NEW p \in Correct, NEW m \in Messages,
           SelfMessages' = [SelfMessages EXCEPT ![p] = Append(SelfMessages[p], m)],
           NEW q \in Correct, NEW i \in 1..Len(SelfMessages'[q])
    PROVE  \/ i \in 1..Len(SelfMessages[q]) /\ SelfMessages'[q][i] = SelfMessages[q][i]
           \/ q = p /\ SelfMessages'[q][i] = m
<1>1. CASE q = p
  <2>1. SelfMessages[p] \in Seq(Messages) /\ SelfMessages'[p] = Append(SelfMessages[p], m)
    BY DEF TypeOK, LoopTypes
  <2> QED BY <1>1, <2>1
<1>2. CASE q # p
  BY <1>2 DEF TypeOK
<1> QED BY Zenon, <1>1, <1>2

\* An element of a tail is the next one of the sequence.
LEMMA SeqTail ==
    ASSUME NEW S, NEW s \in Seq(S), s # <<>>, NEW i \in 1..Len(Tail(s))
    PROVE  i + 1 \in 1..Len(s) /\ Tail(s)[i] = s[i + 1]
OBVIOUS

\* Once the first own message is taken, those that remain were there before.
LEMMA TailElement ==
    ASSUME TypeOK, NEW p \in Correct, SelfMessages[p] # <<>>,
           SelfMessages' = [SelfMessages EXCEPT ![p] = Tail(SelfMessages[p])]
    PROVE  /\ 1 \in 1..Len(SelfMessages[p]) /\ Head(SelfMessages[p]) = SelfMessages[p][1]
           /\ \A q \in Correct : \A i \in 1..Len(SelfMessages'[q]) :
                 \E j \in 1..Len(SelfMessages[q]) : SelfMessages'[q][i] = SelfMessages[q][j]
<1>1. SelfMessages[p] \in Seq(Messages) /\ SelfMessages'[p] = Tail(SelfMessages[p])
  BY DEF TypeOK, LoopTypes
<1>2. 1 \in 1..Len(SelfMessages[p]) /\ Head(SelfMessages[p]) = SelfMessages[p][1]
  BY <1>1
<1>3. ASSUME NEW q \in Correct, NEW i \in 1..Len(SelfMessages'[q])
      PROVE  \E j \in 1..Len(SelfMessages[q]) : SelfMessages'[q][i] = SelfMessages[q][j]
  <2>1. CASE q = p
    <3>1. i + 1 \in 1..Len(SelfMessages[p]) /\ Tail(SelfMessages[p])[i] = SelfMessages[p][i + 1]
      BY Zenon, <1>1, <2>1, SeqTail
    <3> QED BY <1>1, <2>1, <3>1
  <2>2. CASE q # p
    BY <2>2 DEF TypeOK
  <2> QED BY <2>1, <2>2
<1> QED BY <1>2, <1>3

\* Broadcasting an echo or a commit, once the invariants on what is sent are known to hold.
LEMMA BroadcastSends ==
    ASSUME TypeOK, NEW p \in Correct, NEW k \in Kind, NEW h \in Hash, Broadcast(p, k, h)
    PROVE  /\ sent'[k][h] = sent[k][h] \cup {p}
           /\ \A j \in Kind, g \in Hash : (j # k \/ g # h) => sent'[j][g] = sent[j][g]
BY Zenon DEF Broadcast, TypeOK, NetTypes

\* A supported echo hash has a quorum of echoes.
LEMMA EchoHashBacked ==
    ASSUME SafeInv, NEW p \in Correct, supportedEchoHash[p] # Nil
    PROVE  supportedEchoHash[p] \in Hash /\ EchoQuorum(supportedEchoHash[p])
<1>1. /\ supportedEchoHash[p] \in Hash
      /\ Cardinality(SigMap[p]["echo"][supportedEchoHash[p]]) >= nmt
  BY Zenon DEF SafeInv, TypeOK, CountTypes, EchoStored
<1>2. SigMap[p]["echo"][supportedEchoHash[p]] \in SUBSET Signers("echo", supportedEchoHash[p])
  BY Zenon, <1>1, KindFacts DEF SafeInv, StoredSent
<1> QED BY <1>1, <1>2, EchoesBack DEF SafeInv

\* A commit hash counted more than t times has a quorum of echoes.
LEMMA CommitHashBacked ==
    ASSUME SafeInv, NEW p \in Correct, supportedCommitCount[p] > t
    PROVE  /\ supportedCommitHash[p] \in Hash /\ supportedCommitHash[p] # Nil
           /\ EchoQuorum(supportedCommitHash[p])
<1> DEFINE h == supportedCommitHash[p]
           c == Cardinality(SigMap[p]["commit"][h])
<1>1. h \in Hash /\ h # Nil /\ supportedCommitCount[p] <= c
  BY DEF SafeInv, TypeOK, CountTypes, CommitNamed, CommitStored
<1>2. supportedCommitCount[p] \in Int
  BY MemberCounts, SafeTypes DEF CountTypes
<1>3. SigMap[p]["commit"][h] \in SUBSET Signers("commit", h) /\ SigMap[p]["commit"][h] \in SUBSET Members
  BY <1>1, KindFacts DEF SafeInv, StoredSent, TypeOK, CountTypes
<1>4. c \in Int
  BY <1>3, CountSubset, MemberCounts
<1>5. c > t
  BY <1>1, <1>2, <1>4, MemberCounts
<1> QED BY Zenon, <1>1, <1>3, <1>5, CommitsBack DEF SafeInv

\* Deciding: the supported hash never differs from one that was decided before.
Decides(p, h) ==
    /\ h # Nil /\ supportedCommitCount[p] >= nmt /\ decisionHash[p] \in {Nil, h}
    /\ decisionHash' = [decisionHash EXCEPT ![p] = h]
    /\ decided' = [decided EXCEPT ![p] = h \in validatedInitHashes[p]]
    /\ requestRecoverTimer' = [requestRecoverTimer EXCEPT ![p] =
         IF h \notin validatedInitHashes[p] /\ @ = "nil" THEN "running" ELSE @]

\* checkProgress decides nothing, or the hash with n - t commits, and does not panic.
LEMMA DecideCases ==
    ASSUME SafeInv, NEW p \in Correct, Decide(p)
    PROVE  /\ NoPanic'
           /\ \/ /\ ~ (supportedCommitCount[p] >= nmt)
                 /\ UNCHANGED <<decisionHash, decided, requestRecoverTimer>>
              \/ Decides(p, supportedCommitHash[p])
<1> DEFINE h == supportedCommitHash[p]
<1>1. decisionHash[p] \in {Nil, h}
  BY DEF SafeInv, DecisionSupported
<1>2. panicked' = [panicked EXCEPT ![p] = @ \/ FALSE]
  BY <1>1, Zenon DEF Decide
<1>3. NoPanic'
  BY Zenon, <1>2 DEF SafeInv, NoPanic, TypeOK, DecisionTypes
<1>4. supportedCommitCount[p] >= nmt => h # Nil
  <2>1. supportedCommitCount[p] \in Int
    BY MemberCounts, SafeTypes DEF CountTypes
  <2>2. supportedCommitCount[p] >= nmt => supportedCommitCount[p] > t
    BY <2>1, MemberCounts
  <2> QED BY <2>2, CommitHashBacked
<1>5. \/ ~ (supportedCommitCount[p] >= nmt) /\ UNCHANGED <<decisionHash, decided, requestRecoverTimer>>
      \/ Decides(p, h)
  BY <1>1, <1>4, Zenon DEF Decide, Decides
<1> QED BY <1>3, <1>5

\* SafeInv holds throughout: a node echoes one hash, commits only to one that n-t members have echoed,
\* and every count, supported hash and decision of GotMsg and checkProgress rests on stored messages.
THEOREM Safety == Spec => []SafeInv
<1>InitTypeOK. Init => TypeOK
  <2> SUFFICES ASSUME Init PROVE TypeOK
    OBVIOUS
  <2>1. 0 \in 0..GetMemberCount
    BY MemberCounts
  <2> QED BY <2>1 DEF Init, TypeOK, NetTypes, CountTypes, LoopTypes, DecisionTypes, Messages, Requests, Counts, Items
  \* What has n-t echoes keeps them.
<1>QuorumStays.
    ASSUME TypeOK, TypeOK', NEW h \in Hash, EchoQuorum(h), sent["echo"][h] \subseteq sent'["echo"][h]
    PROVE  EchoQuorum(h)'
  <2> USE <1>QuorumStays
  <2>1. Signers("echo", h)' \in SUBSET Members
    BY KindFacts, CorrectMembers DEF Signers, TypeOK, NetTypes
  <2>2. Signers("echo", h) \in SUBSET Signers("echo", h)'
    BY DEF Signers
  <2>3. /\ Cardinality(Signers("echo", h)) <= Cardinality(Signers("echo", h)')
        /\ Cardinality(Signers("echo", h)) \in Int /\ Cardinality(Signers("echo", h)') \in Int
    BY <2>1, <2>2, CountSubset, MemberCounts
  <2>4. EchoQuorum(h)' <=> Cardinality(Signers("echo", h)') >= nmt
    BY DEF EchoQuorum
  <2> QED BY <2>3, <2>4, MemberCounts DEF EchoQuorum
<1>InitSafe. Init => SafeInv
  <2> SUFFICES ASSUME Init PROVE SafeInv
    OBVIOUS
  <2>1. TypeOK
    BY <1>InitTypeOK
  <2>2. /\ TimerStarted /\ DecisionSupported /\ EchoStored /\ CommitStored
        /\ CountsStored /\ OwnSent /\ NoPanic
    BY DEF Init, TimerStarted, DecisionSupported, EchoStored, CommitStored, CountsStored, OwnSent, NoPanic
  <2>3. CommitNamed
    BY MemberCounts DEF Init, CommitNamed
  <2>4. OneEcho /\ CommitBacked /\ StoredSent
    BY KindFacts DEF Init, OneEcho, CommitBacked, StoredSent
  <2> QED BY <2>1, <2>2, <2>3, <2>4 DEF SafeInv
  \* Counts and support, when signatures are added and no support changes.
<1>KeepsCounts.
    ASSUME TypeOK, TypeOK', MoreStored, CountsStored, NEW q \in Correct, NEW d \in storing[q]
    PROVE  d.NewTotalSigCount <= Cardinality(SigMap'[q][d.kind][d.hash])
  <2> USE <1>KeepsCounts
  <2>1. d.kind \in Kind /\ d.hash \in Hash /\ d.NewTotalSigCount \in Int
    BY MemberCounts DEF TypeOK, CountTypes, Counts
  <2>2. d.NewTotalSigCount <= Cardinality(SigMap[q][d.kind][d.hash])
    BY DEF CountsStored
  <2>3. Cardinality(SigMap[q][d.kind][d.hash]) <= Cardinality(SigMap'[q][d.kind][d.hash])
    BY Zenon, <2>1, MoreCounted
  <2>4. Cardinality(SigMap[q][d.kind][d.hash]) \in Int /\ Cardinality(SigMap'[q][d.kind][d.hash]) \in Int
    BY <2>1, MoreCounted, MemberCounts
  <2> QED BY <2>1, <2>2, <2>3, <2>4
<1>StoreMsgSafe.
    ASSUME SafeInv, TypeOK', NEW p \in Correct, NEW k \in Kind, NEW h \in Hash, NEW S \in SUBSET Signers(k, h),
           StoreMsg(p, k, h, S), UNCHANGED conf
    PROVE  SafeInv'
  <2> USE <1>StoreMsgSafe
  <2> USE DEF SafeInv
  <2>2. UNCHANGED <<requestRecoverTimer, decisionHash, supportedEchoHash, supportedCommitHash,
                    supportedCommitCount, sent, sentEcho, validatedInitHashes, SelfMessages, panicked>>
    BY Zenon DEF StoreMsg, netVars, supVars, recVars
  <2>3. TimerStarted' /\ CommitNamed' /\ DecisionSupported' /\ OneEcho' /\ OwnSent' /\ NoPanic'
    BY Zenon, <2>2 DEF TimerStarted, CommitNamed, DecisionSupported, OneEcho, OwnSent, NoPanic
  <2>4. CommitBacked'
    BY <2>2 DEF CommitBacked, EchoQuorum, Signers
  <2>5. /\ SigMap'[p][k][h] = SigMap[p][k][h] \cup S
        /\ \A q \in Correct, j \in Kind, g \in Hash :
              (q # p \/ j # k \/ g # h) => SigMap'[q][j][g] = SigMap[q][j][g]
    BY DEF StoreMsg, TypeOK, CountTypes
  <2>6. MoreStored
    BY <2>5 DEF MoreStored
  <2>7. StoredSent'
    <3> SUFFICES ASSUME NEW q \in Correct, NEW j \in Kind, NEW g \in Hash
                 PROVE  SigMap'[q][j][g] \subseteq Signers(j, g)'
      BY Zenon DEF StoredSent
    <3>1. SigMap[q][j][g] \subseteq Signers(j, g)
      BY Zenon DEF StoredSent
    <3>2. Signers(j, g)' = Signers(j, g)
      BY Zenon, <2>2 DEF Signers
    <3>3. CASE q = p /\ j = k /\ g = h
      BY Zenon, <2>5, <3>1, <3>2, <3>3
    <3>4. CASE q # p \/ j # k \/ g # h
      BY Zenon, <2>5, <3>1, <3>2, <3>4
    <3> QED BY Zenon, <3>3, <3>4
  <2>8. EchoStored' /\ CommitStored'
    BY Zenon, <2>2, <2>6, KeepsEcho, KeepsCommit DEF EchoStored, CommitStored
  <2>9. CountsStored'
    <3> SUFFICES ASSUME NEW q \in Correct, NEW d \in storing'[q]
                 PROVE  d.NewTotalSigCount <= Cardinality(SigMap'[q][d.kind][d.hash])
      BY Zenon DEF CountsStored
    <3>1. CASE d \in storing[q]
      BY Zenon, <2>6, <3>1, <1>KeepsCounts
    <3>2. CASE d \notin storing[q]
      <4>1. q = p /\ d = [kind |-> k, hash |-> h, NewTotalSigCount |-> Cardinality(SigMap[p][k][h] \cup S)]
        BY Zenon, <3>2 DEF StoreMsg, TypeOK, CountTypes
      <4>2. d.kind = k /\ d.hash = h /\ d.NewTotalSigCount = Cardinality(SigMap'[p][k][h])
        BY Zenon, <2>5, <4>1
      <4>3. Cardinality(SigMap'[p][k][h]) \in Int
        BY <2>6, MoreCounted, MemberCounts
      <4> QED BY <4>1, <4>2, <4>3
    <3> QED BY Zenon, <3>1, <3>2
  <2> QED BY <2>3, <2>4, <2>7, <2>8, <2>9
<1>UpdateSafe.
    ASSUME SafeInv, TypeOK', NEW p \in Correct, NEW d \in storing[p], Update(p, d), UNCHANGED conf
    PROVE  SafeInv'
  <2> USE <1>UpdateSafe
  <2> USE DEF SafeInv
  <2>2. UNCHANGED <<requestRecoverTimer, decisionHash, sent, sentEcho, validatedInitHashes, SelfMessages,
                    SigMap>>
    BY DEF Update, netVars, recVars
  <2>3. TimerStarted' /\ OneEcho' /\ OwnSent' /\ MoreStored
    BY Zenon, <2>2 DEF TimerStarted, OneEcho, OwnSent, MoreStored
  <2>4. CommitBacked' /\ StoredSent'
    BY Zenon, <2>2 DEF CommitBacked, EchoQuorum, Signers, StoredSent
  <2>5. CountsStored'
    BY Zenon DEF Update, CountsStored, TypeOK, CountTypes
  <2>6. d \in Counts /\ d.NewTotalSigCount <= Cardinality(SigMap'[p][d.kind][d.hash])
    BY Zenon, <2>2 DEF CountsStored, TypeOK, CountTypes
  <2>7. EchoStored' /\ CommitStored' /\ CommitNamed' /\ DecisionSupported' /\ NoPanic'
    BY Zenon, <2>2, <2>3, <2>4, <2>6, UpdateSupportedSafe DEF Update
  <2> QED BY Zenon, <2>3, <2>4, <2>5, <2>7
  \* The steps that touch neither echoes, commits nor decisions.
<1>OtherSafe.
    ASSUME SafeInv, TypeOK', TimerStarted', OwnSent',
           UNCHANGED <<sent, SigMap, supVars, storing, sentEcho, decisionHash, panicked>>,
           \A p \in Correct : validatedInitHashes[p] \subseteq validatedInitHashes'[p]
    PROVE  SafeInv'
  <2> USE <1>OtherSafe
  <2>1. OneEcho' /\ CommitBacked' /\ StoredSent'
    BY Zenon DEF SafeInv, OneEcho, CommitBacked, EchoQuorum, StoredSent, Signers
  <2>2. CountsStored' /\ EchoStored' /\ CommitStored' /\ CommitNamed' /\ DecisionSupported' /\ NoPanic'
    BY Zenon DEF SafeInv, supVars, CountsStored, EchoStored, CommitStored, CommitNamed, DecisionSupported, NoPanic
  <2> QED BY <2>1, <2>2 DEF SafeInv
<1>StoreInitSafe.
    ASSUME SafeInv, TypeOK', NEW p \in Correct, NEW h \in Hash, StoreInit(p, h), UNCHANGED conf
    PROVE  SafeInv'
  <2> USE <1>StoreInitSafe
  <2>2. TimerStarted' /\ OwnSent'
    BY Zenon DEF SafeInv, StoreInit, netVars, recVars, TimerStarted, OwnSent
  <2> QED BY <2>2, <1>OtherSafe DEF StoreInit, netVars
<1>GotProposalSafe.
    ASSUME SafeInv, TypeOK', NEW p \in Correct, NEW h \in Hash, GotProposal(p, h), UNCHANGED conf
    PROVE  SafeInv'
  <2> USE <1>GotProposalSafe
  <2> USE DEF SafeInv
  <2>2. TimerStarted'
    BY Zenon DEF GotProposal, recVars, TimerStarted
  <2>3. OwnSent'
    <3>1. InitItem(h) \in Messages /\ InitItem(h).kind \notin Kind
      BY DEF InitItem, Messages, Kind
    <3>2. UNCHANGED sent /\ SelfMessages' = [SelfMessages EXCEPT ![p] = Append(SelfMessages[p], InitItem(h))]
      BY DEF GotProposal
    <3> QED BY <3>1, <3>2, AppendElement DEF OwnSent
  <2> QED BY Zenon, <2>2, <2>3, <1>OtherSafe DEF GotProposal, supVars
<1>ProcessInitSafe.
    ASSUME SafeInv, TypeOK', NEW p \in Correct, NEW h \in Hash, ProcessInit(p, h), UNCHANGED conf
    PROVE  SafeInv'
  <2> USE <1>ProcessInitSafe
  <2> USE DEF SafeInv
  <2>2. TimerStarted' /\ OwnSent'
    BY Zenon DEF ProcessInit, TimerStarted, OwnSent
  <2>3. \A q \in Correct : validatedInitHashes[q] \subseteq validatedInitHashes'[q]
    BY DEF ProcessInit, ValidateInit, TypeOK
  <2> QED BY Zenon, <2>2, <2>3, <1>OtherSafe DEF ProcessInit, supVars
<1>ProcessMessageSafe.
    ASSUME SafeInv, TypeOK', NEW p \in Correct, ProcessMessage(p), UNCHANGED conf
    PROVE  SafeInv'
  <2> USE <1>ProcessMessageSafe
  <2>2. TimerStarted' /\ OwnSent'
    BY Zenon DEF SafeInv, ProcessMessage, netVars, recVars, TimerStarted, OwnSent
  <2> QED BY <2>2, <1>OtherSafe DEF ProcessMessage, netVars
<1>OwnSentTail.
    ASSUME TypeOK, OwnSent, NEW p \in Correct, SelfMessages[p] # <<>>, UNCHANGED sent,
           SelfMessages' = [SelfMessages EXCEPT ![p] = Tail(SelfMessages[p])]
    PROVE  /\ OwnSent'
           /\ \A k \in Kind, h \in Hash :
                 Head(SelfMessages[p]) = [kind |-> k, hash |-> h] => p \in sent[k][h]
  <2> USE <1>OwnSentTail
  <2>1. OwnSent'
    BY TailElement DEF OwnSent
  <2>2. ASSUME NEW k \in Kind, NEW h \in Hash, Head(SelfMessages[p]) = [kind |-> k, hash |-> h]
        PROVE  p \in sent[k][h]
    <3>1. 1 \in 1..Len(SelfMessages[p]) /\ SelfMessages[p][1] = [kind |-> k, hash |-> h]
      BY Zenon, <2>2, TailElement
    <3>2. SelfMessages[p][1].kind = k /\ SelfMessages[p][1].hash = h
      BY <3>1
    <3> QED BY Zenon, <3>1, <3>2 DEF OwnSent
  <2> QED BY <2>1, <2>2
<1>ProcessSelfMessageSafe.
    ASSUME SafeInv, TypeOK', NEW p \in Correct, ProcessSelfMessage(p), UNCHANGED conf
    PROVE  SafeInv'
  <2> USE <1>ProcessSelfMessageSafe
  <2> USE DEF SafeInv
  <2>2. /\ OwnSent'
        /\ \A k \in Kind, h \in Hash :
              Head(SelfMessages[p]) = [kind |-> k, hash |-> h] => p \in sent[k][h]
    BY Zenon, <1>OwnSentTail DEF ProcessSelfMessage
  <2>3. UNCHANGED <<sent, storing, sentEcho, decisionHash, requestRecoverTimer>>
    BY Zenon DEF ProcessSelfMessage
  <2>4. TimerStarted'
    BY <2>3 DEF TimerStarted
  <2>5. ASSUME NEW h \in Hash, ValidateInit(p, h), UNCHANGED <<SigMap, supVars, panicked>>
        PROVE  SafeInv'
    <3>1. \A q \in Correct : validatedInitHashes[q] \subseteq validatedInitHashes'[q]
      BY <2>5 DEF ValidateInit, TypeOK
    <3> QED BY Zenon, <2>2, <2>3, <2>4, <2>5, <3>1, <1>OtherSafe
  <2>6. ASSUME NEW k \in Kind, NEW h \in Hash, Head(SelfMessages[p]) = [kind |-> k, hash |-> h],
               StoresOwn(p, k, h)
        PROVE  SafeInv'
    <3>1. /\ SigMap'[p][k][h] = SigMap[p][k][h] \cup {p}
          /\ \A q \in Correct, j \in Kind, g \in Hash :
                (q # p \/ j # k \/ g # h) => SigMap'[q][j][g] = SigMap[q][j][g]
      BY <2>6 DEF StoresOwn, TypeOK, CountTypes
    <3>2. MoreStored
      BY <3>1 DEF MoreStored
    <3>3. OneEcho' /\ CommitBacked'
      BY Zenon, <2>3, <2>6 DEF StoresOwn, OneEcho, CommitBacked, EchoQuorum, Signers
    <3>4. StoredSent'
      BY <2>2, <2>3, <2>6, <3>1 DEF StoredSent, Signers
    <3>5. CountsStored'
      BY Zenon, <2>3, <3>2, <1>KeepsCounts DEF CountsStored
    <3> DEFINE d == OwnCount(p, k, h)
    <3>6. d \in Counts /\ UpdateSupported(p, d)
      BY Zenon, <2>6, OwnCountType DEF StoresOwn
    <3>7. d.NewTotalSigCount <= Cardinality(SigMap'[p][d.kind][d.hash])
      <4>1. d.kind = k /\ d.hash = h /\ d.NewTotalSigCount = Cardinality(SigMap'[p][k][h])
        BY Zenon, <3>1 DEF OwnCount
      <4>2. Cardinality(SigMap'[p][k][h]) \in Int
        BY <3>2, MoreCounted, MemberCounts
      <4> QED BY <4>1, <4>2
    <3> HIDE DEF d
    <3>8. EchoStored' /\ CommitStored' /\ CommitNamed' /\ DecisionSupported' /\ NoPanic'
      BY Zenon, <2>3, <3>2, <3>4, <3>6, <3>7, UpdateSupportedSafe
    <3> QED BY <2>2, <2>4, <3>3, <3>4, <3>5, <3>8
  <2>7. CASE UNCHANGED <<SigMap, supVars, panicked, pc, validatedInitHashes, recovers, requestedRecover>>
    BY Zenon, <2>2, <2>3, <2>4, <2>7, <1>OtherSafe
  <2> QED BY Zenon, <2>5, <2>6, <2>7, SelfMessageCases
<1>BroadcastSafe.
    ASSUME SafeInv, TypeOK', OneEcho', CommitBacked', NEW p \in Correct, NEW k \in Kind, NEW h \in Hash,
           Broadcast(p, k, h),
           UNCHANGED <<SigMap, supVars, storing, decisionHash, requestRecoverTimer, panicked>>
    PROVE  SafeInv'
  <2> USE <1>BroadcastSafe
  <2> USE DEF SafeInv
  <2>1. \A j \in Kind, g \in Hash : sent[j][g] \subseteq sent'[j][g]
    BY BroadcastSends
  <2>2. StoredSent'
    BY <2>1 DEF StoredSent, Signers
  <2>3. OwnSent'
    <3> SUFFICES ASSUME NEW q \in Correct, NEW i \in 1..Len(SelfMessages'[q]),
                        SelfMessages'[q][i].kind \in Kind
                 PROVE  q \in sent'[SelfMessages'[q][i].kind][SelfMessages'[q][i].hash]
      BY Zenon DEF OwnSent
    <3>1. [kind |-> k, hash |-> h] \in Messages
      BY DEF Messages
    <3>2. CASE i \in 1..Len(SelfMessages[q]) /\ SelfMessages'[q][i] = SelfMessages[q][i]
      <4>1. SelfMessages[q] \in Seq(Messages)
        BY Zenon DEF TypeOK, LoopTypes
      <4>2. SelfMessages[q][i] \in Messages
        BY <3>2, <4>1
      <4>3. SelfMessages[q][i].hash \in Hash
        BY <4>2 DEF Messages
      <4>4. q \in sent[SelfMessages[q][i].kind][SelfMessages[q][i].hash]
        BY Zenon, <3>2 DEF OwnSent
      <4> QED BY Zenon, <2>1, <3>2, <4>3, <4>4
    <3>3. CASE q = p /\ SelfMessages'[q][i] = [kind |-> k, hash |-> h]
      BY <3>3, BroadcastSends
    <3> DEFINE m == [kind |-> k, hash |-> h]
    <3>4. m \in Messages /\ SelfMessages' = [SelfMessages EXCEPT ![p] = Append(SelfMessages[p], m)]
      BY Zenon, <3>1 DEF Broadcast
    <3> HIDE DEF m
    <3>5. \/ i \in 1..Len(SelfMessages[q]) /\ SelfMessages'[q][i] = SelfMessages[q][i]
          \/ q = p /\ SelfMessages'[q][i] = m
      BY <3>4, AppendElement
    <3> QED BY Zenon, <3>2, <3>3, <3>5 DEF m
  <2>4. /\ TimerStarted' /\ CommitNamed' /\ CountsStored' /\ EchoStored' /\ CommitStored'
        /\ DecisionSupported' /\ NoPanic'
    BY Zenon DEF supVars, TimerStarted, CommitNamed, CountsStored, EchoStored, CommitStored, DecisionSupported,
           NoPanic
  <2> QED BY <2>2, <2>3, <2>4
<1>CheckSendEchoSafe.
    ASSUME SafeInv, TypeOK', NEW p \in Correct, CheckSendEcho(p), UNCHANGED conf
    PROVE  SafeInv'
  <2> USE <1>CheckSendEchoSafe
  <2> USE DEF SafeInv
  <2>2. UNCHANGED <<SigMap, supVars, storing, decisionHash, requestRecoverTimer, panicked, validatedInitHashes>>
    BY DEF CheckSendEcho, recVars
  <2>3. CASE UNCHANGED <<sent, SelfMessages, sentEcho>>
    <3>1. TimerStarted' /\ OwnSent'
      BY Zenon, <2>2, <2>3 DEF TimerStarted, OwnSent
    <3> QED BY Zenon, <2>2, <2>3, <3>1, <1>OtherSafe
  <2>4. ASSUME ~ sentEcho[p], sentEcho' = [sentEcho EXCEPT ![p] = TRUE],
               NEW h \in Hash, h \in validatedInitHashes[p], Broadcast(p, "echo", h)
        PROVE  SafeInv'
    <3>1. /\ sent'["echo"][h] = sent["echo"][h] \cup {p}
          /\ \A g \in Hash : g # h => sent'["echo"][g] = sent["echo"][g]
          /\ \A g \in Hash : sent'["commit"][g] = sent["commit"][g]
      BY <2>4, KindFacts, BroadcastSends
    <3>2. \A g \in Hash : p \notin sent["echo"][g]
      BY <2>4 DEF OneEcho
    <3>3. sentEcho'[p] /\ \A q \in Correct : sentEcho[q] => sentEcho'[q]
      BY <2>4 DEF TypeOK, LoopTypes
    <3>4. OneEcho'
      <4>1. \A q \in Correct, g \in Hash : q \in sent'["echo"][g] =>
               q \in sent["echo"][g] \/ (q = p /\ g = h)
        BY <3>1
      <4>2. \A q \in Correct, f, g \in Hash : q \in sent'["echo"][f] /\ q \in sent'["echo"][g] => f = g
        BY <3>2, <4>1 DEF OneEcho
      <4>3. \A q \in Correct, g \in Hash :
               q \in sent'["echo"][g] => sentEcho'[q] /\ g \in validatedInitHashes'[q]
        BY Zenon, <2>2, <2>4, <3>3, <4>1 DEF OneEcho
      <4> QED BY <4>2, <4>3 DEF OneEcho
    <3>5. CommitBacked'
      <4>1. \A g \in Hash : EchoQuorum(g) => EchoQuorum(g)'
        BY <3>1, <1>QuorumStays
      <4> QED BY <3>1, <4>1 DEF CommitBacked
    <3> QED BY Zenon, <2>2, <2>4, <3>4, <3>5, KindFacts, <1>BroadcastSafe
  <2> QED BY Zenon, <2>3, <2>4, CheckSendEchoCases
  \* A commit is sent for a hash that has n-t echoes.
<1>SendsCommitSafe.
    ASSUME SafeInv, TypeOK', NEW p \in Correct, NEW h \in Hash, SendsCommit(p, h), EchoQuorum(h),
           UNCHANGED <<SigMap, supVars, storing, decisionHash, requestRecoverTimer, panicked,
                       validatedInitHashes, sentEcho>>
    PROVE  SafeInv'
  <2> USE <1>SendsCommitSafe
  <2> USE DEF SafeInv
  <2>1. /\ sent'["commit"][h] = sent["commit"][h] \cup {p}
        /\ \A g \in Hash : g # h => sent'["commit"][g] = sent["commit"][g]
        /\ \A g \in Hash : sent'["echo"][g] = sent["echo"][g]
    BY KindFacts, BroadcastSends DEF SendsCommit
  <2>2. OneEcho'
    BY Zenon, <2>1 DEF OneEcho
  <2>3. \A g \in Hash : EchoQuorum(g) => EchoQuorum(g)'
    BY <2>1, <1>QuorumStays
  <2>4. CommitBacked'
    BY <2>1, <2>3 DEF CommitBacked
  <2> QED BY Zenon, <2>2, <2>4, KindFacts, <1>BroadcastSafe DEF SendsCommit
<1>CheckEchoHashSafe.
    ASSUME SafeInv, TypeOK', NEW p \in Correct, CheckEchoHash(p), UNCHANGED conf
    PROVE  SafeInv'
  <2> USE <1>CheckEchoHashSafe
  <2>2. UNCHANGED <<SigMap, supVars, storing, decisionHash, requestRecoverTimer, panicked,
                    validatedInitHashes, sentEcho>>
    BY DEF CheckEchoHash, recVars
  <2>3. CASE supportedEchoHash[p] # Nil
    <3>1. SendsCommit(p, supportedEchoHash[p])
      BY <2>3 DEF CheckEchoHash, SendsCommit
    <3> QED BY <2>2, <2>3, <3>1, EchoHashBacked, <1>SendsCommitSafe
  <2>4. CASE supportedEchoHash[p] = Nil
    <3>1. UNCHANGED <<sent, SelfMessages>>
      BY <2>4 DEF CheckEchoHash
    <3>2. TimerStarted' /\ OwnSent'
      BY Zenon, <2>2, <3>1 DEF SafeInv, TimerStarted, OwnSent
    <3> QED BY <2>2, <3>1, <3>2, <1>OtherSafe
  <2> QED BY <2>3, <2>4
<1>CheckCommitHashSafe.
    ASSUME SafeInv, TypeOK', NEW p \in Correct, CheckCommitHash(p), UNCHANGED conf
    PROVE  SafeInv'
  <2> USE <1>CheckCommitHashSafe
  <2>2. UNCHANGED <<SigMap, supVars, storing, decisionHash, requestRecoverTimer, panicked,
                    validatedInitHashes, sentEcho>>
    BY DEF CheckCommitHash, recVars
  <2>3. CASE supportedCommitCount[p] > t
    <3>1. SendsCommit(p, supportedCommitHash[p])
      BY <2>3, CommitHashBacked DEF CheckCommitHash, SendsCommit
    <3> QED BY <2>2, <2>3, <3>1, CommitHashBacked, <1>SendsCommitSafe
  <2>4. CASE ~ (supportedCommitCount[p] > t)
    <3>1. UNCHANGED <<sent, SelfMessages>>
      BY <2>4 DEF CheckCommitHash
    <3>2. TimerStarted' /\ OwnSent'
      BY Zenon, <2>2, <3>1 DEF SafeInv, TimerStarted, OwnSent
    <3> QED BY <2>2, <3>1, <3>2, <1>OtherSafe
  <2> QED BY <2>3, <2>4
<1>DecideSafe.
    ASSUME SafeInv, TypeOK', NEW p \in Correct, Decide(p), UNCHANGED conf
    PROVE  SafeInv'
  <2> USE <1>DecideSafe
  <2> USE DEF SafeInv
  <2> DEFINE h == supportedCommitHash[p]
  <2>2. UNCHANGED <<sent, SigMap, supportedEchoHash, supportedCommitHash, supportedCommitCount, storing,
                    SelfMessages, validatedInitHashes, sentEcho>>
    BY Zenon DEF Decide, netVars, supVars
  <2>3. /\ OneEcho' /\ CommitBacked' /\ StoredSent' /\ CountsStored' /\ EchoStored' /\ CommitStored'
        /\ CommitNamed' /\ OwnSent'
    BY Zenon, <2>2 DEF OneEcho, CommitBacked, EchoQuorum, Signers, StoredSent, CountsStored, EchoStored,
                CommitStored, CommitNamed, OwnSent
  <2>4. NoPanic'
    BY DecideCases
  <2>5. CASE UNCHANGED <<decisionHash, decided, requestRecoverTimer>>
    <3>1. DecisionSupported' /\ TimerStarted'
      BY <2>2, <2>5 DEF DecisionSupported, TimerStarted
    <3> QED BY <2>3, <2>4, <3>1
  <2>6. CASE Decides(p, h)
    <3>1. \A q \in Correct : decisionHash'[q] = IF q = p THEN h ELSE decisionHash[q]
      BY <2>6 DEF Decides, TypeOK, DecisionTypes
    <3>2. \A q \in Correct \ {p} : requestRecoverTimer'[q] = requestRecoverTimer[q]
      BY <2>6, Zenon DEF Decides, TypeOK, DecisionTypes
    <3>3. DecisionSupported'
      BY Zenon, <2>2, <2>6, <3>1 DEF DecisionSupported, Decides
    <3>4. TimerStarted'
      BY <2>6, <3>1, <3>2 DEF TimerStarted, Decides
    <3> QED BY <2>3, <2>4, <3>3, <3>4
  <2> QED BY Zenon, <2>5, <2>6, DecideCases
<1>RecoverTimeoutSafe.
    ASSUME SafeInv, TypeOK', NEW p \in Correct, RecoverTimeout(p), UNCHANGED conf
    PROVE  SafeInv'
  <2> USE <1>RecoverTimeoutSafe
  <2> USE DEF SafeInv
  <2>1. UNCHANGED <<sent, SelfMessages, decisionHash>> /\ requestRecoverTimer[p] = "running"
    BY Zenon DEF RecoverTimeout
  <2>2. TimerStarted' /\ OwnSent'
    <3>1. decisionHash[p] # Nil
      BY <2>1 DEF TimerStarted
    <3>2. \A q \in Correct \ {p} : requestRecoverTimer'[q] = requestRecoverTimer[q]
      BY Zenon DEF RecoverTimeout, TypeOK, DecisionTypes
    <3> QED BY Zenon, <2>1, <3>1, <3>2 DEF TimerStarted, OwnSent
  <2> QED BY Zenon, <2>2, <1>OtherSafe DEF RecoverTimeout
<1>GotRequestRecoverSafe.
    ASSUME SafeInv, TypeOK', NEW p \in Correct, NEW r \in requests, GotRequestRecover(p, r), UNCHANGED conf
    PROVE  SafeInv'
  <2> USE <1>GotRequestRecoverSafe
  <2> USE DEF SafeInv
  <2>2. TimerStarted' /\ OwnSent'
    BY Zenon DEF GotRequestRecover, TimerStarted, OwnSent
  <2> QED BY Zenon, <2>2, <1>OtherSafe DEF GotRequestRecover
<1>NextSafe. SafeInv /\ [Next]_vars => SafeInv'
  <2> SUFFICES ASSUME SafeInv, [Next]_vars PROVE SafeInv'
    OBVIOUS
  <2> TypeOK'
    BY Zenon, NextTypeOK DEF SafeInv
  <2>1. CASE UNCHANGED vars
    <3>2. TimerStarted' /\ OwnSent'
      BY Zenon, <2>1 DEF SafeInv, TimerStarted, OwnSent, vars
    <3> QED BY Zenon, <2>1, <3>2, <1>OtherSafe DEF vars, supVars
  <2>2. CASE Next
    <3>1. UNCHANGED conf
      BY <2>2 DEF Next
    <3>2. PICK p \in Correct : GotMsg(p) \/ MainLoop(p)
      BY <2>2 DEF Next
    <3>3. CASE GotMsg(p)
      BY Zenon, <3>1, <3>3, <1>StoreMsgSafe, <1>UpdateSafe, <1>StoreInitSafe DEF GotMsg, RecvInit, RecvRecover
    <3>4. CASE MainLoop(p)
      <4>1. CASE \E h \in Hash : GotProposal(p, h) \/ ProcessInit(p, h)
        BY <3>1, <4>1, <1>GotProposalSafe, <1>ProcessInitSafe
      <4>2. CASE ProcessMessage(p) \/ ProcessSelfMessage(p)
        BY <3>1, <4>2, <1>ProcessMessageSafe, <1>ProcessSelfMessageSafe
      <4>3. CASE checkProgress(p)
        BY <3>1, <4>3, <1>CheckSendEchoSafe, <1>CheckEchoHashSafe, <1>CheckCommitHashSafe, <1>DecideSafe DEF checkProgress
      <4>4. CASE RecoverTimeout(p)
        BY <3>1, <4>4, <1>RecoverTimeoutSafe
      <4>5. CASE \E r \in requests : GotRequestRecover(p, r)
        BY <3>1, <4>5, <1>GotRequestRecoverSafe
      <4> QED BY <3>4, <4>1, <4>2, <4>3, <4>4, <4>5 DEF MainLoop
    <3> QED BY <3>2, <3>3, <3>4
  <2> QED BY <2>1, <2>2
<1> QED BY <1>InitSafe, <1>NextSafe, PTL DEF Spec

\* A decided hash has n-t commits, so n-t echoes.
LEMMA DecisionBacked ==
    ASSUME SafeInv, NEW p \in Correct, decisionHash[p] # Nil
    PROVE  decisionHash[p] \in Hash /\ EchoQuorum(decisionHash[p])
<1>1. decisionHash[p] = supportedCommitHash[p] /\ supportedCommitCount[p] >= nmt
  BY DEF SafeInv, DecisionSupported
<1>2. supportedCommitCount[p] \in Int
  BY MemberCounts, SafeTypes DEF CountTypes
<1>3. supportedCommitCount[p] > t
  BY <1>1, <1>2, MemberCounts
<1> QED BY <1>1, <1>3, CommitHashBacked

\* Two decided hashes would have two quorums of echoes, which share a correct node.
LEMMA SafeAgreement == SafeInv => Agreement
BY DecisionBacked, OneQuorum DEF SafeInv, Agreement

\* No two correct nodes decide different hashes, whatever the faulty members send to whom and
\* however the threads change the supported hashes between the reads of checkProgress.
THEOREM AgreementHolds == Spec => []Agreement
BY Safety, SafeAgreement, PTL

\* The panics of GotMsg ("got two hashes to support", "got conflicting echo and commit hashes") and
\* of checkProgress ("committed two different hashes") are never reached.
THEOREM NoPanicHolds == Spec => []NoPanic
<1>1. SafeInv => NoPanic
  BY DEF SafeInv
<1> QED BY <1>1, Safety, PTL

-----------------------------------------------------------------------------
(* Refinement of Consensus.                                                *)
Echoed == {h \in Hash : sent["echo"][h] # {}}

\* The broadcast implements the abstract consensus: a node decides once, a hash that a correct
\* node has validated and echoed, and the one the others decide.
THEOREM Refinement == Spec => ImplementsConsensus
  \* An echo proposes its hash.
<1>EchoRefines.
    ASSUME SafeInv, NEW p \in Correct, CheckSendEcho(p)
    PROVE  C!Propose \/ UNCHANGED <<sent, decisionHash>>
  <2> USE <1>EchoRefines
  <2>1. UNCHANGED decisionHash
    BY DEF CheckSendEcho
  <2>2. CASE UNCHANGED <<sent, SelfMessages, sentEcho>>
    BY <2>1, <2>2
  <2>3. ASSUME NEW h \in Hash, Broadcast(p, "echo", h)
        PROVE  C!Propose
    <3>1. /\ sent'["echo"][h] = sent["echo"][h] \cup {p}
          /\ \A g \in Hash : g # h => sent'["echo"][g] = sent["echo"][g]
      BY <2>3, KindFacts, BroadcastSends DEF SafeInv
    <3>2. {g \in Hash : sent'["echo"][g] # {}} = {g \in Hash : sent["echo"][g] # {}} \cup {h}
      BY <3>1
    <3> QED BY Zenon, <2>1, <3>2 DEF C!Propose
  <2> QED BY <2>2, <2>3, CheckSendEchoCases DEF SafeInv
  \* A commit changes nothing that Consensus can see.
<1>CommitRefines.
    ASSUME SafeInv, NEW p \in Correct, CheckEchoHash(p) \/ CheckCommitHash(p)
    PROVE  UNCHANGED <<Echoed, decisionHash>>
  <2> USE <1>CommitRefines
  <2>1. UNCHANGED decisionHash
    BY DEF CheckEchoHash, CheckCommitHash
  <2>2. UNCHANGED sent \/ \E h \in Hash : Broadcast(p, "commit", h)
    BY Zenon, EchoHashBacked, CommitHashBacked DEF CheckEchoHash, CheckCommitHash
  <2>3. \A g \in Hash : sent'["echo"][g] = sent["echo"][g]
    BY <2>2, KindFacts, BroadcastSends DEF SafeInv
  <2> QED BY <2>1, <2>3 DEF Echoed
  \* A decision is one of Consensus: of an echoed hash that no other node's decision contradicts.
<1>DecideRefines.
    ASSUME SafeInv, SafeInv', NEW p \in Correct, Decide(p)
    PROVE  (\E h \in Hash : C!Decide(p, h)) \/ UNCHANGED <<sent, decisionHash>>
  <2> USE <1>DecideRefines
  <2> DEFINE h == supportedCommitHash[p]
  <2>1. UNCHANGED sent
    BY DEF Decide, netVars
  <2>2. CASE UNCHANGED <<decisionHash, decided, requestRecoverTimer>>
    BY <2>1, <2>2
  <2>3. CASE Decides(p, h)
    <3>1. h \in Hash /\ h # Nil /\ decisionHash' = [decisionHash EXCEPT ![p] = h]
      BY <2>3 DEF Decides, SafeInv, TypeOK, DecisionTypes
    <3>2. decisionHash'[p] = h
      BY Zenon, <3>1 DEF SafeInv, TypeOK, DecisionTypes
    <3>3. sent["echo"][h] # {}
      <4>1. EchoQuorum(h)
        <5>1. supportedCommitCount[p] \in Int /\ supportedCommitCount[p] >= nmt
          BY <2>3, MemberCounts, SafeTypes DEF Decides, CountTypes
        <5>2. supportedCommitCount[p] > t
          BY <5>1, MemberCounts
        <5> QED BY Zenon, <5>2, CommitHashBacked
      <4>2. Signers("echo", h) \in SUBSET Members
        BY <3>1, SignersMembers, KindFacts DEF SafeInv
      <4>3. PICK q \in Correct : q \in Signers("echo", h)
        BY <4>1, <4>2, QuorumsMeet DEF EchoQuorum
      <4> QED BY <4>3 DEF Signers, Correct
    <3>4. \A q \in Correct : decisionHash[q] \in {Nil, h}
      <4> SUFFICES ASSUME NEW q \in Correct, decisionHash[q] # Nil PROVE decisionHash[q] = h
        OBVIOUS
      <4>1. CASE q = p
        BY <2>3, <4>1 DEF Decides
      <4>2. CASE q # p
        <5>1. decisionHash'[q] = decisionHash[q]
          BY Zenon, <3>1, <4>2, SafeTypes DEF DecisionTypes
        <5>2. Agreement'
          BY SafeAgreement, PTL
        <5> QED BY <3>1, <3>2, <5>1, <5>2 DEF Agreement
      <4> QED BY <4>1, <4>2
    <3>5. C!Decide(p, h)
      BY <2>1, <3>1, <3>3, <3>4 DEF C!Decide
    <3> QED BY Zenon, <3>1, <3>5
  <2> QED BY <2>2, <2>3, DecideCases
  \* All other steps change neither what is sent nor what is decided.
<1>SilentSteps.
    ASSUME NEW p \in Correct, GotMsg(p) \/ MainLoop(p)
    PROVE  checkProgress(p) \/ UNCHANGED <<sent, decisionHash>>
  <2> USE <1>SilentSteps
  <2>1. CASE GotMsg(p)
    BY Zenon, <2>1 DEF GotMsg, StoreMsg, Update, RecvInit, RecvRecover, StoreInit, netVars
  <2>2. CASE MainLoop(p)
    BY Zenon, <2>2 DEF MainLoop, GotProposal, ProcessInit, ProcessMessage, ProcessSelfMessage,
                RecoverTimeout, GotRequestRecover, netVars
  <2> QED BY <2>1, <2>2
<1>InitRefines. Init => C!Init
  BY KindFacts DEF Init, C!Init
<1>NextRefines.
    SafeInv /\ SafeInv' /\ [Next]_vars
        => [C!Next]_<<{h \in Hash : sent["echo"][h] # {}}, decisionHash>>
  <2> SUFFICES ASSUME SafeInv, SafeInv', [Next]_vars
               PROVE  C!Next \/ UNCHANGED <<Echoed, decisionHash>>
    BY Zenon DEF Echoed
  <2>1. CASE UNCHANGED vars
    BY Zenon, <2>1 DEF vars, Echoed
  <2>2. CASE Next
    <3>1. PICK p \in Correct : GotMsg(p) \/ MainLoop(p)
      BY <2>2 DEF Next
    <3>2. CASE UNCHANGED <<sent, decisionHash>>
      BY <3>2 DEF Echoed
    <3>3. CASE CheckSendEcho(p)
      BY <3>2, <3>3, <1>EchoRefines DEF C!Next
    <3>4. CASE CheckEchoHash(p) \/ CheckCommitHash(p)
      BY <3>4, <1>CommitRefines
    <3>5. CASE Decide(p)
      BY <3>2, <3>5, <1>DecideRefines DEF C!Next
    <3> QED BY <3>1, <3>2, <3>3, <3>4, <3>5, <1>SilentSteps DEF checkProgress
  <2> QED BY <2>1, <2>2
<1>1. Spec => C!Init
  BY <1>InitRefines DEF Spec
<1> QED BY <1>1, Safety, <1>NextRefines, PTL DEF Spec, ImplementsConsensus, C!Spec
=============================================================================
