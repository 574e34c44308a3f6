---------------------------- MODULE RbBcast2_rest ---------------------------
(***************************************************************************)
(* That RbBcast2 is a reliable broadcast, for every number of members, of  *)
(* hashes and of threads: RestInv, inductive with SafeInv, says where the  *)
(* work that a node still has to do is kept.  With signatures it gives     *)
(* Totality and Delivery; without them it gives both unless a node decides *)
(* before it has sent its commit.                                          *)
(***************************************************************************)
EXTENDS RbBcast2_proofs

(* The inductive invariant behind reliable broadcast: nothing that a node  *)
(* still has to do is lost between the threads, the main loop and the      *)
(* recovery.                                                               *)

\* n-t stored echoes are supported, and so are more than t stored commits with their count, or a
\* thread that has counted them is about to see to it.
SettledEcho ==
    \A p \in Correct, h \in Hash :
        Cardinality(SigMap[p]["echo"][h]) >= nmt =>
            supportedEchoHash[p] = h \/ \E d \in storing[p] : d.hash = h /\ EnoughEchos(d)

CommitSeen(p, h, c) ==
    \/ supportedCommitHash[p] = h /\ supportedCommitCount[p] >= c
    \/ \E d \in storing[p] : d.kind = "commit" /\ d.hash = h /\ d.NewTotalSigCount >= c

SettledCommit ==
    \A p \in Correct, h \in Hash :
        Cardinality(SigMap[p]["commit"][h]) > t =>
            CommitSeen(p, h, Cardinality(SigMap[p]["commit"][h]))

\* A node that has n-t commits and has not decided is about to run checkProgress.
Noticed ==
    \A p \in Correct :
        supportedCommitCount[p] >= nmt /\ decisionHash[p] = Nil => pc[p] # "recv" \/ Check \in queue[p]

\* So is one that has enough echoes or commits to commit and has neither done so nor decided.
CommitDue ==
    \A p \in Correct :
        \/ sentCommit[p] \/ decided[p] \/ Check \in queue[p] \/ pc[p] \in {"start", "echoHash"}
        \/ supportedEchoHash[p] = Nil /\ (supportedCommitCount[p] <= t \/ pc[p] = "commitHash")

CommitSent == \A p \in Correct : sentCommit[p] => \E h \in Hash : p \in sent["commit"][h]

\* A node has decided the value when its init message is here, or is about to; otherwise it waits
\* for the recover timeout or has asked for the init message.
DecidedHere == \A p \in Correct : decided[p] => decisionHash[p] \in validatedInitHashes[p]

InitNoticed ==
    \A p \in Correct : decisionHash[p] \in validatedInitHashes[p] => decided[p] \/ pc[p] # "recv"

InitAwaited ==
    \A p \in Correct :
        decisionHash[p] \notin validatedInitHashes[p] \cup {Nil} =>
            requestRecoverTimer[p] = "running" \/ sentRequestRecover[p]

\* A request is on its way, waits for the init message at the other node, or has been answered.
Asked ==
    \A p \in Correct : sentRequestRecover[p] =>
        /\ decisionHash[p] # Nil
        /\ \A q \in Correct \ {p} :
              \/ [from |-> p, to |-> q, hash |-> decisionHash[p]] \in requests \cup requestedRecover[q]
              \/ [to |-> p, hash |-> decisionHash[p]] \in recovers

Waiting == \A q \in Correct : \A r \in requestedRecover[q] : r.hash \notin validatedInitHashes[q]

\* A correct coordinator sends one init message, and no node knows of another.
OneInit == init # {} => Coord \in Correct /\ \E h \in Hash : init = {h}

FromCoord ==
    Coord \in Correct =>
        /\ \A p \in Correct : /\ validatedInitHashes[p] \subseteq init
                              /\ \A h \in Hash : InitItem(h) \in queue[p] => h \in init
                              /\ \A i \in 1..Len(SelfMessages[p]) :
                                    SelfMessages[p][i].kind = "init" => SelfMessages[p][i].hash \in init
        /\ \A r \in recovers : r.hash \in init

\* A node that has an init message echoes one, unless it decides first.
EchoDue ==
    \A p \in Correct : validatedInitHashes[p] # {} => sentEcho[p] \/ decided[p] \/ pc[p] = "start"

EchoSent == \A p \in Correct : sentEcho[p] => \E h \in Hash : p \in sent["echo"][h]

RestInv == /\ SettledEcho
           /\ SettledCommit
           /\ Noticed
           /\ CommitDue
           /\ CommitSent
           /\ DecidedHere
           /\ InitNoticed
           /\ InitAwaited
           /\ Asked
           /\ Waiting
           /\ OneInit
           /\ FromCoord
           /\ EchoDue
           /\ EchoSent

\* RestInv holds throughout: no count, message, init message or request that a node still has to
\* act on is lost between GotMsg, the main loop and the recovery, though checkProgress reads the
\* supported hashes in three steps.
THEOREM RestInvariance == Spec => []RestInv
<1>InitRest. Init => RestInv
  <2> SUFFICES ASSUME Init PROVE RestInv
    OBVIOUS
  <2>1. \A p \in Correct, k \in Kind, h \in Hash : Cardinality(SigMap[p][k][h]) = 0
    <3>1. \A p \in Correct, k \in Kind, h \in Hash : SigMap[p][k][h] = {}
      BY DEF Init
    <3> QED BY Zenon, <3>1, FS_EmptySet
  <2>2. SettledEcho /\ SettledCommit
    BY <2>1, MemberCounts, KindFacts DEF SettledEcho, SettledCommit
  <2>3. Noticed /\ DecidedHere /\ InitNoticed /\ InitAwaited /\ EchoDue /\ EchoSent /\ CommitSent
    BY MemberCounts, BroadcastAssumption DEF Init, Noticed, DecidedHere, InitNoticed, InitAwaited, EchoDue,
                                             EchoSent, CommitSent
  <2>4. CommitDue
    BY MemberCounts DEF Init, CommitDue
  <2>5. Asked /\ Waiting /\ OneInit /\ FromCoord
    BY DEF Init, Asked, Waiting, OneInit, FromCoord
  <2> QED BY <2>2, <2>3, <2>4, <2>5 DEF RestInv
<1>StoreMsgRest.
    ASSUME SafeInv, SafeInv', RestInv, NEW p \in Correct, NEW k \in Kind, NEW h \in Hash,
           NEW S \in SUBSET Signers(k, h), StoreMsg(p, k, h, S), UNCHANGED conf
    PROVE  RestInv'
  <2> USE <1>StoreMsgRest
  <2> USE DEF RestInv
  <2> DEFINE d == [kind |-> k, hash |-> h, NewTotalSigCount |-> Cardinality(SigMap[p][k][h] \cup S)]
  <2>1. UNCHANGED <<supportedEchoHash, supportedCommitHash, supportedCommitCount, decisionHash, decided, pc,
                    queue, validatedInitHashes, sentEcho, sentCommit, requestRecoverTimer,
                    sentRequestRecover, requests, requestedRecover, recovers, init, sent, SelfMessages>>
    BY Zenon DEF StoreMsg, netVars, supVars, recVars
  <2>2. /\ d \in storing'[p] /\ \A q \in Correct : storing[q] \subseteq storing'[q]
        /\ SigMap'[p][k][h] = SigMap[p][k][h] \cup S
        /\ \A q \in Correct, j \in Kind, g \in Hash :
              (q # p \/ j # k \/ g # h) => SigMap'[q][j][g] = SigMap[q][j][g]
    BY SafeTypes DEF StoreMsg, CountTypes
  <2>3. d.kind = k /\ d.hash = h /\ d.NewTotalSigCount = Cardinality(SigMap'[p][k][h])
    BY Zenon, <2>2
  <2> HIDE DEF d
  <2>4. SettledEcho'
    <3> SUFFICES ASSUME NEW q \in Correct, NEW g \in Hash, Cardinality(SigMap'[q]["echo"][g]) >= nmt
                 PROVE  \/ supportedEchoHash[q] = g
                        \/ \E e \in storing'[q] : e.hash = g /\ EnoughEchos(e)
      BY Zenon, <2>1 DEF SettledEcho
    <3>1. CASE q = p /\ k = "echo" /\ g = h
      <4>1. d.hash = g /\ EnoughEchos(d)
        BY <2>3, <3>1 DEF EnoughEchos
      <4> QED BY Zenon, <2>2, <3>1, <4>1
    <3>2. CASE ~ (q = p /\ k = "echo" /\ g = h)
      <4>1. SigMap'[q]["echo"][g] = SigMap[q]["echo"][g]
        BY <2>2, <3>2, KindFacts
      <4> QED BY Zenon, <2>2, <4>1 DEF SettledEcho
    <3> QED BY <3>1, <3>2
  <2>5. SettledCommit'
    <3> SUFFICES ASSUME NEW q \in Correct, NEW g \in Hash, Cardinality(SigMap'[q]["commit"][g]) > t
                 PROVE  CommitSeen(q, g, Cardinality(SigMap[q]["commit"][g]))'
      BY Zenon DEF SettledCommit
    <3>1. CASE q = p /\ k = "commit" /\ g = h
      <4>1. SigMap'[p]["commit"][h] \in SUBSET Members
        BY KindFacts DEF SafeInv, TypeOK, CountTypes
      <4>2. Cardinality(SigMap'[p]["commit"][h]) \in Int
        BY <4>1, CountSubset, MemberCounts
      <4>3. d.kind = "commit" /\ d.hash = g /\ d.NewTotalSigCount >= Cardinality(SigMap'[q]["commit"][g])
        BY <2>3, <3>1, <4>2
      <4> QED BY <2>2, <3>1, <4>3 DEF CommitSeen
    <3>2. CASE ~ (q = p /\ k = "commit" /\ g = h)
      <4>1. SigMap'[q]["commit"][g] = SigMap[q]["commit"][g]
        BY <2>2, <3>2, KindFacts
      <4>2. CommitSeen(q, g, Cardinality(SigMap[q]["commit"][g]))
        BY Zenon, <4>1 DEF SettledCommit
      <4> QED BY Zenon, <2>1, <2>2, <4>1, <4>2 DEF CommitSeen
    <3> QED BY Zenon, <3>1, <3>2
  <2>6. /\ Noticed' /\ CommitDue' /\ CommitSent' /\ DecidedHere' /\ InitNoticed' /\ InitAwaited'
        /\ EchoDue' /\ EchoSent'
    BY Zenon, <2>1 DEF Noticed, CommitDue, CommitSent, DecidedHere, InitNoticed, InitAwaited, EchoDue, EchoSent
  <2>7. Asked' /\ Waiting' /\ OneInit' /\ FromCoord'
    BY Zenon, <2>1 DEF Asked, Waiting, OneInit, FromCoord, conf
  <2> QED BY <2>4, <2>5, <2>6, <2>7
  \* The supported hashes change only through a count that then leaves no other one behind.
<1>UpdateSettled.
    ASSUME SafeInv, SafeInv', SettledEcho, SettledCommit, MoreStored, UNCHANGED <<sent, decisionHash>>,
           NEW p \in Correct, NEW d \in Counts,
           d.NewTotalSigCount <= Cardinality(SigMap'[p][d.kind][d.hash]), UpdateSupported(p, d),
           \A q \in Correct, k \in Kind, g \in Hash :
               SigMap'[q][k][g] = SigMap[q][k][g]
                 \/ (q = p /\ k = d.kind /\ g = d.hash /\ d.NewTotalSigCount = Cardinality(SigMap'[p][k][g])),
           \A q \in Correct : storing[q] \ {d} \subseteq storing'[q],
           \A q \in Correct \ {p} : storing'[q] = storing[q]
    PROVE  SettledEcho' /\ SettledCommit'
  <2> USE <1>UpdateSettled
  <2>1. Supports(p, d)
    BY Zenon, UpdateSupportedSafe DEF SafeInv
  <2>2. d.kind \in Kind /\ d.hash \in Hash /\ d.NewTotalSigCount \in Int
    BY MemberCounts DEF Counts
  <2>3. SettledEcho'
    <3> SUFFICES ASSUME NEW q \in Correct, NEW g \in Hash, Cardinality(SigMap'[q]["echo"][g]) >= nmt
                 PROVE  \/ supportedEchoHash'[q] = g
                        \/ \E e \in storing'[q] : e.hash = g /\ EnoughEchos(e)
      BY Zenon DEF SettledEcho
    <3>1. CASE SigMap'[q]["echo"][g] = SigMap[q]["echo"][g]
      <4>1. supportedEchoHash[q] = g \/ \E e \in storing[q] : e.hash = g /\ EnoughEchos(e)
        BY Zenon, <3>1 DEF SettledEcho
      <4>2. CASE supportedEchoHash[q] = g
        BY <2>1, <4>2, BroadcastAssumption DEF Supports
      <4>3. ASSUME NEW e \in storing[q], e.hash = g, EnoughEchos(e)
            PROVE  \/ supportedEchoHash'[q] = g
                   \/ \E x \in storing'[q] : x.hash = g /\ EnoughEchos(x)
        <5>1. CASE q = p /\ e = d
          BY Zenon, <2>1, <4>3, <5>1 DEF Supports
        <5>2. CASE ~ (q = p /\ e = d)
          BY Zenon, <4>3, <5>2
        <5> QED BY Zenon, <5>1, <5>2
      <4> QED BY Zenon, <4>1, <4>2, <4>3
    <3>2. CASE q = p /\ d.kind = "echo" /\ g = d.hash /\ d.NewTotalSigCount = Cardinality(SigMap'[p]["echo"][g])
      BY Zenon, <2>1, <3>2 DEF EnoughEchos, Supports
    <3> QED BY Zenon, <3>1, <3>2, KindFacts
  <2>4. SettledCommit'
    <3> SUFFICES ASSUME NEW q \in Correct, NEW g \in Hash, Cardinality(SigMap'[q]["commit"][g]) > t
                 PROVE  CommitSeen(q, g, Cardinality(SigMap[q]["commit"][g]))'
      BY Zenon DEF SettledCommit
    <3> DEFINE c == Cardinality(SigMap'[q]["commit"][g])
    <3>0. c \in Int /\ supportedCommitCount[q] \in Int /\ supportedCommitCount'[q] \in Int
      <4>1. c \in Int
        <5>1. SigMap'[q]["commit"][g] \in SUBSET Members
          BY KindFacts DEF SafeInv, TypeOK, CountTypes
        <5> QED BY <5>1, CountSubset, MemberCounts
      <4>2. supportedCommitCount[q] \in Int /\ supportedCommitCount'[q] \in Int
        BY MemberCounts DEF SafeInv, TypeOK, CountTypes
      <4> QED BY Zenon, <4>1, <4>2
    <3>1. ASSUME q = p, d.kind = "commit", g = d.hash, d.NewTotalSigCount >= c
          PROVE  supportedCommitHash'[q] = g /\ supportedCommitCount'[q] >= c
      <4>1. EnoughCommits(d)
        BY <2>2, <3>0, <3>1, MemberCounts DEF EnoughCommits
      <4>2. /\ supportedCommitHash'[q] = g
            /\ supportedCommitCount'[q] = Raise(supportedCommitCount[q], d.NewTotalSigCount)
        BY Zenon, <2>1, <3>1, <4>1 DEF Supports
      <4> QED BY <2>2, <3>0, <3>1, <4>2 DEF Raise
    <3>2. CASE SigMap'[q]["commit"][g] = SigMap[q]["commit"][g]
      <4>1. CommitSeen(q, g, c)
        BY Zenon, <3>2 DEF SettledCommit
      <4>2. CASE supportedCommitHash[q] = g /\ supportedCommitCount[q] >= c
        <5>1. /\ supportedCommitHash'[q] = g
              /\ \/ supportedCommitCount'[q] = supportedCommitCount[q]
                 \/ supportedCommitCount'[q] = Raise(supportedCommitCount[q], d.NewTotalSigCount)
          BY <2>1, <4>2, BroadcastAssumption DEF Supports
        <5>2. supportedCommitCount'[q] >= c
          BY <2>2, <3>0, <4>2, <5>1 DEF Raise
        <5> QED BY Zenon, <5>1, <5>2 DEF CommitSeen
      <4>3. ASSUME NEW e \in storing[q], e.kind = "commit", e.hash = g, e.NewTotalSigCount >= c
            PROVE  CommitSeen(q, g, Cardinality(SigMap[q]["commit"][g]))'
        <5>1. CASE q = p /\ e = d
          BY Zenon, <3>1, <4>3, <5>1 DEF CommitSeen
        <5>2. CASE ~ (q = p /\ e = d)
          BY Zenon, <4>3, <5>2 DEF CommitSeen
        <5> QED BY Zenon, <5>1, <5>2
      <4> QED BY Zenon, <4>1, <4>2, <4>3 DEF CommitSeen
    <3>3. CASE q = p /\ d.kind = "commit" /\ g = d.hash /\ d.NewTotalSigCount = c
      BY Zenon, <3>0, <3>1, <3>3 DEF CommitSeen
    <3> QED BY <3>2, <3>3, KindFacts
  <2> QED BY Zenon, <2>3, <2>4
<1>UpdateRest.
    ASSUME SafeInv, SafeInv', RestInv, NEW p \in Correct, NEW d \in storing[p], Update(p, d), UNCHANGED conf
    PROVE  RestInv'
  <2> USE <1>UpdateRest
  <2> USE DEF RestInv
  <2>1. UNCHANGED <<decisionHash, decided, pc, validatedInitHashes, sentEcho, sentCommit, SigMap,
                    requestRecoverTimer, sentRequestRecover, requests, requestedRecover, recovers,
                    init, sent, SelfMessages>>
    BY Zenon DEF Update, netVars, recVars
  <2>2. /\ d \in Counts /\ d.NewTotalSigCount <= Cardinality(SigMap'[p][d.kind][d.hash])
        /\ MoreStored /\ UpdateSupported(p, d)
    BY Zenon, <2>1 DEF SafeInv, CountsStored, TypeOK, CountTypes, Update, MoreStored
  <2>3. SettledEcho' /\ SettledCommit'
    <3>1. /\ \A q \in Correct : storing[q] \ {d} \subseteq storing'[q]
          /\ \A q \in Correct \ {p} : storing'[q] = storing[q]
      BY Zenon DEF Update, SafeInv, TypeOK, CountTypes
    <3> QED BY Zenon, <2>1, <2>2, <3>1, <1>UpdateSettled
  <2>4. \A q \in Correct : queue'[q] = IF q = p THEN queue[q] \cup {Check} ELSE queue[q]
    BY Zenon DEF Update, SafeInv, TypeOK, LoopTypes
  <2>5. \A q \in Correct \ {p} : /\ supportedEchoHash'[q] = supportedEchoHash[q]
                                 /\ supportedCommitCount'[q] = supportedCommitCount[q]
    BY <2>1, <2>2, UpdateSupportedSafe DEF SafeInv, Supports
  <2>6. Noticed' /\ CommitDue'
    BY Zenon, <2>1, <2>4, <2>5 DEF Noticed, CommitDue
  <2>7. DecidedHere' /\ InitNoticed' /\ InitAwaited' /\ EchoDue' /\ EchoSent' /\ CommitSent'
    BY Zenon, <2>1 DEF DecidedHere, InitNoticed, InitAwaited, EchoDue, EchoSent, CommitSent
  <2>8. Asked' /\ Waiting' /\ OneInit'
    BY Zenon, <2>1 DEF Asked, Waiting, OneInit, conf
  <2>9. FromCoord'
    <3>1. \A h \in Hash : InitItem(h) # Check
      BY DEF InitItem, Check
    <3> QED BY Zenon, <2>1, <2>4, <3>1 DEF FromCoord, conf
  <2> QED BY <2>3, <2>6, <2>7, <2>8, <2>9
<1>StoreInitRest.
    ASSUME SafeInv, RestInv, NEW p \in Correct, NEW h \in Hash, RecvInit(p, h) \/ RecvRecover(p, h),
           UNCHANGED conf
    PROVE  RestInv'
  <2> USE <1>StoreInitRest
  <2> USE DEF RestInv
  <2>1. StoreInit(p, h)
    BY DEF RecvInit, RecvRecover
  <2>2. UNCHANGED <<supportedEchoHash, supportedCommitHash, supportedCommitCount, storing, SigMap,
                    decisionHash, decided, pc, validatedInitHashes, sentEcho, sentCommit,
                    requestRecoverTimer, sentRequestRecover, requests, requestedRecover, recovers, init,
                    sent, SelfMessages>>
    BY Zenon, <2>1 DEF StoreInit, netVars, supVars, recVars
  <2>3. \A q \in Correct : queue'[q] = IF q = p THEN queue[q] \cup {InitItem(h)} ELSE queue[q]
    BY Zenon, <2>1 DEF StoreInit, SafeInv, TypeOK, LoopTypes
  <2>4. SettledEcho' /\ SettledCommit'
    BY Zenon, <2>2 DEF SettledEcho, SettledCommit, CommitSeen
  <2>5. DecidedHere' /\ InitNoticed' /\ InitAwaited' /\ EchoDue' /\ EchoSent' /\ CommitSent'
    BY Zenon, <2>2 DEF DecidedHere, InitNoticed, InitAwaited, EchoDue, EchoSent, CommitSent
  <2>6. Noticed' /\ CommitDue'
    BY Zenon, <2>2, <2>3 DEF Noticed, CommitDue
  <2>7. Asked' /\ Waiting' /\ OneInit'
    BY Zenon, <2>2 DEF Asked, Waiting, OneInit, conf
  <2>8. FromCoord'
    <3>1. Coord \in Correct => h \in init
      BY Zenon DEF RecvInit, RecvRecover, FromCoord, Correct
    <3>2. \A g \in Hash : InitItem(g) = InitItem(h) => g = h
      BY DEF InitItem
    <3> QED BY Zenon, <2>2, <2>3, <3>1, <3>2 DEF FromCoord, conf
  <2> QED BY <2>4, <2>5, <2>6, <2>7, <2>8
<1>GotProposalRest.
    ASSUME SafeInv, RestInv, NEW p \in Correct, NEW h \in Hash, GotProposal(p, h), UNCHANGED conf
    PROVE  RestInv'
  <2> USE <1>GotProposalRest
  <2> USE DEF RestInv
  <2>1. UNCHANGED <<supportedEchoHash, supportedCommitHash, supportedCommitCount, storing, SigMap,
                    decisionHash, decided, pc, validatedInitHashes, queue, sentEcho, sentCommit,
                    requestRecoverTimer, sentRequestRecover, requests, requestedRecover, recovers, sent>>
    BY Zenon DEF GotProposal, supVars, recVars
  <2>2. SettledEcho' /\ SettledCommit' /\ Noticed' /\ CommitDue'
    BY Zenon, <2>1 DEF SettledEcho, SettledCommit, CommitSeen, Noticed, CommitDue
  <2>3. DecidedHere' /\ InitNoticed' /\ InitAwaited' /\ EchoDue' /\ EchoSent' /\ CommitSent'
    BY Zenon, <2>1 DEF DecidedHere, InitNoticed, InitAwaited, EchoDue, EchoSent, CommitSent
  <2>4. Asked' /\ Waiting' /\ OneInit'
    BY Zenon, <2>1 DEF Asked, Waiting, OneInit, GotProposal, conf
  <2>5. FromCoord'
    <3>1. init = {} /\ init' = {h}
      BY Zenon DEF GotProposal
    <3>2. ASSUME Coord \in Correct, NEW q \in Correct, NEW i \in 1..Len(SelfMessages'[q]),
                 SelfMessages'[q][i].kind = "init"
          PROVE  SelfMessages'[q][i].hash = h
      <4>1. /\ InitItem(h) \in Messages /\ InitItem(h).hash = h
            /\ SelfMessages' = [SelfMessages EXCEPT ![p] = Append(SelfMessages[p], InitItem(h))]
        BY Zenon DEF GotProposal, InitItem, Messages
      <4>2. \/ i \in 1..Len(SelfMessages[q]) /\ SelfMessages'[q][i] = SelfMessages[q][i]
            \/ SelfMessages'[q][i] = InitItem(h)
        BY <4>1, AppendElement DEF SafeInv
      <4> QED BY Zenon, <3>1, <3>2, <4>1, <4>2 DEF FromCoord
    <3> QED BY Zenon, <2>1, <3>1, <3>2 DEF FromCoord, conf
  <2> QED BY <2>2, <2>3, <2>4, <2>5
  \* Answering requests: none is lost, and those that keep waiting are for what is not here.
<1>SendRecoverRest.
    ASSUME SafeInv, SafeInv', Asked, Waiting, NEW p \in Correct, NEW reqs \in SUBSET Requests,
           SendRecover(p, reqs, validatedInitHashes'[p]),
           requestedRecover[p] \subseteq reqs,
           \A r \in requests \ requests' : r.to = p /\ r \in reqs,
           \A q \in Correct \ {p} : validatedInitHashes'[q] = validatedInitHashes[q],
           UNCHANGED <<decisionHash, sentRequestRecover>>
    PROVE  Asked' /\ Waiting'
  <2> USE <1>SendRecoverRest
  <2> DEFINE answered == {r \in reqs : r.hash \in validatedInitHashes'[p]}
  <2>1. /\ recovers' = recovers \cup {[to |-> r.from, hash |-> r.hash] : r \in answered}
        /\ \A q \in Correct : requestedRecover'[q] = IF q = p THEN reqs \ answered ELSE requestedRecover[q]
    BY Zenon DEF SendRecover, SafeInv, TypeOK, NetTypes, DecisionTypes
  <2>2. Waiting'
    BY Zenon, <2>1 DEF Waiting
  <2>3. Asked'
    <3> SUFFICES ASSUME NEW s \in Correct, sentRequestRecover[s], NEW q \in Correct \ {s}
                 PROVE  /\ decisionHash[s] # Nil
                        /\ \/ [from |-> s, to |-> q, hash |-> decisionHash[s]] \in requests' \cup requestedRecover'[q]
                           \/ [to |-> s, hash |-> decisionHash[s]] \in recovers'
      BY Zenon DEF Asked
    <3> DEFINE r == [from |-> s, to |-> q, hash |-> decisionHash[s]]
               a == [to |-> s, hash |-> decisionHash[s]]
    <3>1. decisionHash[s] # Nil /\ (r \in requests \cup requestedRecover[q] \/ a \in recovers)
      BY Zenon DEF Asked
    <3>2. r.from = s /\ r.to = q /\ r.hash = decisionHash[s]
      OBVIOUS
    <3>3. a = [to |-> r.from, hash |-> r.hash]
      OBVIOUS
    <3> HIDE DEF r, a
    <3>4. CASE a \in recovers
      BY Zenon, <2>1, <3>1, <3>4 DEF r, a
    <3>5. CASE r \in requests'
      BY Zenon, <3>1, <3>5 DEF r
    <3>6. CASE q # p /\ r \in requestedRecover[q]
      BY Zenon, <2>1, <3>1, <3>6 DEF r
    <3>7. CASE r \in reqs /\ q = p
      <4>1. CASE r \in answered
        BY Zenon, <2>1, <3>1, <3>3, <4>1 DEF a
      <4>2. CASE r \notin answered
        BY Zenon, <2>1, <3>1, <3>7, <4>2 DEF r
      <4> QED BY Zenon, <4>1, <4>2
    <3> QED BY <3>1, <3>2, <3>4, <3>5, <3>6, <3>7
  <2> QED BY <2>2, <2>3
  \* Storing an init message, which the coordinator has sent if it is correct.
<1>ValidateInitRest.
    ASSUME SafeInv, SafeInv', RestInv, NEW p \in Correct, NEW h \in Hash, ValidateInit(p, h),
           Coord \in Correct => h \in init,
           \A q \in Correct \ {p} : Check \in queue[q] => Check \in queue'[q],
           \A q \in Correct, g \in Hash : InitItem(g) \in queue'[q] => InitItem(g) \in queue[q],
           Coord \in Correct =>
              \A q \in Correct : \A i \in 1..Len(SelfMessages'[q]) :
                 SelfMessages'[q][i].kind = "init" => SelfMessages'[q][i].hash \in init,
           UNCHANGED <<conf, init, sent, requests, SigMap, supVars, storing, sentEcho, sentCommit,
                       decisionHash, decided, requestRecoverTimer, sentRequestRecover>>
    PROVE  RestInv'
  <2> USE <1>ValidateInitRest
  <2> USE DEF RestInv
  <2>1. \A q \in Correct : pc'[q] = IF q = p THEN "start" ELSE pc[q]
    BY Zenon DEF ValidateInit, SafeInv, TypeOK, LoopTypes
  <2>2. \A q \in Correct : validatedInitHashes'[q] =
            IF q = p THEN validatedInitHashes[q] \cup {h} ELSE validatedInitHashes[q]
    <3>1. /\ validatedInitHashes \in [Correct -> SUBSET Hash]
          /\ validatedInitHashes' = [validatedInitHashes EXCEPT ![p] = validatedInitHashes[p] \cup {h}]
      BY Zenon DEF ValidateInit, SafeInv, TypeOK, LoopTypes
    <3> QED BY <3>1, Zenon
  <2>3. SettledEcho' /\ SettledCommit' /\ EchoSent' /\ CommitSent' /\ OneInit'
    BY Zenon DEF SettledEcho, SettledCommit, CommitSeen, EchoSent, CommitSent, OneInit, conf, supVars
  <2>4. Noticed' /\ EchoDue' /\ CommitDue'
    BY Zenon, <2>1, <2>2 DEF Noticed, EchoDue, CommitDue, supVars
  <2>5. DecidedHere' /\ InitNoticed' /\ InitAwaited'
    BY Zenon, <2>1, <2>2 DEF DecidedHere, InitNoticed, InitAwaited
  <2>6. SendRecover(p, requestedRecover[p], validatedInitHashes'[p])
    BY Zenon, <2>2 DEF ValidateInit
  <2>7. Asked' /\ Waiting'
    <3>1. requestedRecover[p] \in SUBSET Requests
      BY Zenon DEF SafeInv, TypeOK, DecisionTypes
    <3>2. \A q \in Correct \ {p} : validatedInitHashes'[q] = validatedInitHashes[q]
      BY Zenon, <2>2
    <3> QED BY Zenon, <2>6, <3>1, <3>2, <1>SendRecoverRest
  <2>8. ASSUME Coord \in Correct
        PROVE  /\ \A q \in Correct : validatedInitHashes'[q] \subseteq init
               /\ \A r \in recovers' : r.hash \in init
    <3>1. \A q \in Correct : validatedInitHashes'[q] \subseteq init
      BY Zenon, <2>2, <2>8 DEF FromCoord
    <3>2. \A r \in recovers' : r \in recovers \/ r.hash \in validatedInitHashes'[p]
      BY <2>6 DEF SendRecover
    <3> QED BY Zenon, <2>8, <3>1, <3>2 DEF FromCoord
  <2>9. FromCoord'
    BY Zenon, <2>8 DEF FromCoord, conf
  <2> QED BY Zenon, <2>3, <2>4, <2>5, <2>7, <2>9
<1>ProcessInitRest.
    ASSUME SafeInv, SafeInv', RestInv, NEW p \in Correct, NEW h \in Hash, ProcessInit(p, h), UNCHANGED conf
    PROVE  RestInv'
  <2> USE <1>ProcessInitRest
  <2>1. Coord \in Correct => h \in init
    BY Zenon DEF ProcessInit, RestInv, FromCoord
  <2>2. \A q \in Correct : queue'[q] = IF q = p THEN queue[q] \ {InitItem(h)} ELSE queue[q]
    BY Zenon DEF ProcessInit, SafeInv, TypeOK, LoopTypes
  <2>3. UNCHANGED <<init, sent, requests, SigMap, supVars, storing, sentEcho, sentCommit, SelfMessages,
                    decisionHash, decided, requestRecoverTimer, sentRequestRecover>>
    BY DEF ProcessInit
  <2>4. Coord \in Correct =>
           \A q \in Correct : \A i \in 1..Len(SelfMessages'[q]) :
              SelfMessages'[q][i].kind = "init" => SelfMessages'[q][i].hash \in init
    BY Zenon, <2>3 DEF RestInv, FromCoord
  <2> QED BY <2>1, <2>2, <2>3, <2>4, <1>ValidateInitRest DEF ProcessInit
<1>ProcessMessageRest.
    ASSUME SafeInv, RestInv, NEW p \in Correct, ProcessMessage(p), UNCHANGED conf
    PROVE  RestInv'
  <2> USE <1>ProcessMessageRest
  <2> USE DEF RestInv
  <2>1. UNCHANGED <<supportedEchoHash, supportedCommitHash, supportedCommitCount, storing, SigMap,
                    decisionHash, decided, validatedInitHashes, sentEcho, sentCommit,
                    requestRecoverTimer, sentRequestRecover, requests, requestedRecover, recovers, init,
                    sent, SelfMessages>>
    BY Zenon DEF ProcessMessage, netVars, supVars, recVars
  <2>2. /\ \A q \in Correct : pc'[q] = IF q = p THEN "start" ELSE pc[q]
        /\ \A q \in Correct : queue'[q] = IF q = p THEN queue[q] \ {Check} ELSE queue[q]
    BY Zenon DEF ProcessMessage, SafeInv, TypeOK, LoopTypes
  <2>3. SettledEcho' /\ SettledCommit' /\ DecidedHere' /\ InitAwaited' /\ EchoSent' /\ CommitSent'
    BY Zenon, <2>1 DEF SettledEcho, SettledCommit, CommitSeen, DecidedHere, InitAwaited, EchoSent, CommitSent
  <2>4. Noticed' /\ InitNoticed' /\ EchoDue' /\ CommitDue'
    BY Zenon, <2>1, <2>2 DEF Noticed, InitNoticed, EchoDue, CommitDue
  <2>5. Asked' /\ Waiting' /\ OneInit'
    BY Zenon, <2>1 DEF Asked, Waiting, OneInit, conf
  <2>6. FromCoord'
    BY Zenon, <2>1, <2>2 DEF FromCoord, conf
  <2> QED BY <2>3, <2>4, <2>5, <2>6
  \* Taking the first of a node's own messages, of which an init message is the coordinator's.
<1>OwnInitTail.
    ASSUME SafeInv, FromCoord, Coord \in Correct, NEW p \in Correct, SelfMessages[p] # <<>>,
           SelfMessages' = [SelfMessages EXCEPT ![p] = Tail(SelfMessages[p])]
    PROVE  /\ Head(SelfMessages[p]).kind = "init" => Head(SelfMessages[p]).hash \in init
           /\ \A q \in Correct : \A i \in 1..Len(SelfMessages'[q]) :
                 SelfMessages'[q][i].kind = "init" => SelfMessages'[q][i].hash \in init
  <2> USE <1>OwnInitTail
  <2>1. /\ 1 \in 1..Len(SelfMessages[p]) /\ Head(SelfMessages[p]) = SelfMessages[p][1]
        /\ \A q \in Correct : \A i \in 1..Len(SelfMessages'[q]) :
              \E j \in 1..Len(SelfMessages[q]) : SelfMessages'[q][i] = SelfMessages[q][j]
    BY Zenon, TailElement DEF SafeInv
  <2> QED BY <2>1 DEF FromCoord
<1>ProcessSelfMessageRest.
    ASSUME SafeInv, SafeInv', RestInv, NEW p \in Correct, ProcessSelfMessage(p), UNCHANGED conf
    PROVE  RestInv'
  <2> USE <1>ProcessSelfMessageRest
  <2>1. UNCHANGED <<init, sent, requests, storing, queue, sentEcho, sentCommit, decisionHash, decided,
                    requestRecoverTimer, sentRequestRecover>>
    BY Zenon DEF ProcessSelfMessage
  <2>2. Coord \in Correct =>
           /\ Head(SelfMessages[p]).kind = "init" => Head(SelfMessages[p]).hash \in init
           /\ \A q \in Correct : \A i \in 1..Len(SelfMessages'[q]) :
                 SelfMessages'[q][i].kind = "init" => SelfMessages'[q][i].hash \in init
    BY Zenon, <1>OwnInitTail DEF ProcessSelfMessage, RestInv
  <2>3. ASSUME NEW h \in Hash, Head(SelfMessages[p]) = [kind |-> "init", hash |-> h], ValidateInit(p, h),
               UNCHANGED <<SigMap, supVars, panicked>>
        PROVE  RestInv'
    <3>1. Coord \in Correct => h \in init
      BY <2>2, <2>3
    <3> QED BY Zenon, <2>1, <2>2, <2>3, <3>1, <1>ValidateInitRest
  <2>4. ASSUME UNCHANGED <<validatedInitHashes, recovers, requestedRecover>>
        PROVE  /\ DecidedHere' /\ InitAwaited' /\ EchoSent' /\ CommitSent' /\ Asked' /\ Waiting' /\ OneInit'
               /\ FromCoord'
    <3> USE DEF RestInv
    <3>1. DecidedHere' /\ InitAwaited' /\ EchoSent' /\ CommitSent' /\ Asked' /\ Waiting' /\ OneInit'
      BY Zenon, <2>1, <2>4 DEF DecidedHere, InitAwaited, EchoSent, CommitSent, Asked, Waiting, OneInit, conf
    <3>2. FromCoord'
      BY Zenon, <2>1, <2>2, <2>4 DEF FromCoord, conf
    <3> QED BY <3>1, <3>2
  <2>5. ASSUME NEW k \in Kind, NEW h \in Hash, StoresOwn(p, k, h)
        PROVE  RestInv'
    <3> DEFINE d == OwnCount(p, k, h)
    <3>1. /\ SigMap'[p][k][h] = SigMap[p][k][h] \cup {p}
          /\ \A q \in Correct, j \in Kind, g \in Hash :
                (q # p \/ j # k \/ g # h) => SigMap'[q][j][g] = SigMap[q][j][g]
      BY <2>5, SafeTypes DEF StoresOwn, CountTypes
    <3>2. MoreStored
      BY <3>1 DEF MoreStored
    <3>3. d \in Counts /\ UpdateSupported(p, d)
      BY Zenon, <2>5, OwnCountType DEF StoresOwn, SafeInv
    <3>4. d.kind = k /\ d.hash = h /\ d.NewTotalSigCount = Cardinality(SigMap'[p][k][h])
      BY Zenon, <3>1 DEF OwnCount
    <3>5. d.NewTotalSigCount <= Cardinality(SigMap'[p][d.kind][d.hash])
      <4>1. Cardinality(SigMap'[p][k][h]) \in Int
        BY <3>2, MoreCounted, MemberCounts DEF SafeInv
      <4> QED BY <3>4, <4>1
    <3> HIDE DEF d
    <3>6. SettledEcho' /\ SettledCommit'
      <4>1. \A q \in Correct, j \in Kind, g \in Hash :
               SigMap'[q][j][g] = SigMap[q][j][g]
                 \/ (q = p /\ j = d.kind /\ g = d.hash /\ d.NewTotalSigCount = Cardinality(SigMap'[p][j][g]))
        <5> TAKE q \in Correct, j \in Kind, g \in Hash
        <5>1. CASE q = p /\ j = k /\ g = h
          BY <3>4, <5>1
        <5>2. CASE q # p \/ j # k \/ g # h
          BY <3>1, <5>2
        <5> QED BY Zenon, <5>1, <5>2
      <4>2. UNCHANGED <<sent, decisionHash, storing>> /\ SettledEcho /\ SettledCommit
        BY <2>1 DEF RestInv
      <4> QED BY Zenon, <3>2, <3>3, <3>5, <4>1, <4>2, <1>UpdateSettled
    <3>7. \A q \in Correct \ {p} : /\ supportedEchoHash'[q] = supportedEchoHash[q]
                                   /\ supportedCommitCount'[q] = supportedCommitCount[q]
      BY <2>1, <3>2, <3>3, <3>5, UpdateSupportedSafe DEF SafeInv, Supports
    <3>8. \A q \in Correct : pc'[q] = IF q = p THEN "start" ELSE pc[q]
      BY <2>5, SafeTypes DEF StoresOwn, LoopTypes
    <3>9. UNCHANGED <<validatedInitHashes, recovers, requestedRecover>>
      BY Zenon, <2>5 DEF StoresOwn
    <3>10. Noticed' /\ CommitDue' /\ InitNoticed' /\ EchoDue'
      BY <2>1, <3>7, <3>8, <3>9 DEF RestInv, Noticed, CommitDue, InitNoticed, EchoDue
    <3> QED BY Zenon, <2>4, <3>6, <3>9, <3>10 DEF RestInv
  <2>6. CASE UNCHANGED <<SigMap, supVars, panicked, pc, validatedInitHashes, recovers, requestedRecover>>
    <3>1. SettledEcho' /\ SettledCommit' /\ Noticed' /\ CommitDue' /\ InitNoticed' /\ EchoDue'
      BY Zenon, <2>1, <2>6 DEF RestInv, SettledEcho, SettledCommit, CommitSeen, Noticed, CommitDue, InitNoticed,
                        EchoDue, supVars
    <3> QED BY Zenon, <2>4, <2>6, <3>1 DEF RestInv
  <2> QED BY Zenon, <2>3, <2>5, <2>6, SelfMessageCases DEF SafeInv
  \* An echo or a commit is no init message.
<1>BroadcastFromCoord.
    ASSUME SafeInv, FromCoord, NEW p \in Correct, NEW k \in Kind, NEW h \in Hash, Broadcast(p, k, h),
           UNCHANGED <<conf, init, queue, validatedInitHashes, recovers>>
    PROVE  FromCoord'
  <2> USE <1>BroadcastFromCoord
  <2> DEFINE m == [kind |-> k, hash |-> h]
  <2>1. /\ m \in Messages /\ m.kind # "init"
        /\ SelfMessages' = [SelfMessages EXCEPT ![p] = Append(SelfMessages[p], m)]
    BY DEF Broadcast, Messages, Kind
  <2> HIDE DEF m
  <2>2. ASSUME Coord \in Correct, NEW q \in Correct, NEW i \in 1..Len(SelfMessages'[q]),
               SelfMessages'[q][i].kind = "init"
        PROVE  SelfMessages'[q][i].hash \in init
    <3>1. \/ i \in 1..Len(SelfMessages[q]) /\ SelfMessages'[q][i] = SelfMessages[q][i]
          \/ SelfMessages'[q][i] = m
      BY <2>1, AppendElement DEF SafeInv
    <3> QED BY Zenon, <2>1, <2>2, <3>1 DEF FromCoord
  <2> QED BY Zenon, <2>2 DEF FromCoord, conf
<1>CheckSendEchoRest.
    ASSUME SafeInv, SafeInv', RestInv, NEW p \in Correct, CheckSendEcho(p), UNCHANGED conf
    PROVE  RestInv'
  <2> USE <1>CheckSendEchoRest
  <2> USE DEF RestInv
  <2>1. UNCHANGED <<supportedEchoHash, supportedCommitHash, supportedCommitCount, storing, SigMap,
                    decisionHash, decided, validatedInitHashes, sentCommit, requestRecoverTimer,
                    sentRequestRecover, requests, requestedRecover, recovers, queue, init>>
    BY Zenon DEF CheckSendEcho, supVars, recVars
  <2>2. \A q \in Correct : pc'[q] = IF q # p THEN pc[q] ELSE IF decided[p] THEN "recv"
                                    ELSE IF sentCommit[p] THEN "decide" ELSE "echoHash"
    <3>1. /\ pc \in [Correct -> {"recv", "start", "echoHash", "commitHash", "decide"}]
          /\ pc' = [pc EXCEPT ![p] = IF decided[p] THEN "recv"
                                     ELSE IF sentCommit[p] THEN "decide" ELSE "echoHash"]
      BY Zenon, SafeTypes DEF CheckSendEcho, LoopTypes, DecisionTypes
    <3> QED BY <3>1
  <2>3. SettledEcho' /\ SettledCommit'
    BY Zenon, <2>1 DEF SettledEcho, SettledCommit, CommitSeen
  <2>4. DecidedHere' /\ InitAwaited' /\ Asked' /\ Waiting' /\ OneInit'
    BY Zenon, <2>1 DEF DecidedHere, InitAwaited, Asked, Waiting, OneInit, conf
  <2>5. Noticed' /\ InitNoticed' /\ CommitDue'
    <3>1. decided[p] => decisionHash[p] # Nil
      BY BroadcastAssumption, SafeTypes DEF DecidedHere, LoopTypes, DecisionTypes
    <3> QED BY Zenon, <2>1, <2>2, <3>1 DEF Noticed, InitNoticed, CommitDue
  <2>6. CASE /\ decided[p] \/ sentEcho[p] \/ validatedInitHashes[p] = {}
             /\ UNCHANGED <<sent, SelfMessages, sentEcho>>
    <3>1. EchoDue' /\ EchoSent' /\ CommitSent' /\ FromCoord'
      BY Zenon, <2>1, <2>2, <2>6 DEF EchoDue, EchoSent, CommitSent, FromCoord, conf
    <3> QED BY <2>3, <2>4, <2>5, <3>1
  <2>7. ASSUME sentEcho' = [sentEcho EXCEPT ![p] = TRUE], NEW h \in Hash, Broadcast(p, "echo", h)
        PROVE  RestInv'
    <3>1. /\ sent'["echo"][h] = sent["echo"][h] \cup {p}
          /\ \A g \in Hash : g # h => sent'["echo"][g] = sent["echo"][g]
          /\ \A g \in Hash : sent'["commit"][g] = sent["commit"][g]
      BY <2>7, KindFacts, BroadcastSends DEF SafeInv
    <3>2. \A q \in Correct : sentEcho'[q] = IF q = p THEN TRUE ELSE sentEcho[q]
      BY <2>7, Zenon DEF SafeInv, TypeOK, LoopTypes
    <3>3. EchoDue'
      BY Zenon, <2>1, <2>2, <3>2 DEF EchoDue
    <3>4. EchoSent' /\ CommitSent'
      <4>1. \A q \in Correct, g \in Hash : q \in sent["echo"][g] => q \in sent'["echo"][g]
        BY <3>1
      <4>2. p \in sent'["echo"][h]
        BY <3>1
      <4>3. EchoSent'
        BY Zenon, <3>2, <4>1, <4>2 DEF EchoSent
      <4>4. CommitSent'
        BY Zenon, <2>1, <3>1 DEF CommitSent
      <4> QED BY <4>3, <4>4
    <3>5. FromCoord'
      BY Zenon, <2>1, <2>7, KindFacts, <1>BroadcastFromCoord
    <3> QED BY <2>3, <2>4, <2>5, <3>3, <3>4, <3>5
  <2> QED BY Zenon, <2>6, <2>7, CheckSendEchoCases DEF SafeInv
  \* Both ways of sending a commit.
<1>SendsCommitRest.
    ASSUME SafeInv, SafeInv', RestInv, NEW p \in Correct, pc[p] \in {"echoHash", "commitHash"},
           NEW h \in Hash, SendsCommit(p, h),
           UNCHANGED <<conf, supVars, storing, SigMap, decisionHash, decided, validatedInitHashes, sentEcho,
                       requestRecoverTimer, sentRequestRecover, requests, requestedRecover, recovers,
                       queue, init>>
    PROVE  RestInv'
  <2> USE <1>SendsCommitRest
  <2> USE DEF RestInv
  <2>1. \A q \in Correct : pc'[q] = IF q = p THEN "decide" ELSE pc[q]
    BY SafeTypes DEF SendsCommit, LoopTypes
  <2>2. sentCommit'[p] /\ \A q \in Correct \ {p} : sentCommit'[q] = sentCommit[q]
    BY Zenon, SafeTypes DEF SendsCommit, LoopTypes
  <2>3. /\ sent'["commit"][h] = sent["commit"][h] \cup {p}
        /\ \A g \in Hash : g # h => sent'["commit"][g] = sent["commit"][g]
        /\ \A g \in Hash : sent'["echo"][g] = sent["echo"][g]
    BY KindFacts, BroadcastSends DEF SendsCommit, SafeInv
  <2>4. SettledEcho' /\ SettledCommit'
    BY Zenon DEF SettledEcho, SettledCommit, CommitSeen, supVars
  <2>5. DecidedHere' /\ InitAwaited' /\ Asked' /\ Waiting' /\ OneInit'
    BY Zenon DEF DecidedHere, InitAwaited, Asked, Waiting, OneInit, conf
  <2>6. Noticed' /\ InitNoticed' /\ CommitDue' /\ EchoDue'
    BY <2>1, <2>2 DEF Noticed, InitNoticed, CommitDue, EchoDue, supVars
  <2>7. EchoSent'
    BY Zenon, <2>3 DEF EchoSent
  <2>8. CommitSent'
    <3>1. p \in sent'["commit"][h] /\ \A g \in Hash : sent["commit"][g] \subseteq sent'["commit"][g]
      BY Zenon, <2>3
    <3> QED BY Zenon, <2>2, <3>1 DEF CommitSent
  <2>9. FromCoord'
    BY Zenon, KindFacts, <1>BroadcastFromCoord DEF SendsCommit
  <2> QED BY <2>4, <2>5, <2>6, <2>7, <2>8, <2>9
  \* Going on without sending one.
<1>NoCommitRest.
    ASSUME SafeInv, RestInv, NEW p \in Correct, pc[p] \in {"echoHash", "commitHash"},
           NEW next \in {"commitHash", "decide"}, pc' = [pc EXCEPT ![p] = next],
           next = "commitHash" => supportedEchoHash[p] = Nil,
           next = "decide" => pc[p] = "commitHash" /\ ~ (supportedCommitCount[p] > t),
           UNCHANGED <<conf, sent, SelfMessages, sentCommit, supVars, storing, SigMap, decisionHash,
                       decided, validatedInitHashes, sentEcho, requestRecoverTimer,
                       sentRequestRecover, requests, requestedRecover, recovers, queue, init>>
    PROVE  RestInv'
  <2> USE <1>NoCommitRest
  <2> USE DEF RestInv
  <2>1. \A q \in Correct : pc'[q] = IF q = p THEN next ELSE pc[q]
    BY Zenon DEF SafeInv, TypeOK, LoopTypes
  <2>2. SettledEcho' /\ SettledCommit' /\ EchoSent' /\ CommitSent'
    BY DEF SettledEcho, SettledCommit, CommitSeen, supVars, EchoSent, CommitSent
  <2>3. DecidedHere' /\ InitAwaited' /\ Asked' /\ Waiting' /\ OneInit' /\ FromCoord'
    BY Zenon DEF DecidedHere, InitAwaited, Asked, Waiting, OneInit, FromCoord, conf
  <2>4. Noticed' /\ InitNoticed' /\ EchoDue'
    BY <2>1 DEF Noticed, InitNoticed, EchoDue, supVars
  <2>5. CommitDue'
    <3>1. supportedCommitCount[p] \in Int /\ t \in Int
      BY MemberCounts, SafeTypes DEF CountTypes
    <3> QED BY <2>1, <3>1 DEF CommitDue, supVars
  <2> QED BY <2>2, <2>3, <2>4, <2>5
<1>CheckEchoHashRest.
    ASSUME SafeInv, SafeInv', RestInv, NEW p \in Correct, CheckEchoHash(p), UNCHANGED conf
    PROVE  RestInv'
  <2> USE <1>CheckEchoHashRest
  <2>1. /\ pc[p] = "echoHash"
        /\ UNCHANGED <<supVars, storing, SigMap, decisionHash, decided, validatedInitHashes, sentEcho,
                       requestRecoverTimer, sentRequestRecover, requests, requestedRecover, recovers,
                       queue, init>>
    BY DEF CheckEchoHash, recVars
  <2>2. CASE supportedEchoHash[p] # Nil
    <3>1. supportedEchoHash[p] \in Hash /\ SendsCommit(p, supportedEchoHash[p])
      BY <2>2, EchoHashBacked DEF CheckEchoHash, SendsCommit
    <3> QED BY <2>1, <3>1, <1>SendsCommitRest
  <2>3. CASE supportedEchoHash[p] = Nil
    <3>1. pc' = [pc EXCEPT ![p] = "commitHash"] /\ UNCHANGED <<sent, SelfMessages, sentCommit>>
      BY <2>3 DEF CheckEchoHash
    <3> QED BY Zenon, <2>1, <2>3, <3>1, <1>NoCommitRest
  <2> QED BY <2>2, <2>3
<1>CheckCommitHashRest.
    ASSUME SafeInv, SafeInv', RestInv, NEW p \in Correct, CheckCommitHash(p), UNCHANGED conf
    PROVE  RestInv'
  <2> USE <1>CheckCommitHashRest
  <2>1. /\ pc[p] = "commitHash"
        /\ UNCHANGED <<supVars, storing, SigMap, decisionHash, decided, validatedInitHashes, sentEcho,
                       requestRecoverTimer, sentRequestRecover, requests, requestedRecover, recovers,
                       queue, init>>
    BY DEF CheckCommitHash, recVars
  <2>2. CASE supportedCommitCount[p] > t
    <3>1. supportedCommitHash[p] \in Hash /\ SendsCommit(p, supportedCommitHash[p])
      BY <2>2, CommitHashBacked DEF CheckCommitHash, SendsCommit
    <3> QED BY <2>1, <3>1, <1>SendsCommitRest
  <2>3. CASE ~ (supportedCommitCount[p] > t)
    <3>1. pc' = [pc EXCEPT ![p] = "decide"] /\ UNCHANGED <<sent, SelfMessages, sentCommit>>
      BY <2>3 DEF CheckCommitHash
    <3> QED BY Zenon, <2>1, <2>3, <3>1, <1>NoCommitRest
  <2> QED BY Zenon, <2>2, <2>3
<1>DecideRest.
    ASSUME SafeInv, RestInv, NEW p \in Correct, Decide(p), UNCHANGED conf
    PROVE  RestInv'
  <2> USE <1>DecideRest
  <2> USE DEF RestInv
  <2> DEFINE h == supportedCommitHash[p]
  <2>1. UNCHANGED <<supportedEchoHash, supportedCommitHash, supportedCommitCount, storing, SigMap,
                    validatedInitHashes, sentEcho, sentCommit, sentRequestRecover, requests,
                    requestedRecover, recovers, queue, init, sent, SelfMessages>>
    BY Zenon DEF Decide, netVars, supVars
  <2>2. pc[p] = "decide" /\ \A q \in Correct : pc'[q] = IF q = p THEN "recv" ELSE pc[q]
    BY Zenon DEF Decide, SafeInv, TypeOK, LoopTypes
  <2>3. SettledEcho' /\ SettledCommit' /\ EchoSent' /\ CommitSent' /\ Waiting' /\ OneInit' /\ FromCoord'
    BY Zenon, <2>1 DEF SettledEcho, SettledCommit, CommitSeen, EchoSent, CommitSent, Waiting, OneInit, FromCoord, conf
  <2>4. CASE ~ (supportedCommitCount[p] >= nmt) /\ UNCHANGED <<decisionHash, decided, requestRecoverTimer>>
    <3>1. decisionHash[p] = Nil /\ Nil \notin validatedInitHashes[p]
      BY Zenon, <2>4, BroadcastAssumption DEF SafeInv, DecisionSupported, TypeOK, LoopTypes, DecisionTypes
    <3>2. Noticed' /\ InitNoticed' /\ EchoDue' /\ CommitDue'
      BY Zenon, <2>1, <2>2, <2>4, <3>1 DEF Noticed, InitNoticed, EchoDue, CommitDue
    <3>3. DecidedHere' /\ InitAwaited' /\ Asked'
      BY Zenon, <2>1, <2>4 DEF DecidedHere, InitAwaited, Asked
    <3> QED BY <2>3, <3>2, <3>3
  <2>5. CASE Decides(p, h)
    <3> HIDE DEF h
    <3>1. h # Nil /\ decisionHash[p] \in {Nil, h}
      BY <2>5 DEF Decides
    <3>2. \A q \in Correct : decisionHash'[q] = IF q = p THEN h ELSE decisionHash[q]
      BY Zenon, <2>5 DEF Decides, SafeInv, TypeOK, DecisionTypes
    <3>3. \A q \in Correct \ {p} :
             decided'[q] = decided[q] /\ requestRecoverTimer'[q] = requestRecoverTimer[q]
      BY <2>5, Zenon DEF Decides, SafeInv, TypeOK, DecisionTypes
    <3>4. decided'[p] = (h \in validatedInitHashes[p])
      BY <2>5, Zenon, SafeTypes DEF Decides, LoopTypes, DecisionTypes
    <3>5. h \notin validatedInitHashes[p] /\ requestRecoverTimer[p] = "nil"
             => requestRecoverTimer'[p] = "running"
      BY Zenon, <2>5, SafeTypes DEF Decides, LoopTypes, DecisionTypes
    <3>6. requestRecoverTimer[p] # "nil" => requestRecoverTimer'[p] = requestRecoverTimer[p]
      BY Zenon, <2>5 DEF Decides, SafeInv, TypeOK, DecisionTypes
    <3>7. decided[p] => decided'[p]
      BY <3>1, <3>4, BroadcastAssumption, SafeTypes DEF DecidedHere, LoopTypes, DecisionTypes
    <3>8. Noticed' /\ DecidedHere' /\ InitNoticed'
      BY Zenon, <2>1, <2>2, <3>1, <3>2, <3>3, <3>4 DEF Noticed, DecidedHere, InitNoticed
    <3>9. EchoDue' /\ CommitDue'
      BY <2>1, <2>2, <3>3, <3>7 DEF EchoDue, CommitDue
    <3>10. InitAwaited'
      <4>1. requestRecoverTimer[p] # "nil" => decisionHash[p] = h
        BY <3>1 DEF SafeInv, TimerStarted
      <4> QED BY <2>1, <3>2, <3>3, <3>5, <3>6, <4>1, <3>1 DEF InitAwaited
    <3>11. Asked'
      <4>1. \A q \in Correct : sentRequestRecover[q] => decisionHash'[q] = decisionHash[q]
        BY Zenon, <3>1, <3>2 DEF Asked
      <4> QED BY Zenon, <2>1, <4>1 DEF Asked
    <3> QED BY Zenon, <2>3, <3>8, <3>9, <3>10, <3>11
  <2> QED BY Zenon, <2>4, <2>5, DecideCases
<1>RecoverTimeoutRest.
    ASSUME SafeInv, RestInv, NEW p \in Correct, RecoverTimeout(p), UNCHANGED conf
    PROVE  RestInv'
  <2> USE <1>RecoverTimeoutRest
  <2> USE DEF RestInv
  <2>1. UNCHANGED <<supportedEchoHash, supportedCommitHash, supportedCommitCount, storing, SigMap,
                    validatedInitHashes, sentEcho, sentCommit, decisionHash, decided, requestedRecover,
                    recovers, queue, pc, init, sent, SelfMessages>>
    BY Zenon DEF RecoverTimeout, supVars
  <2>2. SettledEcho' /\ SettledCommit' /\ Noticed' /\ CommitDue' /\ CommitSent' /\ EchoDue' /\ EchoSent'
    BY Zenon, <2>1 DEF SettledEcho, SettledCommit, CommitSeen, Noticed, CommitDue, CommitSent, EchoDue, EchoSent
  <2>3. DecidedHere' /\ InitNoticed' /\ Waiting' /\ OneInit' /\ FromCoord'
    BY Zenon, <2>1 DEF DecidedHere, InitNoticed, Waiting, OneInit, FromCoord, conf
  <2>4. \A q \in Correct \ {p} : /\ requestRecoverTimer'[q] = requestRecoverTimer[q]
                                 /\ sentRequestRecover'[q] = sentRequestRecover[q]
    BY Zenon DEF RecoverTimeout, SafeInv, TypeOK, DecisionTypes
  <2>5. decided[p] \/ sentRequestRecover'[p]
    BY Zenon DEF RecoverTimeout, SafeInv, TypeOK, DecisionTypes
  <2>6. InitAwaited'
    BY Zenon, <2>1, <2>4, <2>5 DEF InitAwaited, DecidedHere
  <2>7. Asked'
    <3>1. requests \subseteq requests'
      BY Zenon DEF RecoverTimeout
    <3>2. CASE sentRequestRecover'[p] = sentRequestRecover[p]
      BY Zenon, <2>1, <2>4, <3>1, <3>2 DEF Asked
    <3>3. CASE ~ decided[p] /\ ~ sentRequestRecover[p]
      <4>1. \A q \in Correct \ {p} : [from |-> p, to |-> q, hash |-> decisionHash[p]] \in requests'
        BY Zenon, <3>3 DEF RecoverTimeout
      <4>2. decisionHash[p] # Nil
        BY Zenon DEF RecoverTimeout, SafeInv, TimerStarted
      <4> QED BY Zenon, <2>1, <2>4, <3>1, <4>1, <4>2 DEF Asked
    <3> QED BY Zenon, <3>2, <3>3 DEF RecoverTimeout
  <2> QED BY <2>2, <2>3, <2>6, <2>7
<1>GotRequestRecoverRest.
    ASSUME SafeInv, SafeInv', RestInv, NEW p \in Correct, NEW r \in requests, GotRequestRecover(p, r),
           UNCHANGED conf
    PROVE  RestInv'
  <2> USE <1>GotRequestRecoverRest
  <2> USE DEF RestInv
  <2>1. UNCHANGED <<supportedEchoHash, supportedCommitHash, supportedCommitCount, storing, SigMap,
                    validatedInitHashes, sentEcho, sentCommit, decisionHash, decided,
                    requestRecoverTimer, sentRequestRecover, queue, pc, init, sent, SelfMessages>>
    BY Zenon DEF GotRequestRecover, supVars
  <2>2. SettledEcho' /\ SettledCommit' /\ Noticed' /\ CommitDue' /\ CommitSent' /\ EchoDue' /\ EchoSent'
    BY Zenon, <2>1 DEF SettledEcho, SettledCommit, CommitSeen, Noticed, CommitDue, CommitSent, EchoDue, EchoSent
  <2>3. DecidedHere' /\ InitNoticed' /\ InitAwaited' /\ OneInit'
    BY Zenon, <2>1 DEF DecidedHere, InitNoticed, InitAwaited, OneInit, conf
  <2>4. SendRecover(p, requestedRecover[p] \cup {r}, validatedInitHashes'[p])
    BY Zenon, <2>1 DEF GotRequestRecover
  <2>5. Asked' /\ Waiting'
    <3>1. requestedRecover[p] \cup {r} \in SUBSET Requests
      BY Zenon, SafeTypes DEF NetTypes, DecisionTypes
    <3>2. \A x \in requests \ requests' : x.to = p /\ x \in requestedRecover[p] \cup {r}
      BY Zenon DEF GotRequestRecover
    <3> QED BY <2>1, <2>4, <3>1, <3>2, <1>SendRecoverRest
  <2>6. FromCoord'
    <3>1. \A x \in recovers' : x \in recovers \/ x.hash \in validatedInitHashes[p]
      BY <2>1, <2>4 DEF SendRecover
    <3> QED BY Zenon, <2>1, <3>1 DEF FromCoord, conf
  <2> QED BY <2>2, <2>3, <2>5, <2>6
<1>NextRest. SafeInv /\ SafeInv' /\ RestInv /\ [Next]_vars => RestInv'
  <2> SUFFICES ASSUME SafeInv, SafeInv', RestInv, [Next]_vars PROVE RestInv'
    OBVIOUS
  <2>1. CASE UNCHANGED vars
    <3> USE DEF RestInv
    <3>1. SettledEcho' /\ SettledCommit' /\ Noticed' /\ CommitDue' /\ CommitSent' /\ EchoDue' /\ EchoSent'
      BY Zenon, <2>1 DEF vars, SettledEcho, SettledCommit, CommitSeen, Noticed, CommitDue, CommitSent, EchoDue, EchoSent
    <3>2. DecidedHere' /\ InitNoticed' /\ InitAwaited' /\ Asked' /\ Waiting' /\ OneInit' /\ FromCoord'
      BY Zenon, <2>1 DEF vars, conf, DecidedHere, InitNoticed, InitAwaited, Asked, Waiting, OneInit, FromCoord
    <3> QED BY <3>1, <3>2
  <2>2. CASE Next
    <3>1. UNCHANGED conf
      BY <2>2 DEF Next
    <3>2. PICK p \in Correct : GotMsg(p) \/ MainLoop(p)
      BY Zenon, <2>2 DEF Next
    <3>3. CASE GotMsg(p)
      BY <3>1, <3>3, <1>StoreMsgRest, <1>UpdateRest, <1>StoreInitRest DEF GotMsg
    <3>4. CASE MainLoop(p)
      <4>1. CASE \E h \in Hash : GotProposal(p, h) \/ ProcessInit(p, h)
        BY <3>1, <4>1, <1>GotProposalRest, <1>ProcessInitRest
      <4>2. CASE ProcessMessage(p) \/ ProcessSelfMessage(p)
        BY <3>1, <4>2, <1>ProcessMessageRest, <1>ProcessSelfMessageRest
      <4>3. CASE checkProgress(p)
        BY <3>1, <4>3, <1>CheckSendEchoRest, <1>CheckEchoHashRest, <1>CheckCommitHashRest, <1>DecideRest DEF checkProgress
      <4>4. CASE RecoverTimeout(p)
        BY <3>1, <4>4, <1>RecoverTimeoutRest
      <4>5. CASE \E r \in requests : GotRequestRecover(p, r)
        BY <3>1, <4>5, <1>GotRequestRecoverRest
      <4> QED BY <3>4, <4>1, <4>2, <4>3, <4>4, <4>5 DEF MainLoop
    <3> QED BY <3>2, <3>3, <3>4
  <2> QED BY <2>1, <2>2
<1> QED BY Safety, <1>InitRest, <1>NextRest, PTL DEF Spec
\* At rest, a node that has stored n-t commits has decided their hash, and one that has stored more
\* than t has committed to it, unless it has decided before.
LEMMA CommitsSupport ==
    ASSUME SafeInv, RestInv, AtRest, NEW q \in Correct, NEW h \in Hash,
           NEW A \in SUBSET SigMap[q]["commit"][h], Cardinality(A) > t
    PROVE  supportedCommitHash[q] = h /\ supportedCommitCount[q] >= Cardinality(A)
<1> DEFINE c == Cardinality(SigMap[q]["commit"][h])
<1>1. SigMap[q]["commit"][h] \in SUBSET Members
  BY KindFacts, SafeTypes DEF CountTypes
<1>2. Cardinality(A) \in Int /\ c \in Int /\ Cardinality(A) <= c
  BY <1>1, CountSubset, MemberCounts
<1>3. c > t
  BY <1>2, MemberCounts
<1>4. supportedCommitHash[q] = h /\ supportedCommitCount[q] >= c
  BY Zenon, <1>3 DEF RestInv, SettledCommit, CommitSeen, AtRest
<1>5. supportedCommitCount[q] \in Int
  BY MemberCounts, SafeTypes DEF CountTypes
<1> QED BY <1>2, <1>4, <1>5

\* At rest, a node that has stored n - t commits for a hash has decided it.
LEMMA QuorumDecides ==
    ASSUME SafeInv, RestInv, AtRest, NEW q \in Correct, NEW h \in Hash,
           NEW A \in SUBSET SigMap[q]["commit"][h], Cardinality(A) >= nmt
    PROVE  decisionHash[q] = h
<1>1. A \in SUBSET Members
  BY KindFacts, SafeTypes DEF CountTypes
<1>2. Cardinality(A) \in Int /\ Cardinality(A) > t
  BY <1>1, CountSubset, MemberCounts
<1>3. supportedCommitHash[q] = h /\ supportedCommitCount[q] >= Cardinality(A)
  BY <1>2, CommitsSupport
<1>4. supportedCommitCount[q] \in Int
  BY MemberCounts, SafeTypes DEF CountTypes
<1>5. supportedCommitCount[q] >= nmt
  BY <1>2, <1>3, <1>4, MemberCounts
<1>6. decisionHash[q] # Nil
  BY Zenon, <1>5 DEF RestInv, Noticed, AtRest, Idle
<1> QED BY <1>3, <1>6 DEF SafeInv, DecisionSupported

\* When every correct node has committed, they have all decided: a commit is backed by n-t echoes,
\* so that all commits are for one hash.
LEMMA AllCommitted ==
    ASSUME SafeInv, RestInv, AtRest, \A p \in Correct : sentCommit[p], NEW h \in Hash, EchoQuorum(h)
    PROVE  \A q \in Correct : decisionHash[q] = h
<1>1. \A p \in Correct : p \in sent["commit"][h]
  <2> SUFFICES ASSUME NEW p \in Correct PROVE p \in sent["commit"][h]
    OBVIOUS
  <2>1. PICK g \in Hash : p \in sent["commit"][g]
    BY DEF RestInv, CommitSent
  <2>2. EchoQuorum(g)
    BY <2>1 DEF SafeInv, CommitBacked
  <2>3. g = h
    BY <2>2, OneQuorum DEF SafeInv
  <2> QED BY <2>1, <2>3
<1> TAKE q \in Correct
<1>2. Correct \in SUBSET SigMap[q]["commit"][h]
  BY Zenon, <1>1, KindFacts DEF AtRest, Available
<1> QED BY <1>2, CorrectCount, QuorumDecides

\* What is decided has n-t commits at its node, hence the commits of more than t correct nodes.
LEMMA DecisionCommits ==
    ASSUME SafeInv, NEW p \in Correct, decisionHash[p] # Nil
    PROVE  /\ decisionHash[p] \in Hash
           /\ SigMap[p]["commit"][decisionHash[p]] \in SUBSET Members
           /\ Cardinality(SigMap[p]["commit"][decisionHash[p]]) >= nmt
<1> DEFINE h == decisionHash[p]
           c == Cardinality(SigMap[p]["commit"][h])
<1>1. h \in Hash /\ h = supportedCommitHash[p] /\ supportedCommitCount[p] >= nmt
  BY Zenon DEF SafeInv, TypeOK, CountTypes, DecisionSupported
<1>2. supportedCommitCount[p] <= c
  BY <1>1 DEF SafeInv, CommitStored
<1>3. SigMap[p]["commit"][h] \in SUBSET Members
  BY <1>1, KindFacts, SafeTypes DEF CountTypes
<1>4. c \in Int
  BY <1>3, CountSubset, MemberCounts
<1>5. supportedCommitCount[p] \in Int
  BY MemberCounts, SafeTypes DEF CountTypes
<1> QED BY <1>1, <1>2, <1>3, <1>4, <1>5, MemberCounts

\* The hash that one node has decided every other one has decided too, when nothing is left to do:
\* the signed commits are forwarded, and without signatures they make every node commit.
LEMMA RestHash ==
    ASSUME SafeInv, RestInv, AtRest, ~ NoSignatures \/ CommitsFirst, NEW p \in Correct,
           decisionHash[p] # Nil, NEW q \in Correct
    PROVE  decisionHash[q] = decisionHash[p]
<1> DEFINE h == decisionHash[p]
           A == SigMap[p]["commit"][h]
<1>1. h \in Hash /\ A \in SUBSET Members /\ Cardinality(A) >= nmt
  BY Zenon, DecisionCommits
<1>2. CASE ~ NoSignatures
  <2>1. A \in SUBSET SigMap[q]["commit"][h]
    BY <1>1, <1>2, KindFacts DEF AtRest, Available
  <2> QED BY Zenon, <1>1, <2>1, QuorumDecides
<1>3. CASE CommitsFirst
  <2>1. Cardinality(A \ Faulty) > t
    BY Zenon, <1>1, QuorumCorrect
  <2>2. A \ Faulty \in SUBSET sent["commit"][h]
    BY Zenon, <1>1, KindFacts DEF SafeInv, StoredSent, Signers
  <2>3. ASSUME NEW s \in Correct PROVE sentCommit[s]
    <3>1. A \ Faulty \in SUBSET SigMap[s]["commit"][h]
      BY Zenon, <1>1, <2>2, KindFacts DEF AtRest, Available
    <3>2. supportedCommitHash[s] = h
      BY <1>1, <2>1, <3>1, CommitsSupport
    <3>3. supportedCommitCount[s] > t
      BY Zenon, <1>1, <3>2, BroadcastAssumption DEF SafeInv, CommitStored
    <3>4. supportedCommitCount[s] \in Int /\ t \in Int
      BY MemberCounts, SafeTypes DEF CountTypes
    <3>5. ~ (supportedCommitCount[s] <= t)
      BY <3>3, <3>4
    <3> QED BY Zenon, <1>3, <3>5 DEF RestInv, CommitDue, AtRest, Idle, CommitsFirst
  <2>4. EchoQuorum(h)
    BY DecisionBacked
  <2> QED BY <1>1, <2>3, <2>4, AllCommitted
<1> QED BY <1>2, <1>3

\* Every correct node decides the hash that one of them has decided.
LEMMA RestHashTotality == SafeInv /\ RestInv => HashTotality
<1> SUFFICES ASSUME SafeInv, RestInv, ~ NoSignatures \/ CommitsFirst, AtRest,
                    NEW p \in Correct, decisionHash[p] # Nil, NEW q \in Correct
             PROVE  decisionHash[q] # Nil
  BY DEF HashTotality
<1> QED BY RestHash

\* With signatures the node also gets the init message from the one that has decided.
LEMMA RestSignedTotality == SafeInv /\ RestInv => SignedTotality
<1> SUFFICES ASSUME SafeInv, RestInv, ~ NoSignatures, AtRest, NEW p \in Correct, decided[p],
                    NEW q \in Correct
             PROVE  decided[q]
  BY DEF SignedTotality, Totality
<1> DEFINE h == decisionHash[p]
<1>1. h \in Hash /\ h \in validatedInitHashes[p]
  BY Zenon DEF RestInv, DecidedHere, SafeInv, TypeOK, LoopTypes
<1>2. h # Nil
  BY <1>1, BroadcastAssumption
<1>3. decisionHash[q] = h
  BY <1>2, RestHash
<1>4. ASSUME h \notin validatedInitHashes[q] PROVE FALSE
  <2>1. sentRequestRecover[q] /\ p # q
    BY Zenon, <1>1, <1>2, <1>3, <1>4 DEF RestInv, InitAwaited, AtRest
  <2>2. \/ [from |-> q, to |-> p, hash |-> h] \in requests \cup requestedRecover[p]
        \/ [to |-> q, hash |-> h] \in recovers
    BY <1>3, <2>1 DEF RestInv, Asked
  <2>3. [from |-> q, to |-> p, hash |-> h] \notin requests
    BY Zenon DEF AtRest
  <2>4. [from |-> q, to |-> p, hash |-> h] \notin requestedRecover[p]
    BY <1>1 DEF RestInv, Waiting
  <2>5. [to |-> q, hash |-> h] \notin recovers
    BY <1>1, <1>4 DEF AtRest
  <2> QED BY <2>2, <2>3, <2>4, <2>5
<1> QED BY Zenon, <1>3, <1>4 DEF RestInv, InitNoticed, AtRest, Idle

\* What is decided has been echoed by a correct node, which had the init message.
LEMMA DecisionEchoed ==
    ASSUME SafeInv, NEW p \in Correct, decisionHash[p] # Nil
    PROVE  \E q \in Correct : decisionHash[p] \in validatedInitHashes[q]
<1> DEFINE h == decisionHash[p]
<1>1. h \in Hash /\ EchoQuorum(h)
  BY Zenon, DecisionBacked DEF SafeInv, TypeOK
<1>2. Signers("echo", h) \in SUBSET Members
  BY <1>1, SignersMembers, KindFacts DEF SafeInv
<1>3. Cardinality(Signers("echo", h)) \in Int /\ Cardinality(Signers("echo", h)) > t
  BY <1>1, <1>2, CountSubset, MemberCounts DEF EchoQuorum
<1>4. PICK q \in Correct : q \in Signers("echo", h)
  BY <1>2, <1>3, ManyHaveCorrect
<1>5. q \in sent["echo"][h]
  BY <1>4 DEF Signers, Correct
<1> QED BY <1>1, <1>5 DEF SafeInv, OneEcho

\* A correct coordinator's proposal is decided by all before nothing is left to do.
LEMMA RestDelivery == SafeInv /\ RestInv => Delivery
<1> SUFFICES ASSUME SafeInv, RestInv, ~ NoSignatures \/ CommitsFirst, AtRest, init # {},
                    NEW q \in Correct
             PROVE  decided[q] /\ decisionHash[q] \in init
  BY DEF Delivery
<1>1. Coord \in Correct
  BY DEF RestInv, OneInit
<1>2. PICK h \in Hash : init = {h}
  BY DEF RestInv, OneInit
<1>3. \A p \in Correct : validatedInitHashes[p] = {h}
  BY Zenon, <1>1, <1>2 DEF RestInv, FromCoord, AtRest
<1>4. decisionHash[q] = h
  <2>1. CASE \E p \in Correct : decisionHash[p] # Nil
    <3>1. PICK p \in Correct : decisionHash[p] # Nil
      BY <2>1
    <3>2. decisionHash[p] = h
      BY <1>3, <3>1, DecisionEchoed
    <3> QED BY <3>1, <3>2, RestHash
  <2>2. CASE \A p \in Correct : decisionHash[p] = Nil
    <3>1. \A p \in Correct : ~ decided[p]
      BY <1>3, <2>2, BroadcastAssumption DEF RestInv, DecidedHere
    <3>2. \A p \in Correct : sentEcho[p]
      BY Zenon, <1>3, <3>1 DEF RestInv, EchoDue, AtRest, Idle
    <3>3. \A p \in Correct : p \in sent["echo"][h]
      BY <1>3, <3>2 DEF RestInv, EchoSent, SafeInv, OneEcho
    <3>4. EchoQuorum(h)
      <4>1. Correct \in SUBSET Signers("echo", h) /\ Signers("echo", h) \in SUBSET Members
        BY <3>3, SignersMembers, KindFacts DEF SafeInv, Signers
      <4>2. Cardinality(Correct) <= Cardinality(Signers("echo", h))
        BY <4>1, CountSubset
      <4>3. Cardinality(Signers("echo", h)) \in Int /\ Cardinality(Correct) \in Int
        BY <4>1, CountSubset, MemberCounts
      <4> QED BY <4>2, <4>3, CorrectCount, MemberCounts DEF EchoQuorum
    <3>5. ASSUME NEW p \in Correct PROVE sentCommit[p]
      <4>1. Correct \in SUBSET SigMap[p]["echo"][h]
        BY Zenon, <3>3, KindFacts DEF AtRest, Available
      <4>2. SigMap[p]["echo"][h] \in SUBSET Members
        BY KindFacts, SafeTypes DEF CountTypes
      <4>3. Cardinality(SigMap[p]["echo"][h]) >= Cardinality(Correct)
        BY <4>1, <4>2, CountSubset
      <4>4. Cardinality(SigMap[p]["echo"][h]) \in Int /\ Cardinality(Correct) \in Int
        BY <4>1, <4>2, CountSubset, MemberCounts
      <4>5. Cardinality(SigMap[p]["echo"][h]) >= nmt
        BY <4>3, <4>4, CorrectCount, MemberCounts
      <4>6. supportedEchoHash[p] = h
        BY Zenon, <4>5 DEF RestInv, SettledEcho, AtRest
      <4> QED BY <3>1, <4>6, BroadcastAssumption DEF RestInv, CommitDue, AtRest, Idle
    <3> QED BY <3>4, <3>5, AllCommitted
  <2> QED BY <2>1, <2>2
<1> QED BY Zenon, <1>2, <1>3, <1>4 DEF RestInv, InitNoticed, AtRest, Idle

\* Reliable broadcast with signatures, for every number of nodes and of threads, every assignment
\* of faulty members and every order of messages, timeouts and recoveries: the correct nodes never
\* come to rest with some of them having decided and others not (GotMsg, checkProgress,
\* absmvrecover.go).
THEOREM SignedTotalityHolds == Spec => []SignedTotality
BY Safety, RestInvariance, RestSignedTotality, PTL

\* The hash is decided by all or by none, with signatures always, and without them as long as every
\* node that decides has sent its commit: checkProgress reads the commit count once to commit and
\* again to decide, and a node that passes only the second test decides without committing.
THEOREM HashTotalityHolds == Spec => []HashTotality
BY Safety, RestInvariance, RestHashTotality, PTL

\* Under the same condition the correct nodes do not come to rest undecided once a correct
\* coordinator has proposed, and what they decide is its proposal.
THEOREM DeliveryHolds == Spec => []Delivery
BY Safety, RestInvariance, RestDelivery, PTL
=============================================================================
