------------------------------ MODULE RbBcast2 ------------------------------
(***************************************************************************)
(* One instance of RbBcast2 (consensus/cons/rbbcast2), the broadcast of a  *)
(* coordinator's value in three message steps: init, echo, commit.         *)
(*                                                                         *)
(* As in BinCons1 the message threads of a node store signatures and then  *)
(* update the supported hashes (MessageState.GotMsg), while the main loop  *)
(* runs ProcessMessage.  checkProgress reads the supported hashes three    *)
(* times, each time under the mutex but without holding it in between, so  *)
(* the threads can change them from one read to the next: it is three      *)
(* steps here.  A node that supports a hash without having its init        *)
(* message asks the others for it (absmvrecover.go).                       *)
(*                                                                         *)
(* With NoSignatures a message counts only for the node it is received     *)
(* from, so nothing can be forwarded, and an init message that another     *)
(* node than the coordinator sends back is refused.                        *)
(***************************************************************************)
EXTENDS Broadcast

Kind == {"echo", "commit"}

VARIABLES
    Coord,                \* the member CheckMemberCoordHdr accepts init messages from
    NoSignatures,         \* echo, commit and init messages are unsigned
    init,                 \* hashes of the init messages a correct coordinator broadcast
    sent,                 \* sent[k][h]: correct nodes that broadcast a message of kind k for h
    requests,             \* recover requests [from, to, hash] on their way
    recovers,             \* init messages [to, hash] sent back to who requested them
    SigMap,               \* SigMap[p][k][h]: members whose message p has stored
    supportedEchoHash,    \* a hash with n-t echoes, or Nil
    supportedCommitHash,  \* a hash with more than t commits, or Nil
    supportedCommitCount,
    storing,              \* messages stored by a thread that has not taken the mutex yet
    queue,                \* what the threads have handed to the main loop
    SelfMessages,         \* the node's own messages, received before all others
    pc,                   \* where the main loop is in checkProgress
    validatedInitHashes, sentEcho, sentCommit,
    decisionHash,         \* decisionHashBytes
    decided,              \* decisionInitMsg # nil
    requestRecoverTimer, sentRequestRecover,
    requestedRecover,     \* requests to be answered once the init message is here
    panicked

conf == <<Coord, NoSignatures>>     \* fixed when the instance is created
netVars == <<init, sent, requests, recovers>>
supVars == <<supportedEchoHash, supportedCommitHash, supportedCommitCount>>
recVars == <<requestRecoverTimer, sentRequestRecover, requestedRecover>>
vars == <<conf, init, sent, requests, recovers, SigMap, supportedEchoHash, supportedCommitHash,
          supportedCommitCount, storing, queue, SelfMessages, pc, validatedInitHashes, sentEcho,
          sentCommit, decisionHash, decided, requestRecoverTimer, sentRequestRecover,
          requestedRecover, panicked>>

Counts == [kind : Kind, hash : Hash, NewTotalSigCount : 0..GetMemberCount]
Check == [kind |-> "check", hash |-> Nil]      \* an echo or commit: ProcessMessage ignores which
Messages == [kind : Kind \cup {"init"}, hash : Hash]
Items == {Check} \cup [kind : {"init"}, hash : Hash]

NetTypes ==
    /\ Coord \in Members /\ NoSignatures \in BOOLEAN
    /\ init \subseteq Hash
    /\ sent \in [Kind -> [Hash -> SUBSET Correct]]
    /\ requests \subseteq Requests
    /\ recovers \subseteq [to : Correct, hash : Hash]

CountTypes ==
    /\ SigMap \in [Correct -> [Kind -> [Hash -> SUBSET Members]]]
    /\ supportedEchoHash \in [Correct -> Hash \cup {Nil}]
    /\ supportedCommitHash \in [Correct -> Hash \cup {Nil}]
    /\ supportedCommitCount \in [Correct -> 0..GetMemberCount]
    /\ storing \in [Correct -> SUBSET Counts]

LoopTypes ==
    /\ queue \in [Correct -> SUBSET Items]
    /\ SelfMessages \in [Correct -> Seq(Messages)]
    /\ pc \in [Correct -> {"recv", "start", "echoHash", "commitHash", "decide"}]
    /\ validatedInitHashes \in [Correct -> SUBSET Hash]
    /\ sentEcho \in [Correct -> BOOLEAN]
    /\ sentCommit \in [Correct -> BOOLEAN]

DecisionTypes ==
    /\ decisionHash \in [Correct -> Hash \cup {Nil}]
    /\ decided \in [Correct -> BOOLEAN]
    /\ requestRecoverTimer \in [Correct -> {"nil", "running", "fired"}]
    /\ sentRequestRecover \in [Correct -> BOOLEAN]
    /\ requestedRecover \in [Correct -> SUBSET Requests]
    /\ panicked \in [Correct -> BOOLEAN]

TypeOK == NetTypes /\ CountTypes /\ LoopTypes /\ DecisionTypes

Init ==
    /\ Coord \in Members /\ NoSignatures \in BOOLEAN
    /\ init = {} /\ requests = {} /\ recovers = {}
    /\ sent = [k \in Kind |-> [h \in Hash |-> {}]]
    /\ SigMap = [p \in Correct |-> [k \in Kind |-> [h \in Hash |-> {}]]]
    /\ supportedEchoHash = [p \in Correct |-> Nil]
    /\ supportedCommitHash = [p \in Correct |-> Nil]
    /\ supportedCommitCount = [p \in Correct |-> 0]
    /\ storing = [p \in Correct |-> {}]
    /\ queue = [p \in Correct |-> {}]
    /\ SelfMessages = [p \in Correct |-> <<>>]
    /\ pc = [p \in Correct |-> "recv"]
    /\ validatedInitHashes = [p \in Correct |-> {}]
    /\ sentEcho = [p \in Correct |-> FALSE]
    /\ sentCommit = [p \in Correct |-> FALSE]
    /\ decisionHash = [p \in Correct |-> Nil]
    /\ decided = [p \in Correct |-> FALSE]
    /\ requestRecoverTimer = [p \in Correct |-> "nil"]
    /\ sentRequestRecover = [p \in Correct |-> FALSE]
    /\ requestedRecover = [p \in Correct |-> {}]
    /\ panicked = [p \in Correct |-> FALSE]

-----------------------------------------------------------------------------
(* The message threads: MessageState.GotMsg.                                *)

Signers(k, h) == sent[k][h] \cup Faulty

\* Sms.GotMsg: the new signatures of a message are stored and counted; one without new
\* signatures is dropped.  An unsigned message counts for the member it comes from only.
StoreMsg(p, k, h, S) ==
    /\ S \subseteq Signers(k, h) \ SigMap[p][k][h]
    /\ S # {}
    /\ NoSignatures => \E m \in S : S = {m}
    /\ Cardinality(storing[p]) < Threads
    /\ SigMap' = [SigMap EXCEPT ![p][k][h] = @ \cup S]
    /\ storing' = [storing EXCEPT ![p] = @ \cup
          {[kind |-> k, hash |-> h, NewTotalSigCount |-> Cardinality(SigMap[p][k][h] \cup S)]}]
    /\ UNCHANGED <<netVars, supVars, queue, SelfMessages, pc, validatedInitHashes, sentEcho,
                   sentCommit, decisionHash, decided, recVars, panicked>>

\* The sanity checks on the supported hashes.
Conflicts(p, d) ==
    \/ /\ d.kind = "echo" /\ d.NewTotalSigCount >= nmt
       /\ supportedEchoHash[p] \notin {Nil, d.hash}
    \/ /\ d.kind = "commit" /\ d.NewTotalSigCount > t
       /\ supportedCommitHash[p] \notin {Nil, d.hash} \/ supportedEchoHash[p] \notin {Nil, d.hash}

EnoughEchosOneThird(d) == d.kind = "echo" /\ d.NewTotalSigCount > t     \* variant: t+1 echoes
EnoughEchosAll(d) == d.kind = "echo" /\ d.NewTotalSigCount > nmt        \* variant: off by one
EnoughEchos(d) == d.kind = "echo" /\ d.NewTotalSigCount >= nmt

EnoughCommitsNoFault(d) == d.kind = "commit" /\ d.NewTotalSigCount >= t  \* variant: off by one
EnoughCommits(d) == d.kind = "commit" /\ d.NewTotalSigCount > t

\* The count of commits never goes down when a slower thread comes with an older count.
Raise(count, new) == IF count < new THEN new ELSE count

\* What GotMsg does, for the counts d, under the mutex.
UpdateSupported(p, d) ==
    IF Conflicts(p, d)
    THEN panicked' = [panicked EXCEPT ![p] = TRUE] /\ UNCHANGED supVars
    ELSE /\ supportedEchoHash' =
              [supportedEchoHash EXCEPT ![p] = IF EnoughEchos(d) THEN d.hash ELSE @]
         /\ supportedCommitHash' =
              [supportedCommitHash EXCEPT ![p] = IF EnoughCommits(d) THEN d.hash ELSE @]
         /\ supportedCommitCount' =
              [supportedCommitCount EXCEPT ![p] =
                 IF EnoughCommits(d) THEN Raise(@, d.NewTotalSigCount) ELSE @]
         /\ UNCHANGED panicked

Update(p, d) ==
    /\ storing' = [storing EXCEPT ![p] = @ \ {d}]
    /\ UpdateSupported(p, d)
    /\ queue' = [queue EXCEPT ![p] = @ \cup {Check}]
    /\ UNCHANGED <<netVars, SigMap, SelfMessages, pc, validatedInitHashes, sentEcho, sentCommit,
                   decisionHash, decided, recVars>>

\* An init message that is not stored yet is handed to the main loop.
StoreInit(p, h) ==
    /\ h \notin validatedInitHashes[p]
    /\ InitItem(h) \notin queue[p]
    /\ queue' = [queue EXCEPT ![p] = @ \cup {InitItem(h)}]
    /\ UNCHANGED <<netVars, SigMap, supVars, storing, SelfMessages, pc, validatedInitHashes,
                   sentEcho, sentCommit, decisionHash, decided, recVars, panicked>>

\* From the coordinator: a faulty one sends what it likes to whom it likes.
RecvInit(p, h) == p # Coord /\ (Coord \in Faulty \/ h \in init) /\ StoreInit(p, h)

\* Sent back on request.  The public key in an unsigned message has to be the sender's.
RecvRecover(p, h) ==
    ~ NoSignatures /\ [to |-> p, hash |-> h] \in recovers /\ StoreInit(p, h)

-----------------------------------------------------------------------------
(* The main loop.                                                           *)

\* BroadcastFunc sends to the others and to the node itself.
Broadcast(p, k, h) ==
    /\ sent' = [sent EXCEPT ![k][h] = @ \cup {p}]
    /\ SelfMessages' = [SelfMessages EXCEPT ![p] = Append(@, [kind |-> k, hash |-> h])]

\* GotProposal, at the coordinator, which alone asks for a proposal in Start.
GotProposal(p, h) ==
    /\ p = Coord
    /\ pc[p] = "recv"
    /\ init = {}
    /\ init' = {h}
    /\ SelfMessages' = [SelfMessages EXCEPT ![p] = Append(@, InitItem(h))]
    /\ UNCHANGED <<sent, requests, recovers, SigMap, supVars, storing, queue, pc,
                   validatedInitHashes, sentEcho, sentCommit, decisionHash, decided, recVars,
                   panicked>>

Idle(p) == pc[p] = "recv" /\ SelfMessages[p] = <<>>

\* SendRecover, given the requests that wait and the init messages that are here.
SendRecover(p, reqs, inits) ==
    LET answered == {r \in reqs : r.hash \in inits} IN
    /\ recovers' = recovers \cup {[to |-> r.from, hash |-> r.hash] : r \in answered}
    /\ requestedRecover' = [requestedRecover EXCEPT ![p] = reqs \ answered]

\* ProcessMessage of an init message: store it, checkProgress, answer the requests for it.
ValidateInitNoCheck(p, h) ==     \* variant: waits for the next message
    /\ validatedInitHashes' = [validatedInitHashes EXCEPT ![p] = @ \cup {h}]
    /\ SendRecover(p, requestedRecover[p], validatedInitHashes[p] \cup {h})
    /\ UNCHANGED pc
ValidateInit(p, h) ==
    /\ validatedInitHashes' = [validatedInitHashes EXCEPT ![p] = @ \cup {h}]
    /\ SendRecover(p, requestedRecover[p], validatedInitHashes[p] \cup {h})
    /\ pc' = [pc EXCEPT ![p] = "start"]

ProcessInit(p, h) ==
    /\ Idle(p)
    /\ InitItem(h) \in queue[p]
    /\ queue' = [queue EXCEPT ![p] = @ \ {InitItem(h)}]
    /\ ValidateInit(p, h)
    /\ UNCHANGED <<init, sent, requests, SigMap, supVars, storing, SelfMessages, sentEcho,
                   sentCommit, decisionHash, decided, requestRecoverTimer, sentRequestRecover,
                   panicked>>

\* ProcessMessage of an echo or commit message: checkProgress.
ProcessMessage(p) ==
    /\ Idle(p)
    /\ Check \in queue[p]
    /\ queue' = [queue EXCEPT ![p] = @ \ {Check}]
    /\ pc' = [pc EXCEPT ![p] = "start"]
    /\ UNCHANGED <<netVars, SigMap, supVars, storing, SelfMessages, validatedInitHashes, sentEcho,
                   sentCommit, decisionHash, decided, recVars, panicked>>

\* The main loop itself runs GotMsg on the node's own messages.
ProcessSelfMessage(p) ==
    LET m == Head(SelfMessages[p])
        sigs == SigMap[p][m.kind][m.hash]
    IN
    /\ pc[p] = "recv"
    /\ SelfMessages[p] # <<>>
    /\ SelfMessages' = [SelfMessages EXCEPT ![p] = Tail(@)]
    /\ \/ /\ m.kind = "init"
          /\ ValidateInit(p, m.hash)
          /\ UNCHANGED <<SigMap, supVars, panicked>>
       \/ /\ m.kind # "init" /\ p \notin sigs
          /\ SigMap' = [SigMap EXCEPT ![p][m.kind][m.hash] = @ \cup {p}]
          /\ UpdateSupported(p, [kind |-> m.kind, hash |-> m.hash,
                                 NewTotalSigCount |-> Cardinality(sigs \cup {p})])
          /\ pc' = [pc EXCEPT ![p] = "start"]
          /\ UNCHANGED <<validatedInitHashes, recovers, requestedRecover>>
       \/ /\ m.kind # "init" /\ p \in sigs               \* ErrNoNewSigs
          /\ UNCHANGED <<SigMap, supVars, panicked, pc, validatedInitHashes, recovers,
                         requestedRecover>>
    /\ UNCHANGED <<init, sent, requests, storing, queue, sentEcho, sentCommit, decisionHash,
                   decided, requestRecoverTimer, sentRequestRecover>>

\* checkProgress: nothing to do once decided; echo one of the init messages (the iteration
\* over the map picks any), then go on to read the supported echo hash.
CheckSendEcho(p) ==
    /\ pc[p] = "start"
    /\ pc' = [pc EXCEPT ![p] = IF decided[p] THEN "recv"
                               ELSE IF sentCommit[p] THEN "decide" ELSE "echoHash"]
    /\ IF decided[p] \/ sentEcho[p] \/ validatedInitHashes[p] = {}
       THEN UNCHANGED <<sent, SelfMessages, sentEcho>>
       ELSE /\ \E h \in validatedInitHashes[p] : Broadcast(p, "echo", h)
            /\ sentEcho' = [sentEcho EXCEPT ![p] = TRUE]
    /\ UNCHANGED <<init, requests, recovers, SigMap, supVars, storing, queue, validatedInitHashes,
                   sentCommit, decisionHash, decided, recVars, panicked>>

\* getSupportedEchoHash: n-t echoes, so commit.
CheckEchoHash(p) ==
    /\ pc[p] = "echoHash"
    /\ IF supportedEchoHash[p] # Nil
       THEN /\ Broadcast(p, "commit", supportedEchoHash[p])
            /\ sentCommit' = [sentCommit EXCEPT ![p] = TRUE]
            /\ pc' = [pc EXCEPT ![p] = "decide"]
       ELSE /\ pc' = [pc EXCEPT ![p] = "commitHash"]
            /\ UNCHANGED <<sent, SelfMessages, sentCommit>>
    /\ UNCHANGED <<init, requests, recovers, SigMap, supVars, storing, queue, validatedInitHashes,
                   sentEcho, decisionHash, decided, recVars, panicked>>

\* getSupportedCommitHash: more than t commits, so commit.
CheckCommitHash(p) ==
    /\ pc[p] = "commitHash"
    /\ pc' = [pc EXCEPT ![p] = "decide"]
    /\ IF supportedCommitCount[p] > t
       THEN /\ Broadcast(p, "commit", supportedCommitHash[p])
            /\ sentCommit' = [sentCommit EXCEPT ![p] = TRUE]
       ELSE UNCHANGED <<sent, SelfMessages, sentCommit>>
    /\ UNCHANGED <<init, requests, recovers, SigMap, supVars, storing, queue, validatedInitHashes,
                   sentEcho, decisionHash, decided, recVars, panicked>>

\* getSupportedCommitHash again: n-t commits, so the hash is decided, and the value with it if
\* its init message is here; otherwise it will be requested.
DecideNoTimer(p) ==              \* variant: never asks for the init message
    LET h == supportedCommitHash[p]
        enough == supportedCommitCount[p] >= nmt
        differs == decisionHash[p] \notin {Nil, h}
    IN
    /\ pc[p] = "decide"
    /\ pc' = [pc EXCEPT ![p] = "recv"]
    /\ panicked' = [panicked EXCEPT ![p] = @ \/ (enough /\ differs)]
    /\ IF enough /\ ~ differs
       THEN /\ decisionHash' = [decisionHash EXCEPT ![p] = h]
            /\ decided' = [decided EXCEPT ![p] = h \in validatedInitHashes[p]]
       ELSE UNCHANGED <<decisionHash, decided>>
    /\ UNCHANGED <<netVars, SigMap, supVars, storing, queue, SelfMessages, validatedInitHashes,
                   sentEcho, sentCommit, recVars>>
Decide(p) ==
    LET h == supportedCommitHash[p]
        enough == supportedCommitCount[p] >= nmt
        differs == decisionHash[p] \notin {Nil, h}
    IN
    /\ pc[p] = "decide"
    /\ pc' = [pc EXCEPT ![p] = "recv"]
    /\ panicked' = [panicked EXCEPT ![p] = @ \/ (enough /\ differs)]
    /\ IF enough /\ ~ differs
       THEN /\ decisionHash' = [decisionHash EXCEPT ![p] = h]
            /\ decided' = [decided EXCEPT ![p] = h \in validatedInitHashes[p]]
            /\ requestRecoverTimer' = [requestRecoverTimer EXCEPT ![p] =
                 IF h \notin validatedInitHashes[p] /\ @ = "nil" THEN "running" ELSE @]
       ELSE UNCHANGED <<decisionHash, decided, requestRecoverTimer>>
    /\ UNCHANGED <<netVars, SigMap, supVars, storing, queue, SelfMessages, validatedInitHashes,
                   sentEcho, sentCommit, sentRequestRecover, requestedRecover>>

checkProgress(p) == \/ CheckSendEcho(p)
                    \/ CheckEchoHash(p)
                    \/ CheckCommitHash(p)
                    \/ Decide(p)

\* The recover timeout: ask for the init message, once.
RecoverTimeout(p) ==
    /\ Idle(p)
    /\ requestRecoverTimer[p] = "running"
    /\ requestRecoverTimer' = [requestRecoverTimer EXCEPT ![p] = "fired"]
    /\ IF ~ decided[p] /\ ~ sentRequestRecover[p]
       THEN /\ requests' = requests \cup [from : {p}, to : Correct \ {p}, hash : {decisionHash[p]}]
            /\ sentRequestRecover' = [sentRequestRecover EXCEPT ![p] = TRUE]
       ELSE UNCHANGED <<requests, sentRequestRecover>>
    /\ UNCHANGED <<init, sent, recovers, SigMap, supVars, storing, queue, SelfMessages, pc,
                   validatedInitHashes, sentEcho, sentCommit, decisionHash, decided,
                   requestedRecover, panicked>>

\* GotRequestRecover: a request is answered when the init message is here.
GotRequestRecover(p, r) ==
    /\ Idle(p)
    /\ r.to = p
    /\ requests' = requests \ {r}
    /\ SendRecover(p, requestedRecover[p] \cup {r}, validatedInitHashes[p])
    /\ UNCHANGED <<init, sent, SigMap, supVars, storing, queue, SelfMessages, pc,
                   validatedInitHashes, sentEcho, sentCommit, decisionHash, decided,
                   requestRecoverTimer, sentRequestRecover, panicked>>

GotMsg(p) == \/ \E k \in Kind, h \in Hash : \E S \in SUBSET Signers(k, h) : StoreMsg(p, k, h, S)
             \/ \E d \in storing[p] : Update(p, d)
             \/ \E h \in Hash : RecvInit(p, h) \/ RecvRecover(p, h)

MainLoop(p) == \/ \E h \in Hash : GotProposal(p, h) \/ ProcessInit(p, h)
               \/ ProcessMessage(p)
               \/ ProcessSelfMessage(p)
               \/ checkProgress(p)
               \/ RecoverTimeout(p)
               \/ \E r \in requests : GotRequestRecover(p, r)

Next == UNCHANGED conf /\ \E p \in Correct : GotMsg(p) \/ MainLoop(p)

Spec == Init /\ [][Next]_vars

-----------------------------------------------------------------------------
(* What is fair to expect: threads and main loop go on, timers fire, and   *)
(* what a correct node has sent arrives.  Signed messages are forwarded,   *)
(* so what a correct node has stored arrives too.  Nothing is asked of the *)
(* faulty nodes.                                                           *)

Available(k, h) ==
    sent[k][h] \cup IF NoSignatures THEN {} ELSE UNION {SigMap[q][k][h] : q \in Correct}

Deliver(p) ==
    \/ \E k \in Kind, h \in Hash : \E S \in SUBSET Available(k, h) : StoreMsg(p, k, h, S)
    \/ \E d \in storing[p] : Update(p, d)
    \/ \E h \in init : RecvInit(p, h)
    \/ \E h \in Hash : RecvRecover(p, h)

-----------------------------------------------------------------------------
(* Properties.                                                             *)

\* No two correct nodes decide different hashes, though a faulty coordinator sends different
\* init messages and nodes commit on n-t echoes or on t+1 commits (checkProgress).
Agreement ==
    \A p, q \in Correct :
        decisionHash[p] # Nil /\ decisionHash[q] # Nil => decisionHash[p] = decisionHash[q]

\* No panic is reached: neither "got two hashes to support" and "got conflicting echo and commit
\* hashes" in GotMsg, nor "committed two different hashes" in checkProgress.
NoPanic == \A p \in Correct : ~ panicked[p]

\* The broadcast implements consensus on a value that some correct node has validated and
\* echoed: a node decides once, and the hash the others decide.
C == INSTANCE Consensus WITH Nodes <- Correct, Value <- Hash, None <- Nil,
                             proposed <- {h \in Hash : sent["echo"][h] # {}},
                             decision <- decisionHash
ImplementsConsensus == C!Spec

\* Nothing is left to do: what the correct nodes sent has arrived everywhere and is processed.
AtRest ==
    /\ requests = {}
    /\ \A p \in Correct :
           /\ Idle(p) /\ queue[p] = {} /\ storing[p] = {} /\ requestRecoverTimer[p] # "running"
           /\ init \subseteq validatedInitHashes[p]
           /\ \A k \in Kind, h \in Hash : Available(k, h) \subseteq SigMap[p][k][h]
           /\ \A h \in Hash : ~ NoSignatures /\ [to |-> p, hash |-> h] \in recovers
                                 => h \in validatedInitHashes[p]

\* Reliable broadcast: the correct nodes do not come to rest with some of them having decided
\* and others not, whatever the coordinator sent to whom.
Totality == AtRest /\ (\E p \in Correct : decided[p]) => \A p \in Correct : decided[p]

\* With signatures the init message can come from any node, so Totality holds.
SignedTotality == ~ NoSignatures => Totality

\* A node decides only after it has sent its commit.  checkProgress reads the count of commits
\* twice, and does not ensure it: the second read may find n-t commits where the first found t.
CommitsFirst == \A p \in Correct : decided[p] => sentCommit[p]

\* The same for the hash: n-t commits at one node are t+1 commits at each other one, which makes
\* it commit too, also when nothing is forwarded (checkProgress) - unless it decides first.
HashTotality ==
    AtRest /\ (~ NoSignatures \/ CommitsFirst) /\ (\E p \in Correct : decisionHash[p] # Nil) =>
        \A p \in Correct : decisionHash[p] # Nil

\* They do not come to rest before all have decided once a correct coordinator has proposed, and
\* what they decide is its proposal.
Delivery ==
    AtRest /\ (~ NoSignatures \/ CommitsFirst) /\ init # {} =>
        \A p \in Correct : decided[p] /\ decisionHash[p] \in init
=============================================================================
