------------------------------ MODULE RbBcast1 ------------------------------
(***************************************************************************)
(* One instance of RbBcast1 (consensus/cons/rbbcast1), the signed          *)
(* broadcast of a coordinator's value in two message steps: init and echo. *)
(* n-t echoes decide.  Nothing makes the other nodes decide but that the   *)
(* echoes, which are signed, are forwarded to them.                        *)
(*                                                                         *)
(* Message threads and main loop are as in RbBcast2; checkProgress reads   *)
(* the supported hash once, after it has sent the echo.                    *)
(***************************************************************************)
EXTENDS Broadcast

VARIABLES
    Coord,                \* the member CheckMemberCoord accepts init messages from
    init,                 \* hashes of the init messages a correct coordinator broadcast
    sent,                 \* sent[h]: correct nodes that broadcast an echo for h
    requests,             \* recover requests [from, to, hash] on their way
    recovers,             \* init messages [to, hash] sent back to who requested them
    SigMap,               \* SigMap[p][h]: members whose echo p has stored
    supportedEchoHash,    \* a hash with n-t echoes, or Nil
    storing,              \* echoes stored by a thread that has not taken the mutex yet
    queue,                \* what the threads have handed to the main loop
    SelfMessages,         \* the node's own messages, received before all others
    pc,                   \* where the main loop is in checkProgress
    validatedInitHashes, sentEcho,
    decisionHash,         \* decisionHashBytes
    decided,              \* decisionInitMsg # nil
    requestRecoverTimer, sentRequestRecover,
    requestedRecover,     \* requests to be answered once the init message is here
    panicked

netVars == <<init, sent, requests, recovers>>
decVars == <<decisionHash, decided>>
recVars == <<requestRecoverTimer, sentRequestRecover, requestedRecover>>
vars == <<Coord, init, sent, requests, recovers, SigMap, supportedEchoHash, storing, queue, SelfMessages,
          pc, validatedInitHashes, sentEcho, decisionHash, decided, requestRecoverTimer,
          sentRequestRecover, requestedRecover, panicked>>

Messages == [kind : {"init", "echo"}, hash : Hash]
Echo == [kind |-> "echo", hash |-> Nil]      \* an echo: ProcessMessage ignores which

NetTypes ==
    /\ Coord \in Members
    /\ init \subseteq Hash
    /\ sent \in [Hash -> SUBSET Correct]
    /\ requests \subseteq Requests
    /\ recovers \subseteq [to : Correct, hash : Hash]

CountTypes ==
    /\ SigMap \in [Correct -> [Hash -> SUBSET Members]]
    /\ supportedEchoHash \in [Correct -> Hash \cup {Nil}]
    /\ storing \in [Correct -> SUBSET [hash : Hash, NewTotalSigCount : 0..GetMemberCount]]

LoopTypes ==
    /\ queue \in [Correct -> SUBSET ({Echo} \cup [kind : {"init"}, hash : Hash])]
    /\ SelfMessages \in [Correct -> Seq(Messages)]
    /\ pc \in [Correct -> {"recv", "echo", "decide"}]
    /\ validatedInitHashes \in [Correct -> SUBSET Hash]
    /\ sentEcho \in [Correct -> BOOLEAN]

DecisionTypes ==
    /\ decisionHash \in [Correct -> Hash \cup {Nil}]
    /\ decided \in [Correct -> BOOLEAN]
    /\ requestRecoverTimer \in [Correct -> {"nil", "running", "fired"}]
    /\ sentRequestRecover \in [Correct -> BOOLEAN]
    /\ requestedRecover \in [Correct -> SUBSET Requests]
    /\ panicked \in [Correct -> BOOLEAN]

TypeOK == NetTypes /\ CountTypes /\ LoopTypes /\ DecisionTypes

Init ==
    /\ Coord \in Members
    /\ init = {} /\ requests = {} /\ recovers = {}
    /\ sent = [h \in Hash |-> {}]
    /\ SigMap = [p \in Correct |-> [h \in Hash |-> {}]]
    /\ supportedEchoHash = [p \in Correct |-> Nil]
    /\ storing = [p \in Correct |-> {}]
    /\ queue = [p \in Correct |-> {}]
    /\ SelfMessages = [p \in Correct |-> <<>>]
    /\ pc = [p \in Correct |-> "recv"]
    /\ validatedInitHashes = [p \in Correct |-> {}]
    /\ sentEcho = [p \in Correct |-> FALSE]
    /\ decisionHash = [p \in Correct |-> Nil]
    /\ decided = [p \in Correct |-> FALSE]
    /\ requestRecoverTimer = [p \in Correct |-> "nil"]
    /\ sentRequestRecover = [p \in Correct |-> FALSE]
    /\ requestedRecover = [p \in Correct |-> {}]
    /\ panicked = [p \in Correct |-> FALSE]

-----------------------------------------------------------------------------
(* The message threads: MessageState.GotMsg.                                *)

Signers(h) == sent[h] \cup Faulty

\* Sms.GotMsg: the new signatures of an echo are stored and counted.
StoreMsg(p, h, S) ==
    /\ S \subseteq Signers(h) \ SigMap[p][h]
    /\ S # {}
    /\ Cardinality(storing[p]) < Threads
    /\ SigMap' = [SigMap EXCEPT ![p][h] = @ \cup S]
    /\ storing' = [storing EXCEPT ![p] = @ \cup
          {[hash |-> h, NewTotalSigCount |-> Cardinality(SigMap[p][h] \cup S)]}]
    /\ UNCHANGED <<netVars, supportedEchoHash, queue, SelfMessages, pc, validatedInitHashes,
                   sentEcho, decVars, recVars, panicked>>

EnoughEchosOneThird(d) == d.NewTotalSigCount > t      \* variant
EnoughEchos(d) == d.NewTotalSigCount >= nmt

\* What GotMsg does, for the count d, under the mutex.
UpdateSupported(p, d) ==
    LET conflict == EnoughEchos(d) /\ supportedEchoHash[p] \notin {Nil, d.hash} IN
    /\ panicked' = [panicked EXCEPT ![p] = @ \/ conflict]
    /\ supportedEchoHash' =
         [supportedEchoHash EXCEPT ![p] = IF EnoughEchos(d) /\ ~ conflict THEN d.hash ELSE @]

Update(p, d) ==
    /\ storing' = [storing EXCEPT ![p] = @ \ {d}]
    /\ UpdateSupported(p, d)
    /\ queue' = [queue EXCEPT ![p] = @ \cup {Echo}]
    /\ UNCHANGED <<netVars, SigMap, SelfMessages, pc, validatedInitHashes, sentEcho, decVars,
                   recVars>>

\* An init message that is not stored yet is handed to the main loop.
StoreInit(p, h) ==
    /\ h \notin validatedInitHashes[p]
    /\ InitItem(h) \notin queue[p]
    /\ queue' = [queue EXCEPT ![p] = @ \cup {InitItem(h)}]
    /\ UNCHANGED <<netVars, SigMap, supportedEchoHash, storing, SelfMessages, pc,
                   validatedInitHashes, sentEcho, decVars, recVars, panicked>>

\* From the coordinator: a faulty one sends what it likes to whom it likes.
RecvInit(p, h) == p # Coord /\ (Coord \in Faulty \/ h \in init) /\ StoreInit(p, h)

\* Sent back on request.
RecvRecover(p, h) == [to |-> p, hash |-> h] \in recovers /\ StoreInit(p, h)

-----------------------------------------------------------------------------
(* The main loop.                                                           *)

\* GotProposal, at the coordinator, which alone asks for a proposal in Start.
GotProposal(p, h) ==
    /\ p = Coord
    /\ pc[p] = "recv"
    /\ init = {}
    /\ init' = {h}
    /\ SelfMessages' = [SelfMessages EXCEPT ![p] = Append(@, InitItem(h))]
    /\ UNCHANGED <<sent, requests, recovers, SigMap, supportedEchoHash, storing, queue, pc,
                   validatedInitHashes, sentEcho, decVars, recVars, panicked>>

Idle(p) == pc[p] = "recv" /\ SelfMessages[p] = <<>>

\* SendRecover, given the requests that wait and the init messages that are here.
SendRecover(p, reqs, inits) ==
    LET answered == {r \in reqs : r.hash \in inits} IN
    /\ recovers' = recovers \cup {[to |-> r.from, hash |-> r.hash] : r \in answered}
    /\ requestedRecover' = [requestedRecover EXCEPT ![p] = reqs \ answered]

\* ProcessMessage of an init message: store it, checkProgress, answer the requests for it.
ValidateInit(p, h) ==
    /\ validatedInitHashes' = [validatedInitHashes EXCEPT ![p] = @ \cup {h}]
    /\ SendRecover(p, requestedRecover[p], validatedInitHashes[p] \cup {h})
    /\ pc' = [pc EXCEPT ![p] = "echo"]

ProcessInit(p, h) ==
    /\ Idle(p)
    /\ InitItem(h) \in queue[p]
    /\ queue' = [queue EXCEPT ![p] = @ \ {InitItem(h)}]
    /\ ValidateInit(p, h)
    /\ UNCHANGED <<init, sent, requests, SigMap, supportedEchoHash, storing, SelfMessages,
                   sentEcho, decVars, requestRecoverTimer, sentRequestRecover, panicked>>

\* ProcessMessage of an echo: checkProgress.
ProcessMessage(p) ==
    /\ Idle(p)
    /\ Echo \in queue[p]
    /\ queue' = [queue EXCEPT ![p] = @ \ {Echo}]
    /\ pc' = [pc EXCEPT ![p] = "echo"]
    /\ UNCHANGED <<netVars, SigMap, supportedEchoHash, storing, SelfMessages, validatedInitHashes,
                   sentEcho, decVars, recVars, panicked>>

\* The main loop itself runs GotMsg on the node's own messages.
ProcessSelfMessage(p) ==
    LET m == Head(SelfMessages[p])
        sigs == SigMap[p][m.hash]
    IN
    /\ pc[p] = "recv"
    /\ SelfMessages[p] # <<>>
    /\ SelfMessages' = [SelfMessages EXCEPT ![p] = Tail(@)]
    /\ \/ /\ m.kind = "init"
          /\ ValidateInit(p, m.hash)
          /\ UNCHANGED <<SigMap, supportedEchoHash, panicked>>
       \/ /\ m.kind = "echo" /\ p \notin sigs
          /\ SigMap' = [SigMap EXCEPT ![p][m.hash] = @ \cup {p}]
          /\ UpdateSupported(p, [hash |-> m.hash,
                                 NewTotalSigCount |-> Cardinality(sigs \cup {p})])
          /\ pc' = [pc EXCEPT ![p] = "echo"]
          /\ UNCHANGED <<validatedInitHashes, recovers, requestedRecover>>
       \/ /\ m.kind = "echo" /\ p \in sigs               \* ErrNoNewSigs
          /\ UNCHANGED <<SigMap, supportedEchoHash, panicked, pc, validatedInitHashes,
                         recovers, requestedRecover>>
    /\ UNCHANGED <<init, sent, requests, storing, queue, sentEcho, decVars, requestRecoverTimer,
                   sentRequestRecover>>

\* checkProgress: nothing to do once decided; echo one of the init messages (the iteration
\* over the map picks any), once.
CheckSendEchoEach(p) ==            \* variant: echoes every init message
    /\ pc[p] = "echo"
    /\ pc' = [pc EXCEPT ![p] = IF decided[p] THEN "recv" ELSE "decide"]
    /\ IF decided[p] \/ validatedInitHashes[p] = {}
       THEN UNCHANGED <<sent, SelfMessages, sentEcho>>
       ELSE /\ \E h \in validatedInitHashes[p] :
                  /\ sent' = [sent EXCEPT ![h] = @ \cup {p}]
                  /\ SelfMessages' = [SelfMessages EXCEPT ![p] =
                       IF p \in sent[h] THEN @ ELSE Append(@, [kind |-> "echo", hash |-> h])]
            /\ sentEcho' = [sentEcho EXCEPT ![p] = TRUE]
    /\ UNCHANGED <<init, requests, recovers, SigMap, supportedEchoHash, storing, queue,
                   validatedInitHashes, decVars, recVars, panicked>>
CheckSendEcho(p) ==
    /\ pc[p] = "echo"
    /\ pc' = [pc EXCEPT ![p] = IF decided[p] THEN "recv" ELSE "decide"]
    /\ IF decided[p] \/ sentEcho[p] \/ validatedInitHashes[p] = {}
       THEN UNCHANGED <<sent, SelfMessages, sentEcho>>
       ELSE /\ \E h \in validatedInitHashes[p] :
                  /\ sent' = [sent EXCEPT ![h] = @ \cup {p}]
                  /\ SelfMessages' = [SelfMessages EXCEPT ![p] =
                                        Append(@, [kind |-> "echo", hash |-> h])]
            /\ sentEcho' = [sentEcho EXCEPT ![p] = TRUE]
    /\ UNCHANGED <<init, requests, recovers, SigMap, supportedEchoHash, storing, queue,
                   validatedInitHashes, decVars, recVars, panicked>>

\* n-t echoes: the hash is decided, and the value with it if its init message is here;
\* otherwise it will be requested.
DecideNoTimer(p) ==                \* variant: never asks for the init message
    LET h == supportedEchoHash[p]
        differs == decisionHash[p] \notin {Nil, h}
    IN
    /\ pc[p] = "decide"
    /\ pc' = [pc EXCEPT ![p] = "recv"]
    /\ panicked' = [panicked EXCEPT ![p] = @ \/ (h # Nil /\ differs)]
    /\ IF h # Nil /\ ~ differs
       THEN /\ decisionHash' = [decisionHash EXCEPT ![p] = h]
            /\ decided' = [decided EXCEPT ![p] = h \in validatedInitHashes[p]]
       ELSE UNCHANGED decVars
    /\ UNCHANGED <<netVars, SigMap, supportedEchoHash, storing, queue, SelfMessages,
                   validatedInitHashes, sentEcho, recVars>>
Decide(p) ==
    LET h == supportedEchoHash[p]
        differs == decisionHash[p] \notin {Nil, h}
    IN
    /\ pc[p] = "decide"
    /\ pc' = [pc EXCEPT ![p] = "recv"]
    /\ panicked' = [panicked EXCEPT ![p] = @ \/ (h # Nil /\ differs)]
    /\ IF h # Nil /\ ~ differs
       THEN /\ decisionHash' = [decisionHash EXCEPT ![p] = h]
            /\ decided' = [decided EXCEPT ![p] = h \in validatedInitHashes[p]]
            /\ requestRecoverTimer' = [requestRecoverTimer EXCEPT ![p] =
                 IF h \notin validatedInitHashes[p] /\ @ = "nil" THEN "running" ELSE @]
       ELSE UNCHANGED <<decVars, requestRecoverTimer>>
    /\ UNCHANGED <<netVars, SigMap, supportedEchoHash, storing, queue, SelfMessages,
                   validatedInitHashes, sentEcho, sentRequestRecover, requestedRecover>>

checkProgress(p) == CheckSendEcho(p) \/ Decide(p)

\* The recover timeout: ask for the init message, once.
RecoverTimeout(p) ==
    /\ Idle(p)
    /\ requestRecoverTimer[p] = "running"
    /\ requestRecoverTimer' = [requestRecoverTimer EXCEPT ![p] = "fired"]
    /\ IF ~ decided[p] /\ ~ sentRequestRecover[p]
       THEN /\ requests' = requests \cup [from : {p}, to : Correct \ {p}, hash : {decisionHash[p]}]
            /\ sentRequestRecover' = [sentRequestRecover EXCEPT ![p] = TRUE]
       ELSE UNCHANGED <<requests, sentRequestRecover>>
    /\ UNCHANGED <<init, sent, recovers, SigMap, supportedEchoHash, storing, queue, SelfMessages,
                   pc, validatedInitHashes, sentEcho, decVars, requestedRecover, panicked>>

\* GotRequestRecover: a request is answered when the init message is here.
GotRequestRecover(p, r) ==
    /\ Idle(p)
    /\ r.to = p
    /\ requests' = requests \ {r}
    /\ SendRecover(p, requestedRecover[p] \cup {r}, validatedInitHashes[p])
    /\ UNCHANGED <<init, sent, SigMap, supportedEchoHash, storing, queue, SelfMessages, pc,
                   validatedInitHashes, sentEcho, decVars, requestRecoverTimer,
                   sentRequestRecover, panicked>>

GotMsg(p) == \/ \E h \in Hash : \E S \in SUBSET Signers(h) : StoreMsg(p, h, S)
             \/ \E d \in storing[p] : Update(p, d)
             \/ \E h \in Hash : RecvInit(p, h) \/ RecvRecover(p, h)

MainLoop(p) == \/ \E h \in Hash : GotProposal(p, h) \/ ProcessInit(p, h)
               \/ ProcessMessage(p)
               \/ ProcessSelfMessage(p)
               \/ checkProgress(p)
               \/ RecoverTimeout(p)
               \/ \E r \in requests : GotRequestRecover(p, r)

Next == UNCHANGED Coord /\ \E p \in Correct : GotMsg(p) \/ MainLoop(p)

Spec == Init /\ [][Next]_vars

-----------------------------------------------------------------------------
(* What is fair to expect: what a correct node has signed or stored is     *)
(* forwarded and arrives.  Nothing is asked of the faulty nodes.           *)

Available(h) == sent[h] \cup UNION {SigMap[q][h] : q \in Correct}

Deliver(p) ==
    \/ \E h \in Hash : \E S \in SUBSET Available(h) : StoreMsg(p, h, S)
    \/ \E d \in storing[p] : Update(p, d)
    \/ \E h \in init : RecvInit(p, h)
    \/ \E h \in Hash : RecvRecover(p, h)

-----------------------------------------------------------------------------
(* Properties.                                                             *)

\* No two correct nodes decide different hashes, though a faulty coordinator sends different
\* init messages (checkProgress).
Agreement ==
    \A p, q \in Correct :
        decisionHash[p] # Nil /\ decisionHash[q] # Nil => decisionHash[p] = decisionHash[q]

\* No panic is reached: neither "got two hashes to support" in GotMsg nor "committed two
\* different hashes" in checkProgress.
NoPanic == \A p \in Correct : ~ panicked[p]

\* The broadcast implements consensus on a value that some correct node has validated and
\* echoed: a node decides once, and the hash the others decide.
C == INSTANCE Consensus WITH Nodes <- Correct, Value <- Hash, None <- Nil,
                             proposed <- {h \in Hash : sent[h] # {}},
                             decision <- decisionHash
ImplementsConsensus == C!Spec

\* Nothing is left to do: what the correct nodes sent or stored has arrived everywhere and is
\* processed.
AtRest ==
    /\ requests = {}
    /\ \A p \in Correct :
           /\ Idle(p) /\ queue[p] = {} /\ storing[p] = {} /\ requestRecoverTimer[p] # "running"
           /\ init \subseteq validatedInitHashes[p]
           /\ \A h \in Hash : Available(h) \subseteq SigMap[p][h]
           /\ \A h \in Hash : [to |-> p, hash |-> h] \in recovers => h \in validatedInitHashes[p]

\* Reliable broadcast: the correct nodes do not come to rest with some of them having decided
\* and others not, whatever the coordinator sent to whom.
Totality == AtRest /\ (\E p \in Correct : decided[p]) => \A p \in Correct : decided[p]

\* They do not come to rest before all have decided once a correct coordinator has proposed, and
\* what they decide is its proposal.
Delivery ==
    AtRest /\ init # {} => \A p \in Correct : decided[p] /\ decisionHash[p] \in init
=============================================================================
