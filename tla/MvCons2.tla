------------------------------ MODULE MvCons2 -------------------------------
(***************************************************************************)
(* One instance of MvCons2 (consensus/cons/mvcons2), multi-value consensus *)
(* by rounds of a rotating coordinator.  In a round the coordinator sends  *)
(* an init message, the nodes echo its hash, and commit the hash that n-t  *)
(* of them echoed.  n-t commits decide.  Three timeouts lead through a     *)
(* round in which this does not happen: a node then echoes or commits the  *)
(* zero hash, and goes on to the next round once it has n-t commits and    *)
(* either n-t echoes of one hash or n-t commits of zero.                   *)
(*                                                                         *)
(* Message threads and main loop are as in RbBcast2.  checkProgressRound   *)
(* reads the message state several times, so it is five steps here.        *)
(***************************************************************************)
EXTENDS Broadcast, Functions

CONSTANTS
    Zero,           \* the zero hash
    MaxRound,       \* bound: the last round
    includeProofs   \* echoes and commits carry what justifies them

Round == 0..MaxRound
Kind == {"echo", "commit"}
Value == Hash \cup {Zero}

ASSUME MvCons2Assumption ==
    /\ Zero \notin Hash \cup {Nil}
    /\ MaxRound \in Nat
    /\ includeProofs \in BOOLEAN

VARIABLES
    Coord,          \* Coord[r]: the coordinator of round r, fixed
    init,           \* init messages [round, hash] that correct coordinators broadcast
    sent,           \* sent[k][r][h]: correct nodes that broadcast a message of kind k
    requests,       \* recover requests [from, to, hash] on their way
    recovers,       \* init messages [to, round, hash] sent back to who requested them
    SigMap,         \* SigMap[p][k][r][h]: members whose message p has stored
    supportedHash,  \* supportedHash[p][k][r]: the hash with n-t messages, or Nil
    totalMsgCount,  \* totalMsgCount[p][k][r]: members with a message of the round
    storing,        \* messages stored by a thread that has not taken the mutex yet
    queue,          \* what the threads have handed to the main loop
    SelfMessages,   \* the node's own messages, received before all others
    pc,             \* where the main loop is in checkProgress
    cons,           \* the fields of the MvCons2 object
    panicked

netVars == <<init, sent, requests, recovers>>
msgVars == <<SigMap, supportedHash, totalMsgCount>>
vars == <<Coord, netVars, msgVars, storing, queue, SelfMessages, pc, cons, panicked>>

Counts == [kind : Kind, round : Round, hash : Value, NewTotalSigCount : 0..GetMemberCount,
           NewMsgIDSigCount : 0..GetMemberCount]
Inits == [round : Round, hash : Hash]
Check(r) == [kind |-> "check", round |-> r, hash |-> Nil]   \* an echo or commit of round r
InitOf(r, h) == [kind |-> "init", round |-> r, hash |-> h]
Items == {Check(r) : r \in Round} \cup {InitOf(r, h) : r \in Round, h \in Hash}
Messages == [kind : Kind \cup {"init"}, round : Round, hash : Value]

\* checkProgress of round goes over the rounds up to max, and is in round r.
Places == [at : {"recv", "timers", "echo", "commit", "decide", "next"},
           r : Round, max : Round, round : Round]

TimeoutState == {"notSent", "sent", "passed"}
Timers == [kind : Kind \cup {"init"}, round : Round]
RoundState == [init : TimeoutState, echo : TimeoutState, commit : TimeoutState,
               sentEcho : BOOLEAN, sentCommit : BOOLEAN]
Cons == [Started : BOOLEAN, NeedsProposal : BOOLEAN, myProposal : Hash \cup {Nil},
         round : Round, roundState : [Round -> RoundState],
         decisionHash : Hash \cup {Nil}, decided : BOOLEAN,
         validatedInitHashes : [Hash -> Round \cup {Nil}],     \* the round of the init message
         initMessageByRound : [Round -> Seq(Hash)],
         timers : SUBSET Timers,                               \* started, not fired or stopped
         myProposalRound : Round, lastProposalBroadcast : BOOLEAN,
         requestRecoverTimer : {"nil", "running", "stopped", "fired"}, sentRequestRecover : BOOLEAN,
         requestedRecover : SUBSET Requests]

NetTypes ==
    /\ Coord \in [Round -> Members]
    /\ init \subseteq Inits
    /\ sent \in [Kind -> [Round -> [Value -> SUBSET Correct]]]
    /\ requests \subseteq Requests
    /\ recovers \subseteq [to : Correct, round : Round, hash : Hash]

CountTypes ==
    /\ SigMap \in [Correct -> [Kind -> [Round -> [Value -> SUBSET Members]]]]
    /\ supportedHash \in [Correct -> [Kind -> [Round -> Value \cup {Nil}]]]
    /\ totalMsgCount \in [Correct -> [Kind -> [Round -> 0..GetMemberCount]]]
    /\ storing \in [Correct -> SUBSET Counts]

LoopTypes ==
    /\ queue \in [Correct -> SUBSET Items]
    /\ SelfMessages \in [Correct -> Seq(Messages)]
    /\ pc \in [Correct -> Places]
    /\ cons \in [Correct -> Cons]
    /\ panicked \in [Correct -> BOOLEAN]

TypeOK == NetTypes /\ CountTypes /\ LoopTypes

Recv == [at |-> "recv", r |-> 0, max |-> 0, round |-> 0]

InitRoundState == [init |-> "notSent", echo |-> "notSent", commit |-> "notSent",
                   sentEcho |-> FALSE, sentCommit |-> FALSE]

\* GenerateNewItem.
InitCons ==
    [Started |-> FALSE, NeedsProposal |-> FALSE, myProposal |-> Nil, round |-> 0,
     roundState |-> [r \in Round |-> InitRoundState], decisionHash |-> Nil, decided |-> FALSE,
     validatedInitHashes |-> [h \in Hash |-> Nil], initMessageByRound |-> [r \in Round |-> <<>>],
     timers |-> {},
     myProposalRound |-> 0, lastProposalBroadcast |-> FALSE, requestRecoverTimer |-> "nil",
     sentRequestRecover |-> FALSE, requestedRecover |-> {}]

Init ==
    /\ Coord \in [Round -> Members]
    /\ init = {} /\ requests = {} /\ recovers = {}
    /\ sent = [k \in Kind |-> [r \in Round |-> [h \in Value |-> {}]]]
    /\ SigMap = [p \in Correct |-> [k \in Kind |-> [r \in Round |-> [h \in Value |-> {}]]]]
    /\ supportedHash = [p \in Correct |-> [k \in Kind |-> [r \in Round |-> Nil]]]
    /\ totalMsgCount = [p \in Correct |-> [k \in Kind |-> [r \in Round |-> 0]]]
    /\ storing = [p \in Correct |-> {}]
    /\ queue = [p \in Correct |-> {}]
    /\ SelfMessages = [p \in Correct |-> <<>>]
    /\ pc = [p \in Correct |-> Recv]
    /\ cons = [p \in Correct |-> InitCons]
    /\ panicked = [p \in Correct |-> FALSE]

-----------------------------------------------------------------------------
(* The message threads: MessageState.GotMsg.                               *)

Signers(k, r, h) == sent[k][r][h] \cup Faulty

\* The members whose message of kind k for round r node p has stored, whatever the hash.
Heard(p, k, r) == UNION {SigMap[p][k][r][h] : h \in Value}

\* The counts that Sms.GotMsg returns for a message with the signatures S.
NewCounts(p, k, r, h, S) ==
    [kind |-> k, round |-> r, hash |-> h,
     NewTotalSigCount |-> Cardinality(SigMap[p][k][r][h] \cup S),
     NewMsgIDSigCount |-> Cardinality(Heard(p, k, r) \cup S)]

\* Sms.GotMsg: the new signatures of a message are stored and counted.
StoreMsg(p, k, r, h, S) ==
    /\ S \subseteq Signers(k, r, h) \ SigMap[p][k][r][h]
    /\ S # {}
    /\ Cardinality(storing[p]) < Threads
    /\ SigMap' = [SigMap EXCEPT ![p][k][r][h] = @ \cup S]
    /\ storing' = [storing EXCEPT ![p] = @ \cup {NewCounts(p, k, r, h, S)}]
    /\ UNCHANGED <<netVars, supportedHash, totalMsgCount, queue, SelfMessages, pc, cons, panicked>>

Enough(count) == count >= nmt

Raise(count, new) == IF count < new THEN new ELSE count

\* What GotMsg does, for the counts d, under the mutex: "got two hashes to support" panics.
UpdateRound(p, d) ==
    LET conflict == Enough(d.NewTotalSigCount)
                    /\ supportedHash[p][d.kind][d.round] \notin {Nil, d.hash}
    IN
    /\ totalMsgCount' =
         [totalMsgCount EXCEPT ![p][d.kind][d.round] = Raise(@, d.NewMsgIDSigCount)]
    /\ supportedHash' =
         [supportedHash EXCEPT ![p][d.kind][d.round] =
            IF Enough(d.NewTotalSigCount) /\ ~ conflict THEN d.hash ELSE @]
    /\ panicked' = [panicked EXCEPT ![p] = @ \/ conflict]

Update(p, d) ==
    /\ storing' = [storing EXCEPT ![p] = @ \ {d}]
    /\ UpdateRound(p, d)
    /\ queue' = [queue EXCEPT ![p] = @ \cup {Check(d.round)}]
    /\ UNCHANGED <<netVars, SigMap, SelfMessages, pc, cons>>

\* An init message from the coordinator of its round, which a faulty one may have sent to this
\* node only, or sent back on request.  It is stored once.
RecvInit(p, r, h) ==
    /\ p # Coord[r]
    /\ \/ Coord[r] \in Faulty
       \/ [round |-> r, hash |-> h] \in init
       \/ [to |-> p, round |-> r, hash |-> h] \in recovers
    /\ h \notin Range(cons[p].initMessageByRound[r])
    /\ InitOf(r, h) \notin queue[p]
    /\ queue' = [queue EXCEPT ![p] = @ \cup {InitOf(r, h)}]
    /\ UNCHANGED <<netVars, msgVars, storing, SelfMessages, pc, cons, panicked>>

-----------------------------------------------------------------------------
(* The main loop.  s is the object of node p.                              *)

Idle(p) == pc[p].at = "recv" /\ SelfMessages[p] = <<>>

Set(p, s) == cons' = [cons EXCEPT ![p] = s]

Broadcast(p, k, r, h) ==
    /\ sent' = [sent EXCEPT ![k][r][h] = @ \cup {p}]
    /\ SelfMessages' = [SelfMessages EXCEPT ![p] =
                            Append(@, [kind |-> k, round |-> r, hash |-> h])]

\* checkMvProofs: n-t echoes of a hash, or else n-t commits of zero.
EchoProof(p, r) ==
    LET h == supportedHash[p]["echo"][r] IN
    h \in Hash /\ Cardinality(SigMap[p]["echo"][r][h]) >= nmt
ZeroProofOneThird(p, r) == Cardinality(SigMap[p]["commit"][r][Zero]) > t     \* variant: t+1
ZeroProof(p, r) == Cardinality(SigMap[p]["commit"][r][Zero]) >= nmt
HasProof(p, r) == EchoProof(p, r) \/ ZeroProof(p, r)

pass(s, r, k) == [s EXCEPT !.roundState[r][k] = "passed"]

startTimer(s, r, k) ==
    [s EXCEPT !.roundState[r][k] = "sent", !.timers = @ \cup {[kind |-> k, round |-> r]}]

\* startEchoTimeout and startCommitTimeout: only for the current round, and once.
startTimeout(s, r, k) ==
    IF s.round = r /\ s.roundState[r][k] = "notSent" /\ ~ s.decided
    THEN startTimer(s, r, k) ELSE s

\* broadcastProposal: the proposal, unless the node has to support the hash of the round before,
\* when it sends that hash's echoes again.  getProposal panics if there is no proof.
broadcastProposal(p, s) ==
    LET r == s.myProposalRound IN
    /\ Set(p, [s EXCEPT !.lastProposalBroadcast = TRUE])
    /\ IF r = 0 \/ (~ EchoProof(p, r - 1) /\ ZeroProof(p, r - 1))
       THEN /\ init' = init \cup {[round |-> r, hash |-> s.myProposal]}
            /\ SelfMessages' = [SelfMessages EXCEPT ![p] = Append(@, InitOf(r, s.myProposal))]
       ELSE UNCHANGED <<init, SelfMessages>>
    /\ panicked' = [panicked EXCEPT ![p] = @ \/ (r > 0 /\ ~ HasProof(p, r - 1))]

\* stopTimers.  The message of a timer may already be on its way to the main loop, so those of
\* rounds before stay in timers.
stopTimers(s) ==
    [s EXCEPT !.requestRecoverTimer = IF @ = "running" THEN "stopped" ELSE "nil"]

\* startRound.
startRound(p, s) ==
    LET r == s.round
        stopped == stopTimers(s)
        asCoord == IF Coord[r] = p
                   THEN [stopped EXCEPT !.NeedsProposal = TRUE, !.myProposalRound = r,
                                        !.lastProposalBroadcast = FALSE]
                   ELSE stopped
        timed == CASE s.roundState[r].init = "notSent" -> startTimer(asCoord, r, "init")
                   [] s.roundState[r].init = "passed" -> startTimeout(asCoord, r, "echo")
                   [] OTHER -> asCoord
    IN IF ~ timed.lastProposalBroadcast /\ timed.myProposal # Nil /\ timed.myProposalRound = r
       THEN broadcastProposal(p, timed)
       ELSE Set(p, timed) /\ UNCHANGED <<init, SelfMessages, panicked>>

\* Start.  An instance gets messages, and may go on to later rounds, before it is started.
Start(p) ==
    LET s == [cons[p] EXCEPT !.Started = TRUE] IN
    /\ pc[p].at = "recv"
    /\ ~ cons[p].Started
    /\ IF s.round = 0
       THEN startRound(p, s)
       ELSE Set(p, s) /\ UNCHANGED <<init, SelfMessages, panicked>>
    /\ UNCHANGED <<sent, requests, recovers, msgVars, storing, queue, pc>>

\* GotProposal, once, after the node has become the coordinator of a round.
GotProposal(p, h) ==
    /\ pc[p].at = "recv"
    /\ cons[p].NeedsProposal /\ cons[p].myProposal = Nil
    /\ broadcastProposal(p, [cons[p] EXCEPT !.myProposal = h])
    /\ UNCHANGED <<sent, requests, recovers, msgVars, storing, queue, pc>>

-----------------------------------------------------------------------------
(* ProcessMessage: each message ends in checkProgress of its round.        *)

CheckFrom(p, m) ==
    LET c == cons[p].round IN
    pc' = [pc EXCEPT ![p] = [at |-> "timers", r |-> IF m < c THEN m ELSE c,
                             max |-> IF m > c THEN m ELSE c, round |-> m]]

\* SendRecover, for the object s.
SendRecover(p, s) ==
    LET answered == {q \in s.requestedRecover : s.validatedInitHashes[q.hash] # Nil} IN
    /\ recovers' = recovers \cup {[to |-> q.from, round |-> s.validatedInitHashes[q.hash],
                                    hash |-> q.hash] : q \in answered}
    /\ Set(p, [s EXCEPT !.requestedRecover = @ \ answered])

\* An init message is kept by hash and, in the order they come, by round.
ValidateInit(p, r, h) ==
    /\ SendRecover(p, [cons[p] EXCEPT !.validatedInitHashes[h] = r,
                                      !.initMessageByRound[r] = Append(@, h)])
    /\ CheckFrom(p, r)

ProcessInit(p, m) ==
    /\ Idle(p)
    /\ m.kind = "init"
    /\ queue' = [queue EXCEPT ![p] = @ \ {m}]
    /\ ValidateInit(p, m.round, m.hash)
    /\ UNCHANGED <<init, sent, requests, msgVars, storing, SelfMessages, panicked>>

ProcessMessage(p, m) ==
    /\ Idle(p)
    /\ m.kind = "check"
    /\ queue' = [queue EXCEPT ![p] = @ \ {m}]
    /\ CheckFrom(p, m.round)
    /\ UNCHANGED <<netVars, msgVars, storing, SelfMessages, cons, panicked>>

\* The main loop itself runs GotMsg on the node's own messages.
ProcessSelfMessage(p) ==
    LET m == Head(SelfMessages[p]) IN
    /\ pc[p].at = "recv"
    /\ SelfMessages[p] # <<>>
    /\ SelfMessages' = [SelfMessages EXCEPT ![p] = Tail(@)]
    /\ \/ /\ m.kind = "init"
          /\ ValidateInit(p, m.round, m.hash)
          /\ UNCHANGED <<msgVars, panicked>>
       \/ /\ m.kind # "init" /\ p \notin SigMap[p][m.kind][m.round][m.hash]
          /\ SigMap' = [SigMap EXCEPT ![p][m.kind][m.round][m.hash] = @ \cup {p}]
          /\ UpdateRound(p, NewCounts(p, m.kind, m.round, m.hash, {p}))
          /\ CheckFrom(p, m.round)
          /\ UNCHANGED <<recovers, cons>>
       \/ /\ m.kind # "init" /\ p \in SigMap[p][m.kind][m.round][m.hash]     \* ErrNoNewSigs
          /\ UNCHANGED <<msgVars, panicked, recovers, cons, pc>>
    /\ UNCHANGED <<init, sent, requests, storing, queue>>

\* The timeouts are dropped once a hash is decided.
Timeout(p, tm) ==
    LET s == [cons[p] EXCEPT !.timers = @ \ {tm}]
        after == pass(s, tm.round, tm.kind)
    IN
    /\ Idle(p)
    /\ IF s.decisionHash # Nil
       THEN Set(p, s) /\ UNCHANGED pc
       ELSE /\ Set(p, CASE tm.kind = "init" -> startTimeout(after, tm.round, "echo")
                        [] tm.kind = "echo" -> startTimeout(after, tm.round, "commit")
                        [] tm.kind = "commit" -> after)
            /\ CheckFrom(p, tm.round)
    /\ UNCHANGED <<netVars, msgVars, storing, queue, SelfMessages, panicked>>

\* The recover timeout: ask for the init message, once.
RecoverTimeout(p) ==
    LET s == cons[p]
        asks == ~ s.decided /\ ~ s.sentRequestRecover
    IN
    /\ Idle(p)
    /\ s.requestRecoverTimer \in {"running", "stopped"}
    /\ requests' = requests \cup
         IF asks THEN [from : {p}, to : Correct \ {p}, hash : {s.decisionHash}] ELSE {}
    /\ Set(p, [s EXCEPT !.requestRecoverTimer = "fired", !.sentRequestRecover = @ \/ asks])
    /\ UNCHANGED <<init, sent, recovers, msgVars, storing, queue, SelfMessages, pc, panicked>>

\* GotRequestRecover: a request is answered when the init message is here.
GotRequestRecover(p, q) ==
    /\ Idle(p)
    /\ q.to = p
    /\ requests' = requests \ {q}
    /\ SendRecover(p, [cons[p] EXCEPT !.requestedRecover = @ \cup {q}])
    /\ UNCHANGED <<init, sent, msgVars, storing, queue, SelfMessages, pc, panicked>>

-----------------------------------------------------------------------------
(* checkProgressRound, for the round pc[p].r.  The message threads run     *)
(* between its steps.                                                      *)

At(p, at) == pc[p].at = at
Goto(p, at) == pc' = [pc EXCEPT ![p].at = at]

\* The loops of checkProgress: up to max, then again while the round has advanced to c.
NextRound(p, c) ==
    LET x == pc[p] IN
    pc' = [pc EXCEPT ![p] =
             IF x.r < x.max THEN [x EXCEPT !.at = "timers", !.r = x.r + 1]
             ELSE IF c > x.round THEN [at |-> "timers", r |-> c, max |-> c, round |-> c]
             ELSE Recv]

\* Messages of the round, or of a later one, stand for the timeouts before them.
SkipTimers(p, s, r) ==
    LET echoCount == totalMsgCount[p]["echo"][r]
        commitCount == totalMsgCount[p]["commit"][r]
        s1 == IF echoCount >= nmt THEN startTimeout(pass(s, r, "init"), r, "echo") ELSE s
        s2 == IF commitCount >= nmt THEN startTimeout(pass(s1, r, "echo"), r, "commit") ELSE s1
        passTimers(q) == [s2.roundState[q] EXCEPT !.init = "passed", !.echo = "passed",
                                                  !.commit = "passed"]
    IN IF commitCount > nmt \/ echoCount >= nmt
       THEN [s2 EXCEPT !.roundState = [q \in Round |-> IF s.round <= q /\ q < r
                                                        THEN passTimers(q) ELSE @[q]]]
       ELSE s2

CheckTimers(p) ==
    /\ At(p, "timers")
    /\ IF cons[p].decided
       THEN pc' = [pc EXCEPT ![p] = Recv] /\ UNCHANGED cons
       ELSE /\ Set(p, SkipTimers(p, cons[p], pc[p].r))
            /\ Goto(p, IF pc[p].r = cons[p].round THEN "echo" ELSE "decide")
    /\ UNCHANGED <<netVars, msgVars, storing, queue, SelfMessages, panicked>>

\* The hash to echo: of the first init message if it is valid, or else the one that n-t echo, or
\* else zero after the init timeout.  An init message, and zero, are valid in round 0 and when
\* n-t commits of the round before are of zero.
EchoHashAnyInit(p, r) ==          \* variant: takes the init message of any round
    LET inits == cons[p].initMessageByRound[r] IN
    CASE inits # <<>> -> Head(inits)
      [] inits = <<>> /\ supportedHash[p]["echo"][r] # Nil -> supportedHash[p]["echo"][r]
      [] inits = <<>> /\ supportedHash[p]["echo"][r] = Nil ->
           IF cons[p].roundState[r].init = "passed" THEN Zero ELSE Nil
EchoHash(p, r) ==
    LET inits == cons[p].initMessageByRound[r]
        valid == r = 0 \/ ZeroProof(p, r - 1)
        h == supportedHash[p]["echo"][r]
    IN CASE valid /\ inits # <<>> -> Head(inits)
         [] ~ (valid /\ inits # <<>>) /\ h # Nil -> h
         [] ~ (valid /\ inits # <<>>) /\ h = Nil ->
              IF valid /\ cons[p].roundState[r].init = "passed" THEN Zero ELSE Nil

CheckEcho(p) ==
    LET r == pc[p].r
        h == EchoHash(p, r)
    IN
    /\ At(p, "echo")
    /\ Goto(p, "commit")
    /\ IF ~ cons[p].roundState[r].sentEcho /\ h # Nil
       THEN /\ Set(p, startTimeout([cons[p] EXCEPT !.roundState[r].sentEcho = TRUE], r, "echo"))
            /\ Broadcast(p, "echo", r, h)
            /\ panicked' = [panicked EXCEPT ![p] =
                              @ \/ (includeProofs /\ r > 0 /\ ~ HasProof(p, r - 1))]
       ELSE UNCHANGED <<cons, sent, SelfMessages, panicked>>
    /\ UNCHANGED <<init, requests, recovers, msgVars, storing, queue>>

CommitHash(p, r) ==
    LET h == supportedHash[p]["echo"][r] IN
    IF h = Nil /\ cons[p].roundState[r].commit = "passed" THEN Zero ELSE h

\* broadcastCommit panics if the proof it has to include is not there.
CommitProofMissing(p, r, h) ==
    includeProofs /\ IF h = Zero THEN r > 0 /\ ~ HasProof(p, r - 1) ELSE ~ HasProof(p, r)

CheckCommit(p) ==
    LET r == pc[p].r
        h == CommitHash(p, r)
    IN
    /\ At(p, "commit")
    /\ Goto(p, "decide")
    /\ IF ~ cons[p].roundState[r].sentCommit /\ h # Nil
       THEN /\ Set(p, [startTimeout(cons[p], r, "commit") EXCEPT
                         !.roundState[r].sentCommit = TRUE])
            /\ Broadcast(p, "commit", r, h)
            /\ panicked' = [panicked EXCEPT ![p] = @ \/ CommitProofMissing(p, r, h)]
       ELSE UNCHANGED <<cons, sent, SelfMessages, panicked>>
    /\ UNCHANGED <<init, requests, recovers, msgVars, storing, queue>>

\* n-t commits of a hash decide it, and its value if the init message is here; otherwise that
\* will be requested.
Decided(s, h) ==
    IF s.validatedInitHashes[h] # Nil
    THEN [s EXCEPT !.decisionHash = h, !.decided = TRUE, !.timers = {},
                   !.requestRecoverTimer = "nil"]
    ELSE [s EXCEPT !.decisionHash = h,
                   !.requestRecoverTimer = IF @ = "fired" THEN @ ELSE "running"]

CheckDecide(p) ==
    LET s == cons[p]
        h == supportedHash[p]["commit"][pc[p].r]
        differs == s.decisionHash \notin {Nil, h}
    IN
    /\ At(p, "decide")
    /\ Goto(p, "next")
    /\ IF h \in Hash
       THEN /\ panicked' = [panicked EXCEPT ![p] = @ \/ differs]
            /\ IF differs THEN UNCHANGED cons ELSE Set(p, Decided(s, h))
       ELSE UNCHANGED <<cons, panicked>>
    /\ UNCHANGED <<netVars, msgVars, storing, queue, SelfMessages>>

\* On to the next round: after the commit timeout, with n-t commits, and what justifies the next
\* round's hash.
AdvancesUnproved(p, r) ==         \* variant: needs no proof for the next round
    /\ r = cons[p].round
    /\ cons[p].decisionHash = Nil
    /\ cons[p].roundState[r].sentCommit /\ cons[p].roundState[r].commit = "passed"
    /\ totalMsgCount[p]["commit"][r] >= nmt
Advances(p, r) ==
    LET rs == cons[p].roundState[r] IN
    /\ r = cons[p].round
    /\ cons[p].decisionHash = Nil
    /\ rs.sentCommit /\ rs.commit = "passed"
    /\ totalMsgCount[p]["commit"][r] >= nmt
    /\ HasProof(p, r)

CheckNext(p) ==
    LET r == pc[p].r IN
    /\ At(p, "next")
    /\ IF Advances(p, r) /\ r < MaxRound
       THEN /\ startRound(p, [cons[p] EXCEPT !.round = r + 1])
            /\ NextRound(p, r + 1)
       ELSE /\ NextRound(p, cons[p].round)
            /\ UNCHANGED <<cons, init, SelfMessages, panicked>>
    /\ UNCHANGED <<sent, requests, recovers, msgVars, storing, queue>>

checkProgressRound(p) ==
    CheckTimers(p) \/ CheckEcho(p) \/ CheckCommit(p) \/ CheckDecide(p) \/ CheckNext(p)

GotMsg(p) ==
    \/ \E k \in Kind, r \in Round, h \in Value :
          \E S \in SUBSET Signers(k, r, h) : StoreMsg(p, k, r, h, S)
    \/ \E d \in storing[p] : Update(p, d)
    \/ \E r \in Round, h \in Hash : RecvInit(p, r, h)

MainLoop(p) ==
    \/ Start(p)
    \/ \E h \in Hash : GotProposal(p, h)
    \/ \E m \in queue[p] : ProcessInit(p, m) \/ ProcessMessage(p, m)
    \/ ProcessSelfMessage(p)
    \/ checkProgressRound(p)
    \/ \E tm \in cons[p].timers : Timeout(p, tm)
    \/ RecoverTimeout(p)
    \/ \E q \in requests : GotRequestRecover(p, q)

Next == UNCHANGED Coord /\ \E p \in Correct : GotMsg(p) \/ MainLoop(p)

Spec == Init /\ [][Next]_vars

-----------------------------------------------------------------------------
(* Properties.                                                             *)

\* No panic is reached: neither "got two hashes to support" in GotMsg, nor "committed two
\* different hashes" in checkProgressRound, nor the panics for a proof that "we should always
\* have" in getProposal, broadcastEcho and broadcastCommit.
NoPanic == \A p \in Correct : ~ panicked[p]

\* "We can only get n-t echo/commit of a single value": two correct nodes never have n-t
\* messages of one kind and round for different hashes.
OneHashPerRound ==
    \A p, q \in Correct, k \in Kind, r \in Round :
        supportedHash[p][k][r] # Nil /\ supportedHash[q][k][r] # Nil
            => supportedHash[p][k][r] = supportedHash[q][k][r]

\* "If we get n-t commit 0, then no-one decided": a node that may echo any value in the next
\* round knows that no correct node gets n-t commits of a hash in this one.
ZeroMeansUndecided ==
    \A p, q \in Correct, r \in Round :
        ZeroProof(p, r) => supportedHash[q]["commit"][r] \notin Hash

\* After a round in which a hash has n-t commits, no hash has n-t commits in the next.
NextRoundUndecided ==
    \A p, q \in Correct, r \in Round \ {MaxRound} :
        supportedHash[p]["commit"][r] \in Hash => supportedHash[q]["commit"][r + 1] \notin Hash

\* No two correct nodes decide different hashes.
Agreement ==
    \A p, q \in Correct :
        cons[p].decisionHash # Nil /\ cons[q].decisionHash # Nil
            => cons[p].decisionHash = cons[q].decisionHash

\* What arrives in the end: what the correct nodes sent, and, since nodes send what they have
\* stored to those that make no progress, what they have stored.
Available(k, r, h) == sent[k][r][h] \cup UNION {SigMap[q][k][r][h] : q \in Correct}

\* Nothing is left to do: everything has arrived and is processed, every timer that was not
\* stopped has fired.
AtRest ==
    /\ requests = {}
    /\ \A p \in Correct :
           /\ Idle(p) /\ queue[p] = {} /\ storing[p] = {}
           /\ cons[p].Started /\ (cons[p].NeedsProposal => cons[p].myProposal # Nil)
           /\ \A tm \in cons[p].timers : tm.round # cons[p].round
           /\ cons[p].requestRecoverTimer # "running"
           /\ \/ cons[p].decided
              \/ /\ \A m \in init \cup {m \in recovers : m.to = p} :
                       m.hash \in Range(cons[p].initMessageByRound[m.round])
                 /\ \A k \in Kind, r \in Round, h \in Value :
                       Available(k, r, h) \subseteq SigMap[p][k][r][h]


=============================================================================
