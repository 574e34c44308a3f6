------------------------------- MODULE MvNode -------------------------------
(***************************************************************************)
(* What the reductions of multi-value to binary consensus have in common   *)
(* (consensus/cons/mvcons1 and mvbinconsrnd2): the state they add to the   *)
(* node of their binary instance, the timers (cons/timeouts.go) and the    *)
(* recovery of a missing init message (cons/absmvrecover.go).              *)
(*                                                                         *)
(* A coordinator sends a value in an init message, the members echo its    *)
(* hash, and the binary instance decides whether the value (1) or nothing  *)
(* (0) is decided.  Values stand for their hashes; they are numbers from   *)
(* FirstValue on.  Messages are triples as in RndNode, with round 0.       *)
(***************************************************************************)
EXTENDS RndNode, TLC

FirstValue == 10
Zero == 9               \* the hash of all zeros, the decision of nothing
NoHash == Unknown

\* initTimeoutState, echoTimeOutState, and the timers: nil, running, or set with its message sent.
NotSent == "NotSent"
Sent == "Sent"
Passed == "Passed"
Off == "off"
Running == "running"
Fired == "fired"

MvMessages(headers, V) == headers \X {0} \X V

\* What an instance adds to the state of its binary instance, after Start has set the init timer.
MvFields ==
    [stage |-> "idle", inits |-> {}, sentEcho |-> FALSE, sentCommit |-> FALSE,
     decisionHash |-> NoHash, decisionInitMsg |-> NoHash,
     supportedEchoHash |-> NoHash, supportedCommitHash |-> NoHash, supportedCommitCount |-> 0,
     initTimeoutState |-> Sent, echoTimeOutState |-> NotSent,
     timer |-> [init |-> Running, echo |-> Off, recover |-> Off],
     sentRequestRecover |-> FALSE, requestedRecover |-> {}, recovered |-> {}]

BinDecided(s) == s.Decided      \* GetBinDecided
HasDecided(s) == BinDecided(s) = 0 \/ (BinDecided(s) = 1 /\ s.decisionInitMsg # NoHash)

\* GetDecision, or NoHash before there is one.
GetDecision(s) == CASE BinDecided(s) = 0 -> Zero
                    [] BinDecided(s) = 1 -> s.decisionInitMsg
                    [] OTHER -> NoHash

stopTimers(s) == [s EXCEPT !.timer = [init |-> Off, echo |-> Off, recover |-> Off]]

\* StartInitTimer, StartEchoTimer; StartRecoverTimeout starts a timer unless it has one.
StartTimer(s, k) == IF s.timer[k] = Off THEN [s EXCEPT !.timer[k] = Running] ELSE s

BroadcastRequestRecover(s) ==
    IF s.sentRequestRecover THEN s
    ELSE Broadcast([s EXCEPT !.sentRequestRecover = TRUE], <<"Recover", 0, s.decisionHash>>)

\* SendRecover: who asked for an init message that is there gets it.
SendRecover(s) ==
    LET answers == {x \in s.requestedRecover : x[2] \in s.inits} IN
    [s EXCEPT !.recovered = @ \cup answers, !.requestedRecover = @ \ answers]

\* GotRequestRecover: node p asks for the init message of hash h.
GotRequestRecover(s, p, h) == SendRecover([s EXCEPT !.requestedRecover = @ \cup {<<p, h>>}])
=============================================================================
