--------------------------- MODULE MvBinConsRnd2 ----------------------------
(***************************************************************************)
(* The operations of consensus/cons/mvbinconsrnd2: a reliable broadcast of *)
(* the coordinator's value with echo and commit messages, whose delivery   *)
(* makes 1 valid in round 1 of BinConsRnd2.  A member that has delivered   *)
(* nothing when the init timeout passes supports 0.  MvBin runs these      *)
(* operations.                                                             *)
(***************************************************************************)
EXTENDS MvNode

Bin2 == INSTANCE BinConsRnd2

New(gc, p, V) ==
    LET s == Bin2!New(gc, p)
        M == MvMessages({"Init", "Echo", "Commit"}, V)
    IN MvFields @@ [s EXCEPT !.sigs = @ @@ [m \in M |-> {}]]

\* The second half of GotMsg: n-t echoes of a hash, or more than t commits, support it.
GotEcho(s, h, n) ==
    IF n >= nmt THEN PanicIf(s.supportedEchoHash \notin {NoHash, h}, [s EXCEPT !.supportedEchoHash = h])
    ELSE s
GotCommit(s, h, n) ==
    IF n > t
    THEN PanicIf(s.supportedCommitHash \notin {NoHash, h} \/ s.supportedEchoHash \notin {NoHash, h},
                 [s EXCEPT !.supportedCommitHash = h, !.supportedCommitCount = MaxOf(@, n)])
    ELSE s
GotMsg(gc, s, d) ==
    CASE d.msg[1] = "Init"   -> s
      [] d.msg[1] = "Echo"   -> GotEcho(s, d.msg[3], d.NewTotalSigCount)
      [] d.msg[1] = "Commit" -> GotCommit(s, d.msg[3], d.NewTotalSigCount)
      [] OTHER -> Bin2!GotMsg(gc, s, d)

\* An init message that is there when no echo has been sent is the only one.
SendEcho(s) ==
    IF s.sentEcho \/ s.inits = {} THEN s
    ELSE Broadcast([s EXCEPT !.sentEcho = TRUE], <<"Echo", 0, CHOOSE h \in s.inits : TRUE>>)

broadcastCommit(s, h) == Broadcast([s EXCEPT !.sentCommit = TRUE], <<"Commit", 0, h>>)
SendCommit(s) ==
    CASE s.sentCommit -> s
      [] ~ s.sentCommit /\ s.supportedEchoHash # NoHash -> broadcastCommit(s, s.supportedEchoHash)
      [] OTHER -> IF s.supportedCommitCount > t THEN broadcastCommit(s, s.supportedCommitHash) ELSE s

\* n-t commits deliver the value.
Deliver(s) ==
    LET h == s.supportedCommitHash
        new == [Bin2!SetMv1Valid(s) EXCEPT !.decisionHash = h]
        s1 == IF s.decisionHash = NoHash THEN new ELSE PanicIf(s.decisionHash # h, s)
    IN
    CASE s.supportedCommitCount < nmt -> s
      [] s.supportedCommitCount >= nmt /\ h \notin s.inits -> StartTimer(s1, "recover")
      [] OTHER -> stopTimers([s1 EXCEPT !.decisionInitMsg = h])

\* After the init timeout a member that has delivered nothing supports 0.
Support0Silent(s) ==        \* variant: unless it has echoed a value
    IF s.initTimeoutState = Passed /\ s.decisionHash = NoHash /\ ~ s.sentEcho /\ ~ Bin2!SentProposal(s)
    THEN Broadcast(Bin2!SetSentProposal(s), Bin2!MVInitialRoundBroadcast)
    ELSE s
Support0(s) ==
    IF s.initTimeoutState = Passed /\ s.decisionHash = NoHash /\ ~ Bin2!SentProposal(s)
    THEN Broadcast(Bin2!SetSentProposal(s), Bin2!MVInitialRoundBroadcast)
    ELSE s

\* checkProgress up to its loop over the rounds of the binary instance.
checkProgress(s) ==
    IF HasDecided(s) THEN [node |-> s, check |-> FALSE]
    ELSE [node |-> Support0(Deliver(SendCommit(SendEcho(s)))), check |-> TRUE]

-----------------------------------------------------------------------------
\* ProcessMessage for a message that is not one of the binary instance.
ProcessMessage(s, m) ==
    CASE m[1] = "InitTimeout" -> checkProgress([s EXCEPT !.initTimeoutState = Passed])
      [] m[1] = "Init"        -> checkProgress([s EXCEPT !.inits = @ \cup {m[3]}])
      [] OTHER                -> checkProgress(s)

GotProposal(s, v) == Broadcast(s, <<"Init", 0, v>>)
=============================================================================
