------------------------------ MODULE MvCons1 -------------------------------
(***************************************************************************)
(* The operations of consensus/cons/mvcons1 over BinConsRnd1: the echoes   *)
(* of n-t members make 1 valid for round 1 of the binary instance, the     *)
(* timeout for echoes makes 0 valid.  MvBin runs these operations.         *)
(***************************************************************************)
EXTENDS MvNode

Bin1 == INSTANCE BinConsRnd1

New(gc, p, V) ==
    LET s == Bin1!New(gc, p)
        M == MvMessages({"Init"}, V) \cup MvMessages({"Echo"}, V \cup {Zero})
    IN MvFields @@ [s EXCEPT !.sigs = @ @@ [m \in M |-> {}]]

\* GotMsg: init and echo messages have no counts of their own.
GotMsg(gc, s, d) == IF d.msg[1] \in {"Init", "Echo"} THEN s ELSE Bin1!GotMsg(gc, s, d)

broadcastEcho(s, h) == Broadcast([s EXCEPT !.sentEcho = TRUE], <<"Echo", 0, h>>)

\* The message of round 1 of the binary instance, once.
Support(s, v) == IF Bin1!SentProposal(s) THEN s
                 ELSE Broadcast(Bin1!SetSentProposal(s), Bin1!MVInitialRoundBroadcast(v))

echoTimeoutPassed(s) == s.echoTimeOutState = Passed \/ Bin1!CanSkipMvTimeout(s)

\* checkEchoTimeoutPassed and checkInitTimeoutPassed: after the echo timeout, the init timeout
\* has passed as well.
checkEchoTimeoutPassed(s) == IF echoTimeoutPassed(s) THEN [s EXCEPT !.initTimeoutState = Passed] ELSE s

\* An init message that is there when no echo has been sent is the only one.
checkSendEcho(s) ==
    LET s1 == IF ~ s.sentEcho /\ s.inits # {} THEN broadcastEcho(s, CHOOSE h \in s.inits : TRUE) ELSE s
        s2 == checkEchoTimeoutPassed(s1)
    IN
    IF s2.initTimeoutState = Passed /\ ~ s2.sentEcho
    THEN IF Bin1!SentProposal(s2) THEN s2 ELSE Support(broadcastEcho(s2, Zero), 0)
    ELSE s2

\* n-t echoes of a value: 1 is valid, and the value is the only one that can be decided.
GotEchoes(s, h) ==
    LET valid == [Bin1!SetMvValid(s, 1) EXCEPT !.echoTimeOutState = Passed, !.supportedEchoHash = h]
        s1 == Support(PanicIf(s.supportedEchoHash \notin {NoHash, h}, valid), 1)
        s2 == [s1 EXCEPT !.decisionHash = h]
    IN
    CASE s.decisionInitMsg # NoHash -> PanicIf(s.decisionHash # h, s1)
      [] s.decisionInitMsg = NoHash /\ h \in s.inits ->
            stopTimers([s2 EXCEPT !.decisionInitMsg = h])
      [] OTHER -> StartTimer(s2, "recover")

Echoes(s, h) == Cardinality(s.sigs[<<"Echo", 0, h>>])
EchoMessages(s) == {m \in DOMAIN s.sigs : m[1] = "Echo"}
EnoughAny(s) ==     \* variant: any t + 1 echoes
    {m[3] : m \in {k \in EchoMessages(s) : k[3] # Zero /\ Echoes(s, k[3]) > t}}
Enough(s) == {m[3] : m \in {k \in EchoMessages(s) : k[3] # Zero /\ Echoes(s, k[3]) >= nmt}}

sendEchoTimeout(s) ==
    IF s.echoTimeOutState = NotSent /\ ~ HasDecided(s) /\ ~ Bin1!CanSkipMvTimeout(s)
    THEN StartTimer([s EXCEPT !.echoTimeOutState = Sent], "echo")
    ELSE s

\* After the echo timeout 0 is supported, and valid.
checkEchoTimeout(s) == IF echoTimeoutPassed(s)
                       THEN Bin1!SetMvValid(Support(checkEchoTimeoutPassed(s), 0), 0)
                       ELSE s

\* checkEchoState up to its loop over the rounds of the binary instance: the node after it, and
\* whether the loop follows.
checkEchoState(s) ==
    LET ready == \/ TotalSigCount(s, EchoMessages(s)) >= nmt
                 \/ s.rs[1].TotalBinMsgCount >= nmt                     \* checkEnoughBin
        H == Enough(s)
        s1 == IF H = {} THEN s ELSE GotEchoes(s, CHOOSE h \in H : TRUE)
    IN
    IF BinDecided(s) # 0 /\ ready
    THEN [node |-> checkEchoTimeout(sendEchoTimeout(PanicIf(Cardinality(H) > 1, s1))), check |-> TRUE]
    ELSE [node |-> s, check |-> FALSE]

-----------------------------------------------------------------------------
\* ProcessMessage for a message that is not one of the binary instance.
InitTimeout(s) ==
    IF BinDecided(s) # Unknown THEN s ELSE checkSendEcho([s EXCEPT !.initTimeoutState = Passed])
EchoTimeout(s) == checkEchoState([s EXCEPT !.echoTimeOutState = Passed])
GotInit(s, h) == checkEchoState(checkSendEcho([s EXCEPT !.inits = @ \cup {h}]))

ProcessMessage(s, m) ==
    CASE m[1] = "InitTimeout" -> [node |-> InitTimeout(s), check |-> FALSE]
      [] m[1] = "EchoTimeout" -> IF BinDecided(s) # Unknown THEN [node |-> s, check |-> FALSE]
                                 ELSE EchoTimeout(s)
      [] m[1] = "Init"        -> GotInit(s, m[3])
      [] m[1] = "Echo"        -> checkEchoState(s)

\* GotProposal of the coordinator: its init message, unless it has echoed one.
GotProposal(s, v) == IF s.sentEcho THEN s ELSE Broadcast(s, <<"Init", 0, v>>)
=============================================================================
