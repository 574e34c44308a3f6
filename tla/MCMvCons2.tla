------------------------------ MODULE MCMvCons2 -----------------------------
(***************************************************************************)
(* TLC instances of MvCons2 with four members, one of them faulty.  The    *)
(* initial state chooses a scenario that keeps the instance small:         *)
(*   - coord has the coordinators of the rounds;                           *)
(*   - the faulty member sends the messages in lies, at any time;          *)
(*   - the timeouts in early may fire at any time, the others when nothing *)
(*     else can happen;                                                    *)
(*   - what a slow node sends reaches nobody;                              *)
(*   - of two nodes in order, the second waits for the first.              *)
(* A node that has the turn keeps it until it has sent something, or has   *)
(* nothing to receive: its other steps read and change its own state only, *)
(* so they could as well come later.                                       *)
(***************************************************************************)
EXTENDS MvCons2, TLC

CONSTANTS
    p1, p2, p3, f1, h1, h2,
    Names           \* the names of the scenarios of a run

VARIABLES scenario,
          turn,     \* the node that has the turn, or Nil
          spoke     \* it has sent something

mcVars == <<vars, scenario, turn, spoke>>

Lie(k, r, h, p) == [kind |-> k, round |-> r, hash |-> h, to |-> p]
Lies(r, p, h, e, c) == {Lie("init", r, h, p), Lie("echo", r, e, p), Lie("commit", r, c, p)}
Timeouts(P, rounds) == P \X {"init", "echo", "commit"} \X rounds

Scenarios ==
    [lies   |-> [coord |-> <<f1, p2>>, early |-> {}, slow |-> {}, order |-> <<p2, p3>>,
                 lies |-> Lies(0, p1, h1, h1, h1)],
     recover |-> [coord |-> <<f1, p2>>, early |-> {}, slow |-> {}, order |-> <<p1, p2>>,
                  lies |-> {Lie("init", 0, h1, p1), Lie("init", 0, h1, p2), Lie("echo", 0, h1, p3)}],
     mixed  |-> [coord |-> <<p1, p2>>, slow |-> {}, order |-> <<>>, early |-> Timeouts({p1}, {0}),
                 lies |-> Lies(0, p1, h1, h1, h1) \cup Lies(1, p2, h1, h1, Zero)],
     honest |-> [coord |-> <<p1, p2>>, lies |-> {}, early |-> Timeouts({p1}, {0}),
                 slow |-> {}, order |-> <<>>],
     keep   |-> [coord |-> <<p1, f1>>, slow |-> {}, order |-> <<p1, p2, p3>>,
                 early |-> Timeouts({p3}, {0}),
                 lies |-> {Lie("commit", 0, h1, p1), Lie("commit", 0, Zero, p3),
                           Lie("commit", 1, h1, p2)}
                          \cup {Lie(k, 1, h1, p) : k \in {"init", "echo"}, p \in {p2, p3}}],
     change |-> [coord |-> <<f1, f1, p2>>, slow |-> {p1}, order |-> <<p3, p2, p1>>,
                 early |-> Timeouts({p2, p3}, 0..1),
                 lies |-> {Lie("init", 0, h1, p) : p \in Correct}
                          \cup {Lie("echo", 0, h1, p) : p \in {p2, p3}}
                          \cup {Lie("commit", 0, h1, p1)}
                          \cup {Lie("commit", r, Zero, p) : r \in 0..1, p \in {p2, p3}}
                          \cup {Lie(k, 2, h2, p) : k \in Kind, p \in {p2, p3}}]]

MCInit ==
    /\ Init
    /\ scenario \in {Scenarios[n] : n \in Names}
    /\ \A r \in Round : Coord[r] = scenario.coord[r + 1]
    /\ turn = Nil /\ spoke = FALSE

Busy(p) == ~ Idle(p) \/ queue[p] # {} \/ storing[p] # {}

\* What correct nodes have sent and p has not received, and with it what f1 sends.
Unread(p, k, r, h) == sent[k][r][h] \ (scenario.slow \cup SigMap[p][k][r][h])
Pending(p, k, r, h) ==
    Unread(p, k, r, h) \cup
        ((IF Lie(k, r, h, p) \in scenario.lies THEN {f1} ELSE {}) \ SigMap[p][k][r][h])

\* Fewer than n-t messages of a kind and round change nothing: those that complete n-t come
\* together, the others later.
Useful(p, k, r) ==
    Cardinality(Heard(p, k, r) \cup UNION {Pending(p, k, r, h) : h \in Value}) >= nmt
Partial(p) ==
    {<<k, r>> \in Kind \X Round :
        Heard(p, k, r) \ {p} # {} /\ Cardinality(Heard(p, k, r)) < nmt /\ Useful(p, k, r)}

RecvMsg(p, k, r, h) ==
    /\ Useful(p, k, r) /\ Partial(p) \subseteq {<<k, r>>}
    /\ \E S \in SUBSET Pending(p, k, r, h) :
         /\ scenario.slow # {} => S = Pending(p, k, r, h)
         /\ \/ Cardinality(Heard(p, k, r)) >= nmt
            \/ Cardinality(Heard(p, k, r) \cup S) <= nmt
         /\ StoreMsg(p, k, r, h, S)

Waits(p) ==
    \/ \E k \in Kind, r \in Round, h \in Value : Useful(p, k, r) /\ Unread(p, k, r, h) # {}
    \/ \E m \in init : m.hash \notin Range(cons[p].initMessageByRound[m.round])

\* Nothing but a timeout can happen.
Settled ==
    \A p \in Correct :
        /\ ~ Busy(p) /\ (cons[p].decided \/ ~ Waits(p)) /\ cons[p].Started
        /\ cons[p].NeedsProposal => cons[p].myProposal # Nil

\* When no timer runs either, the nodes send again what they have, in some order.
Missing ==
    {x \in Correct \X Kind \X Round \X Value :
        ~ cons[x[1]].decided /\ ~ (Available(x[2], x[3], x[4]) \subseteq SigMap[x[1]][x[2]][x[3]][x[4]])}
RecvAgain(p) ==
    /\ scenario.slow = {} /\ Settled
    /\ \A q \in Correct : \A tm \in cons[q].timers : tm.round # cons[q].round
    /\ Missing # {}
    /\ LET x == CHOOSE x \in Missing : TRUE IN
       /\ p = x[1]
       /\ StoreMsg(p, x[2], x[3], x[4],
                   Available(x[2], x[3], x[4]) \ SigMap[p][x[2]][x[3]][x[4]])

FromFaulty(p, r, h) ==
    Lie("init", r, h, p) \in scenario.lies \/ [to |-> p, round |-> r, hash |-> h] \in recovers

Receive(p) ==
    /\ cons[p].Started /\ ~ cons[p].decided
    /\ \/ \E k \in Kind, r \in Round, h \in Value : RecvMsg(p, k, r, h)
       \/ RecvAgain(p)
       \/ \E r \in Round, h \in Hash :
            /\ Partial(p) = {}
            /\ Coord[r] \in Faulty => FromFaulty(p, r, h)
            /\ RecvInit(p, r, h)

Fires(p, tm) ==
    /\ tm.round = cons[p].round
    /\ <<p, tm.kind, tm.round>> \in scenario.early \/ Settled
    /\ Timeout(p, tm)

Quiet(p) ==
    /\ Partial(p) = {}
    /\ \/ Start(p)
       \/ \E h \in Hash : GotProposal(p, h)
       \/ \E tm \in cons[p].timers : Fires(p, tm)
       \/ RecoverTimeout(p)
       \/ \E q \in requests : GotRequestRecover(p, q)

Work(p) ==
    \/ \E d \in storing[p] : Update(p, d)
    \/ \E m \in queue[p] : ProcessInit(p, m) \/ ProcessMessage(p, m)
    \/ ProcessSelfMessage(p)
    \/ checkProgressRound(p)

Step(p) ==
    /\ turn \in {Nil, p}
    /\ (~ Busy(p) /\ (Receive(p) \/ Quiet(p))) \/ Work(p)
    /\ LET says == spoke \/ netVars' # netVars
           ends == ~ Busy(p)' /\ says
       IN /\ spoke' = (says /\ ~ ends)
          /\ turn' = IF ends THEN Nil ELSE p

Rests(p) ==
    /\ turn = p /\ ~ Busy(p) /\ Partial(p) = {}
    /\ cons[p].Started /\ (cons[p].decided \/ ~ Waits(p))
    /\ turn' = Nil /\ spoke' = FALSE
    /\ UNCHANGED vars

Before(p) == {q \in Correct : \E i, j \in DOMAIN scenario.order :
                                 i < j /\ scenario.order[i] = q /\ scenario.order[j] = p}

MCNext ==
    /\ UNCHANGED <<Coord, scenario>>
    /\ \E p \in Correct :
         /\ \A q \in Before(p) : ~ ENABLED Step(q)
         /\ Step(p) \/ Rests(p)

MCSpec == MCInit /\ [][MCNext]_mcVars

\* The state of a round is not read once the node is past it.
LiveCons(s) ==
    [s EXCEPT !.roundState = [r \in Round |-> IF s.decided \/ r < s.round THEN InitRoundState
                                              ELSE @[r]],
              !.timers = {tm \in @ : tm.round = s.round /\ s.decisionHash = Nil}]
View == <<Coord, netVars, msgVars, storing, queue, SelfMessages, pc,
          [p \in Correct |-> LiveCons(cons[p])], panicked, scenario, turn, spoke>>
=============================================================================
