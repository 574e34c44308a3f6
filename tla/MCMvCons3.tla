----------------------------- MODULE MCMvCons3 ------------------------------
(***************************************************************************)
(* TLC instances of MvCons3: four members, one of which may send a second  *)
(* init message when it coordinates and echo anything.  Nodes move in a    *)
(* fixed order; what differs is when they learn of the init message and of *)
(* the n-t echoes of each index.  A scenario has one pattern per index:    *)
(*   ok      everything arrives at once                                    *)
(*   after   all learn of the echoes after they voted for the next index   *)
(*   one, two, half   p1, or p1 and p2, do, or after the index after that  *)
(*   last    p1 learns of the echoes when everything else is done          *)
(*   none    the init message arrives after the timers                     *)
(*   miss    it arrives at p1 after the timer of p1                        *)
(*   lost    p1 gets it only if it asks for it                             *)
(*   twice   a faulty coordinator sends p1 another one                     *)
(* At most MaxDelays of the indexes up to LastDelayed are not ok, or the   *)
(* first indexes up to MaxRun are "after" and one of the next two is not.  *)
(***************************************************************************)
EXTENDS MvCons3

CONSTANTS p1, p2, p3, f1,
          MaxDelays,    \* bound: indexes with a pattern other than ok
          LastDelayed,  \* bound: the last of these
          MaxRun,       \* bound: the first indexes that are all "after"
          Patterns      \* the patterns that occur

VARIABLE scenario

mcVars == <<mv3Vars, scenario>>

Order == <<p1, p2, p3, f1>>

MCInit ==
    /\ \E k \in 0 .. MaxRun : \E D \in SUBSET (k + 1 .. IF k = 0 THEN LastDelayed ELSE k + 2) :
          /\ Cardinality(D) <= IF k = 0 THEN MaxDelays ELSE 1
          /\ \E f \in [D -> Patterns] :
                scenario = [i \in Indexes |-> CASE i <= k -> "after" [] i \in D -> f[i] [] OTHER -> "ok"]
    /\ \A i \in Indexes : scenario[i] = "twice" => CheckCoord(i) \in Faulty
    /\ Mv3Init

Slow(p, i) ==
    CASE scenario[i] = "after" -> 1
      [] scenario[i] = "one" /\ p = p1 -> 1
      [] scenario[i] = "two" /\ p = p1 -> 2
      [] scenario[i] = "half" /\ p \in {p1, p2} -> 1
      [] scenario[i] = "last" /\ p = p1 -> LastIndex
      [] OTHER -> 0

\* Node p has voted for index i or has given it up.
Past(p, i) == i > LastIndex \/ node[p].item[i].sentEcho \/ node[p].item[i].initTimeOutState = Passed

InitCanCome(p, h) ==
    LET i == h[1]
        late == node[p].item[i].initTimeOutState = Passed
    IN \/ CheckCoord(i) = p
       \/ scenario[i] = "twice" /\ h[2] = (IF p = p1 THEN 1 ELSE 0)
       \/ CASE scenario[i] = "none" -> late
            [] scenario[i] = "miss" -> late \/ p # p1
            [] scenario[i] = "lost" -> node[p].item[i].requested \/ p # p1
            [] scenario[i] = "twice" -> node[p].item[i].requested
            [] OTHER -> TRUE

Echoers(h) == {e[1] : e \in {x \in echoes : x[2] = h}} \cup {f \in Faulty : \E x \in echoes : x[2] = h}
Hashes == DOMAIN supports

\* The events that can happen, by kind; those of an index i are written <<p, <<i, 0>>>>.
Events == Members \X (Indexes \X {0})
Proposals == {e \in Events : Up(e[1]) /\ NeedsProposalNow(node[e[1]], e[2][1])}
Queued == {e \in Events : Up(e[1]) /\ e[2][1] \in node[e[1]].queue}
Arrivals == {e \in Members \X Hashes :
               Up(e[1]) /\ ~ HasInitOf(node[e[1]].item[e[2][1]], e[2]) /\ InitCanCome(e[1], e[2])}
Quorums == {e \in Members \X Hashes :
               /\ Up(e[1]) /\ Cardinality(Echoers(e[2])) >= nmt
               /\ node[e[1]].item[e[2][1]].supportedEchoHash # e[2]
               /\ Slow(e[1], e[2][1]) = 0 \/ Past(e[1], e[2][1] + Slow(e[1], e[2][1]))}
\* A single echo matters to a node that has not voted and could do so by now.
Reminders == {e \in Members \X Hashes :
               LET it == node[e[1]].item[e[2][1]] IN
               /\ Up(e[1]) /\ it.sigs = {} /\ Echoers(e[2]) \ {e[1]} # {}
               /\ ~ it.sentEcho /\ it.prevTimeoutState = Passed /\ ToEcho(node[e[1]], e[2][1]) # <<>>}
Timers == {e \in Events :
               LET it == node[e[1]].item[e[2][1]] IN
               Up(e[1]) /\ it.initTimeOutState = Sent /\ it.echoInitMsg = NoHash}
Recovers == {e \in Events : Up(e[1]) /\ node[e[1]].item[e[2][1]].recoverTimer = "running"}
Doubles == {i \in Indexes : scenario[i] = "twice" /\ <<i, 0>> \in Hashes /\ <<i, 1>> \notin Hashes}

\* The first of a set of events: by index, then by node.
Place(p) == CHOOSE k \in DOMAIN Order : Order[k] = p
First(E) == CHOOSE e \in E : \A d \in E :
               e[2][1] < d[2][1] \/ (e[2][1] = d[2][1] /\ Place(e[1]) <= Place(d[1]))

Now == Proposals \cup Queued \cup Arrivals \cup Quorums \cup Reminders

Propose(e) == GotProposal(e[1], e[2][1])
GetInit(e) == ProcessInit(e[1], e[2])
GetQuorum(e) == StoreEchoes(e[1], e[2], Echoers(e[2]))
GetReminder(e) == StoreEchoes(e[1], e[2], {CHOOSE q \in Echoers(e[2]) \ {e[1]} : TRUE})
Process(e) == ProcessEcho(e[1], e[2][1])
TimeOut(e) == InitTimeout(e[1], e[2][1])
Recover(e) == RecoverTimeout(e[1], e[2][1])

\* What a node has to do itself comes before messages, and messages before timers.
MCNext ==
    /\ UNCHANGED scenario
    /\ \/ Queued # {} /\ Process(First(Queued))
       \/ Queued = {} /\ Proposals # {} /\ Propose(First(Proposals))
       \/ Queued \cup Proposals = {} /\ \E i \in Doubles : FaultyInit(<<i, 1>>, supports[<<i, 0>>])
       \/ Queued \cup Proposals = {} /\ Doubles = {} /\ Arrivals # {} /\ GetInit(First(Arrivals))
       \/ Queued \cup Proposals \cup Arrivals = {} /\ Quorums # {} /\ GetQuorum(First(Quorums))
       \/ Queued \cup Proposals \cup Arrivals \cup Quorums = {} /\ Reminders # {} /\ GetReminder(First(Reminders))
       \/ Now = {} /\ Recovers # {} /\ Recover(First(Recovers))
       \/ Now \cup Recovers = {} /\ Timers # {} /\ TimeOut(First(Timers))

MCSpec == MCInit /\ [][MCNext]_mcVars

Delayed == Cardinality({i \in Indexes : scenario[i] # "ok"})
AtRest == Now \cup Recovers \cup Timers = {} /\ Doubles = {}

\* When nothing is left to do, every node that is up has decided all indexes but the last three and
\* at most one more for each index that was delayed or whose init message was lost.
NoneBehind ==
    AtRest => \A p \in Correct : Up(p) => node[p].local > LastIndex - 3 - Delayed
=============================================================================
