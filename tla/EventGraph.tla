------------------------------ MODULE EventGraph ------------------------------
(***************************************************************************)
(* The event graph of MvCons4: graph/graph.go and cons/mvcons4 with the    *)
(* Normal broadcast, where every event has the latest event of each other  *)
(* node as a remote ancestor.                                              *)
(*                                                                         *)
(* One node, me, is followed in full: events arrive in any order, are      *)
(* added once their ancestors are there, decide rounds of witnesses, and   *)
(* are garbage collected.  A second graph, all, has every event as soon as *)
(* it is made and collects nothing: it is what a node would compute that   *)
(* misses nothing.  The other nodes make their events layer by layer, and  *)
(* one of them may be slow: it may stop making events, and those it makes  *)
(* may reach the others late.                                              *)
(*                                                                         *)
(* No node forks, so an event is its node and index, its hash is its       *)
(* identity, and the events it has a path to are, for each node, those up  *)
(* to some index: vec.                                                     *)
(***************************************************************************)
EXTENDS Integers, Sequences, FiniteSets, SequencesExt, FiniteSetsExt

CONSTANTS Node,          \* 1..n
          Faults,        \* GetFaultCount
          me, Slow,
          KeepPast,      \* generalconfig.KeepPast
          MaxEvents,     \* bound: events of a node
          Receivers,     \* bound: the sets of nodes that the slow one's events may reach at once
          MaxSwitches    \* bound: changes in what the slow node does

VARIABLES all, g,        \* graphs
          gs,            \* globalMessageState and MvCons4 of me
          net            \* messages to me, and what the other nodes have of the slow one

graphVars == <<all, g, gs, net>>

nmt == Cardinality(Node) - Faults
MaxOf(a, b) == IF a < b THEN b ELSE a
MinOf(a, b) == IF a < b THEN a ELSE b
Zeros == [q \in Node |-> 0]

-----------------------------------------------------------------------------
(* Graphs.  ev holds the events, wits is allWitnessMap, gone the index up to which the events of a node are *)
(* collected, log what GetDecision returned when each round was first found decided.                        *)
RootEvent == [remote |-> Zeros, vec |-> Zeros, round |-> 0, wit |-> TRUE, ss |-> {}, dec |-> "yes", known |-> Zeros, buff |-> FALSE]
InitGraph ==
    LET roots == {<<q, 0>> : q \in Node}
    IN  [ev |-> [e \in roots |-> RootEvent], wits |-> roots, gone |-> [q \in Node |-> -1], lastDecided |-> 0,
         decided |-> <<>>, known |-> [q \in Node |-> Zeros], largestRoundGC |-> 0, log |-> <<>>, panic |-> FALSE]

IdxOf(gr, q) == Max({e[2] : e \in {f \in DOMAIN gr.ev : f[1] = q}})
GetIndices(gr) == [q \in Node |-> IdxOf(gr, q)]
Live(gr, e) == e[2] > gr.gone[e[1]]
Parents(e, remote) == {<<e[1], e[2] - 1>>} \cup {<<q, remote[q]>> : q \in Node \ {e[1]}}

\* An event is found from the tails unless it is before one that was collected, which has no localAncestor.
ContainsEventPointer(gr, e) == e \in DOMAIN gr.ev /\ e[2] >= gr.gone[e[1]]
GetMissingDependencies(gr, e, remote) == {p \in Parents(e, remote) : ~ContainsEventPointer(gr, p)}

\* hasPath: collected events have no ancestors, and all the ancestors of a collected event are collected
hasPath(gr, from, to) ==
    \/ from = to
    \/ /\ Live(gr, to)
       /\ IF Live(gr, from) THEN gr.ev[to].vec[from[1]] >= from[2]
          ELSE \E q \in Node : \E i \in (gr.gone[q] + 1)..gr.ev[to].vec[q] : from \in Parents(<<q, i>>, gr.ev[<<q, i>>].remote)

\* Of a node's events on the paths the last one has a path from the witness when any has.
stronglySees(gr, from, to) ==
    LET passed == {q \in Node : hasPath(gr, from, <<q, gr.ev[to].vec[q]>>)}
                    \cup (IF hasPath(gr, from, to) THEN {from[1]} ELSE {})
        early(x) == Live(gr, x) /\ gr.ev[x].round = gr.ev[from].round /\ from \in gr.ev[x].ss
    IN  \/ Cardinality(passed) >= nmt
        \/ ~Live(gr, from) /\ \E q \in Node : \E i \in 0..gr.ev[to].vec[q] : early(<<q, i>>)

Witnesses(gr, r) == {w \in gr.wits : gr.ev[w].round = r}
LastRound(gr) == Max({gr.ev[w].round : w \in gr.wits})

-----------------------------------------------------------------------------
(* computeDecided: the votes on witness w.  acc.votes are those of the witnesses of round r - 1. *)
FirstVotes(gr, w) ==
    [q \in Node |-> \E x \in Witnesses(gr, gr.ev[w].round + 1) : x[1] = q /\ hasPath(gr, w, x)]
\* the votes that the witnesses of round r strongly see: witness -> vote -> how many
Votes(gr, acc, r) ==
    [x \in Witnesses(gr, r) |->
        [b \in BOOLEAN |-> Cardinality({v \in Witnesses(gr, r - 1) \cap gr.ev[x].ss : acc.votes[v[1]] = b})]]
CountVotes(gr, acc, votes) ==
    LET enough == {x \in DOMAIN votes : votes[x][TRUE] + votes[x][FALSE] >= nmt}
        decides == {x \in enough : votes[x][TRUE] >= nmt \/ votes[x][FALSE] >= nmt}
        first == CHOOSE x \in decides : \A y \in decides : x[1] <= y[1]
    IN  IF acc.stop THEN acc
        ELSE [votes |-> [q \in Node |-> \E x \in enough : x[1] = q /\ votes[x][TRUE] >= votes[x][FALSE]],
              known |-> acc.known \/ enough # {},
              dec |-> IF decides = {} THEN "unknown" ELSE IF votes[first][TRUE] >= nmt THEN "yes" ELSE "no",
              stop |-> decides # {} \/ Cardinality(DOMAIN votes) < nmt,
              panic |-> acc.panic \/ \E x \in DOMAIN votes : ~Live(gr, x)]    \* stronglySees of a collected witness is nil
SetDecided(gr, w, res) ==
    [gr EXCEPT !.ev[w].dec = res.dec, !.panic = @ \/ res.panic,
               !.known[w[1]] = IF res.known /\ gr.ev[w].known # <<>> THEN gr.ev[w].known ELSE @]
computeDecided(gr, w) ==
    LET r == gr.ev[w].round
        start == [votes |-> FirstVotes(gr, w), known |-> FALSE, dec |-> "unknown", panic |-> FALSE,
                  stop |-> Cardinality(Witnesses(gr, r + 1)) < nmt]
    IN  SetDecided(gr, w, FoldLeft(LAMBDA acc, i : CountVotes(gr, acc, Votes(gr, acc, r + 1 + i)), start,
                                   [i \in 1..(LastRound(gr) - r) |-> i]))

\* recCheckDecided from event e: a witness is looked at once all the witnesses before it are decided
Undecided(gr, e) == gr.ev[e].wit /\ Live(gr, e) /\ gr.ev[e].dec = "unknown"
WitnessesBefore(gr, e) == {w \in DOMAIN gr.ev : gr.ev[w].wit /\ Live(gr, w) /\ w[2] <= gr.ev[e].vec[w[1]]}
AncestorCount(gr, e) == FoldFunction(LAMBDA a, b : a + b, 0, gr.ev[e].vec)
recCheckDecided(gr, e) ==
    LET todo == {w \in WitnessesBefore(gr, e) : Undecided(gr, w)}
        visit(h, w) == IF \E v \in WitnessesBefore(h, w) \ {w} : Undecided(h, v) THEN h ELSE computeDecided(h, w)
        step(acc, i) ==
            LET w == CHOOSE x \in acc.rest : \A y \in acc.rest : AncestorCount(gr, x) <= AncestorCount(gr, y)
            IN  [graph |-> visit(acc.graph, w), rest |-> acc.rest \ {w}]
    IN  FoldLeft(step, [graph |-> gr, rest |-> todo], [i \in 1..Cardinality(todo) |-> i]).graph

\* GetDecision.  A collected event is not seen to be a witness, and its local ancestor is gone.
GetDecision(gr, r) ==
    LET ws == Witnesses(gr, r)
        yes == {w \in ws : gr.ev[w].dec = "yes"}
        stops(w) == {i \in 0..(w[2] - 1) : gr.ev[<<w[1], i>>].wit /\ Live(gr, <<w[1], i>>)}
        from(w) == IF stops(w) = {} THEN MaxOf(gr.gone[w[1]], 0) ELSE Max(stops(w)) + 1
        events(w) == {i \in from(w)..w[2] : gr.ev[<<w[1], i>>].buff}
    IN  [dec |-> ws # {} /\ \A w \in ws : gr.ev[w].dec # "unknown",
         panic |-> \/ \E w \in ws : ~Live(gr, w)
                   \/ /\ ws # {} /\ \A w \in ws : gr.ev[w].dec # "unknown"
                      /\ \/ Cardinality(ws) < nmt
                         \/ \E w \in yes : stops(w) # {} /\ gr.ev[<<w[1], Max(stops(w))>>].dec = "unknown",
         value |-> [q \in Node |-> UNION {events(w) : w \in {v \in yes : v[1] = q}}]]

\* the loop of checkDecided
NextDecided(gr, d) ==
    IF ~d.dec THEN [gr EXCEPT !.panic = @ \/ d.panic]
    ELSE [gr EXCEPT !.lastDecided = @ + 1, !.decided = Append(@, GetIndices(gr)), !.log = Append(@, d.value),
                    !.panic = @ \/ d.panic]
DecidedRounds(gr, before) ==
    IF \A w \in DOMAIN gr.ev : gr.ev[w].dec = before.ev[w].dec THEN gr
    ELSE FoldLeft(LAMBDA x, i : NextDecided(x, GetDecision(x, x.lastDecided + 1)), gr, [i \in 1..LastRound(gr) |-> i])
checkDecided(gr, e) == DecidedRounds(recCheckDecided(gr, e), gr)

\* sees: round -> the witnesses of it that e strongly sees, for its round and the one before
addWitness(gr, e, round, sees) ==
    LET next == Cardinality(sees[round]) >= nmt
        wit == next \/ gr.ev[<<e[1], e[2] - 1>>].round < round
    IN  [gr EXCEPT !.ev[e].round = IF next THEN round + 1 ELSE round, !.ev[e].wit = wit,
                   !.ev[e].ss = IF next \/ ~wit THEN sees[round] ELSE sees[round - 1],
                   !.wits = IF wit THEN @ \cup {e} ELSE @]
computeWitness(gr, e) ==
    LET round == Max({gr.ev[p].round : p \in Parents(e, gr.ev[e].remote)})
    IN  addWitness(gr, e, round, [r \in {round, round - 1} |-> {w \in Witnesses(gr, r) : stronglySees(gr, w, e)}])

\* computeKnown, from the known of the ancestors, which a collected one has not: -1 stands for nil
computeKnown(gr, e) ==
    LET from == {p \in Parents(e, gr.ev[e].remote) : Live(gr, p)}
    IN  [q \in Node |-> Max({IF q = e[1] THEN e[2] ELSE gr.ev[e].remote[q]} \cup {gr.ev[p].known[q] : p \in from})]

SetKnown(gr, e) == [gr EXCEPT !.ev[e].known = computeKnown(gr, e)]

\* AddEvent, once GetMissingDependencies is empty
Settle(gr, e) == IF gr.ev[e].wit THEN checkDecided(gr, e) ELSE gr
AddEvent(gr, e, remote, buff) ==
    LET vec == [q \in Node |-> IF q = e[1] THEN e[2] ELSE Max({gr.ev[p].vec[q] : p \in Parents(e, remote)})]
        in == [gr EXCEPT !.ev = (e :> [RootEvent EXCEPT !.remote = remote, !.vec = vec, !.dec = "unknown", !.known = <<>>,
                                                         !.wit = FALSE, !.buff = buff]) @@ @]
    IN  SetKnown(Settle(computeWitness(in, e), e), e)

CheckGCIndex(gr, index) ==
    LET known == [q \in Node |-> Min({IdxOf(gr, q)} \cup {gr.known[p][q] : p \in Node})]
        round(q) == gr.ev[<<q, known[q]>>].round
        min == Min({round(q) : q \in Node})
        upTo == MinOf(IF min > 0 THEN min - 1 ELSE 0, index)
    IN  [gr EXCEPT !.gone = IF index \notin DOMAIN gr.decided THEN @
                            ELSE [q \in Node |-> MaxOf(@[q], MinOf(gr.decided[index][q], known[q]))],
                   !.wits = {w \in @ : ~(gr.ev[w].round \in (gr.largestRoundGC + 1)..upTo)},
                   !.largestRoundGC = MaxOf(@, upTo)]

-----------------------------------------------------------------------------
(* The other nodes.  A layer is an event of each of them, with or without the slow one. *)
Others == Node \ {me}
Top(q) == IdxOf(all, q)

\* the index of node j's last event that q has: those of the slow node reach q with it or through the others
Knows(q, got) ==
    [j \in Node |-> IF j = q \/ j # Slow \/ q \in got THEN Top(j)
                    ELSE Max({net.seen[q]} \cup {all.ev[<<i, Top(i)>>].vec[Slow] : i \in Node \ {Slow}})]
GetLargerIndexCount(known, q) == Cardinality({j \in Node : known[j] >= known[q]})

CreateEventIndex(gr, q, known, buff) == AddEvent(gr, <<q, known[q] + 1>>, [known EXCEPT ![q] = 0], buff)

\* the messages of the slow node reach me when they reach the others that get them
Reaches(m) == m[1] # Slow \/ me \in net.mode[2]

OthersCreate(active, got) ==
    LET mode == <<active, got>>
        news == {<<q, Top(q) + 1>> : q \in active}
    IN  /\ \A q \in active : Top(q) < MaxEvents /\ GetLargerIndexCount(Knows(q, got), q) >= nmt
        /\ ~\E m \in net.msgs : Reaches(m)
        /\ ~gs.work /\ ~gs.needsProposal
        /\ mode = net.mode \/ net.switches < MaxSwitches
        /\ all' = FoldLeft(LAMBDA gr, q : CreateEventIndex(gr, q, Knows(q, got), Top(q) > 0), all,
                           SetToSortSeq(active, <))
        /\ net' = [msgs |-> net.msgs \cup news, seen |-> [q \in Others |-> Knows(q, got)[Slow]], mode |-> mode,
                   switches |-> IF mode = net.mode THEN net.switches ELSE net.switches + 1]
        /\ UNCHANGED <<g, gs>>

-----------------------------------------------------------------------------
(* me *)
Add(gr, e) == AddEvent(gr, e, all.ev[e].remote, all.ev[e].buff)
CanAdd(gr, e) == GetMissingDependencies(gr, e, all.ev[e].remote) = {}

\* AddEvents: the first event left of each node in turn, until none can be added
AddNext(acc, q) ==
    LET mine == {e \in acc.rest : e[1] = q}
        e == CHOOSE x \in mine : \A y \in mine : x[2] <= y[2]
    IN  IF mine = {} \/ ~CanAdd(acc.graph, e) THEN acc
        ELSE [graph |-> Add(acc.graph, e), rest |-> acc.rest \ {e}]
AddEvents(gr, events) ==
    LET n == Cardinality(Node)
    IN  FoldLeft(AddNext, [graph |-> gr, rest |-> events], [i \in 1..(n * Cardinality(events)) |-> 1 + ((i - 1) % n)])

\* GotMsg: storeMsg of a message that was not received before
storeMsg(e) ==
    AddEvents(IF CanAdd(g, e) THEN Add(g, e) ELSE g, gs.toProcess \cup (IF CanAdd(g, e) THEN {} ELSE {e}))
GotMsg(e) ==
    /\ e \in net.msgs
    /\ \A m \in net.msgs : Reaches(m) => e[1] < m[1] \/ (e[1] = m[1] /\ e[2] <= m[2])
    /\ Reaches(e) /\ ~gs.work /\ ~gs.needsProposal
    /\ \E stored \in {storeMsg(e)} :
            /\ g' = stored.graph
            /\ gs' = [gs EXCEPT !.toProcess = stored.rest, !.work = TRUE]
    /\ net' = [net EXCEPT !.msgs = @ \ {e}]
    /\ UNCHANGED all

\* hasDecided for the current index, and DoneIndex, which collects an old index and starts the next
Decided(s, gr) == GetDecision(gr, s.index).dec
AfterDecided(s, gr) ==
    [s EXCEPT !.decisions = Append(@, GetDecision(gr, s.index).value), !.index = @ + 1, !.maxDecided = s.index + 1,
              !.needsProposal = TRUE]
AfterGC(s, gr) ==
    LET h == [gr EXCEPT !.panic = @ \/ GetDecision(gr, s.index).panic]
    IN  IF s.index > KeepPast THEN CheckGCIndex(h, s.index - KeepPast) ELSE h

\* The first proposal is the nil one of initGlobalMessageState.
addProposal(s) == [s EXCEPT !.started = s.index, !.proposals = Append(@, TRUE)]
getProposal(s) == s.proposals # <<>> /\ s.proposals[1]

\* checkCreateEventAll2Al
CanCreate(s) ==
    /\ GetLargerIndexCount(GetIndices(g), me) >= nmt /\ s.started >= s.maxDecided
    /\ IdxOf(g, me) < MaxEvents
checkBroadcastNormal(s) ==
    LET known == GetIndices(g)
        buff == getProposal(s)
        made == CreateEventIndex(g, me, known, buff)
        after == [s EXCEPT !.proposals = IF @ = <<>> THEN @ ELSE Tail(@), !.work = TRUE]
    IN  IF CanCreate(s)
        THEN g' = made /\ all' = CreateEventIndex(all, me, known, buff) /\ gs' = after
        ELSE UNCHANGED <<g, all>> /\ gs' = s

\* ProcessMessage, and the check of HasDecided that follows it
ProcessMessage ==
    /\ gs.work
    /\ IF Decided(gs, g)
       THEN g' = AfterGC(gs, g) /\ gs' = AfterDecided(gs, g) /\ UNCHANGED all
       ELSE checkBroadcastNormal([gs EXCEPT !.work = FALSE])
    /\ UNCHANGED net

GotProposal ==
    /\ gs.needsProposal
    /\ checkBroadcastNormal(addProposal([gs EXCEPT !.needsProposal = FALSE]))
    /\ UNCHANGED net

-----------------------------------------------------------------------------
Init ==
    /\ all = InitGraph
    /\ g = InitGraph
    /\ gs = [toProcess |-> {}, index |-> 1, maxDecided |-> 1, started |-> 0, proposals |-> <<FALSE>>, decisions |-> <<>>,
             needsProposal |-> TRUE, work |-> FALSE]
    /\ net = [msgs |-> {}, seen |-> [q \in Others |-> 0], mode |-> <<Others, Node \ {Slow}>>, switches |-> 0]

Next ==
    \/ \E active \in {Others, Others \ {Slow}} : \E got \in Receivers : OthersCreate(active, got)
    \/ \E e \in net.msgs : GotMsg(e)
    \/ ProcessMessage
    \/ GotProposal

-----------------------------------------------------------------------------
====
