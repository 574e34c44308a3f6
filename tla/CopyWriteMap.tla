---------------------------- MODULE CopyWriteMap ----------------------------
(***************************************************************************)
(* The copy on write map (consensus/copywritemap) that holds the accounts  *)
(* and block hashes of the currency state machine.  Every state machine    *)
(* has its own map; all of them share one table, which has for each key a  *)
(* list of values, each with the id of the map that wrote it.  A map reads *)
(* the committed value and those of its own ids (its own and its           *)
(* ancestors').  DoneKeep commits a map once its parent is committed,      *)
(* DoneClear throws it away.                                               *)
(*                                                                         *)
(* Maps are numbered in the order they are made; 1 is the one of           *)
(* NewCopyWriteMap.  An empty list stands for a key without entry.  Delete *)
(* is left out: no state machine calls it.                                 *)
(***************************************************************************)
EXTENDS Integers, Sequences, SequencesExt

CONSTANTS Keys, Values,
          MaxMaps,     \* bound: maps ever made
          MaxWrites    \* bound: calls of Write

VARIABLES table,   \* theMap, nxtID and the maps themselves
          ref,     \* ghost: what each map should contain, Absent where it has nothing
          line,    \* ghost: each map's ancestors and itself
          writes

cwVars == <<table, ref, line, writes>>

Committed == -1
Absent == 0       \* values are positive
NoMap == 0
OutOfRange == -1

Item(id, v) == [id |-> id, item |-> v]
NewMap(parent, ids) ==
    [done |-> "notDone", copied |-> FALSE, dependents |-> {}, parent |-> parent, myItems |-> {}, myIDs |-> ids]

NewCopyWriteMap ==
    [theMap |-> [k \in Keys |-> <<>>], nxtID |-> 0, maps |-> <<NewMap(NoMap, <<0>>)>>, panicked |-> FALSE]

Fails(s) == [s EXCEPT !.panicked = TRUE]

-----------------------------------------------------------------------------
\* checkItem: the committed item, unless one of the map's ids has a later one.  A map that was
\* kept has no ids left; it fails on a key that only others have written.
Mine(m, items) == {i \in DOMAIN items : items[i].id \in ToSet(m.myIDs) /\ items[i].id <= m.myIDs[1]}
Newest(items, I) == items[CHOOSE i \in I : \A j \in I : items[j].id <= items[i].id]
checkItem(m, items) ==
    CASE items = <<>> -> Absent
      [] m.myIDs # <<>> /\ Mine(m, items) # {} -> Newest(items, Mine(m, items)).item
      [] items[1].id = Committed -> items[1].item
      [] m.myIDs = <<>> -> OutOfRange
      [] OTHER -> Absent

Read(s, i, k) == checkItem(s.maps[i], s.theMap[k])
RangeKeys(s, i) == {k \in Keys : Read(s, i, k) # Absent}

\* internalWrite: overwrites the map's own item or appends one.
internalWrite(s, i, k, v) ==
    LET id == s.maps[i].myIDs[1]
        own == {j \in DOMAIN s.theMap[k] : s.theMap[k][j].id = id}
    IN IF own # {} THEN [s EXCEPT !.theMap[k] = [j \in DOMAIN @ |-> IF j \in own THEN Item(id, v) ELSE @[j]]]
       ELSE [s EXCEPT !.theMap[k] = Append(@, Item(id, v)), !.maps[i].myItems = @ \cup {k}]

Write(s, i, k, v) ==
    IF s.maps[i].copied \/ s.maps[i].done # "notDone" THEN Fails(s) ELSE internalWrite(s, i, k, v)

Copy(s, i) ==
    LET new == Len(s.maps) + 1
        t == [s EXCEPT !.nxtID = @ + 1, !.maps[i].copied = TRUE]
        ids == <<t.nxtID>> \o s.maps[i].myIDs
    IN CASE s.maps[i].done = "notDone" ->
               [t EXCEPT !.maps = Append([@ EXCEPT ![i].dependents = @ \cup {new}], NewMap(i, ids))]
         [] s.maps[i].done = "doneKeep" -> [t EXCEPT !.maps = Append(@, NewMap(NoMap, ids))]
         [] OTHER -> Fails(s)

removeID(items, id) == SelectSeq(items, LAMBDA e : e.id # id)

\* The commit of DoneKeep: the map's item becomes the first one, in place of the one committed
\* before.
CommitKept(items, id) ==      \* variant: an item that is not the first stays where it is
    [j \in DOMAIN items |-> IF items[j].id = id THEN [items[j] EXCEPT !.id = Committed] ELSE items[j]]
Commit(items, id) ==
    LET mine == CHOOSE e \in ToSet(items) : e.id = id
        rest == removeID(items, id)
    IN <<Item(Committed, mine.item)>> \o IF rest # <<>> /\ rest[1].id = Committed THEN Tail(rest) ELSE rest

\* recRemoveID: the maps below i no longer need its id.
RECURSIVE Below(_, _)
Below(s, i) == {i} \cup UNION {Below(s, j) : j \in s.maps[i].dependents}
recRemoveID(s, i, id) ==
    IF \E j \in Below(s, i) : id \notin ToSet(s.maps[j].myIDs) THEN Fails(s)
    ELSE [s EXCEPT !.maps = [j \in DOMAIN @ |->
             IF j \in Below(s, i) THEN [@[j] EXCEPT !.myIDs = SelectSeq(@, LAMBDA x : x # id)] ELSE @[j]]]

DoneKeep(s, i) ==
    LET m == s.maps[i]
        id == m.myIDs[1]
        t == recRemoveID([s EXCEPT !.maps[i].done = "doneKeep",
                                   !.theMap = [k \in Keys |-> IF k \in m.myItems THEN Commit(@[k], id) ELSE @[k]]], i, id)
    IN IF m.parent # NoMap \/ Len(m.myIDs) # 1 \/ \E j \in m.dependents : s.maps[j].done = "doneKeep" THEN Fails(s)
       ELSE [t EXCEPT !.maps = [j \in DOMAIN @ |->
                CASE j = i -> [@[j] EXCEPT !.dependents = {}]
                  [] j \in m.dependents -> [@[j] EXCEPT !.parent = NoMap]
                  [] OTHER -> @[j]]]

\* internalDoneClear: what the map has written is taken out of the table.
internalDoneClear(s, i) ==
    LET m == s.maps[i]
    IN IF m.dependents # {} \/ (m.parent # NoMap /\ i \notin s.maps[m.parent].dependents) THEN Fails(s)
       ELSE [s EXCEPT !.theMap = [k \in Keys |-> IF k \in m.myItems THEN removeID(@[k], m.myIDs[1]) ELSE @[k]],
                      !.maps = [j \in DOMAIN @ |->
                         CASE j = i -> [@[j] EXCEPT !.done = "doneClearFinish"]
                           [] j = m.parent -> [@[j] EXCEPT !.dependents = @ \ {i}]
                           [] OTHER -> @[j]]]

\* doneClearRec: the dependents first, in the order they were made; it stops at the first that is
\* not to be cleared.
RECURSIVE doneClearRec(_, _), clearAll(_, _)
clearAll(s, D) ==
    IF D = {} THEN [s |-> s, cleared |-> TRUE]
    ELSE LET i == CHOOSE i \in D : \A j \in D : i <= j
             r == doneClearRec(s, i)
         IN IF r.cleared THEN clearAll(r.s, D \ {i}) ELSE r
doneClearRec(s, i) ==
    LET r == clearAll(s, s.maps[i].dependents)
    IN CASE ~r.cleared -> r
         [] r.s.maps[i].done = "notDone" -> [r EXCEPT !.cleared = FALSE]
         [] r.s.maps[i].done = "doneClearStart" -> [r EXCEPT !.s = internalDoneClear(r.s, i)]
         [] OTHER -> [r EXCEPT !.s = Fails(r.s)]

RECURSIVE TopCleared(_, _)
TopCleared(s, i) ==
    LET p == s.maps[i].parent
    IN IF p # NoMap /\ s.maps[p].done = "doneClearStart" THEN TopCleared(s, p) ELSE i

DoneClear(s, i) ==
    LET t == [s EXCEPT !.maps[i].done = "doneClearStart"]
    IN doneClearRec(t, TopCleared(t, i)).s

-----------------------------------------------------------------------------
(* The calls its users make.  A state machine writes to its map until the  *)
(* next one is started from it (StartIndex copies the map); consensus      *)
(* keeps one chain of them, in order, and clears the others, in any order. *)

Made == DOMAIN table.maps
Kept == {i \in Made : table.maps[i].done = "doneKeep"}
LastKept == CHOOSE i \in Kept : Kept \subseteq line[i]
OnChain(i) == Kept \subseteq line[i]
Usable(i) == table.maps[i].done = "notDone" /\ OnChain(i)

CwInit ==
    /\ table = NewCopyWriteMap
    /\ ref = <<[k \in Keys |-> Absent]>>
    /\ line = <<{1}>>
    /\ writes = 0

Put(i, k, v) ==
    /\ Usable(i) /\ ~table.maps[i].copied /\ writes < MaxWrites
    /\ table' = Write(table, i, k, v)
    /\ ref' = [ref EXCEPT ![i][k] = v]
    /\ writes' = writes + 1
    /\ UNCHANGED line

MakeCopy(i) ==
    /\ (Usable(i) \/ (Kept # {} /\ i = LastKept)) /\ Len(table.maps) < MaxMaps
    /\ table' = Copy(table, i)
    /\ ref' = Append(ref, ref[i])
    /\ line' = Append(line, line[i] \cup {Len(ref) + 1})
    /\ UNCHANGED writes

Keep(i) ==
    /\ Usable(i) /\ line[i] \ {i} \subseteq Kept
    /\ table' = DoneKeep(table, i)
    /\ UNCHANGED <<ref, line, writes>>

Clear(i) ==
    /\ table.maps[i].done = "notDone" /\ i # 1
    /\ table' = DoneClear(table, i)
    /\ UNCHANGED <<ref, line, writes>>

CwNext ==
    /\ ~table.panicked
    /\ \E i \in Made :
          \/ \E k \in Keys, v \in Values : Put(i, k, v)
          \/ MakeCopy(i)
          \/ Keep(i)
          \/ Clear(i)

\* Each state machine reads its own version: what it or the ones it was copied from have written,
\* whatever is written, kept or cleared elsewhere.  The map kept last answers for the keys that
\* are committed.
OwnVersions ==
    /\ ~table.panicked
    /\ \A i \in Made : Usable(i) => \A k \in Keys : Read(table, i, k) = ref[i][k]
    /\ Kept # {} => \A k \in Keys : ref[LastKept][k] # Absent => Read(table, LastKept, k) = ref[LastKept][k]
=============================================================================
