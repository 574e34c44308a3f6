------------------------------- MODULE Currency -------------------------------
(***************************************************************************)
(* The currency state machine at one node: statemachine/currency with the  *)
(* transaction pool of statemachine/transactionsm.                         *)
(*                                                                         *)
(* The main loop starts a machine for every index, asks it for a proposal, *)
(* gives it its decision and keeps or clears it (ConsInterfaceState).  One *)
(* thread for each of the node's keys makes transactions and submits them  *)
(* to the pool.  Both sides read the account table that                    *)
(* proposeThreadAccTable points to, which the main loop moves from machine *)
(* to machine.  An action is what one side does between taking and         *)
(* releasing its locks (accountMutex and the mutex of the pool).           *)
(*                                                                         *)
(* Amounts are unsigned integers up to MaxUint.  Accounts are the keys of  *)
(* the initial block.  The hash of a block is the block, and a signature   *)
(* is the bytes it was made over: whether the signed part is unchanged.    *)
(***************************************************************************)
EXTENDS Integers, Sequences, FiniteSets, SequencesExt

CONSTANTS MyKeys, OtherKeys,   \* keys of this node and of the others, as integers in the order of SortPub
          InitBalance,         \* InitBlock: key -> amount
          Recipiants,          \* bound: key -> whom its transactions go to
          MaxUint,             \* math.MaxUint64
          PoolSize, MaxProposeSize,
          Chains,              \* whether pre-decisions are made (MvCons3), or each index follows the last
          MaxIndex             \* bound: indexes decided

VARIABLES sms,       \* ProposalInfo, with the machine made only to propose as "tmp"
          glob,      \* currencyGlobalState and the step the main loop is at
          pool,      \* TransactionPool
          threads,   \* runTxProposeThread for each key
          decs       \* decisions, own proposals, and what went wrong

currencyVars == <<sms, glob, pool, threads, decs>>

Keys == MyKeys \cup OtherKeys
Nil == [nil |-> TRUE]
None == [index |-> -1]
Total(s) == FoldLeft(LAMBDA a, b : a + b, 0, s)

-----------------------------------------------------------------------------
(* Transactions and account tables *)
CheckOverflow(s) == Total(s) > MaxUint
SumUint64(s) == Total(s) % (MaxUint + 1)
NewAccount(b) == [txCounter |-> 0, balance |-> b]

ValidateTransferTxFormat(tx) ==
    LET n == Len(tx.senders)
    IN  /\ n > 0
        /\ \A i \in 1..(n - 1) : tx.senders[i] < tx.senders[i + 1]        \* sorted, unique
        /\ Len(tx.counters) = n /\ Len(tx.sends) = n /\ Len(tx.recipiants) = Len(tx.receives)
        /\ ~CheckOverflow(tx.sends) /\ ~CheckOverflow(tx.receives)
        /\ SumUint64(tx.sends) > 0 /\ SumUint64(tx.sends) >= SumUint64(tx.receives)
        /\ IsInjective(tx.recipiants)

ValidateTx(table, tx, validateSig) ==
    /\ ValidateTransferTxFormat(tx)
    /\ \A i \in DOMAIN tx.senders :
            /\ table[tx.senders[i]].txCounter + 1 = tx.counters[i]
            /\ table[tx.senders[i]].balance >= tx.sends[i]
    /\ validateSig => tx.signed

\* ConsumeTx with no leftOverPub: what is sent and not received is lost.  Nil stands for a panic.
Debit(table, tx, i) ==
    LET acc == table[tx.senders[i]]
    IN  IF acc.txCounter + 1 # tx.counters[i] \/ acc.balance < tx.sends[i] THEN Nil
        ELSE [table EXCEPT ![tx.senders[i]] = [txCounter |-> tx.counters[i], balance |-> acc.balance - tx.sends[i]]]
Credit(table, tx, i) ==
    IF CheckOverflow(<<table[tx.recipiants[i]].balance, tx.receives[i]>>) THEN Nil
    ELSE [table EXCEPT ![tx.recipiants[i]].balance = @ + tx.receives[i]]
ConsumeTx(table, tx) ==
    LET debited == FoldLeft(LAMBDA t, i : IF t = Nil THEN Nil ELSE Debit(t, tx, i), table, [i \in DOMAIN tx.senders |-> i])
    IN  FoldLeft(LAMBDA t, i : IF t = Nil THEN Nil ELSE Credit(t, tx, i), debited, [i \in DOMAIN tx.recipiants |-> i])

\* what a propose thread sends: 1 to some account
GenerateTx(table, k, r) ==
    [senders |-> <<k>>, counters |-> <<table[k].txCounter + 1>>, sends |-> <<1>>,
     recipiants |-> <<r>>, receives |-> <<1>>, signed |-> TRUE]

-----------------------------------------------------------------------------
(* The pool.  A transaction is in conflict with the others of its senders; map holds the senders. *)
Senders(tx) == ToSet(tx.senders)
Live(pl) == SelectSeq(pl.txs, LAMBDA tx : tx # Nil)
MinProposeSize == Cardinality(MyKeys)

sendTx(pl) ==
    LET size == Len(Live(pl))
        taken == SubSeq(Live(pl), 1, IF size < MaxProposeSize THEN size ELSE MaxProposeSize)
        full(i) == Len(SelectSeq(SubSeq(pl.txs, 1, i), LAMBDA tx : tx # Nil)) = MaxProposeSize
        cut == IF size < MaxProposeSize THEN Len(pl.txs)
               ELSE CHOOSE i \in DOMAIN pl.txs : full(i) /\ ~full(i - 1)
    IN  [pl EXCEPT !.txs = SubSeq(@, cut + 1, Len(@)), !.map = @ \ UNION {Senders(taken[i]) : i \in DOMAIN taken},
                   !.size = @ - Len(taken), !.pending = {}, !.ret = <<taken>>]

SubmitTransactionIfValid(pl, tx, valid) ==
    LET in == [pl EXCEPT !.txs = Append(@, tx), !.map = @ \cup Senders(tx), !.size = @ + 1]
        ok == pl.size < PoolSize /\ pl.map \cap Senders(tx) = {} /\ valid
        after == IF ok THEN in ELSE pl
    IN  [pool |-> IF pl.size < PoolSize /\ after.size >= MinProposeSize /\ after.pending # {} THEN sendTx(after) ELSE after,
         ok |-> ok]

PoolGetProposal(pl, i) ==
    IF pl.size >= MinProposeSize \/ pl.closed THEN sendTx(pl) ELSE [pl EXCEPT !.pending = @ \cup {i}]

ValidatePool(pl, table) ==
    LET kept == [i \in DOMAIN pl.txs |->
                    IF pl.txs[i] # Nil /\ ValidateTx(table, pl.txs[i], FALSE) THEN pl.txs[i] ELSE Nil]
        first == {i \in DOMAIN kept : kept[i] # Nil /\ \A j \in 1..(i - 1) : kept[j] = Nil}
        rest == IF first = {} THEN <<>> ELSE SubSeq(kept, CHOOSE i \in first : TRUE, Len(kept))
        gone == {i \in DOMAIN kept : pl.txs[i] # Nil /\ kept[i] = Nil}
    IN  [pl EXCEPT !.txs = rest, !.size = @ - Cardinality(gone), !.map = @ \ UNION {Senders(pl.txs[i]) : i \in gone}]

-----------------------------------------------------------------------------
(* Machines.  chain holds the transactions of the decided blocks: lastBlockIndex is its length and the hash *)
(* of the last block is the whole of it.                                                                    *)
Tmp == -1
Indexes == 0..MaxIndex
InitMachine ==
    [index |-> 0, table |-> [k \in Keys |-> NewAccount(InitBalance[k])], chain |-> <<>>, decided |-> FALSE, done |-> "DoneKeep"]
StartIndex(sm, i) == [sm EXCEPT !.index = i, !.decided = FALSE, !.done = "NotDone"]
Has(i) == sms[i] # None

deserializeBlock(sm, b) == b.index = Len(sm.chain) + 1 /\ b.prev = sm.chain
ValidateProposal(sm, b) == deserializeBlock(sm, b) /\ \A i \in DOMAIN b.txs : ValidateTx(sm.table, b.txs[i], TRUE)
Consumed(table, txs) ==
    FoldLeft(LAMBDA t, tx : IF t # Nil /\ ValidateTx(t, tx, TRUE) THEN ConsumeTx(t, tx) ELSE t, table, txs)
HasDecided(sm, b) ==
    IF b # Nil /\ deserializeBlock(sm, b)
    THEN [sm EXCEPT !.decided = TRUE, !.chain = Append(@, b.txs), !.table = Consumed(@, b.txs)]
    ELSE [sm EXCEPT !.decided = TRUE]

\* CheckDecisions: the decisions that are out of place and the transactions that could not be consumed
CheckDecisions(ds) ==
    LET bad(i) == ds[i].index # i \/ ds[i].prev # [k \in 1..(i - 1) |-> ds[k].txs]
        replay == FoldLeft(LAMBDA a, b : Consumed(a, b.txs), InitMachine.table, ds)
    IN  [errs |-> {i \in DOMAIN ds : bad(i)}, table |-> replay]

-----------------------------------------------------------------------------
(* runTxProposeThread.  The condition variable has no predicate: a thread is woken only while it waits. *)
ProposeTable == sms[glob.propose].table
Woken == [k \in MyKeys |-> IF threads[k].pc = "wait" THEN [threads[k] EXCEPT !.pc = "top"] ELSE threads[k]]
AtPc(k, pc) == threads[k].pc = pc

StartTry(k) ==
    /\ AtPc(k, "top")
    /\ glob' = [glob EXCEPT !.tryPropose = FALSE]
    /\ threads' = [threads EXCEPT ![k].pc = "generate"]
    /\ UNCHANGED <<sms, pool, decs>>
Generate(k, r) ==
    /\ AtPc(k, "generate")
    /\ LET old == threads[k].tx
           tx == IF old # Nil /\ ValidateTx(ProposeTable, old, FALSE) THEN old ELSE GenerateTx(ProposeTable, k, r)
       IN  threads' = [threads EXCEPT ![k] =
                [tx |-> tx, pc |-> IF ValidateTx(ProposeTable, tx, FALSE) THEN "submit" ELSE "failed"]]
    /\ UNCHANGED <<sms, glob, pool, decs>>
SubmitTransaction(k) ==
    /\ AtPc(k, "submit")
    /\ LET res == SubmitTransactionIfValid(pool, threads[k].tx, ValidateTx(ProposeTable, threads[k].tx, TRUE))
       IN  /\ pool' = res.pool
           /\ threads' = [threads EXCEPT ![k].pc = IF res.ok THEN "submitted" ELSE "failed"]
    /\ UNCHANGED <<sms, glob, decs>>
CheckClosed(k) ==
    /\ threads[k].pc \in {"submitted", "failed"}
    /\ threads' = [threads EXCEPT ![k].pc =
            CASE pool.closed -> "done"
              [] ~pool.closed /\ AtPc(k, "failed") /\ ~glob.tryPropose -> "sleep"
              [] OTHER -> "top"]
    /\ UNCHANGED <<sms, glob, pool, decs>>
Wait(k) ==
    /\ AtPc(k, "sleep")
    /\ threads' = [threads EXCEPT ![k].pc = "wait"]
    /\ UNCHANGED <<sms, glob, pool, decs>>

-----------------------------------------------------------------------------
(* The main loop.  at is the machine it works on and next what it does once the pool is validated. *)
Idle == glob.pc = "idle"
LocalIndex == Len(decs.list) + 1
Ready(j) == Has(j) /\ (j = 0 \/ sms[j].decided) /\ sms[j].done # "DoneClear"
Supports(i) == {j \in 0..(i - 1) : Ready(j) /\ (Chains \/ j = i - 1)}

\* GetProposal up to the point where the pool is asked.  CheckProposalNeeded makes a machine for the proposal
\* when the index has none yet, and does not keep it.
GetProposal(i, j) ==
    /\ Idle /\ i >= LocalIndex /\ i \notin glob.asked /\ j \in Supports(i)
    /\ Has(i) => ~sms[i].decided /\ j = 0
    /\ LET at == IF Has(i) THEN i ELSE Tmp
           switch == at = Tmp \/ glob.propose # at
       IN  /\ sms' = IF at = Tmp THEN [sms EXCEPT ![Tmp] = StartIndex(sms[j], i)] ELSE sms
           /\ glob' = [glob EXCEPT !.asked = @ \cup {i}, !.at = at, !.propose = at,
                                   !.pc = IF switch THEN "validate" ELSE "ask", !.next = "ask"]
    /\ UNCHANGED <<pool, threads, decs>>

validateAndRestartPropose ==
    /\ glob.pc = "validate"
    /\ pool' = ValidatePool(pool, sms[glob.at].table)
    /\ threads' = Woken
    /\ glob' = [glob EXCEPT !.pc = glob.next, !.tryPropose = TRUE]
    /\ UNCHANGED <<sms, decs>>

AskPool ==
    /\ glob.pc = "ask"
    /\ pool' = PoolGetProposal(pool, sms[glob.at].index)
    /\ glob' = [glob EXCEPT !.pc = "await"]
    /\ UNCHANGED <<sms, threads, decs>>

\* the rest of GetProposal, once the transactions are on txRetChan
GotProposal ==
    /\ glob.pc = "await" /\ pool.ret # <<>>
    /\ LET sm == sms[glob.at]
           b == [index |-> Len(sm.chain) + 1, prev |-> sm.chain, txs |-> pool.ret[1], by |-> "me"]
       IN  decs' = [decs EXCEPT !.own = @ \cup {[index |-> sm.index, block |-> b]},
                                !.invalid = @ \/ ~ValidateProposal(sm, b)]
    /\ pool' = [pool EXCEPT !.ret = <<>>]
    /\ glob' = [glob EXCEPT !.pc = "idle"]
    /\ UNCHANGED <<sms, threads>>

\* What other nodes propose: a transaction of one of their keys, one of which a faulty node sends more than is
\* received, and the same transaction twice.
OtherBlocks(sm) ==
    LET tx(k, r, s) == [GenerateTx(sm.table, k, r) EXCEPT !.sends = <<s>>]
        block(txs, by) == [index |-> Len(sm.chain) + 1, prev |-> sm.chain, txs |-> txs, by |-> by]
    IN  UNION {{block(<<tx(k, r, 1)>>, "other"), block(<<tx(k, r, 2)>>, "faulty"),
                block(<<tx(k, r, 1), tx(k, r, 1)>>, "faulty")} : <<k, r>> \in {p \in OtherKeys \X Keys : p[2] \in Recipiants[p[1]]}}
Accepted(i, j) ==
    {b \in {p.block : p \in {q \in decs.own : q.index = i}} \cup OtherBlocks(sms[j]) : ValidateProposal(sms[j], b)}

\* HasDecided up to the validation of the pool: consuming the block, and then pointing the threads at the table,
\* which no thread reads through the machine before.
Decide(i, j, b) ==
    LET sm == IF Has(i) THEN sms[i] ELSE StartIndex(sms[j], i)
        dec == HasDecided(sm, b)
        lost == b # Nil /\ b.by # "faulty" /\ dec.table # Nil
                /\ \E k \in DOMAIN b.txs : dec.table[b.txs[k].senders[1]].txCounter # b.txs[k].counters[1]
    IN  /\ Idle /\ j \in Supports(i)
        /\ sms' = [sms EXCEPT ![i] = dec]
        /\ glob' = [glob EXCEPT !.at = i, !.propose = IF b = Nil THEN @ ELSE i, !.tryPropose = TRUE,
                                !.pc = IF b = Nil THEN "keep" ELSE "validate", !.next = IF Chains THEN "idle" ELSE "keep"]
        /\ threads' = IF b = Nil THEN Woken ELSE threads
        /\ decs' = [decs EXCEPT !.list = IF Chains THEN @ ELSE Append(@, b), !.pre[i] = [support |-> j, block |-> b],
                                !.panicked = @ \/ dec.table = Nil, !.invalid = @ \/ lost]
        /\ UNCHANGED pool

\* CheckPreDecision (MvCons3) gives the machine its decision before it is final.
PreDecide(i, j, b) ==
    /\ Chains /\ i >= LocalIndex /\ decs.pre[i] = Nil /\ b \in Accepted(i, j)
    /\ Has(i) => i = 1 /\ j = 0
    /\ Decide(i, j, b)
\* DoneIndex without pre-decisions
DoneIndex(b) ==
    LET i == LocalIndex
    IN  /\ ~Chains /\ i <= MaxIndex /\ b \in Accepted(i, i - 1) \cup {Nil}
        /\ Decide(i, i - 1, b)

LastKept == CHOOSE i \in Indexes : Has(i) /\ sms[i].done = "DoneKeep"
                /\ \A j \in Indexes : Has(j) /\ sms[j].done = "DoneKeep" => j <= i
\* DoneIndex with pre-decisions: the machine is kept when it continues the last one kept, or else cleared
DoneIndexChain(onPath) ==
    LET i == LocalIndex
        b == decs.pre[i]
    IN  /\ Chains /\ Idle /\ i <= MaxIndex
        /\ IF onPath
           THEN /\ b # Nil /\ b.support = LastKept
                /\ glob' = [glob EXCEPT !.at = i, !.pc = "keep"]
                /\ decs' = [decs EXCEPT !.list = Append(@, b.block)]
           ELSE /\ glob' = IF Has(i) THEN [glob EXCEPT !.at = i, !.pc = "clear"] ELSE glob
                /\ decs' = [decs EXCEPT !.list = Append(@, Nil)]
        /\ UNCHANGED <<sms, pool, threads>>

\* DoneKeep: the threads move to the table unless they are already at a later one
Keeping ==
    /\ glob.pc = "keep"
    /\ LET ahead == sms[glob.propose].index > glob.at \/ glob.propose = glob.at
       IN  glob' = IF ahead THEN [glob EXCEPT !.pc = "commit"]
                   ELSE [glob EXCEPT !.propose = glob.at, !.pc = "validate", !.next = "commit"]
    /\ UNCHANGED <<sms, pool, threads, decs>>
DoneKeep ==
    /\ glob.pc = "commit"
    /\ sms' = [sms EXCEPT ![glob.at].done = "DoneKeep"]
    /\ glob' = [glob EXCEPT !.pc = "idle", !.committed = glob.at]
    /\ UNCHANGED <<pool, threads, decs>>

\* DoneClear: the pool is validated with the table of the machine that is cleared
Clearing ==
    /\ glob.pc = "clear"
    /\ glob' = IF glob.propose # glob.at THEN [glob EXCEPT !.pc = "cleared"]
               ELSE [glob EXCEPT !.propose = glob.committed, !.pc = "validate", !.next = "cleared"]
    /\ UNCHANGED <<sms, pool, threads, decs>>
DoneClear ==
    /\ glob.pc = "cleared"
    /\ sms' = [sms EXCEPT ![glob.at].done = "DoneClear"]
    /\ glob' = [glob EXCEPT !.pc = "idle"]
    /\ UNCHANGED <<pool, threads, decs>>

\* EndTest closes the pool
EndTest ==
    /\ Idle /\ LocalIndex > MaxIndex /\ ~pool.closed
    /\ pool' = [pool EXCEPT !.closed = TRUE]
    /\ threads' = Woken
    /\ UNCHANGED <<sms, glob, decs>>

-----------------------------------------------------------------------------
\* NewSimpleTxProposer, Init and the machine of index 1
Init ==
    /\ sms = [i \in Indexes \cup {Tmp} |->
                CASE i = 0 -> InitMachine [] i = 1 -> StartIndex(InitMachine, 1) [] OTHER -> None]
    /\ glob = [committed |-> 0, propose |-> 0, tryPropose |-> FALSE, asked |-> {}, pc |-> "idle", at |-> 0, next |-> "idle"]
    /\ pool = [txs |-> <<>>, map |-> {}, size |-> 0, pending |-> {}, closed |-> FALSE, ret |-> <<>>]
    /\ threads = [k \in MyKeys |-> [pc |-> "top", tx |-> Nil]]
    /\ decs = [list |-> <<>>, own |-> {}, pre |-> [i \in Indexes |-> Nil], panicked |-> FALSE, invalid |-> FALSE]

Next ==
    \/ \E k \in MyKeys : \/ StartTry(k) \/ SubmitTransaction(k) \/ CheckClosed(k) \/ Wait(k)
                         \/ \E r \in Recipiants[k] : Generate(k, r)
    \/ \E i \in 1..MaxIndex : \E j \in Supports(i) :
            \/ GetProposal(i, j)
            \/ \E b \in Accepted(i, j) : PreDecide(i, j, b)
    \/ \E b \in IF Chains \/ LocalIndex > MaxIndex THEN {} ELSE Accepted(LocalIndex, LocalIndex - 1) \cup {Nil} : DoneIndex(b)
    \/ \E onPath \in BOOLEAN : DoneIndexChain(onPath)
    \/ validateAndRestartPropose \/ AskPool \/ GotProposal
    \/ Keeping \/ DoneKeep \/ Clearing \/ DoneClear \/ EndTest

-----------------------------------------------------------------------------
\* However the threads interleave with the main loop and whichever machines are cleared: no check of ConsumeTx
\* fails, no table holds more money than there was, every table is what the decided blocks of its chain make of
\* the first one (which is what CheckDecisions computes again at the end, without an error), what this node
\* proposes passes its own ValidateProposal and is consumed whole when it is decided, the map and the size of
\* the pool are those of its transactions, and the threads never use the table of a machine that was cleared.
Money(table) == MapThenSumSet(LAMBDA k : table[k].balance, Keys)
Ledger ==
    LET ds == SelectSeq(decs.list, LAMBDA b : b # Nil)
    IN  /\ ~decs.panicked /\ ~decs.invalid
        /\ \A i \in DOMAIN sms : Has(i) =>
                /\ Money(sms[i].table) <= Money(InitMachine.table)
                /\ sms[i].table = FoldLeft(Consumed, InitMachine.table, sms[i].chain)
        /\ CheckDecisions(ds).errs = {}
        /\ Idle => CheckDecisions(ds).table = sms[glob.committed].table
        /\ pool.size = Len(Live(pool)) /\ pool.size <= PoolSize
        /\ pool.map = UNION {Senders(Live(pool)[i]) : i \in DOMAIN Live(pool)}
        /\ Cardinality(pool.map) = pool.size
        /\ sms[glob.propose].done # "DoneClear"
====
