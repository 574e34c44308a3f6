------------------------------- MODULE MCParts -------------------------------
EXTENDS Integers, Sequences, FiniteSets, SequencesExt, FiniteSetsExt

VARIABLES part, v1, v2, v3, v4, v5

-----------------------------------------------------------------------------
(* Wire: every type of message with one kind of key, every kind of key with three types. *)
KeyConf(fam, byIndex, multi) ==
    [fam |-> fam, byIndex |-> byIndex, multi |-> multi, vrf |-> fam \in {"ec", "bls", "blspart", "sleep", "sleepthrsh"},
     coin |-> fam = "sleepcoin", pubID |-> IF fam = "edpart" THEN 65 ELSE 63, sigID |-> IF fam = "edpart" THEN 66 ELSE 64]
DualConf(k1, k2, coin, secondary) ==
    [fam |-> "dual", key1 |-> k1, key2 |-> k2, useForCoin |-> coin, useForSecondary |-> secondary, byIndex |-> FALSE, multi |-> FALSE]
WireKeys ==
    {KeyConf(f, b, FALSE) : f \in {"ec", "ed", "edpart", "qsafe", "bls", "blspart", "sleep", "sleepcoin", "sleepthrsh"}, b \in BOOLEAN}
    \cup {KeyConf("bls", FALSE, TRUE), KeyConf("sleep", FALSE, TRUE)}
    \cup {DualConf(KeyConf("ec", FALSE, FALSE), KeyConf("blspart", TRUE, FALSE), "secondary", s) : s \in {"normal", "secondary"}}
    \cup {DualConf(KeyConf("edpart", FALSE, FALSE), KeyConf("bls", FALSE, FALSE), "normal", s) : s \in {"normal", "secondary"}}
HasCoin(k) ==
    \/ k.fam \in {"edpart", "blspart", "sleepcoin", "sleepthrsh"}
    \/ k.fam = "dual" /\ (IF k.useForCoin = "normal" THEN k.key1.fam ELSE k.key2.fam) \in {"edpart", "blspart"}
AllTypes == KeyConf("ec", FALSE, FALSE)
WireConfigs ==
    {[key |-> k, signed |-> s, randHash |-> r, partial |-> q] :
        k \in WireKeys, s \in BOOLEAN, r \in BOOLEAN, q \in BOOLEAN}
    \ {c \in [key : WireKeys, signed : BOOLEAN, randHash : BOOLEAN, partial : BOOLEAN] :
            \/ c.key # AllTypes /\ (c.randHash \/ c.partial)
            \/ ~c.signed /\ (c.key.fam # "ec" \/ c.randHash \/ c.partial)
            \/ c.randHash /\ c.partial}
WirePub(n) == [index |-> <<n>>, bytes |-> <<10 + n, 20 + n>>, ids |-> <<n, n + 1>>]
VRFAllowed(k) == k.fam # "dual" /\ k.vrf
WireItems(k) ==
    {<<[pub |-> WirePub(1), sig |-> <<3, 4>>, vrf |-> v, shared |-> s, encrypted |-> FALSE]>> :
        v \in IF VRFAllowed(k) THEN {<<>>, <<5, 6>>} ELSE {<<>>},
        s \in IF k.fam \in {"blspart", "sleepthrsh"} \/ k.multi THEN BOOLEAN ELSE {FALSE}}
WireItemSeqs(k) ==
    {is \in WireItems(k) : is[1].shared => is[1].vrf = <<>>}
    \cup {<<[pub |-> WirePub(2), sig |-> <<5, 4>>, vrf |-> <<>>, shared |-> FALSE, encrypted |-> e],
            [pub |-> WirePub(1), sig |-> <<3, 3>>, vrf |-> <<>>, shared |-> FALSE, encrypted |-> FALSE]>> : e \in BOOLEAN}
H1 == <<81, 82>>
H2 == <<82, 81>>
WireFields(c) ==
    [AuxBoth |-> {<<<<1>>, <<2>>>>}, AuxStage0 |-> {<<<<2>>, <<1>>>>}, AuxStage1 |-> {<<<<1>>, <<0>>>>},
     AuxProof |-> {<<<<0>>, <<1>>>>, <<<<1>>, <<2>>>>}, BV0 |-> {<<<<1>>, <<0>>>>, <<<<1>>, <<1>>>>}, BV1 |-> {<<<<2>>, <<1>>>>},
     CoinPre |-> {<<<<2>>>>}, Hash |-> {<<H1>>, <<H2>>}, MvEcho |-> {<<H1, <<1>>>>, <<H1, <<2>>>>}, MvCommit |-> {<<H2, <<1>>>>},
     MvEchoHash |-> {IF c.randHash THEN <<H1, H2, <<1>>>> ELSE <<H1, <<1>>>>},
     MvInit |-> {<<<<1>>, <<0>>>>, <<<<1, 2, 3>>, <<3>>>>},
     MvInitSupport |-> IF c.randHash THEN {<<<<1, 2>>, <<3>>, H1, H2>>, <<<<>>, <<3>>, H1, H2>>} ELSE {<<<<1>>, <<3>>, H1>>},
     MvMultiInit |-> {<<<<1>>, <<2, 3>>>>, <<<<2>>>>}, Idx |-> {<<<<1>>, <<2>>, <<0>>>>, <<<<1>>>>},
     EventInfo |-> {<<<<1>>, <<2>>, H1, <<3>>, <<4>>, H2, <<5, 6>>>>, <<<<1>>, <<2>>, H1, <<3>>, <<4>>, H2, <<2>>, <<4>>, H1, <<>>>>},
     SimpleCons |-> IF c.key = AllTypes THEN {<<<<11, 21>>>>} ELSE {}]
WirePlain ==
    {[t |-> "NoProgress", v |-> <<<<1>>, <<7>>>>, idx |-> <<3>>], [t |-> "MvRequestRecover", v |-> <<H1>>, idx |-> <<3, 4>>],
     [t |-> "IdxRecover", v |-> <<<<1>>, <<0>>>>, dep |-> <<<<<<1>>, <<2>>, H1>>>>, idx |-> <<3>>],
     [t |-> "IdxRecover", v |-> <<<<5>>, <<1>>>>, dep |-> <<>>, idx |-> <<2>>],
     [t |-> "ConsMsg", v |-> <<>>, idx |-> <<>>], [t |-> "VrfProof", v |-> <<H1>>, idx |-> <<3>>],
     [t |-> "NetworkTest", v |-> <<<<6>>>>, idx |-> <<3>>], [t |-> "NetworkTest", v |-> <<<<6>>>>, idx |-> <<4>>]}
WireHeaders(c) ==
    LET ts == IF c.key = AllTypes THEN DOMAIN WireFields(c) ELSE {"AuxProof", "MvInit"}
    IN  UNION {{[t |-> t, v |-> v, idx |-> i, items |-> is] : v \in WireFields(c)[t],
                i \in IF t = "MvInit" THEN {<<1>>, <<1, 2>>} ELSE {<<1>>},
                is \in IF t = "AuxProof" THEN WireItemSeqs(c.key)
                       ELSE {js \in WireItems(c.key) : ~js[1].shared /\ js[1].vrf = <<>>}} : t \in ts}
        \cup (IF HasCoin(c.key) THEN {[t |-> "Coin", v |-> <<<<1>>>>, idx |-> <<1>>, items |-> is] :
                                        is \in {js \in WireItemSeqs(c.key) : \A i \in DOMAIN js : js[i].vrf = <<>>}} ELSE {})
        \cup (IF c.key = AllTypes THEN WirePlain ELSE {})
(* Proposals: blocks up to one transaction too many, transactions up to the limit of participants and one that is too *)
(* large, initial blocks, and transfers with up to too many inputs or outputs.                                       *)
BlockPub(n) == <<10 + n, 20 + n>>
BlockTx(s, r, amount) ==
    [senders |-> [i \in 1..s |-> [pub |-> BlockPub(i), counter |-> 1, amount |-> amount]],
     recipiants |-> [i \in 1..r |-> [pub |-> BlockPub(3 - i), amount |-> amount]],
     sigs |-> [i \in 1..s |-> <<3, i>>]]
BlockTxs == <<BlockTx(1, 1, 1), BlockTx(1, 2, 1), BlockTx(2, 1, 2)>>
BlockAssets == {<<>>, <<[id |-> H1, value |-> 1]>>, <<[id |-> H2, value |-> 2], [id |-> H1, value |-> 3]>>,
                <<[id |-> H1, value |-> 1], [id |-> H2, value |-> 1], [id |-> <<82, 82>>, value |-> 1]>>}
BlockProposals ==
    {[kind |-> "block", index |-> 1, prev |-> H1, txs |-> [k \in DOMAIN f |-> BlockTxs[f[k]]]] :
        f \in UNION {[1..n -> 1..3] : n \in 0..3} \cup {[k \in 1..4 |-> 1]}}
    \cup {[kind |-> "block", index |-> 1, prev |-> H2, txs |-> <<BlockTx(s, r, 3)>>] : s \in 1..2, r \in 1..2}
    \cup {[kind |-> "init", accounts |-> [k \in 1..n |-> [pub |-> BlockPub(k), balance |-> k]]] : n \in 0..2}
    \cup {[kind |-> "assets", asset |-> a,
            accounts |-> [k \in 1..n |-> [pub |-> BlockPub(k), asset |-> [id |-> H1, value |-> k]]]] : n \in 0..2, a \in {"basic", "value"}}
    \cup {[kind |-> "transfer", asset |-> a, sender |-> BlockPub(1), inputs |-> in, outputs |-> out,
            receivers |-> [k \in DOMAIN out |-> BlockPub(k)]] :
            a \in {"basic", "value"}, in \in {<<>>, <<H1>>, <<H1, H2>>, <<H2, H1, H2, H1, H2>>}, out \in BlockAssets}
    \cup {[kind |-> "list", ids |-> ids] : ids \in {<<>>, <<3>>, <<3, 4>>}}
WW == INSTANCE Blocks WITH MaxAdditionalIndices <- 4, MaxHeaders <- 2, Pieces <- {2, 3}, Followers <- {"AuxProof", "NetworkTest"},
                           Configs <- WireConfigs, Headers <- WireHeaders,
                           MaxParticipants <- 2, MaxTxSize <- 15, maxBlockTx <- 3, MaxAssetSize <- 100, MaxSigSize <- 2,
                           SignCausalAssets <- FALSE, Proposals <- BlockProposals,
                           conf <- v1, sent <- v2, buf <- v3, got <- v4, pos <- v5
-----------------------------------------------------------------------------
CW == INSTANCE CopyWriteMap WITH Keys <- {1}, Values <- {1, 2}, MaxMaps <- 4, MaxWrites <- 4,
                                 table <- v1, ref <- v2, line <- v3, writes <- v4
SM == INSTANCE StateMachines WITH Kinds <- {"counter", "binary", "mv", "simple"}, Modes <- {"seq", "concurrent", "chain"},
                                  Proposers <- {1, 2}, AllowConcurrent <- 2, LastProposal <- 2, MaxIndex <- 4,
                                  use <- v1, sms <- v2, shared <- v3, pre <- v4, decs <- v5
ST == INSTANCE StateMachines WITH Kinds <- {"tx"}, Modes <- {"seq", "concurrent", "chain"},
                                  Proposers <- {1}, AllowConcurrent <- 2, LastProposal <- 2, MaxIndex <- 3,
                                  use <- v1, sms <- v2, shared <- v3, pre <- v4, decs <- v5

-----------------------------------------------------------------------------
(* Currency: two of the node's own keys and one index after another, or one key and chains of pre-decisions. *)
CU == INSTANCE Currency WITH MyKeys <- {1, 2}, OtherKeys <- {3}, InitBalance <- <<1, 1, 1>>, Recipiants <- <<{3}, {1}, {2}>>,
                             MaxUint <- 3, PoolSize <- 1, MaxProposeSize <- 1, Chains <- FALSE, MaxIndex <- 2,
                             sms <- v1, glob <- v2, pool <- v3, threads <- v4, decs <- v5
CC == INSTANCE Currency WITH MyKeys <- {1}, OtherKeys <- {2}, InitBalance <- <<1, 1>>, Recipiants <- <<{2}, {1}>>,
                             MaxUint <- 3, PoolSize <- 2, MaxProposeSize <- 2, Chains <- TRUE, MaxIndex <- 2,
                             sms <- v1, glob <- v2, pool <- v3, threads <- v4, decs <- v5
(* Causal: one transfer each with nil decisions, or two without; either with a crash. *)
CN == INSTANCE Causal WITH Node <- {1, 2}, InitValue <- <<3, 3>>, Recipients <- <<{2}, {1}>>, LastProposal <- 1,
                           WarmUpInstances <- 1, MaxAdditionalIndices <- 4, MaxCrashes <- 1, MaxNil <- 1,
                           st <- v1, disk <- v2, agreed <- v3, env <- v4
CT == INSTANCE Causal WITH Node <- {1, 2}, InitValue <- <<3, 3>>, Recipients <- <<{2}, {1}>>, LastProposal <- 2,
                           WarmUpInstances <- 1, MaxAdditionalIndices <- 4, MaxCrashes <- 1, MaxNil <- 0,
                           st <- v1, disk <- v2, agreed <- v3, env <- v4
EG == INSTANCE EventGraph WITH Node <- 1..4, Faults <- 1, me <- 1, Slow <- 4, KeepPast <- 1, MaxEvents <- 9,
                               Receivers <- {{1, 2, 3}, {}, {2}}, MaxSwitches <- 2,
                               all <- v1, g <- v2, gs <- v3, net <- v4
-----------------------------------------------------------------------------
(* Bit ids: items of the first two bytes and one far off, which the int-list encoding of BitID is smaller for. *)
BitItems == {0, 1, 8}
BI == INSTANCE BitIDs WITH W <- 2, Item <- BitItems, MaxCount <- 3,
                           Operands <- {o \in [BitItems -> 0..2] : MapThenSumSet(LAMBDA i : o[i], BitItems) <= 2},
                           obj <- v1, spare <- v2, ref <- v3
(* Signatures: single and threshold signatures of two messages, one of them signed with coin proofs; multi-signatures *)
(* that share members, repeat one, or are invalid.                                                                   *)
PlainSig(p, ok) == [pub |-> p, ok |-> ok]
PlainIncoming ==
    [hash : {"a", "b"}, sigs : {{PlainSig(1, TRUE)}, {PlainSig(2, TRUE)}, {PlainSig(1, TRUE), PlainSig(3, TRUE)},
                                {PlainSig(3, TRUE), PlainSig(2, FALSE)}}]
    \cup [hash : {"a"}, sigs : {{PlainSig(-1, TRUE)}, {PlainSig(-1, FALSE)}}]
UnsignedIncoming == [hash : {"a", "b"}, sigs : {{PlainSig(i, TRUE) : i \in S} : S \in {{1}, {1, 2}, {2, 3}}}]
MultiSig(bid, ok) == [bid |-> bid, ok |-> ok]
MultiIncoming ==
    [hash : {"a"}, sigs : {<<MultiSig(<<1>>, TRUE)>>, <<MultiSig(<<1, 2>>, TRUE)>>, <<MultiSig(<<1, 1, 3>>, TRUE)>>,
                           <<MultiSig(<<2, 3>>, TRUE), MultiSig(<<3>>, TRUE)>>,
                           <<MultiSig(<<1>>, FALSE), MultiSig(<<2>>, TRUE)>>,
                           <<MultiSig(<<1, 2>>, TRUE), MultiSig(<<2, 3>>, FALSE)>>}]
SP == INSTANCE SigState WITH UseMultiSig <- FALSE, Member <- 1..3, T <- 2, Hash <- {"a", "b"}, CoinProof <- {"b"}, Unsigned <- {},
                             Thread <- {"t1", "t2"}, Incoming <- PlainIncoming, Counts <- 1..3,
                             msgs <- v1, ids <- v2, total <- v3, threads <- v4, seen <- v5
SU == INSTANCE SigState WITH UseMultiSig <- FALSE, Member <- 1..3, T <- 2, Hash <- {"a", "b"}, CoinProof <- {}, Unsigned <- {"a", "b"},
                             Thread <- {"t1", "t2"}, Incoming <- UnsignedIncoming, Counts <- {},
                             msgs <- v1, ids <- v2, total <- v3, threads <- v4, seen <- v5
SB == INSTANCE SigState WITH UseMultiSig <- TRUE, Member <- 1..3, T <- 2, Hash <- {"a"}, CoinProof <- {}, Unsigned <- {},
                             Thread <- {"t1", "t2"}, Incoming <- MultiIncoming, Counts <- {0, 2, 3},
                             msgs <- v1, ids <- v2, total <- v3, threads <- v4, seen <- v5

-----------------------------------------------------------------------------
CONSTANT Parts

WireInit == (part = "wire" /\ WW!Init) \/ (part = "blocks" /\ WW!BlockInit)
MapInit == part = "map" /\ CW!CwInit /\ v5 = 0
MachinesInit == (part = "machines" /\ SM!Init) \/ (part = "txs" /\ ST!Init)
CurrencyInit == (part = "currency" /\ CU!Init) \/ (part = "chains" /\ CC!Init)
CausalInit == v5 = 0 /\ ((part = "causal" /\ CN!Init) \/ (part = "causal2" /\ CT!Init))
GraphInit == part = "graph" /\ EG!Init /\ v5 = 0
BitIDInit == part = "bitids" /\ BI!Init /\ v4 = 0 /\ v5 = 0
SigInit == (part = "plainsigs" /\ SP!Init) \/ (part = "unsigned" /\ SU!Init) \/ (part = "multisigs" /\ SB!Init)
Init ==
    /\ part \in Parts
    /\ \/ WireInit \/ MapInit \/ MachinesInit \/ CurrencyInit
       \/ CausalInit \/ GraphInit \/ BitIDInit \/ SigInit

WireNext == (part = "wire" /\ WW!Next) \/ (part = "blocks" /\ WW!BlockNext)
MapNext == part = "map" /\ CW!CwNext /\ UNCHANGED v5
MachinesNext == (part = "machines" /\ SM!Next) \/ (part = "txs" /\ ST!Next)
CurrencyNext == (part = "currency" /\ CU!Next) \/ (part = "chains" /\ CC!Next)
CausalNext == UNCHANGED v5 /\ ((part = "causal" /\ CN!Next) \/ (part = "causal2" /\ CT!Next))
GraphNext == part = "graph" /\ EG!Next /\ UNCHANGED v5
BitIDNext == part = "bitids" /\ BI!Next /\ UNCHANGED <<v4, v5>>
SigNext == (part = "plainsigs" /\ SP!Next) \/ (part = "unsigned" /\ SU!Next) \/ (part = "multisigs" /\ SB!Next)
Next ==
    /\ UNCHANGED part
    /\ \/ WireNext \/ MapNext \/ MachinesNext \/ CurrencyNext
       \/ CausalNext \/ GraphNext \/ BitIDNext \/ SigNext

Spec == Init /\ [][Next]_<<part, v1, v2, v3, v4, v5>>

\* Messages, proposals and blocks are read back as they were written, and what
\* was not written by the code is refused (Deserialize, Decode).
RoundTrip ==
    /\ part = "wire" => WW!RoundTrip
    /\ part = "blocks" => WW!BlockRoundTrip
\* A version of the map keeps its entries whatever is written to other versions
\* (CopyWriteMap).
OwnVersions == part = "map" => CW!OwnVersions
\* A state machine that restarts from the decisions on disk is as it was (DoneClear,
\* StartIndex).
Replayable ==
    /\ part = "machines" => SM!Replayable
    /\ part = "txs" => ST!Replayable
\* In causal consensus a node that is behind can be sent what it has not decided
\* (GenChildIndices, parentGcIdx, AddFutureMessage).
CatchUp ==
    /\ part = "causal" => CN!CatchUp
    /\ part = "causal2" => CT!CatchUp
\* The count of a message's signers, on which the thresholds depend, is that of the
\* members whose valid signatures were taken (storeMsg of the message states).
SignersCounted ==
    /\ part = "plainsigs" => SP!SignersCounted
    /\ part = "unsigned" => SU!SignersCounted
    /\ part = "multisigs" => SB!SignersCounted
====
