------------------------------- MODULE RndNode ------------------------------
(***************************************************************************)
(* What the nodes of the randomised binary consensus algorithms            *)
(* consensus/cons/binconsrnd1 to binconsrnd6 have in common: the record of *)
(* a node's state, the counts of its message state, and the coins of       *)
(* consensus/coin.                                                         *)
(*                                                                         *)
(* A node s is a record.  The operations of an algorithm and of its coin   *)
(* map a node to the node after the operation; what it broadcasts on the   *)
(* way is appended to s.out, and a sanity check that fails sets s.panicked.*)
(* gc is the configuration: the algorithm, its coin and the options.       *)
(*                                                                         *)
(* A message is a triple of its header id, its round and its value (0 for  *)
(* the messages of the coin, which have none).                             *)
(***************************************************************************)
EXTENDS Members, Sequences

Bin == {0, 1}
Coin == 2               \* types.Coin: the value is the coin of the previous round
BothBin == 2            \* types.BothBin
Unknown == -1           \* the coin is not known, nothing is decided
Rounds(gc) == 0..gc.MaxRound                  \* MaxRound bounds the rounds of the instance
LastRound(s) == Cardinality(DOMAIN s.rs) - 1  \* which is the last one of a node's state

MaxOf(a, b) == IF a < b THEN b ELSE a

Broadcast(s, m) == [s EXCEPT !.out = Append(@, m)]
PanicIf(cond, s) == [s EXCEPT !.panicked = @ \/ cond]

\* GetTotalSigCount: the members that signed one of the messages of M.
TotalSigCount(s, M) == Cardinality(UNION {s.sigs[m] : m \in M})

-----------------------------------------------------------------------------
(* The coins.                                                              *)

CoinMessages(gc) ==
    CASE gc.coinType = "Strong"     -> {"Coin"} \X (1..gc.MaxRound) \X {0}
      [] gc.coinType = "StrongEcho" -> {"Coin", "CoinPre"} \X (1..gc.MaxRound) \X {0}
      [] OTHER                      -> {}

\* GetFixedCoinPresets, and New of the message states: rounds whose coin is fixed in advance.
\* BinConsRnd5 and BinConsRnd6 have two fixed coins of their own first, under a multi-value
\* reduction (isMv) that of round 1 is fixed.
MaxPresetRound(gc) ==
    (IF gc.alg \in {5, 6} THEN 2 ELSE 0)
    + (IF gc.UseFixedCoinPresets THEN 2 ELSE IF gc.isMv THEN 1 ELSE 0)
Preset(r) == IF r > 0 /\ r % 2 = 0 THEN 0 ELSE 1

\* getCoin: the bit of round r that the coin of node p shows once it is known.  The coins of
\* Known and Strong nodes show the same bits, those of Local nodes their own.
CoinBit(gc, p, r) == IF r <= MaxPresetRound(gc) THEN Preset(r) ELSE gc.bits[p][r]

\* The coin state of an instance (New).  A known or local coin can be seen at any time, a strong
\* one when enough shares are there.
KnownCoins(gc, p) ==
    [r \in Rounds(gc) |-> [coinVal |-> CoinBit(gc, p, r),
                          shouldSendCoin |-> FALSE, sentPreCoin |-> TRUE, sentCoin |-> TRUE]]
StrongCoins(gc, p) ==
    [r \in Rounds(gc) |->
        LET preset == r <= MaxPresetRound(gc)
        IN [coinVal |-> IF preset THEN CoinBit(gc, p, r) ELSE Unknown,
            shouldSendCoin |-> FALSE, sentPreCoin |-> preset, sentCoin |-> preset]]
InitCoins(gc, p) == IF gc.coinType \in {"Known", "Local"} THEN KnownCoins(gc, p)
                                                         ELSE StrongCoins(gc, p)

\* GetCoins(round), or Unknown when it returns none.
GetCoin(s, r) == s.coins[r].coinVal

\* GenerateCoinMessage: a node's share of the coin, or with echo its wish to see it, once.
SendShare(s, r) ==
    IF s.coins[r].sentCoin THEN s
    ELSE Broadcast([s EXCEPT !.coins[r].sentCoin = TRUE], <<"Coin", r, 0>>)
SendWish(s, r) ==
    IF s.coins[r].sentPreCoin THEN s
    ELSE Broadcast([s EXCEPT !.coins[r].sentPreCoin = TRUE], <<"CoinPre", r, 0>>)
GenerateCoinMessage(gc, s, r) ==
    CASE gc.coinType = "Strong"     -> SendShare(s, r)
      [] gc.coinType = "StrongEcho" -> SendWish(s, r)
      [] OTHER                      -> s

\* GotMsg of the coin: enough shares show the coin, n-t wishes let the main loop send the share.
CoinThreshold(gc) == IF gc.UseTp1CoinThresh THEN t + 1 ELSE nmt
GotShare(gc, s, d) ==
    [s EXCEPT !.coins[d.msg[2]].coinVal =
        IF @ = Unknown /\ Cardinality(s.sigs[d.msg]) >= CoinThreshold(gc)
        THEN CoinBit(gc, s.id, d.msg[2]) ELSE @]
GotWish(s, d) == [s EXCEPT !.coins[d.msg[2]].shouldSendCoin = @ \/ d.NewMsgIDSigCount >= nmt]
CoinGotMsg(gc, s, d) == IF d.msg[1] = "CoinPre" THEN GotWish(s, d) ELSE GotShare(gc, s, d)

\* CheckFinishedMessage: a share of a coin that is known is dropped.
CheckFinishedMessage(s, m) == m[1] = "Coin" /\ GetCoin(s, m[2]) # Unknown

\* CheckCoinMessage, when the main loop gets to a message of the coin.
CheckCoinMessage(s, m) ==
    IF m[1] = "CoinPre" /\ s.coins[m[2]].shouldSendCoin /\ ~ s.coins[m[2]].sentCoin
    THEN Broadcast([s EXCEPT !.coins[m[2]].sentCoin = TRUE], <<"Coin", m[2], 0>>)
    ELSE s

-----------------------------------------------------------------------------
\* A new node p whose round states are rs and that can store the messages of M.
NewNode(gc, p, rs, M) ==
    [id |-> p, sigs |-> [m \in M \cup CoinMessages(gc) |-> {}], rs |-> rs,
     coins |-> InitCoins(gc, p), Decided |-> Unknown, decidedRound |-> 0,
     terminated |-> FALSE, terminatedRound |-> 0, out |-> <<>>, panicked |-> FALSE]
=============================================================================
