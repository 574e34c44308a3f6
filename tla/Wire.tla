-------------------------------- MODULE Wire --------------------------------
(***************************************************************************)
(* The wire format (consensus/messages, messagetypes, auth/sig): what each *)
(* type of message writes, what its reader takes back, and how several     *)
(* headers share one message.  Writers and readers are separate pieces of  *)
(* code that have to agree on the order of the fields, on what is checked, *)
(* on the end of the signed part and on the size in front of a header,     *)
(* which ProcessConsMessageList uses to cut a message into headers.        *)
(*                                                                         *)
(* A buffer is a sequence of cells.  A number takes one cell, whatever its *)
(* width in bytes; a hash, a key and the id CsID take two.  The value of a *)
(* field is the sequence of its cells.                                     *)
(***************************************************************************)
EXTENDS Integers, Sequences, SequencesExt

CONSTANTS MaxAdditionalIndices,
          MaxHeaders,     \* bound: headers of one message
          Pieces,         \* numbers of pieces of a proposal
          Followers,      \* bound: types that follow a header of another type
          Configs,        \* configurations
          Headers(_)      \* the headers a node may send in a configuration

VARIABLES conf,    \* configuration of both sides: keys, signed or not, rand hashes, partial messages
          sent,    \* the headers of the message
          buf,     \* the message
          got,     \* what the receiver made of it: headers and errors
          pos      \* "write", "sent", "read"

wireVars == <<conf, sent, buf, got, pos>>

HashLen == 2
CsID == <<91, 92>>
Coin == 2
SharedIDBytes == 2
VRFLen == 2
SigSize == 2

\* ideal hash: one cell depends on the content, the other on its length
GetHash(b) == <<200 + FoldLeft(LAMBDA h, c : (3 * h + c + 1) % 10007, 7, b), 100 + Len(b)>>

-----------------------------------------------------------------------------
(* MsgBuffer.  A reader has an offset and the fields read so far; a read past the end fails. *)
Reader(b) == [buf |-> b, off |-> 0, ok |-> TRUE, vals |-> <<>>, sign |-> 0, size |-> 0, idx |-> <<>>]
Has(r, n) == r.ok /\ n >= 0 /\ r.off + n <= Len(r.buf)
Fail(r) == [r EXCEPT !.ok = FALSE]
Field(r) == IF r.vals = <<>> THEN <<0>> ELSE Last(r.vals)     \* the field read last
Num(r) == IF Field(r) = <<>> THEN 0 ELSE Field(r)[1]
Check(r, cond) == IF r.ok /\ cond THEN r ELSE Fail(r)
CheckNum(r, S) == Check(r, Num(r) \in S)
CheckField(r, f) == Check(r, Field(r) = f)
CheckNonEmpty(r) == Check(r, Field(r) # <<>>)
NonZero == Nat \ {0}
GetReadOffset(r) == [r EXCEPT !.sign = r.off]

ReadBytes(r, n) ==
    IF Has(r, n) THEN [r EXCEPT !.off = @ + n, !.vals = Append(@, SubSeq(r.buf, r.off + 1, r.off + n))]
    ELSE Fail(r)
ReadUint32(r) == ReadBytes(r, 1)
ReadUvarint(r) == ReadBytes(r, 1)
ReadConsensusRound(r) == ReadUint32(r)
ReadHash(r) == ReadBytes(r, HashLen)
ReadSizeBytes(r) ==
    IF Has(r, 1) THEN ReadBytes([r EXCEPT !.off = @ + 1], r.buf[r.off + 1]) ELSE Fail(r)
ReadTimes(r, n, Op(_)) == FoldLeft(LAMBDA acc, i : Op(acc), r, [i \in 1..n |-> i])
Replace(r, f) == [r EXCEPT !.vals = Append(Front(@), f)]
Repeat(c, vals, Op(_)) == IF c.ok THEN ReadTimes([c EXCEPT !.vals = vals], Num(c), Op) ELSE c
ReadCounted(r, S, Op(_)) == Repeat(CheckNum(ReadUvarint(r), S), r.vals, Op)     \* a number in S, then so many of Op
AsBin(s, allowCoin) == IF ~s.ok \/ Num(s) = 0 \/ (allowCoin /\ Num(s) = Coin) THEN s ELSE Replace(s, <<1>>)
ReadBin(r, allowCoin) == AsBin(ReadBytes(r, 1), allowCoin)
ReadBool(r) == ReadBin(r, FALSE)

Flat(fs) == FoldLeft(LAMBDA a, f : a \o f, <<>>, fs)
AddSizeBytes(b) == <<Len(b)>> \o b
AddEach(fs) == Flat([i \in DOMAIN fs |-> AddSizeBytes(fs[i])])

-----------------------------------------------------------------------------
(* The head of a header: its size, its id and, with an index, the ids and CsID. *)
WriteHeaderHead(idx, id, size) ==
    <<size, id>> \o (IF idx = <<>> THEN <<>> ELSE <<idx[1], Len(idx) - 1>> \o Tail(idx) \o CsID)
HeadLen(idx) == IF idx = <<>> THEN 2 ELSE 3 + Len(idx) + Len(CsID)

IndexOf(e, vals) == IF e.ok THEN [e EXCEPT !.vals = vals, !.idx = Flat(Front(e.vals))] ELSE e
ReadIndex(r) ==       \* ReadConsensusID, the additional ids and CsID
    IndexOf(CheckField(ReadBytes(ReadCounted(ReadUint32([r EXCEPT !.vals = <<>>]), 0..MaxAdditionalIndices, ReadUint32),
                                 Len(CsID)), CsID), r.vals)
HeadRead(c, r) == IF c.ok THEN [c EXCEPT !.vals = r.vals, !.size = c.buf[r.off + 1], !.idx = <<>>] ELSE c
ReadHeaderHead(r, id, hasIndex) ==
    IF hasIndex THEN ReadIndex(HeadRead(CheckField(ReadUint32(ReadUint32(r)), <<id>>), r))
    ELSE HeadRead(CheckField(ReadUint32(ReadUint32(r)), <<id>>), r)
CheckSize(e, r) == Check(e, e.size = e.off - r.off)        \* the header that began at r covers what was read

\* SerializeHelper, DeserializeHelper and the writers of keys and signatures
Wrap(id, b) == WriteHeaderHead(<<>>, id, 2 + Len(b)) \o b
Close(e, r) == [e EXCEPT !.size = r.size, !.idx = r.idx]
Unwrap(r, id, Op(_)) == Close(CheckSize(Op(ReadHeaderHead(r, id, FALSE)), r), r)

-----------------------------------------------------------------------------
(* The internal messages.  T(v) is what the type T with the fields v says of itself: the key    *)
(* that signs it, its MsgID, whether SerializeInternal accepts it, what it writes, and how much *)
(* of that is signed; ReadT(r) is DeserializeInternal, which leaves the fields in r.vals.       *)
Hdr == [AuxBoth |-> 31, AuxProof |-> 32, AuxStage0 |-> 33, AuxStage1 |-> 34, BV0 |-> 35, BV1 |-> 36,
        Coin |-> 37, CoinPre |-> 38, Hash |-> 39, Idx |-> 40, MvCommit |-> 41, MvEcho |-> 42,
        MvEchoHash |-> 43, MvInit |-> 44, MvInitSupport |-> 45, MvMultiInit |-> 46, EventInfo |-> 47,
        Partial |-> 48, SimpleCons |-> 49, NoProgress |-> 51, IdxRecover |-> 52, ConsMsg |-> 53,
        BinState |-> 54, MvRequestRecover |-> 55, VrfProof |-> 56, NetworkTest |-> 57,
        EcPub |-> 61, EcSig |-> 62, EdPub |-> 63, EdSig |-> 64, SchnorrPub |-> 65, SchnorrSig |-> 66,
        BlsPub |-> 67, BlsSig |-> 68, QsafePub |-> 69, QsafeSig |-> 70, SleepPub |-> 71, SleepSig |-> 72,
        CoinProof |-> 73, SleepCoin |-> 74]

Round(f) == f[1]
Internal(sign, msgID, ok, cells) == [sign |-> sign, msgID |-> msgID, ok |-> ok, cells |-> cells, end |-> Len(cells)]
BinMsgID(t, round, stage) == <<Hdr[t], round, stage>>
MvMsgID(t, round) == <<Hdr[t], round, 0>>
BasicMsgID(t) == <<Hdr[t], 0, 0>>
Bins(allowCoin) == IF allowCoin THEN {<<0>>, <<1>>, <<Coin>>} ELSE {<<0>>, <<1>>}      \* AddBin panics on others

\* AuxBoth, AuxStage0 and AuxStage1: round and value; a round 0 is refused by both sides
AuxBothMessage(v) ==
    Internal("normal", BinMsgID("AuxBoth", Round(v[1]), 0), v[1] # <<0>> /\ v[2] \in Bins(TRUE), v[1] \o v[2])
ReadAuxBoth(r) == GetReadOffset(ReadBin(CheckNum(ReadConsensusRound(r), NonZero), TRUE))
AuxStage0Message(v) ==
    Internal("normal", BinMsgID("AuxStage0", Round(v[1]), 0), v[1] # <<0>> /\ v[2] \in Bins(FALSE), v[1] \o v[2])
ReadAuxStage0(r) == GetReadOffset(ReadBin(CheckNum(ReadConsensusRound(r), NonZero), FALSE))
AuxStage1Message(v) ==
    Internal("normal", BinMsgID("AuxStage1", Round(v[1]), 0), v[1] # <<0>> /\ v[2] \in Bins(TRUE), v[1] \o v[2])
ReadAuxStage1(r) == GetReadOffset(ReadBin(CheckNum(ReadConsensusRound(r), NonZero), TRUE))

\* AuxProof: the proposals of round 0 are signed with the second key; made with AllowCoin here
AuxProofMessage(v) ==
    Internal(IF v[1] = <<0>> THEN "secondary" ELSE "normal", BinMsgID("AuxProof", Round(v[1]), 0),
             v[2] \in Bins(TRUE), v[1] \o v[2])
ReadAuxProof(r) == GetReadOffset(ReadBin(ReadConsensusRound(r), TRUE))

\* BV0 and BV1: round and stage; the value is in the header id
BVMessage0(v) == Internal("normal", BinMsgID("BV0", Round(v[1]), v[2][1]), v[1] # <<0>>, v[1] \o v[2])
ReadBV0(r) == GetReadOffset(ReadBytes(CheckNum(ReadConsensusRound(r), NonZero), 1))
BVMessage1(v) == Internal("normal", BinMsgID("BV1", Round(v[1]), v[2][1]), v[1] # <<0>>, v[1] \o v[2])
ReadBV1(r) == GetReadOffset(ReadBytes(CheckNum(ReadConsensusRound(r), NonZero), 1))

\* Coin and CoinPre: the round; a share of the coin is a coin proof
CoinMessage(v) == Internal("coin", BinMsgID("Coin", Round(v[1]), 0), TRUE, v[1])
ReadCoin(r) == GetReadOffset(ReadConsensusRound(r))
CoinPreMessage(v) == Internal("normal", BinMsgID("CoinPre", Round(v[1]), 0), TRUE, v[1])
ReadCoinPre(r) == GetReadOffset(ReadConsensusRound(r))

\* hashes
HashMessage(v) == Internal("normal", BasicMsgID("Hash"), Len(v[1]) = HashLen, v[1])
ReadHashMessage(r) == GetReadOffset(ReadHash(r))
MvEchoMessage(v) == Internal("normal", MvMsgID("MvEcho", Round(v[2])), Len(v[1]) = HashLen, v[1] \o v[2])
ReadMvEcho(r) == GetReadOffset(ReadConsensusRound(ReadHash(r)))
MvCommitMessage(v) == Internal("normal", MvMsgID("MvCommit", Round(v[2])), Len(v[1]) = HashLen, v[1] \o v[2])
ReadMvCommit(r) == GetReadOffset(ReadConsensusRound(ReadHash(r)))

\* echo of MvCons3: with the rand hash of the members when IncludeRandHash, which both sides know
MvEchoHashMessage(v) ==
    Internal("normal", MvMsgID("MvEchoHash", Round(Last(v))), \A i \in 1..(Len(v) - 1) : Len(v[i]) = HashLen, Flat(v))
ReadMvEchoHash(r, includeRandHash) ==
    GetReadOffset(ReadConsensusRound(ReadTimes(r, IF includeRandHash THEN 2 ELSE 1, ReadHash)))

\* proposals
MvInitMessage(v) == Internal("normal", MvMsgID("MvInit", Round(v[2])), v[1] # <<>>, AddSizeBytes(v[1]) \o v[2])
ReadMvInit(r) == GetReadOffset(ReadConsensusRound(CheckNonEmpty(ReadSizeBytes(r))))
MvInitSupportMessage(v) ==        \* proposal, supported index, supported hash, rand hash
    Internal("normal", MvMsgID("MvInitSupport", 0), \A i \in 3..Len(v) : Len(v[i]) = HashLen,
             AddSizeBytes(v[1]) \o Flat(Tail(v)))
ReadMvInitSupport(r, includeRandHash) ==
    GetReadOffset(ReadTimes(ReadUint32(CheckNonEmpty(ReadSizeBytes(r))), IF includeRandHash THEN 2 ELSE 1, ReadHash))
MvMultiInitMessage(v) ==
    Internal("normal", MvMsgID("MvMultiInit", 0), v # <<>> /\ \A i \in DOMAIN v : v[i] # <<>>, <<Len(v)>> \o AddEach(v))
ReadProposal(r) == CheckNonEmpty(ReadSizeBytes(r))
ReadMvMultiInit(r) == GetReadOffset(ReadCounted(r, 1..MaxAdditionalIndices, ReadProposal))

\* the indices of MvCons4: their number, the indices, and whether it is a reply
IndexMessage(v) == Internal("normal", BasicMsgID("Idx"), TRUE, <<Len(v) - 1>> \o Flat(v))
ReadIndexMessage(r) == GetReadOffset(ReadBool(ReadCounted(r, Nat, ReadUvarint)))

\* an event: its own pointer (id, index, hash of the local ancestor), at least one remote pointer, the payload
EventPointers(v) == (Len(v) - 1) \div 3
EventInfo(v) == Flat(SubSeq(v, 1, 3)) \o <<EventPointers(v) - 1>> \o Flat(SubSeq(v, 4, Len(v) - 1)) \o AddSizeBytes(Last(v))
ReadEventPointer(r) == ReadHash(ReadUvarint(ReadUvarint(r)))
DecodeEventInfo(r) == ReadSizeBytes(ReadCounted(ReadEventPointer(r), NonZero, ReadEventPointer))
EventMessage(v) ==
    Internal("normal", BasicMsgID("EventInfo"), EventPointers(v) > 1, AddSizeBytes(EventInfo(v)))
EventIn(b, e, vals) == IF b.ok /\ e.ok /\ e.off = Len(e.buf) THEN GetReadOffset([b EXCEPT !.vals = vals \o e.vals]) ELSE Fail(b)
EventOf(b, vals) == EventIn(b, DecodeEventInfo(Reader(Field(b))), vals)
ReadEventMessage(r) == EventOf(ReadSizeBytes(r), r.vals)

\* a piece of a message: hash of the whole, round and hashes of the pieces, which are signed, then
\* the index of the piece and the piece
headerPartialSerialze(v, n) == v[1] \o v[2] \o <<n>> \o Flat(SubSeq(v, 3, 2 + n))
headerPartialDeserialize(r) == GetReadOffset(ReadCounted(ReadConsensusRound(ReadHash(r)), Nat, ReadHash))
PartialMessageAll(v) ==       \* variant: the piece is signed as well
    LET n == Len(v) - 4
    IN  Internal("normal", MvMsgID("Partial", Round(v[2])), Len(v[1]) = HashLen,
                 headerPartialSerialze(v, n) \o v[n + 3] \o AddSizeBytes(v[n + 4]))
PartialMessage(v) ==
    LET n == Len(v) - 4
        h == headerPartialSerialze(v, n)
    IN  [Internal("normal", MvMsgID("Partial", Round(v[2])), Len(v[1]) = HashLen, h \o v[n + 3] \o AddSizeBytes(v[n + 4]))
            EXCEPT !.end = Len(h)]
CheckPiece(b, k) == Check(b, b.vals[k + 3 + b.vals[Len(b.vals) - 1][1]] = GetHash(Last(b.vals)))
ReadPiece(h, k) == CheckPiece(ReadSizeBytes(CheckNum(ReadUint32(h), 0..(Len(h.vals) - k - 3))), k)
ReadPartialMessage(r) == ReadPiece(headerPartialDeserialize(r), Len(r.vals))

\* SplitBytes: equal pieces and the rest; the last byte is left out when there are as many pieces as bytes
SplitBytes(b, maxPieces) ==
    LET size == Len(b) \div maxPieces
        front == [i \in 1..(maxPieces - 1) |-> SubSeq(b, (i - 1) * size + 1, i * size)]
    IN  IF (maxPieces - 1) * size < Len(b) - 1 THEN Append(front, SubSeq(b, (maxPieces - 1) * size + 1, Len(b))) ELSE front

\* CreatePartial: the pieces of a proposal written without index
InitWhole(v) == WriteHeaderHead(<<>>, Hdr.MvInit, 2 + Len(MvInitMessage(v).cells)) \o MvInitMessage(v).cells
GeneratePartialMessages(v, round, pieces) ==
    LET ps == SplitBytes(InitWhole(v), pieces)
        head == <<GetHash(InitWhole(v)), round>> \o [i \in DOMAIN ps |-> GetHash(ps[i])]
    IN  [i \in DOMAIN ps |-> head \o <<<<i - 1>>, ps[i]>>]

\* a proposal put together again: the signed part of its pieces, then the whole message
CombinedMessage(v) ==
    LET n == Len(v) - 4
        h == headerPartialSerialze(v, n)
        m == MvInitMessage(SubSeq(v, n + 3, n + 4))
    IN  [Internal("normal", m.msgID, m.ok, h \o InitWhole(SubSeq(v, n + 3, n + 4))) EXCEPT !.end = Len(h)]
SignedTo(m, h) == [m EXCEPT !.sign = h.sign]
ReadWhole(h) == SignedTo(Close(ReadMvInit(ReadHeaderHead(h, Hdr.MvInit, FALSE)), h), h)
ReadCombined(r) == ReadWhole(headerPartialDeserialize(r))
\* GenerateCombinedMessageBytes and GenerateCombinedMessage: the pieces in the order of their indices
GenerateCombinedMessage(pms) ==
    LET n == Len(pms[1]) - 4
        byIndex == SortSeq(pms, LAMBDA x, y : x[Len(x) - 1][1] < y[Len(y) - 1][1])
        full == Flat([i \in DOMAIN byIndex |-> Last(byIndex[i])])
        ok == Len(pms) = n /\ \A i \in DOMAIN byIndex : byIndex[i][n + 3] = <<i - 1>>
        m == ReadMvInit(ReadHeaderHead(Reader(full), Hdr.MvInit, FALSE))
    IN  IF ok /\ m.ok THEN SubSeq(pms[1], 1, 2 + n) \o m.vals ELSE <<>>

-----------------------------------------------------------------------------
(* Keys and signatures.  k is the configuration of the keys: byIndex is UsePubIndex, multi is   *)
(* UseMultisig for a family that has multi-signatures, vrf tells whether the family has VRFs.   *)
(* A public key p has its index, its bytes and the ids it stands for; an item is a key, its     *)
(* signature, a VRF proof or none, and whether it was signed with the shared threshold key.     *)
CheckSerVRF(i) == IF i.vrf = <<>> THEN <<0>> ELSE <<1>> \o i.vrf
VRFAfter(b, vals) ==
    CASE b.ok /\ Num(b) = 0 -> Replace(b, <<>>)
      [] b.ok /\ Num(b) = 1 -> ReadBytes([b EXCEPT !.vals = vals], VRFLen)
      [] OTHER -> Fail(b)
DeserVRF(r) == VRFAfter(ReadBytes(r, 1), r.vals)
NoVRF(r) == [r EXCEPT !.vals = Append(@, <<>>)]
GenerateSigHelperFromSig(i, pub, sig) == CheckSerVRF(i) \o pub \o sig       \* a merged multi-signature
GenerateSigHelper(allowsVRF, i, pub, sig) == (IF allowsVRF THEN CheckSerVRF(i) ELSE <<>>) \o pub \o sig
PeekHeaderType(r) == IF Has(r, 2) THEN r.buf[r.off + 2] ELSE 0

\* ECDSA
EcPub(k, p) == Wrap(Hdr.EcPub, IF k.byIndex THEN p.index ELSE p.bytes)
ReadEcPub(r, k) == Unwrap(r, Hdr.EcPub, LAMBDA h : IF k.byIndex THEN ReadUint32(h) ELSE ReadBytes(h, h.size - 2))
EcSig(sig) == Wrap(Hdr.EcSig, sig)
ReadEcSig(r) == Unwrap(r, Hdr.EcSig, LAMBDA h : ReadBytes(h, h.size - 2))
EcGenerateSig(k, i) == GenerateSigHelper(TRUE, i, EcPub(k, i.pub), EcSig(i.sig))
EcDeserializeSig(r, k) == ReadEcSig(ReadEcPub(DeserVRF(r), k))

\* EDDSA and Schnorr have no VRF; their partial keys write a coin proof for the coin
EdPub(k, p) == Wrap(k.pubID, IF k.byIndex THEN p.index ELSE p.bytes)
ReadEdPub(r, k) == Unwrap(r, k.pubID, LAMBDA h : IF k.byIndex THEN ReadUint32(h) ELSE ReadBytes(h, h.size - 2))
EdSig(k, sig) == Wrap(k.sigID, sig)
ReadEdSig(r, k) == Unwrap(r, k.sigID, LAMBDA h : ReadBytes(h, h.size - 2))
EdGenerateSig(k, i) == GenerateSigHelper(FALSE, i, EdPub(k, i.pub), EdSig(k, i.sig))
EdDeserializeSig(r, k) == ReadEdSig(ReadEdPub(NoVRF(r), k), k)
CoinProofFields(i) == <<i.sig, i.sig, <<7>>, <<8>>, i.sig, i.sig>>        \* VH, VG, R, C, xH, xG
CoinEncode(i) == Flat(CoinProofFields(i))
CoinDecode(r) == ReadTimes(ReadTimes(ReadTimes(r, 2, LAMBDA s : ReadBytes(s, 2)), 2, LAMBDA s : ReadBytes(s, 1)),
                           2, LAMBDA s : ReadBytes(s, 2))
EdPartGenerateSig(k, i, signType) ==
    IF signType # "coin" THEN EdGenerateSig(k, i)
    ELSE EdPub(k, i.pub) \o Wrap(Hdr.CoinProof, CoinEncode(i))
EdPartDeserializeSig(r, k, signType) ==
    IF signType # "coin" THEN EdDeserializeSig(r, k)
    ELSE Unwrap(ReadEdPub(NoVRF(r), k), Hdr.CoinProof, CoinDecode)

\* post-quantum keys have no VRF either
QsafePub(k, p) == Wrap(Hdr.QsafePub, IF k.byIndex THEN p.index ELSE p.bytes)
ReadQsafePub(r, k) == Unwrap(r, Hdr.QsafePub, LAMBDA h : IF k.byIndex THEN ReadUint32(h) ELSE ReadBytes(h, h.size - 2))
QsafeSig(sig) == Wrap(Hdr.QsafeSig, sig)
ReadQsafeSig(r) == Unwrap(r, Hdr.QsafeSig, LAMBDA h : ReadBytes(h, h.size - 2))
QsafeGenerateSig(k, i) == GenerateSigHelper(FALSE, i, QsafePub(k, i.pub), QsafeSig(i.sig))
QsafeDeserializeSig(r, k) == ReadQsafeSig(ReadQsafePub(NoVRF(r), k))

\* BLS, as multi-signatures or not
BlsPub(k, p) == Wrap(Hdr.BlsPub, IF k.multi THEN AddSizeBytes(p.ids) ELSE IF k.byIndex THEN p.index ELSE p.bytes)
ReadBlsPub(r, k) ==
    Unwrap(r, Hdr.BlsPub, LAMBDA h : IF k.multi THEN ReadSizeBytes(h)
                                     ELSE IF k.byIndex THEN ReadUint32(h) ELSE ReadBytes(h, h.size - 2))
BlsSig(sig) == Wrap(Hdr.BlsSig, sig)
ReadBlsSig(r) == Unwrap(r, Hdr.BlsSig, LAMBDA h : ReadBytes(h, h.size - 2))
BlsGenerateSig(k, i) ==
    IF i.shared THEN GenerateSigHelperFromSig(i, BlsPub(k, i.pub), BlsSig(i.sig))
    ELSE GenerateSigHelper(TRUE, i, BlsPub(k, i.pub), BlsSig(i.sig))
BlsDeserializeSig(r, k) == ReadBlsSig(ReadBlsPub(DeserVRF(r), k))

\* threshold BLS: a partial signature, or the signature of the shared key, which is not written
BlsPartGenerateSig(k, i) == CheckSerVRF(i) \o BlsPub(k, i.pub) \o BlsSig(i.sig)
BlsCombinePartialSigs(i) == <<0>> \o BlsSig(i.sig) \o i.pub.bytes
BlsSharedOrPart(v, k) ==
    CASE PeekHeaderType(v) = Hdr.BlsSig -> ReadBytes(ReadBlsSig(v), SharedIDBytes)
      [] PeekHeaderType(v) = Hdr.BlsPub -> ReadBlsSig(ReadBlsPub(v, k))
      [] OTHER -> Fail(v)
BlsPartDeserializeSig(r, k) == BlsSharedOrPart(DeserVRF(r), k)

\* simulated keys, which take the shape of another family
SleepPub(k, p) == Wrap(Hdr.SleepPub, IF k.byIndex THEN p.index ELSE p.bytes)
ReadSleepPub(r, k) == Unwrap(r, Hdr.SleepPub, LAMBDA h : IF k.byIndex THEN ReadUint32(h) ELSE ReadBytes(h, h.size - 2))
SleepMultiPub(k, p) == IF k.multi THEN Wrap(Hdr.SleepPub, AddSizeBytes(p.ids)) ELSE SleepPub(k, p)
ReadSleepMultiPub(r, k) == IF k.multi THEN Unwrap(r, Hdr.SleepPub, ReadSizeBytes) ELSE ReadSleepPub(r, k)
SleepSig(sig) == Wrap(Hdr.SleepSig, sig)
ReadSleepSig(r) == Unwrap(r, Hdr.SleepSig, LAMBDA h : ReadBytes(h, SigSize))
SleepGenerateSig(k, i, signType) ==
    IF signType = "coin" /\ k.coin THEN SleepPub(k, i.pub) \o Wrap(Hdr.SleepCoin, i.sig)
    ELSE GenerateSigHelper(k.vrf, i, SleepMultiPub(k, i.pub), SleepSig(i.sig))
SleepDeserializeSig(r, k) ==
    ReadSleepSig(ReadSleepMultiPub(IF k.vrf THEN DeserVRF(r) ELSE NoVRF(r), k))
SleepCoinDeserializeSig(r, k, signType) ==
    IF signType = "coin" THEN Unwrap(ReadSleepPub(NoVRF(r), k), Hdr.SleepCoin, LAMBDA h : ReadBytes(h, SigSize))
    ELSE SleepDeserializeSig(r, k)
SleepCombinePartialSigs(i) == <<0>> \o SleepSig(i.sig) \o i.pub.bytes
SleepSharedOrPart(v, k) ==
    CASE PeekHeaderType(v) = Hdr.SleepSig -> ReadBytes(ReadSleepSig(v), SharedIDBytes)
      [] PeekHeaderType(v) = Hdr.SleepPub -> ReadSleepSig(ReadSleepPub(v, k))
      [] OTHER -> Fail(v)
SleepThrshDeserializeSig(r, k) == SleepSharedOrPart(IF k.vrf THEN DeserVRF(r) ELSE NoVRF(r), k)

\* GenerateSig and DeserializeSig of each kind of key
GenerateSig1(k, i, signType) ==
    CASE k.fam = "ec" -> EcGenerateSig(k, i)
      [] k.fam = "ed" -> EdGenerateSig(k, i)
      [] k.fam = "edpart" -> EdPartGenerateSig(k, i, signType)
      [] k.fam = "qsafe" -> QsafeGenerateSig(k, i)
      [] k.fam = "bls" -> BlsGenerateSig(k, i)
      [] k.fam = "blspart" -> IF i.shared THEN BlsCombinePartialSigs(i) ELSE BlsPartGenerateSig(k, i)
      [] k.fam \in {"sleep", "sleepcoin"} -> SleepGenerateSig(k, i, signType)
      [] k.fam = "sleepthrsh" -> IF i.shared THEN SleepCombinePartialSigs(i) ELSE SleepGenerateSig(k, i, signType)
DeserializeSig1(r, k, signType) ==
    CASE k.fam = "ec" -> EcDeserializeSig(r, k)
      [] k.fam = "ed" -> EdDeserializeSig(r, k)
      [] k.fam = "edpart" -> EdPartDeserializeSig(r, k, signType)
      [] k.fam = "qsafe" -> QsafeDeserializeSig(r, k)
      [] k.fam = "bls" -> BlsDeserializeSig(r, k)
      [] k.fam = "blspart" -> BlsPartDeserializeSig(r, k)
      [] k.fam = "sleep" -> SleepDeserializeSig(r, k)
      [] k.fam = "sleepcoin" -> SleepCoinDeserializeSig(r, k, signType)
      [] k.fam = "sleepthrsh" -> SleepThrshDeserializeSig(r, k)

\* dual keys: key 1 signs what is normal, or configured as normal, key 2 the rest
KeyFor(k, signType) ==
    CASE k.fam # "dual" -> k
      [] signType = "normal" -> k.key1
      [] signType = "coin" -> IF k.useForCoin = "normal" THEN k.key1 ELSE k.key2
      [] signType = "secondary" -> IF k.useForSecondary = "normal" THEN k.key1 ELSE k.key2
GenerateSig(k, i, signType) == GenerateSig1(KeyFor(k, signType), i, signType)
DeserializeSig(r, k, signType) == DeserializeSig1(r, KeyFor(k, signType), signType)

-----------------------------------------------------------------------------
(* Headers.  A header h has a type t, its fields v, an index idx, and the items that sign it.   *)
SimpleConsMessage(v, c) ==       \* the header id again, then the key of the sender
    Internal("normal", <<Hdr.SimpleCons>> \o v[1], TRUE,
             <<Hdr.SimpleCons>> \o EcPub(c.key, [index |-> v[1], bytes |-> v[1]]))
ReadSimpleCons(r, c) ==
    GetReadOffset(ReadEcPub([CheckField(ReadUint32(r), <<Hdr.SimpleCons>>) EXCEPT !.vals = r.vals], c.key))

InternalMsg(t, v, c) ==
    CASE t = "AuxBoth" -> AuxBothMessage(v) [] t = "AuxStage0" -> AuxStage0Message(v)
      [] t = "AuxStage1" -> AuxStage1Message(v) [] t = "AuxProof" -> AuxProofMessage(v)
      [] t = "BV0" -> BVMessage0(v) [] t = "BV1" -> BVMessage1(v)
      [] t = "Coin" -> CoinMessage(v) [] t = "CoinPre" -> CoinPreMessage(v)
      [] t = "Hash" -> HashMessage(v) [] t = "MvEcho" -> MvEchoMessage(v)
      [] t = "MvCommit" -> MvCommitMessage(v) [] t = "MvEchoHash" -> MvEchoHashMessage(v)
      [] t = "MvInit" -> MvInitMessage(v) [] t = "MvInitSupport" -> MvInitSupportMessage(v)
      [] t = "MvMultiInit" -> MvMultiInitMessage(v) [] t = "Idx" -> IndexMessage(v)
      [] t = "EventInfo" -> EventMessage(v) [] t = "Partial" -> PartialMessage(v)
      [] t = "Combined" -> CombinedMessage(v) [] t = "SimpleCons" -> SimpleConsMessage(v, c)
DeserializeInternal(r, t, c) ==
    CASE t = "AuxBoth" -> ReadAuxBoth(r) [] t = "AuxStage0" -> ReadAuxStage0(r)
      [] t = "AuxStage1" -> ReadAuxStage1(r) [] t = "AuxProof" -> ReadAuxProof(r)
      [] t = "BV0" -> ReadBV0(r) [] t = "BV1" -> ReadBV1(r)
      [] t = "Coin" -> ReadCoin(r) [] t = "CoinPre" -> ReadCoinPre(r)
      [] t = "Hash" -> ReadHashMessage(r) [] t = "MvEcho" -> ReadMvEcho(r)
      [] t = "MvCommit" -> ReadMvCommit(r) [] t = "MvEchoHash" -> ReadMvEchoHash(r, c.randHash)
      [] t = "MvInit" -> ReadMvInit(r) [] t = "MvInitSupport" -> ReadMvInitSupport(r, c.randHash)
      [] t = "MvMultiInit" -> ReadMvMultiInit(r) [] t = "Idx" -> ReadIndexMessage(r)
      [] t = "EventInfo" -> ReadEventMessage(r) [] t = "Partial" -> ReadPartialMessage(r)
      [] t = "Combined" -> ReadCombined(r) [] t = "SimpleCons" -> ReadSimpleCons(r, c)

Plain == {"NoProgress", "IdxRecover", "ConsMsg", "MvRequestRecover", "VrfProof", "NetworkTest"}
HeaderID(t) == IF t = "Combined" THEN Hdr.MvInit ELSE Hdr[t]

\* the types without an internal message: size of the header and what follows the head.  The size
\* of NoProgress and IdxRecover covers the head only.
testBytes == <<83, 84>>
testVal == 85
PlainBody(h) ==
    CASE h.t = "NoProgress" -> h.v[1] \o h.v[2]
      [] h.t = "IdxRecover" -> <<Len(h.dep)>> \o Flat([i \in DOMAIN h.dep |-> Flat(h.dep[i])]) \o IndexMessage(h.v).cells
      [] h.t = "ConsMsg" -> <<>>
      [] h.t = "MvRequestRecover" -> h.v[1]
      [] h.t = "VrfProof" -> h.v[1]
      [] h.t = "NetworkTest" -> (IF h.idx[1] % 2 = 0 THEN testBytes ELSE <<>>) \o <<testVal>> \o h.v[1]
serializeID(idx, id) == WriteHeaderHead(idx, id, HeadLen(idx))
SerializePlain(h) ==
    LET b == PlainBody(h)
        n == HeadLen(h.idx) + Len(b)
    IN  CASE h.t \in {"NoProgress", "IdxRecover", "ConsMsg"} -> serializeID(h.idx, Hdr[h.t]) \o b
          [] h.t \in {"MvRequestRecover", "VrfProof"} -> WriteHeaderHead(h.idx, Hdr[h.t], n) \o b
          [] h.t = "NetworkTest" ->
                LET head == WriteHeaderHead(h.idx, Hdr[h.t], n + HashLen)
                IN  head \o b \o GetHash(Tail(head) \o b)
ReadNoProgress(r) == ReadUint32(ReadBool(ReadHeaderHead(r, Hdr.NoProgress, TRUE)))
ReadIdxRecover(r) ==
    ReadIndexMessage(ReadCounted(ReadHeaderHead(r, Hdr.IdxRecover, TRUE), Nat, ReadEventPointer))
ReadMvRequestRecover(r) == CheckSize(ReadHash(ReadHeaderHead(r, Hdr.MvRequestRecover, TRUE)), r)
ReadVrfProof(r) == CheckSize(ReadBytes(ReadHeaderHead(r, Hdr.VrfProof, TRUE), VRFLen), r)
ReadTestBytes(h) == IF h.ok /\ h.idx[1] % 2 = 0 THEN CheckField(ReadBytes(h, Len(testBytes)), testBytes) ELSE h
TestRead(d, r) ==
    IF d.ok /\ Field(d) = GetHash(SubSeq(r.buf, r.off + 2, d.off - HashLen))
    THEN CheckSize([d EXCEPT !.vals = <<@[Len(@) - 1]>>], r) ELSE Fail(d)
ReadNetworkTest(r) ==
    TestRead(ReadHash(ReadUint32(CheckField(ReadUint32(ReadTestBytes(ReadHeaderHead(r, Hdr.NetworkTest, TRUE))), <<testVal>>))), r)

\* MultipleSignedMessage: head, message, the items that were not encrypted; UnsignedMessage: the
\* keys it came from.  Both cover all of it by the size.
SignedCells(h, m) == SubSeq(WriteHeaderHead(h.idx, HeaderID(h.t), 0) \o m.cells, 2, HeadLen(h.idx) + m.end)
SigItems(h) == SelectSeq(h.items, LAMBDA i : ~i.encrypted)
SerializeSigned(h, m, c) ==
    LET sigs == Flat([i \in DOMAIN SigItems(h) |-> GenerateSig(c.key, SigItems(h)[i], m.sign)])
    IN  WriteHeaderHead(h.idx, HeaderID(h.t), HeadLen(h.idx) + Len(m.cells) + Len(sigs)) \o m.cells \o sigs
SerializeUnsigned(h, m, c) ==
    LET pubs == Flat([i \in DOMAIN h.items |-> EcPub(c.key, h.items[i].pub)])
    IN  WriteHeaderHead(h.idx, HeaderID(h.t), HeadLen(h.idx) + Len(m.cells) + Len(pubs)) \o m.cells \o pubs

DeserialzeInternalSignedHeader(r, t, c) == DeserializeInternal(ReadHeaderHead(r, HeaderID(t), TRUE), t, c)
RECURSIVE DeserSign(_, _, _, _)
DeserSign(b, r, k, sign) ==        \* signatures as long as there are cells left, then the size is checked
    IF b.ok /\ b.off - r.off < b.size THEN DeserSign(DeserializeSig(b, k, sign), r, k, sign) ELSE CheckSize(b, r)
RECURSIVE DeserPubs(_, _, _)
DeserPubs(b, r, k) == IF b.ok /\ b.off - r.off < b.size THEN DeserPubs(ReadEcPub(b, k), r, k) ELSE b
DeserSigs(b, r, t, c) ==           \* at least one signature
    IF b.ok /\ b.off - r.off < b.size THEN DeserSign(b, r, c.key, InternalMsg(t, b.vals, c).sign) ELSE Fail(b)
DeserializeSigned(r, t, c) == DeserSigs(DeserialzeInternalSignedHeader(r, t, c), r, t, c)
DeserializeUnsigned(r, t, c) == DeserPubs(DeserialzeInternalSignedHeader(r, t, c), r, c.key)

Serialize(h, c) ==
    IF h.t \in Plain THEN SerializePlain(h)
    ELSE IF c.signed THEN SerializeSigned(h, InternalMsg(h.t, h.v, c), c)
    ELSE SerializeUnsigned(h, InternalMsg(h.t, h.v, c), c)
ReadHeader(r, t, c) ==
    CASE t = "NoProgress" -> ReadNoProgress(r)
      [] t = "IdxRecover" -> ReadIdxRecover(r)
      [] t = "ConsMsg" -> ReadHeaderHead(r, Hdr.ConsMsg, FALSE)
      [] t = "MvRequestRecover" -> ReadMvRequestRecover(r)
      [] t = "VrfProof" -> ReadVrfProof(r)
      [] t = "NetworkTest" -> ReadNetworkTest(r)
      [] OTHER -> IF c.signed THEN DeserializeSigned(r, t, c) ELSE DeserializeUnsigned(r, t, c)

-----------------------------------------------------------------------------
(* Messages: the headers one after the other behind the total size. *)
CreateMsg(hs, c) == AddSizeBytes(Flat([i \in DOMAIN hs |-> Serialize(hs[i], c)]))
BinState(b) == Wrap(Hdr.BinState, b)                      \* ConsBinStateMessage.Serialize

PopMsgSize(b) == IF b # <<>> /\ b[1] = Len(b) - 1 THEN Reader(Tail(b)) ELSE Fail(Reader(b))

\* GetHeader: the type for a header id; a combined message goes by the id of the whole one
TypeOf(ht, c) ==
    IF ht = Hdr.MvInit /\ c.partial THEN "Combined"
    ELSE CHOOSE t \in DOMAIN Hdr : Hdr[t] = ht
Result(t, r, from) == [t |-> t, idx |-> r.idx, v |-> r.vals, signed |-> SubSeq(r.buf, from + 1, r.sign)]

\* one round of ProcessConsMessageList: GetBytes cuts the next header, an error in it is noted and
\* the loop goes on; it ends where no header type can be read or the cut fails
Noted(s, t, e, from) ==
    IF e.ok THEN [s EXCEPT !.items = Append(@, Result(t, e, from))] ELSE [s EXCEPT !.errors = @ + 1]
RECURSIVE ProcessConsMessageList(_, _, _)
NextHeader(s, r, n, t, c) ==
    IF ~Has(r, n) \/ n = 0 THEN [s EXCEPT !.errors = @ + 1]
    ELSE ProcessConsMessageList(Noted(s, t, ReadHeader(Reader(SubSeq(r.buf, r.off + 1, r.off + n)), t, c), 1),
                                [r EXCEPT !.off = @ + n], c)
ProcessConsMessageList(s, r, c) ==
    IF s.errors < 0 \/ PeekHeaderType(r) = 0 THEN s
    ELSE NextHeader(s, r, r.buf[r.off + 1], TypeOf(PeekHeaderType(r), c), c)

\* the outer messages, which are read one after the other until the buffer is empty
RECURSIVE UnwrapOuter(_, _, _)
OuterRead(s, t, e) == IF e.ok THEN UnwrapOuter(Noted(s, t, e, Len(e.buf)), [e EXCEPT !.vals = <<>>], t) ELSE Noted(s, t, e, 0)
UnwrapOuter(s, r, t) ==
    IF s.errors > 0 \/ r.off = Len(r.buf) THEN s
    ELSE OuterRead(s, t, IF t = "NoProgress" THEN ReadNoProgress(r) ELSE ReadIdxRecover(r))
Nothing == [items |-> <<>>, errors |-> 0]
UnwrapMessage(r, c) ==
    CASE PeekHeaderType(r) = 0 -> [Nothing EXCEPT !.errors = 1]
      [] PeekHeaderType(r) = Hdr.NoProgress -> UnwrapOuter(Nothing, r, "NoProgress")
      [] PeekHeaderType(r) = Hdr.IdxRecover -> UnwrapOuter(Nothing, r, "IdxRecover")
      [] OTHER -> ProcessConsMessageList(Nothing, IF PeekHeaderType(r) = Hdr.BinState THEN ReadHeaderHead(r, Hdr.BinState, FALSE) ELSE r, c)

-----------------------------------------------------------------------------
Outer == {"NoProgress", "IdxRecover"}

Init ==
    /\ conf \in Configs
    /\ sent = <<>>
    /\ buf = CreateMsg(<<>>, conf)
    /\ got = <<>>
    /\ pos = "write"

\* AppendHeader; the outer messages are not mixed with others
AppendHeader ==
    /\ pos = "write" /\ Len(sent) < MaxHeaders
    /\ \E h \in Headers(conf) :
          /\ \A i \in DOMAIN sent : h.t = sent[i].t \/ (h.t \in Followers /\ sent[i].t \notin Outer)
          /\ h.t \notin Plain => InternalMsg(h.t, h.v, conf).ok
          /\ ~(h.t = "MvInit" /\ conf.partial)
          /\ sent' = Append(sent, h)
    /\ buf' = CreateMsg(sent', conf)
    /\ UNCHANGED <<conf, got, pos>>

\* with partial messages a proposal is sent in pieces, and passed on as a whole by who has them all
AppendPieces ==
    /\ pos = "write" /\ sent = <<>> /\ conf.partial
    /\ \E h \in Headers(conf), n \in Pieces :
          /\ h.t = "MvInit"
          /\ LET pms == GeneratePartialMessages(h.v, h.v[2], n)
                 whole == GenerateCombinedMessage(Reverse(pms))
             IN  \/ sent' = [i \in DOMAIN pms |-> [h EXCEPT !.t = "Partial", !.v = pms[i]]]
                 \/ whole # <<>> /\ sent' = <<[h EXCEPT !.t = "Combined", !.v = whole]>>
    /\ buf' = CreateMsg(sent', conf)
    /\ UNCHANGED <<conf, got, pos>>

\* the message is sent, as it is or as part of the state of an instance
Send ==
    /\ pos = "write" /\ sent # <<>>
    /\ pos' = "sent"
    /\ \/ UNCHANGED buf
       \/ {sent[i].t : i \in DOMAIN sent} \cap Outer = {} /\ buf' = AddSizeBytes(BinState(Tail(buf)))
    /\ UNCHANGED <<conf, sent, got>>

\* the end of the message is lost on the way
Truncate ==
    /\ pos = "sent"
    /\ pos' = "cut"
    /\ buf' = Front(buf)
    /\ UNCHANGED <<conf, sent, got>>

Receive ==
    /\ pos \in {"sent", "cut"}
    /\ pos' = IF pos = "sent" THEN "read" ELSE "refused"
    /\ got' = IF PopMsgSize(buf).ok THEN UnwrapMessage(PopMsgSize(buf), conf)
              ELSE [Nothing EXCEPT !.errors = 1]
    /\ UNCHANGED <<conf, sent, buf>>

Next == AppendHeader \/ AppendPieces \/ Send \/ Truncate \/ Receive

Spec == Init /\ [][Next]_wireVars

-----------------------------------------------------------------------------
ItemFields(k, i, sign) ==
    LET pub == IF k.multi THEN i.pub.ids ELSE IF k.byIndex THEN i.pub.index ELSE i.pub.bytes
    IN  CASE i.shared /\ k.fam \in {"blspart", "sleepthrsh"} -> <<<<>>, i.sig, i.pub.bytes>>
          [] sign = "coin" /\ k.fam = "edpart" -> <<<<>>, pub>> \o CoinProofFields(i)
          [] OTHER -> <<i.vrf, pub, i.sig>>
Expected(h, c) ==
    IF h.t \in Plain
    THEN [t |-> h.t, idx |-> h.idx, v |-> (IF h.t = "IdxRecover" THEN Flat(h.dep) ELSE <<>>) \o h.v, signed |-> <<>>]
    ELSE LET m == InternalMsg(h.t, h.v, c)
             items == IF c.signed
                      THEN Flat([i \in DOMAIN SigItems(h) |-> ItemFields(KeyFor(c.key, m.sign), SigItems(h)[i], m.sign)])
                      ELSE [i \in DOMAIN h.items |-> IF c.key.byIndex THEN h.items[i].pub.index ELSE h.items[i].pub.bytes]
         IN  [t |-> h.t, idx |-> h.idx, v |-> h.v \o items, signed |-> SignedCells(h, m)]
Readable(h, c) ==      \* the readers refuse an empty proposal and a signed message without signature
    /\ h.t = "MvInitSupport" => h.v[1] # <<>>
    /\ h.t \notin Plain /\ c.signed => SigItems(h) # <<>>

(***************************************************************************)
(* Writers and readers agree: every header of a message that its reader    *)
(* accepts arrives, in order, with the fields, the index, the keys and     *)
(* signatures and the signed part it was sent with, whatever follows it    *)
(* and whether or not it came inside the state of an instance; the others  *)
(* are refused without hiding what follows; and nothing of a message that  *)
(* lost its end is accepted.  Two messages of different index or MsgID are *)
(* never signed as the same bytes, and the pieces of a proposal make up    *)
(* that proposal or none (GetBytesHelper, ReadHeaderHead, DeserSign,       *)
(* GenerateCombinedMessage, UnwrapMessage).                                *)
(***************************************************************************)
RoundTrip ==
    /\ pos = "read" =>
          LET readable == SelectSeq(sent, LAMBDA h : Readable(h, conf))
          IN  /\ got.items = [i \in DOMAIN readable |-> Expected(readable[i], conf)]
              /\ got.errors = Len(sent) - Len(readable)
    /\ pos = "refused" => got.items = <<>>
    /\ \A i, j \in DOMAIN sent :
          /\ {sent[i].t, sent[j].t} \cap Plain = {}
          /\ Expected(sent[i], conf).signed = Expected(sent[j], conf).signed
          => /\ InternalMsg(sent[i].t, sent[i].v, conf).msgID = InternalMsg(sent[j].t, sent[j].v, conf).msgID
             /\ sent[i].idx = sent[j].idx
    /\ \A i \in DOMAIN sent : sent[i].t = "Combined" =>
          \E h \in Headers(conf) : h.t = "MvInit" /\ h.v = SubSeq(sent[i].v, Len(sent[i].v) - 1, Len(sent[i].v))
=============================================================================
