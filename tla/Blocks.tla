------------------------------- MODULE Blocks -------------------------------
(***************************************************************************)
(* The proposals of the state machines as bytes: the transactions and      *)
(* blocks of the currency with their Merkle root, the initial blocks, the  *)
(* transfers of assets and the list of test transactions.  A proposal is   *)
(* the payload of an MvInit message (Wire), which arrives whole or not at  *)
(* all; Currency and Causal take what is decoded to be what was encoded.   *)
(*                                                                         *)
(* Cells, readers and hashes are those of Wire.  Keys and signatures are   *)
(* written by Encode, without the header Serialize puts in front.          *)
(***************************************************************************)
EXTENDS Wire

CONSTANTS MaxParticipants, MaxTxSize, maxBlockTx, MaxAssetSize, MaxSigSize,
          SignCausalAssets,
          Proposals      \* bound: the proposals that are written

PubLen == 2
EncodePub(p) == p
DecodePub(r) == ReadBytes(r, PubLen)
EncodeSig(s) == AddSizeBytes(s)
AtMost(b, max) == Check(b, Len(Field(b)) <= max)
DecodeSig(r) == AtMost(ReadSizeBytes(r), MaxSigSize)

\* a number in S, which is kept, and then so many of Op
Elements(c, Op(_)) == IF c.ok THEN ReadTimes(c, Num(c), Op) ELSE c
ReadList(r, S, Op(_)) == Elements(CheckNum(ReadUint32(r), S), Op)
WriteList(s, Op(_)) == <<Len(s)>> \o Flat([i \in DOMAIN s |-> Op(s[i])])

-----------------------------------------------------------------------------
(* TransferTx: the signed part behind its size, then one signature for each sender. *)
encodeSignedBytes(tx) ==
    WriteList(tx.senders, LAMBDA s : EncodePub(s.pub) \o <<s.counter, s.amount>>)
        \o WriteList(tx.recipiants, LAMBDA s : EncodePub(s.pub) \o <<s.amount>>)
EncodeTx(tx) == AddSizeBytes(encodeSignedBytes(tx)) \o Flat([i \in DOMAIN tx.sigs |-> EncodeSig(tx.sigs[i])])

\* the key of the i-th sender is the field 3 * i - 1 behind their number
SendersSorted(r) == Check(r, \A i \in 2..r.vals[1][1] : r.vals[3 * i - 4][1] <= r.vals[3 * i - 1][1])
DecodeSignedBytes(b) ==
    ReadList(SendersSorted(ReadList(Reader(b), 0..MaxParticipants, LAMBDA r : ReadUint32(ReadUint32(DecodePub(r))))),
             0..MaxParticipants, LAMBDA r : ReadUint32(DecodePub(r)))
\* idx collects the hashes of the signed parts (getHashList)
TxSigs(b, vals, s) ==
    IF b.ok /\ s.ok
    THEN ReadTimes([b EXCEPT !.vals = vals \o s.vals, !.idx = Append(@, GetHash(Field(b)))], s.vals[1][1], DecodeSig)
    ELSE Fail(b)
TxSigned(b, vals) == TxSigs(b, vals, DecodeSignedBytes(Field(b)))
DecodeTx(r) == TxSigned(AtMost(ReadSizeBytes(r), MaxTxSize), r.vals)

-----------------------------------------------------------------------------
(* The Merkle root: a tree of the given width over the hashes, with nothing for the leaves past the last one. *)
computeParent(items) == GetHash(Flat(items))
RECURSIVE recCompute(_, _, _, _)
recCompute(hs, myIndex, depth, width) ==
    IF width^depth >= Len(hs) THEN IF myIndex >= Len(hs) THEN <<>> ELSE hs[myIndex + 1]
    ELSE computeParent([i \in 1..width |-> recCompute(hs, myIndex * width + i - 1, depth + 1, width)])
ComputeMerkleRoot(hs) == recCompute(hs, 0, 0, 2)

(* TxBlock: the root is computed from the transactions by both sides; a block without transactions has none. *)
SignedHashes(txs) == [i \in DOMAIN txs |-> GetHash(encodeSignedBytes(txs[i]))]
EncodeBlock(b) == <<b.index>> \o b.prev \o WriteList(b.txs, EncodeTx) \o ComputeMerkleRoot(SignedHashes(b.txs))
CheckRoot(r) == IF r.ok /\ r.idx # <<>> THEN CheckField(ReadHash(r), ComputeMerkleRoot(r.idx)) ELSE r
DecodeBlock(r) == CheckRoot(ReadList(ReadHash(ReadUint32(r)), 0..maxBlockTx, DecodeTx))

-----------------------------------------------------------------------------
(* Assets have an id and, as ValueAsset, a value.  The initial blocks hold a balance or an asset for each key. *)
InitUniqueName == <<95, 96>>
EncodeBasicAsset(a) == a.id
DecodeBasicAsset(r) == ReadHash(r)
EncodeValueAsset(a) == EncodeBasicAsset(a) \o <<a.value>>
DecodeValueAsset(r) == ReadUint32(DecodeBasicAsset(r))
EncodeAsset(a, kind) == IF kind = "value" THEN EncodeValueAsset(a) ELSE EncodeBasicAsset(a)
DecodeAsset(r, kind) == IF kind = "value" THEN DecodeValueAsset(r) ELSE DecodeBasicAsset(r)

EncodeInitBlock(b) == InitUniqueName \o WriteList(b.accounts, LAMBDA a : EncodePub(a.pub) \o <<a.balance>>)
DecodeInitBlock(r) == ReadList(ReadHash(r), Nat, LAMBDA s : ReadUint32(DecodePub(s)))
EncodeInitAssets(b) == InitUniqueName \o WriteList(b.accounts, LAMBDA a : EncodePub(a.pub) \o EncodeAsset(a.asset, b.asset))
DecodeInitAssets(r, kind) == ReadList(ReadHash(r), Nat, LAMBDA s : DecodeAsset(DecodePub(s), kind))

(* AssetTransfer: the receivers are as many as the outputs, and their number is not written again. *)
assetSignedBytes(t) ==
    EncodePub(t.sender) \o WriteList(t.inputs, LAMBDA h : h) \o WriteList(t.outputs, LAMBDA a : EncodeAsset(a, t.asset))
        \o Flat(t.receivers)
EncodeTransfer(t) == AddSizeBytes(assetSignedBytes(t)) \o (IF SignCausalAssets THEN EncodeSig(t.sig) ELSE <<>>)

ReadReceivers(r, n) == IF r.ok THEN ReadTimes(r, r.vals[n][1], DecodePub) ELSE r
ReadOutputs(r, kind) ==
    ReadReceivers(ReadList(r, 1..MaxAdditionalIndices, LAMBDA s : DecodeAsset(s, kind)), Len(r.vals) + 1)
DecodeAssetBytes(b, kind) == ReadOutputs(ReadList(DecodePub(Reader(b)), 1..MaxAdditionalIndices, ReadHash), kind)
TransferSigned(b, vals, s) ==
    CASE ~b.ok \/ ~s.ok -> Fail(b)
      [] SignCausalAssets -> DecodeSig([b EXCEPT !.vals = vals \o s.vals])
      [] OTHER -> [b EXCEPT !.vals = vals \o s.vals]
TransferBytes(b, vals, kind) == TransferSigned(b, vals, DecodeAssetBytes(Field(b), kind))
DecodeTransfer(r, kind) == TransferBytes(AtMost(ReadSizeBytes(r), MaxAssetSize), r.vals, kind)

(* TransactionList of TestTx *)
EncodeTxList(l) == WriteList(l.ids, LAMBDA i : <<i>>)
DecodeTxList(r) == ReadList(r, Nat, ReadUint32)

-----------------------------------------------------------------------------
(* What the machines write and how they read it: the currency and the list of transactions want the whole of *)
(* a proposal to be read (deserializeBlock, ValidateProposal), the assets do not look at what follows.        *)
Encode(p) ==
    CASE p.kind = "block" -> EncodeBlock(p)
      [] p.kind = "init" -> EncodeInitBlock(p)
      [] p.kind = "assets" -> EncodeInitAssets(p)
      [] p.kind = "transfer" -> EncodeTransfer(p)
      [] p.kind = "list" -> EncodeTxList(p)
\* ErrTooManyTxInBlock and the panics of encodeSignedBytes
Encodable(p) ==
    /\ p.kind = "block" => Len(p.txs) <= maxBlockTx
    /\ p.kind = "transfer" => /\ Len(p.inputs) \in 1..MaxAdditionalIndices
                              /\ Len(p.outputs) <= MaxAdditionalIndices /\ Len(p.outputs) = Len(p.receivers)
Decode(p, r) ==
    CASE p.kind = "block" -> DecodeBlock(r)
      [] p.kind = "init" -> DecodeInitBlock(r)
      [] p.kind = "assets" -> DecodeInitAssets(r, p.asset)
      [] p.kind = "transfer" -> DecodeTransfer(r, p.asset)
      [] p.kind = "list" -> DecodeTxList(r)
WholeRead(p, r) == p.kind \in {"block", "list"} => r.off = Len(r.buf)

BlockInit == conf = <<>> /\ sent = <<>> /\ buf = <<>> /\ got = <<>> /\ pos = "write"

WriteProposal ==
    /\ pos = "write"
    /\ \E p \in Proposals : Encodable(p) /\ sent' = <<p>> /\ buf' = Encode(p)
    /\ pos' = "sent"
    /\ UNCHANGED <<conf, got>>

\* a faulty proposer leaves something behind the proposal
LeaveRest ==
    /\ pos = "sent"
    /\ buf' = Append(buf, 1)
    /\ pos' = "rest"
    /\ UNCHANGED <<conf, sent, got>>

\* the kind of proposal is fixed by the state machine that runs
ReadProposals ==
    /\ pos \in {"sent", "rest"}
    /\ \E r \in {Decode(sent[1], Reader(buf))} : got' = [ok |-> r.ok /\ WholeRead(sent[1], r), vals |-> r.vals]
    /\ pos' = IF pos = "sent" THEN "read" ELSE "readRest"
    /\ UNCHANGED <<conf, sent, buf>>

BlockNext == WriteProposal \/ LeaveRest \/ ReadProposals

-----------------------------------------------------------------------------
FieldList(s, Op(_)) == <<<<Len(s)>>>> \o Flat([i \in DOMAIN s |-> Op(s[i])])
TxFields(tx) ==
    FieldList(tx.senders, LAMBDA s : <<s.pub, <<s.counter>>, <<s.amount>>>>)
        \o FieldList(tx.recipiants, LAMBDA s : <<s.pub, <<s.amount>>>>) \o tx.sigs
AssetFields(a, kind) == IF kind = "value" THEN <<a.id, <<a.value>>>> ELSE <<a.id>>
ProposalFields(p) ==
    CASE p.kind = "block" -> <<<<p.index>>, p.prev>> \o FieldList(p.txs, TxFields)
                                \o (IF p.txs = <<>> THEN <<>> ELSE <<ComputeMerkleRoot(SignedHashes(p.txs))>>)
      [] p.kind = "init" -> <<InitUniqueName>> \o FieldList(p.accounts, LAMBDA a : <<a.pub, <<a.balance>>>>)
      [] p.kind = "assets" -> <<InitUniqueName>> \o FieldList(p.accounts, LAMBDA a : <<a.pub>> \o AssetFields(a.asset, p.asset))
      [] p.kind = "transfer" -> <<p.sender>> \o FieldList(p.inputs, LAMBDA h : <<h>>)
                                    \o FieldList(p.outputs, LAMBDA a : AssetFields(a, p.asset)) \o p.receivers
                                    \o (IF SignCausalAssets THEN <<p.sig>> ELSE <<>>)
      [] p.kind = "list" -> FieldList(p.ids, LAMBDA i : <<<<i>>>>)
ReadableTx(tx) == Len(encodeSignedBytes(tx)) <= MaxTxSize
ReadableProposal(p) ==
    /\ p.kind = "block" => \A i \in DOMAIN p.txs : ReadableTx(p.txs[i])
    /\ p.kind = "transfer" => p.outputs # <<>>

(***************************************************************************)
(* A proposal is read back as it was written, whatever its counts are up   *)
(* to the limits of the writer, except for a transaction over MaxTxSize    *)
(* and a transfer without outputs, which are written and refused.  What    *)
(* follows a block or a list makes the whole of it invalid, and does not   *)
(* change what a transfer or an initial block is read as.  Blocks with the *)
(* same root hold the same transactions in the same order, although the    *)
(* tree has empty leaves (TransferTx.Decode, TxBlock.Decode,               *)
(* ComputeMerkleRoot, AssetTransfer.Decode).                               *)
(***************************************************************************)
BlockRoundTrip ==
    /\ pos \in {"read", "readRest"} =>
          /\ got.ok <=> ReadableProposal(sent[1]) /\ (pos = "readRest" => sent[1].kind \notin {"block", "list"})
          /\ got.ok => got.vals = ProposalFields(sent[1])
    /\ pos = "sent" /\ sent[1].kind = "block" =>
          \A p \in {q \in Proposals : q.kind = "block"} :
             ComputeMerkleRoot(SignedHashes(p.txs)) = ComputeMerkleRoot(SignedHashes(sent[1].txs))
             => SignedHashes(p.txs) = SignedHashes(sent[1].txs)
=============================================================================
