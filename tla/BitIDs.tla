------------------------------- MODULE BitIDs -------------------------------
(***************************************************************************)
(* Bit ids: the indices of the members that signed a multi-signature, kept *)
(* as a sorted list with repetitions (consensus/auth/bitid).  Six types    *)
(* hold the same items in different ways:                                  *)
(*   "slice"    a slice (SliceBitID),                                      *)
(*   "uvarint"  pairs of an item and how often it is repeated, the last    *)
(*              count written only when the bit id is first read           *)
(*              (UvarintBitID),                                            *)
(*   "p"        a string of bits, each 0 moving to the next item, each 1   *)
(*              an occurrence of it (Pbitid),                              *)
(*   "choose"   a slice, turned into the smaller of the two above when it  *)
(*              is encoded (ChooseBid),                                    *)
(*   "basic"    a bitmap without repetitions (BitID), and                  *)
(*   "multi"    a slice encoded as a bitmap and the repetitions            *)
(*              (MultiBitID).                                              *)
(* The first four are combined by the merging loops of                     *)
(* newbitidinterface.go, which build their result in an object of a pool,  *)
(* the last two by operations of their own.  A bit id of each type goes    *)
(* through the same operations here, beside a bag of what it must hold.    *)
(* An encoded uvarint is the number itself; a byte has W bits.             *)
(***************************************************************************)
EXTENDS Integers, SequencesExt, FiniteSetsExt

CONSTANTS
  W,          \* bits of a byte
  Item,       \* the indices used, a set of naturals
  Operands,   \* the bags combined with the bit ids, functions Item -> Nat
  MaxCount    \* bound: items of a bit id, with repetitions

VARIABLES
  obj,        \* type -> the bit id
  spare,      \* type -> the object its pool hands out next
  ref         \* type -> the bag the bit id must hold

bitVars == <<obj, spare, ref>>

Pooled == {"slice", "uvarint", "p", "choose"}

Types == Pooled \cup {"basic", "multi"}

\* The sorted list of a bag.
RECURSIVE ListFrom(_, _)
ListFrom(bag, S) ==
  IF S = {} THEN <<>>
  ELSE [k \in 1 .. bag[Min(S)] |-> Min(S)] \o ListFrom(bag, S \ {Min(S)})

ListOf(bag) == ListFrom(bag, Item)

Failed == <<-1>>

(***************************************************************************)
(* The loops over two sorted lists                                         *)
(***************************************************************************)

\* Moves an iterator past every repetition of its current item.
Past(s) == SelectSeq(s, LAMBDA x : x # Head(s))

RECURSIVE NewItems(_, _, _)
NewItems(s1, s2, lastAdded) ==
  CASE s2 = <<>> -> <<>>
    [] s2 # <<>> /\ s1 # <<>> /\ Head(s1) < Head(s2) -> NewItems(Tail(s1), s2, lastAdded)
    [] s2 # <<>> /\ s1 # <<>> /\ Head(s1) = Head(s2) -> NewItems(Past(s1), Past(s2), lastAdded)
    [] OTHER -> (IF Head(s2) # lastAdded THEN <<Head(s2)>> ELSE <<>>)
                  \o NewItems(s1, Tail(s2), Head(s2))

GetNewItemsHelper(s1, s2) == NewItems(s1, s2, -1)

RECURSIVE HasNewItemsHelper(_, _)
HasNewItemsHelper(s1, s2) ==
  /\ s2 # <<>>
  /\ \/ s1 = <<>>
     \/ s1 # <<>> /\ Head(s1) > Head(s2)
     \/ s1 # <<>> /\ Head(s1) < Head(s2) /\ HasNewItemsHelper(Tail(s1), s2)
     \/ s1 # <<>> /\ Head(s1) = Head(s2) /\ HasNewItemsHelper(Past(s1), Past(s2))

\* All three iterators move on when one of the first two is at the item of
\* the third, even when the other is at a larger item.
RECURSIVE HasNewItemsBothHelper(_, _, _)
HasNewItemsBothHelper(s1, s2, s3) ==
  LET Skip(s) == IF s = <<>> THEN s ELSE Past(s)
  IN  /\ s3 # <<>>
      /\ IF \A s \in {s1, s2} : s # <<>> => Head(s) > Head(s3)
         THEN TRUE
         ELSE IF s1 # <<>> /\ Head(s1) < Head(s3) THEN HasNewItemsBothHelper(Tail(s1), s2, s3)
         ELSE IF s2 # <<>> /\ Head(s2) < Head(s3) THEN HasNewItemsBothHelper(s1, Tail(s2), s3)
         ELSE HasNewItemsBothHelper(Skip(s1), Skip(s2), Past(s3))

RECURSIVE CheckIntersectionHelper(_, _)
CheckIntersectionHelper(s1, s2) ==
  CASE s1 = <<>> \/ s2 = <<>> -> <<>>
    [] s1 # <<>> /\ s2 # <<>> /\ Head(s1) > Head(s2) -> CheckIntersectionHelper(s1, Tail(s2))
    [] s1 # <<>> /\ s2 # <<>> /\ Head(s1) < Head(s2) -> CheckIntersectionHelper(Tail(s1), s2)
    [] OTHER -> <<Head(s1)>> \o CheckIntersectionHelper(Tail(s1), Tail(s2))

HasIntersectionHelper(s1, s2) == CheckIntersectionHelper(s1, s2) # <<>>

HasIntersectionCountHelper(s1, s2) == Len(CheckIntersectionHelper(s1, s2))

\* The loop of SubHelper: what is left of s1, and whether all of s2 was found.
RECURSIVE Subtract(_, _)
Subtract(s1, s2) ==
  CASE s1 = <<>> \/ s2 = <<>> -> [left |-> s1, all |-> s2 = <<>>]
    [] s1 # <<>> /\ s2 # <<>> /\ Head(s1) > Head(s2) ->
         [Subtract(s1, Tail(s2)) EXCEPT !.all = FALSE]
    [] s1 # <<>> /\ s2 # <<>> /\ Head(s1) < Head(s2) ->
         [Subtract(Tail(s1), s2) EXCEPT !.left = <<Head(s1)>> \o @]
    [] OTHER -> Subtract(Tail(s1), Tail(s2))

SubHelper(s1, s2, safeSub) ==
  IF \/ safeSub = "NonIntersectingAndEmpty" /\ Len(s2) >= Len(s1)
     \/ safeSub = "NonIntersecting" /\ Len(s2) > Len(s1)
     \/ safeSub # "NotSafe" /\ ~Subtract(s1, s2).all
  THEN Failed
  ELSE Subtract(s1, s2).left

\* The items of both lists in order, the second list's first.
RECURSIVE Merge(_, _)
Merge(s1, s2) ==
  CASE s2 = <<>> -> s1
    [] s1 = <<>> -> s2
    [] s1 # <<>> /\ s2 # <<>> /\ Head(s1) >= Head(s2) -> <<Head(s2)>> \o Merge(s1, Tail(s2))
    [] OTHER -> <<Head(s1)>> \o Merge(Tail(s1), s2)

\* A sorted list without its repetitions.
Unique(s) ==
  FoldLeft(LAMBDA acc, x : IF acc # <<>> /\ Last(acc) = x THEN acc ELSE Append(acc, x), <<>>, s)

Added(allowDuplicates, errorOnDuplicate, all) ==
  IF errorOnDuplicate /\ Unique(all) # all THEN Failed
  ELSE IF allowDuplicates THEN all ELSE Unique(all)

AddHelperSet(allowDuplicates, errorOnDuplicate, lists) ==
  Added(allowDuplicates, errorOnDuplicate, FoldLeft(Merge, <<>>, lists))

AddHelper(s1, s2, allowDuplicates, errorOnDuplicate) ==
  AddHelperSet(allowDuplicates, errorOnDuplicate, <<s1, s2>>)

(***************************************************************************)
(* SliceBitID, and the part of MultiBitID that is the same                 *)
(***************************************************************************)

SliceNew == [items |-> <<>>, nonDuplicateCount |-> 0]

SliceFromInts(s) == [items |-> s, nonDuplicateCount |-> Len(Unique(s))]

SliceAppend(bid, v) ==
  [items |-> Append(bid.items, v),
   nonDuplicateCount |-> bid.nonDuplicateCount
                           + (IF bid.items = <<>> \/ v # Last(bid.items) THEN 1 ELSE 0)]

SliceInfo(bid) ==
  IF bid.items = <<>> THEN <<0, 0, 0, 0>>
  ELSE <<Head(bid.items), Last(bid.items), Len(bid.items), bid.nonDuplicateCount>>

(***************************************************************************)
(* UvarintBitID: the items and counts one after the other in arr           *)
(***************************************************************************)

UvarintNew ==
  [arr |-> <<>>, min |-> 0, max |-> 0, size |-> 0, uniqueCount |-> 0,
   maxSizeIdx |-> 0, maxCount |-> 0, hasIteration |-> FALSE, panic |-> FALSE]

UvarintAppend(bid, v) ==
  LET isNew == bid.size = 0 \/ bid.max # v
      arr == (IF bid.size > 0 /\ isNew THEN Append(bid.arr, bid.maxCount) ELSE bid.arr)
               \o (IF isNew THEN <<v>> ELSE <<>>)
  IN  [bid EXCEPT !.arr = arr,
                  !.panic = @ \/ v < bid.max \/ bid.hasIteration,
                  !.size = @ + 1,
                  !.min = IF bid.size = 0 THEN v ELSE @,
                  !.max = v,
                  !.maxCount = IF isNew THEN 0 ELSE @ + 1,
                  !.uniqueCount = IF isNew THEN @ + 1 ELSE @,
                  !.maxSizeIdx = IF isNew THEN Len(arr) ELSE @]

\* Before the bit id is read the count of the last item is written.
writeMaxSizeCount(bid) ==
  IF bid.hasIteration THEN bid
  ELSE [bid EXCEPT !.hasIteration = TRUE,
                   !.arr = IF bid.size > 0
                           THEN Append(SubSeq(@, 1, bid.maxSizeIdx), bid.maxCount) ELSE @]

\* Every item is written with its count.
UvarintFromInts(s) ==
  LET bid == writeMaxSizeCount(FoldLeft(UvarintAppend, UvarintNew, s))
  IN  [bid EXCEPT !.hasIteration = FALSE]

RECURSIVE UvarintRead(_)
UvarintRead(arr) ==
  IF Len(arr) < 2 THEN <<>>
  ELSE [k \in 1 .. arr[2] + 1 |-> arr[1]] \o UvarintRead(SubSeq(arr, 3, Len(arr)))

\* construct reads the items and counts of a received bit id once.
UvarintConstruct(arr) ==
  LET items == {k \in DOMAIN arr : k % 2 = 1}
  IN  IF \E k \in items : k > 1 /\ arr[k] <= arr[k - 2] THEN [err |-> TRUE]
      ELSE FoldLeft(LAMBDA bid, k :
                      [bid EXCEPT !.uniqueCount = @ + 1,
                                  !.min = IF bid.size = 0 THEN arr[k] ELSE @,
                                  !.max = arr[k],
                                  !.maxSizeIdx = k,
                                  !.maxCount = arr[k + 1],
                                  !.size = @ + arr[k + 1] + 1],
                    [UvarintNew EXCEPT !.arr = arr],
                    [k \in 1 .. Cardinality(items) |-> 2 * k - 1])

(***************************************************************************)
(* Pbitid: a string of bits filling whole bytes                            *)
(***************************************************************************)

PNew == [buff |-> <<>>, lastIdx |-> 0, numItems |-> 0, min |-> 0, max |-> 0, uniqueCount |-> 0]

\* The buffer grows by bytes until it holds the bit with this index.
Grow(buff, idx) ==
  buff \o [k \in 1 .. Max({0, (idx \div W + 1) * W - Len(buff)}) |-> 0]

PAppend(bid, nxt) ==
  LET idx == bid.lastIdx + nxt - bid.max
  IN  [buff |-> [Grow(bid.buff, idx) EXCEPT ![idx + 1] = 1],
       lastIdx |-> idx + 1,
       numItems |-> bid.numItems + 1,
       min |-> IF bid.numItems = 0 THEN nxt ELSE bid.min,
       max |-> nxt,
       uniqueCount |-> bid.uniqueCount + (IF bid.max # nxt \/ bid.numItems = 0 THEN 1 ELSE 0)]

PRead(buff) ==
  FoldLeft(LAMBDA at, b : IF b = 0 THEN [at EXCEPT !.val = @ + 1]
                          ELSE [at EXCEPT !.items = Append(@, at.val)],
           [val |-> 0, items |-> <<>>], buff).items

\* construct counts the items of a received bit id, the smallest being the zeros
\* before the first one; the index of the last bit stays 0.
PConstruct(buff) ==
  LET ones == {k \in DOMAIN buff : buff[k] = 1}
      zerosBefore(k) == Cardinality({j \in 1 .. k : buff[j] = 0})
  IN  IF ones = {} THEN [PNew EXCEPT !.buff = buff]
      ELSE [PNew EXCEPT !.buff = buff,
                        !.numItems = Cardinality(ones),
                        !.min = Min(ones) - 1,
                        !.max = zerosBefore(Max(ones)),
                        !.uniqueCount = Cardinality({k \in ones : k = 1 \/ buff[k - 1] = 0})]

(***************************************************************************)
(* BitID: a bitmap of len bytes, and the type byte of its encoding         *)
(***************************************************************************)

BytesFor(S) == IF S = {} THEN 0 ELSE Max(S) \div W + 1

BasicFromInts(s) ==
  [bits |-> ToSet(s), len |-> BytesFor(ToSet(s)), typ |-> IF s = <<>> THEN "basic" ELSE "single"]

\* The result of an operation on bitmaps, its trailing zero bytes trimmed.
Trimmed(S) == [bits |-> S, len |-> BytesFor(S), typ |-> "single"]

MergeBitID(bid1, bid2) == Trimmed(bid1.bits \cup bid2.bits)

SubBitID(bid1, bid2) == Trimmed(bid1.bits \ bid2.bits)

GetNewItems(bid, other) == Trimmed(other.bits \ bid.bits)

BasicList(bid) == SetToSortSeq(bid.bits, <)

BasicInfo(bid) ==
  IF bid.bits = {} THEN <<0, 0, 0, 0>>
  ELSE <<Min(bid.bits), Max(bid.bits), Cardinality(bid.bits), Cardinality(bid.bits)>>

\* The bitmap is sent when it is not longer than four bytes an item.
BasicEncode(bid) ==
  IF bid.len <= 4 * Cardinality(bid.bits)
  THEN [typ |-> bid.typ, bits |-> bid.bits, ints |-> <<>>]
  ELSE [typ |-> "basic", bits |-> {}, ints |-> BasicList(bid)]

BasicDecode(enc) ==
  CASE enc.typ = "single" -> Trimmed(enc.bits)
    [] enc.typ = "basic" -> BasicFromInts(enc.ints)
    [] OTHER -> [err |-> TRUE]

(***************************************************************************)
(* MultiBitID                                                              *)
(***************************************************************************)

\* The count of distinct items is left at 0 by the operations below.
MultiOf(s) == [items |-> s, nonDuplicateCount |-> 0]

MergeMultiBitID(bid1, bid2) == MultiOf(Merge(bid1.items, bid2.items))

MergeMultiBitIDNoDup(bid1, bid2) == MultiOf(Unique(Merge(bid1.items, bid2.items)))

\* What a binary search for x leaves of a sorted list.
From(s, x) == SelectSeq(s, LAMBDA y : y >= x)

RECURSIVE SubList(_, _)
SubList(s1, s2) ==
  IF s1 = <<>> THEN <<>>
  ELSE LET rest == From(s2, Head(s1))
       IN  IF rest # <<>> /\ Head(rest) = Head(s1) THEN SubList(Tail(s1), Tail(rest))
           ELSE <<Head(s1)>> \o SubList(Tail(s1), rest)

SubMultiBitID(bid1, bid2) == MultiOf(SubList(bid1.items, bid2.items))

MultiGetNewItems(bid, other) ==
  MultiOf(Unique(SelectSeq(other.items,
                           LAMBDA x : LET rest == From(bid.items, x)
                                      IN  rest = <<>> \/ Head(rest) # x)))

GetDuplicates(s) ==
  FoldLeftDomain(LAMBDA acc, k : IF k > 1 /\ s[k] = s[k - 1] THEN Append(acc, s[k]) ELSE acc,
                 <<>>, s)

\* The distinct items as a bitmap, then the repetitions.
MultiEncode(bid) ==
  [prebid |-> BasicEncode(BasicFromInts(Unique(bid.items))), dups |-> GetDuplicates(bid.items)]

MultiDecode(enc) ==
  LET preItems == BasicList(BasicDecode(enc.prebid))
  IN  [items |-> Merge(preItems, enc.dups), nonDuplicateCount |-> Len(preItems)]

(***************************************************************************)
(* The operations every type has                                           *)
(***************************************************************************)

Nil == [nil |-> TRUE]

\* A bit id of the type made by New.
New(t) ==
  CASE t \in {"slice", "multi"} -> SliceNew
    [] t = "uvarint" -> UvarintNew
    [] t = "p" -> PNew
    [] t = "basic" -> BasicFromInts(<<>>)
    [] t = "choose" -> [inner |-> Nil, type |-> "slice", sli |-> SliceNew]

FromInts(t, s) ==
  CASE t \in {"slice", "multi"} -> SliceFromInts(s)
    [] t = "uvarint" -> UvarintFromInts(s)
    [] t = "p" -> FoldLeft(PAppend, PNew, s)
    [] t = "basic" -> BasicFromInts(s)
    [] t = "choose" -> [inner |-> Nil, type |-> "slice", sli |-> SliceFromInts(s)]

AppendItem(t, bid, v) ==
  CASE t = "slice" -> SliceAppend(bid, v)
    [] t = "uvarint" -> UvarintAppend(bid, v)
    [] t = "p" -> PAppend(bid, v)
    [] t = "choose" -> [bid EXCEPT !.sli = SliceAppend(@, v)]

RECURSIVE GetBasicInfo(_, _)
GetBasicInfo(t, bid) ==
  CASE t \in {"slice", "multi"} -> SliceInfo(bid)
    [] t = "uvarint" -> <<bid.min, bid.max, bid.size, bid.uniqueCount>>
    [] t = "p" -> <<bid.min, bid.max, bid.numItems, bid.uniqueCount>>
    [] t = "basic" -> BasicInfo(bid)
    [] t = "choose" -> IF bid.inner = Nil THEN SliceInfo(bid.sli) ELSE GetBasicInfo(bid.type, bid.inner)

\* The bit id once an iterator of it, or its string, has been asked for.
RECURSIVE NewIterator(_, _)
NewIterator(t, bid) ==
  CASE t = "uvarint" -> writeMaxSizeCount(bid)
    [] t = "choose" /\ bid.inner # Nil -> [bid EXCEPT !.inner = NewIterator(bid.type, @)]
    [] OTHER -> bid

\* The items the iterator goes through.
RECURSIVE Items(_, _)
Items(t, bid) ==
  CASE t \in {"slice", "multi"} -> bid.items
    [] t = "uvarint" -> UvarintRead(writeMaxSizeCount(bid).arr)
    [] t = "p" -> PRead(bid.buff)
    [] t = "basic" -> BasicList(bid)
    [] t = "choose" -> IF bid.inner = Nil THEN bid.sli.items ELSE Items(bid.type, bid.inner)


\* An object is emptied before its pool may hand it out again.
Done(t, bid) ==
  CASE t = "slice" -> [bid EXCEPT !.items = <<>>, !.nonDuplicateCount = 0]
    [] t = "uvarint" -> [bid EXCEPT !.arr = <<>>, !.min = 0, !.max = 0, !.size = 0, !.uniqueCount = 0,
                                    !.maxSizeIdx = 0, !.maxCount = 0, !.hasIteration = FALSE]
    [] t = "p" -> [bid EXCEPT !.buff = <<>>, !.uniqueCount = 0, !.numItems = 0, !.max = 0,
                              !.lastIdx = 0, !.min = 0]
    [] t = "choose" -> [bid EXCEPT !.sli = SliceNew, !.inner = Nil, !.type = "slice"]

BitLength(n) == CHOOSE k \in 0 .. n : 2 ^ k > n /\ \A j \in 0 .. k - 1 : 2 ^ j <= n

\* The type ChooseBid takes, by the bytes each would use.
Smaller(sli) ==
  LET info == SliceInfo(sli)
      pBidSize == (info[2] + info[3]) \div W + 1
      uvarintSize == (BitLength(info[2]) \div W + 1) * info[4] + info[4]
  IN  IF pBidSize <= uvarintSize THEN "p" ELSE "uvarint"

\* The bit id once it has been encoded.
Encoded(t, bid) ==
  CASE t = "choose" /\ bid.inner = Nil ->
         LET type == Smaller(bid.sli)
         IN  [bid EXCEPT !.type = type, !.inner = NewIterator(type, FromInts(type, bid.sli.items))]
    [] OTHER -> NewIterator(t, bid)

\* Its bytes, without the length that goes before them.
RECURSIVE Encode(_, _)
Encode(t, bid) ==
  CASE t = "slice" -> bid.items
    [] t = "uvarint" -> writeMaxSizeCount(bid).arr
    [] t = "p" -> bid.buff
    [] t = "basic" -> BasicEncode(bid)
    [] t = "multi" -> MultiEncode(bid)
    [] t = "choose" -> LET b == Encoded(t, bid) IN [type |-> b.type, enc |-> Encode(b.type, b.inner)]

RECURSIVE Decode(_, _)
Decode(t, enc) ==
  CASE t = "slice" -> SliceFromInts(enc)
    [] t = "uvarint" -> UvarintConstruct(enc)
    [] t = "p" -> PConstruct(enc)
    [] t = "basic" -> BasicDecode(enc)
    [] t = "multi" -> MultiDecode(enc)
    [] t = "choose" -> [inner |-> Decode(enc.type, enc.enc), type |-> enc.type, sli |-> SliceNew]

(***************************************************************************)
(* A bit id of every type through the same operations                      *)
(***************************************************************************)

\* The bitmap holds an item once.
Capped(t, bag) == IF t = "basic" THEN [i \in Item |-> Min({1, bag[i]})] ELSE bag

Init ==
  \E bag \in Operands :
    /\ ref = [t \in Types |-> Capped(t, bag)]
    /\ obj = [t \in Types |-> FromInts(t, ListOf(ref[t]))]
    /\ spare = [t \in Types |-> New(t)]

\* A helper appends the items it finds to an object of the pool.
Built(t, items) == FoldLeft(LAMBDA bid, v : AppendItem(t, bid, v), spare[t], items)

\* The bit ids are replaced by what op makes of them and the operand o; the
\* objects the helpers read go back to their pools.
Combine(o, pooled(_, _), basic(_, _), multi(_, _), bag(_, _)) ==
  LET operand(t) == FromInts(t, ListOf(Capped(t, o)))
  IN  /\ ref' = [t \in Types |-> Capped(t, [i \in Item |-> bag(ref[t][i], Capped(t, o)[i])])]
      /\ obj' = [t \in Types |->
                   CASE t = "basic" -> basic(obj[t], operand(t))
                     [] t = "multi" -> multi(obj[t], operand(t))
                     [] OTHER -> Built(t, pooled(Items(t, obj[t]), Items(t, operand(t))))]
      /\ spare' = [t \in Types |->
                     IF t \in Pooled THEN Done(t, NewIterator(t, obj[t])) ELSE spare[t]]

\* The items of both, repeated ones once.
AddOnce(o) ==
  Combine(o, LAMBDA a, b : AddHelper(a, b, FALSE, FALSE), MergeBitID, MergeMultiBitIDNoDup,
          LAMBDA m, n : Min({1, m + n}))

\* The items of both with their repetitions; a bitmap has none.
AddAll(o) ==
  /\ MapThenSumSet(LAMBDA i : ref["multi"][i] + o[i], Item) <= MaxCount
  /\ Combine(o, LAMBDA a, b : AddHelper(a, b, TRUE, FALSE), MergeBitID, MergeMultiBitID,
             LAMBDA m, n : m + n)

Sub(o) ==
  Combine(o, LAMBDA a, b : SubHelper(a, b, "NotSafe"), SubBitID, SubMultiBitID,
          LAMBDA m, n : Max({0, m - n}))

GetNew(o) ==
  Combine(o, GetNewItemsHelper, GetNewItems, MultiGetNewItems,
          LAMBDA m, n : IF m = 0 /\ n > 0 THEN 1 ELSE 0)

\* Each bit id is sent and what the receiver decodes takes its place.
Send ==
  /\ \E i \in Item : ref["basic"][i] > 0
  /\ obj' = [t \in Types |-> Decode(t, Encode(t, obj[t]))]
  /\ UNCHANGED <<spare, ref>>

\* The bit ids are encoded, or read, and kept.
Keep ==
  /\ obj' \in {[t \in Types |-> Encoded(t, obj[t])], [t \in Types |-> NewIterator(t, obj[t])]}
  /\ UNCHANGED <<spare, ref>>

Next ==
  \/ \E o \in Operands : AddOnce(o) \/ AddAll(o) \/ Sub(o) \/ GetNew(o)
  \/ Send
  \/ Keep

Spec == Init /\ [][Next]_bitVars

(***************************************************************************)
(* Property                                                                *)
(***************************************************************************)


=============================================================================
