-------------------------- MODULE ByteArraySerializer --------------------------
(***************************************************************************)
(* ucxx::ByteArraySerializer (src/ByteArraySerializer.cpp): encodes a      *)
(* Variant into its ByteArray (pushValue) and decodes Variants from it at  *)
(* the read index m_index (popValue).                                      *)
(*                                                                         *)
(* The wire format is modelled byte for byte for the little-endian build   *)
(* with 1-byte bool, 4-byte int and unsigned, 8-byte double that           *)
(* pushRawValue/popRawValue copy from and to memory.  Decoding is a set of *)
(* outcomes because reading a bool from a byte other than 0 or 1 is        *)
(* undefined behaviour and may yield either value.                         *)
(***************************************************************************)
EXTENDS Integers, Sequences, SequencesExt, TLC, Variant, ByteArray

\* cTypeSignature: the signature byte ('X','N','B','I','R','S','L','M').
cTypeSignature ==
    [Invalid |-> 88, Null |-> 78, Boolean |-> 66, Integer |-> 73,
     Real |-> 82, String |-> 83, List |-> 76, Map |-> 77]

\* cSignatureToTypeMap, the inverse map used when decoding.
cSignatureToTypeMap ==
    [c \in {cTypeSignature[t] : t \in Types} |->
        CHOOSE t \in Types : cTypeSignature[t] = c]

-----------------------------------------------------------------------------
(* pushRawValue<T>: the bytes of the in-memory representation of T.       *)
RECURSIVE LittleEndian(_, _)
LittleEndian(n, w) ==
    IF w = 0 THEN <<>> ELSE <<n % 256>> \o LittleEndian(n \div 256, w - 1)

\* int, two's complement: the bytes of -i-1 complemented when i < 0.
IntBytes(i) ==
    IF i >= 0 THEN LittleEndian(i, 4)
    ELSE [k \in 1..4 |-> 255 - LittleEndian(-i - 1, 4)[k]]

UnsignedBytes(n) == LittleEndian(n, 4)
BoolBytes(b) == <<IF b THEN 1 ELSE 0>>

(* popRawValue<T>: the value whose representation is the given bytes.     *)
RECURSIVE LittleEndianValue(_)
LittleEndianValue(bs) ==
    IF bs = <<>> THEN 0 ELSE Head(bs) + 256 * LittleEndianValue(Tail(bs))

\* Mutant of IntOf: the complement taken without the final borrow.
IntOfNoBorrow(bs) ==
    IF bs[4] < 128 THEN LittleEndianValue(bs)
    ELSE -LittleEndianValue([k \in 1..4 |-> 255 - bs[k]])

IntOf(bs) ==
    IF bs[4] < 128 THEN LittleEndianValue(bs)
    ELSE -1 - LittleEndianValue([k \in 1..4 |-> 255 - bs[k]])

\* An unsigned >= 2^31 exceeds every buffer of the model; it is represented
\* by HugeCount, which every length check of the code treats the same way.
HugeCount == 2147483647
UnsignedOf(bs) == IF bs[4] < 128 THEN LittleEndianValue(bs) ELSE HugeCount

\* A bool object holding a byte other than 0 or 1: either value.
BoolOf(byte) == CASE byte = 0 -> {FALSE}
                  [] byte = 1 -> {TRUE}
                  [] OTHER    -> BOOLEAN

-----------------------------------------------------------------------------
(* pushValue and the push* helpers it dispatches to: each takes          *)
(* m_byteArray and returns it with the bytes it appends.                   *)

\* pushRawValue<T>(value, byteArray): the representation, appended with
\* ByteArray::append(buffer, sizeof(T)).
pushRawValue(bytes, ba) == appendBuffer(ba, bytes, Len(bytes))

pushTypeSignature(ba, t) == appendChar(ba, cTypeSignature[t])
pushInvalid(ba) == pushTypeSignature(ba, "Invalid")
pushNull(ba)    == pushTypeSignature(ba, "Null")
pushBoolean(ba, x) == pushRawValue(BoolBytes(x), pushTypeSignature(ba, "Boolean"))
pushInteger(ba, x) == pushRawValue(IntBytes(x), pushTypeSignature(ba, "Integer"))
pushReal(ba, x)    == pushRawValue(x, pushTypeSignature(ba, "Real"))
pushString(ba, x)  ==
    LET length == Len(x)
    IN  appendBuffer(pushRawValue(UnsignedBytes(length),
                                  pushTypeSignature(ba, "String")), x, length)

RECURSIVE pushValue(_, _), pushList(_, _), pushMap(_, _)

pushList(ba, l) ==
    FoldLeft(pushValue,
             pushRawValue(UnsignedBytes(Len(l)), pushTypeSignature(ba, "List")),
             l)

\* A std::map iterates in ascending key order; each pair is pushed as the
\* key, as a String Variant, then the value.
pushMap(ba, m) ==
    LET keys == SetToSortSeq(DOMAIN m, StringLess)
        pushPair(acc, k) == pushValue(pushValue(acc, StringV(k)), m[k])
    IN  FoldLeft(pushPair,
                 pushRawValue(UnsignedBytes(Len(keys)), pushTypeSignature(ba, "Map")),
                 keys)

pushValue(ba, v) ==
    CASE v.type = "Null"    -> pushNull(ba)
      [] v.type = "Boolean" -> pushBoolean(ba, v.val)
      [] v.type = "Integer" -> pushInteger(ba, v.val)
      [] v.type = "Real"    -> pushReal(ba, v.val)
      [] v.type = "String"  -> pushString(ba, v.val)
      [] v.type = "List"    -> pushList(ba, v.val)
      [] v.type = "Map"     -> pushMap(ba, v.val)
      [] OTHER              -> pushInvalid(ba)

-----------------------------------------------------------------------------
(* Decoding from buffer b at read index i (bytes already consumed).        *)
(* An outcome is the returned bool, the value and the new m_index.         *)
NoValue == [type |-> "None", val |-> 0]
Fail(i) == [ok |-> FALSE, val |-> NoValue, idx |-> i]
Ok(v, i) == [ok |-> TRUE, val |-> v, idx |-> i]

\* available(), and the byteArray.size() - index of popRawValue: a size_t,
\* so past the end it wraps around to a number larger than any width
\* (HugeCount stands for it).
available(b, i) == IF i <= size(b) THEN size(b) - i ELSE HugeCount

\* The w bytes at constData() + i (the bytes past the end are undefined).
Load(b, i, w) == [k \in 1..w |-> constData(b, i + k - 1)]

\* popBoolean / popInteger / popReal: popRawValue of width w.
popBoolean(b, i) ==
    IF available(b, i) < 1 THEN {Fail(i)}
    ELSE {Ok(BooleanV(x), i + 1) : x \in BoolOf(Load(b, i, 1)[1])}

\* Mutant of popInteger: the width check off by one.
popIntegerShort(b, i) ==
    IF available(b, i) < 3 THEN {Fail(i)}
    ELSE {Ok(IntegerV(IntOf(Load(b, i, 4))), i + 4)}

popInteger(b, i) ==
    IF available(b, i) < 4 THEN {Fail(i)}
    ELSE {Ok(IntegerV(IntOf(Load(b, i, 4))), i + 4)}

popReal(b, i) ==
    IF available(b, i) < 8 THEN {Fail(i)}
    ELSE {Ok(RealV(Load(b, i, 8)), i + 8)}

\* popString: the length is consumed before it is checked against the
\* remaining bytes, so a failure leaves m_index after the length field.
popString(b, i) ==
    IF available(b, i) < 4 THEN {Fail(i)}
    ELSE LET n == UnsignedOf(Load(b, i, 4))
             j == i + 4
         IN IF available(b, j) < n THEN {Fail(j)}
            ELSE {Ok(StringV(Load(b, j, n)), j + n)}

RECURSIVE popValue(_, _), popItems(_, _, _, _), popPairs(_, _, _, _)

\* popList: header, then the loop over the declared count.  The first
\* element that fails ends the loop where it stopped.
popList(b, i) ==
    IF available(b, i) < 4 THEN {Fail(i)}
    ELSE popItems(b, i + 4, UnsignedOf(Load(b, i, 4)), <<>>)

popItems(b, i, n, acc) ==
    IF n = 0 THEN {Ok(ListV(acc), i)}
    ELSE UNION {IF o.ok THEN popItems(b, o.idx, n - 1, Append(acc, o.val))
                ELSE {Fail(o.idx)} : o \in popValue(b, i)}

\* popMap: each pair is a key, which must decode as a String, then a value;
\* map[key] = v lets a later duplicate key overwrite an earlier one.
popMap(b, i) ==
    IF available(b, i) < 4 THEN {Fail(i)}
    ELSE popPairs(b, i + 4, UnsignedOf(Load(b, i, 4)), <<>>)

popPairs(b, i, n, m) ==
    IF n = 0 THEN {Ok(MapV(m), i)}
    ELSE UNION {
        IF ~ko.ok \/ ko.val.type # "String" THEN {Fail(ko.idx)}
        ELSE UNION {IF vo.ok
                    THEN popPairs(b, vo.idx, n - 1,
                                  (ko.val.val :> vo.val) @@ m)
                    ELSE {Fail(vo.idx)} : vo \in popValue(b, ko.idx)}
        : ko \in popValue(b, i)}

\* popTypeSignature: the type of the signature byte at i, or "None" when
\* there is no byte or it is not a signature (m_index is then left alone).
popTypeSignature(b, i) ==
    IF available(b, i) < 1 \/ Load(b, i, 1)[1] \notin DOMAIN cSignatureToTypeMap
    THEN "None"
    ELSE cSignatureToTypeMap[Load(b, i, 1)[1]]

\* popValue: available() <= 0 fails, then popTypeSignature, then dispatch
\* to the reader of the type just after the signature byte.
popValue(b, i) ==
    LET t == popTypeSignature(b, i)
        j == i + 1
    IN IF available(b, i) = 0 \/ t = "None" THEN {Fail(i)}
       ELSE CASE t = "Invalid" -> {Ok(InvalidV, j)}
              [] t = "Null"    -> {Ok(NullV, j)}
              [] t = "Boolean" -> popBoolean(b, j)
              [] t = "Integer" -> popInteger(b, j)
              [] t = "Real"    -> popReal(b, j)
              [] t = "String"  -> popString(b, j)
              [] t = "List"    -> popList(b, j)
              [] t = "Map"     -> popMap(b, j)

-----------------------------------------------------------------------------
(***************************************************************************)
(* One serializer object, driven through its public methods by a caller   *)
(* that pushes values, pops values, resets the read index and loads byte   *)
(* arrays received from elsewhere, complete or truncated.                 *)
(***************************************************************************)
CONSTANTS
    Values,   \* Variants the caller pushes, and whose encodings it loads
    Garbled,  \* byte arrays received that are no encoding pushValue makes
    Garbage,  \* model value: the segment a Garbled array stands for
    MaxBytes  \* bound on the size of the byte array

VARIABLES
    byteArray,  \* m_byteArray
    index,      \* m_index
    segs,       \* history: what byteArray is made of, as segments
                \* [val |-> v, len |-> n]: the first n bytes of the encoding of v,
                \* or [val |-> Garbage, len |-> n] for a Garbled array
    lastPop     \* history: what the last popValue returned and stored in v

serializerVars == <<byteArray, index, segs, lastPop>>

NoPop == [ok |-> FALSE, val |-> NoValue]

SegmentsOf(v, n) == IF n = 0 THEN <<>> ELSE <<[val |-> v, len |-> n]>>

TypeOK ==
    /\ byteArray \in Seq(Byte)
    /\ index \in Nat
    /\ segs \in Seq([val : Values \cup {Garbage}, len : Nat \ {0}])
    /\ lastPop.ok \in BOOLEAN
    /\ lastPop.val.type \in Types \cup {"None"}

\* The bytes pushValue(v) appends: pushValue on an empty ByteArray.
Encoding == [v \in Values |-> pushValue(EmptyByteArray, v)]

\* The first n bytes of the encoding of v: a value received in full
\* (n = Len(Encoding[v])), cut short, or not at all (n = 0).
Received(v, n) == SubSeq(Encoding[v], 1, n)
Cuts(v) == 0..Len(Encoding[v])

\* ByteArraySerializer() / ByteArraySerializer(ba): the array, and reset().
Init ==
    \E v \in Values : \E n \in Cuts(v) :
        /\ byteArray = Received(v, n)
        /\ index = 0
        /\ segs = SegmentsOf(v, n)
        /\ lastPop = NoPop

\* pushValue(v): appends the encoding of v to m_byteArray.
PushValue(v) ==
    /\ Len(byteArray) + Len(Encoding[v]) <= MaxBytes
    /\ byteArray' = pushValue(byteArray, v)
    /\ segs' = segs \o SegmentsOf(v, Len(Encoding[v]))
    /\ UNCHANGED <<index, lastPop>>

\* popValue(v): decodes at m_index; m_index ends wherever decoding stopped,
\* on failure as well as on success.
PopValue ==
    \E o \in popValue(byteArray, index) :
        /\ index' = o.idx
        /\ lastPop' = [ok |-> o.ok, val |-> o.val]
        /\ UNCHANGED <<byteArray, segs>>

\* reset(): m_index = 0.
Reset ==
    /\ index' = 0
    /\ UNCHANGED <<byteArray, segs, lastPop>>

\* initWith(ba): m_byteArray = ba; reset().  ba is the encoding of v as
\* far as it has arrived.
InitWith(v, n) ==
    /\ byteArray' = Received(v, n)
    /\ index' = 0
    /\ segs' = SegmentsOf(v, n)
    /\ lastPop' = NoPop

\* initWith(ba) with bytes no pushValue produced.
InitWithGarbled(b) ==
    /\ byteArray' = b
    /\ index' = 0
    /\ segs' = <<[val |-> Garbage, len |-> Len(b)]>>
    /\ lastPop' = NoPop

Next ==
    \/ \E v \in Values : PushValue(v)
    \/ PopValue
    \/ Reset
    \/ \E v \in Values : \E n \in Cuts(v) : InitWith(v, n)
    \/ \E b \in Garbled : InitWithGarbled(b)

Spec == Init /\ [][Next]_serializerVars

-----------------------------------------------------------------------------
\* Offset of the first byte of segment k.
SegStart(k) == LET RECURSIVE S(_)
                   S(j) == IF j = 0 THEN 0 ELSE segs[j].len + S(j - 1)
               IN S(k - 1)

Sent(k) == segs[k].val # Garbage

Complete(k) == Sent(k) /\ segs[k].len = Len(Encoding[segs[k].val])

(* m_index never passes the end of m_byteArray, whatever bytes were        *)
(* received, length fields beyond the buffer included.  popRawValue        *)
(* computes byteArray.size() - index in unsigned arithmetic, so every      *)
(* later bounds check relies on this (popRawValue, popString).             *)
CursorInBounds == index <= Len(byteArray)

(* A popValue that starts where a pushed or received value starts decodes  *)
(* exactly that value and stops where the next one starts; if that value  *)
(* arrived cut short and nothing follows it, popValue fails.  This is the  *)
(* round trip and the truncation safety of pushValue/popValue, through any *)
(* sequence of push, pop, reset and initWith calls.                        *)
DecodeFaithful ==
    [][PopValue =>
         \A k \in DOMAIN segs :
            index = SegStart(k) =>
                IF Complete(k)
                THEN /\ lastPop'.ok
                     /\ lastPop'.val = segs[k].val
                     /\ index' = SegStart(k + 1)
                ELSE Sent(k) /\ k = Len(segs) => ~lastPop'.ok]_serializerVars

(* Every value popValue returns is one that was pushed or received, read   *)
(* from where it starts: a caller that retries popValue after a failure,   *)
(* as spec.md §7 expects of streaming callers, never gets a value nobody   *)
(* sent.  (What a Garbled array decodes to is not constrained.)            *)
NoPhantomValue ==
    [][PopValue /\ lastPop'.ok =>
         \E k \in DOMAIN segs : /\ index = SegStart(k)
                                /\ ~Sent(k) \/ lastPop'.val = segs[k].val]_serializerVars

(* popValue accepts only canonical encodings: the bytes a successful       *)
(* popValue consumed are exactly what pushValue writes for the value it    *)
(* returned.  popMap stores map[key] = v (line 335), so a repeated or      *)
(* unsorted key is accepted, and popRawValue<bool> (line 47) accepts any   *)
(* non-zero byte; both decode bytes that no pushValue writes.              *)
DecodeCanonical ==
    [][PopValue /\ lastPop'.ok =>
         SubSeq(byteArray, index + 1, index') =
            pushValue(EmptyByteArray, lastPop'.val)]_serializerVars
=============================================================================
