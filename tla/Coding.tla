------------------------------- MODULE Coding -------------------------------
(***************************************************************************)
(* The byte codecs of coding.cpp and coding.h (src/src/util/coding.cpp,   *)
(* src/unnamed/part_002): an encoder appends items to a std::string dst   *)
(* with the Put* routines; a decoder then parses a Slice over the first   *)
(* limit bytes of it (the whole buffer or a truncated copy) with the Get* *)
(* routines, in the order the items were written.                         *)
(*                                                                         *)
(* A byte is 0..255; a Slice is the offset of its data in dst (pos) and   *)
(* its end (limit).  Values stay below 2^31, TLC's integer range: the     *)
(* 5-byte varint32 form is reached, the 6- to 10-byte varint64 forms are  *)
(* not.                                                                    *)
(***************************************************************************)
EXTENDS Integers, Sequences, SequencesExt

CONSTANTS
  Values,    \* integers written with PutVarint32 / PutVarint64
  Strings,   \* byte strings written with PutLengthPrefixedSlice
  MaxItems   \* bound on the number of Put calls

ASSUME Values \subseteq 0..2147483647
ASSUME Strings \subseteq Seq(0..255)
ASSUME MaxItems \in Nat

B == 128

(***************************************************************************)
(* Encoders.                                                               *)
(***************************************************************************)

\* EncodeFixed32 / EncodeFixed64: memcpy of the value on a little-endian
\* target (port::kLittleEndian), least significant byte first.
RECURSIVE EncodeFixedLE(_, _)
EncodeFixedLE(v, width) ==
  IF width = 0 THEN <<>> ELSE <<v % 256>> \o EncodeFixedLE(v \div 256, width - 1)

\* The byte stored by *(ptr++) = x | B: the low 7 bits with bit 7 set.
OrB(x) == (x % B) + B

\* Fault: <= for < in the if-chain, so 2^7, 2^14, ... get one byte too few.
EncodeVarint32Le(v) ==
  CASE v <= 2^7  -> <<v % 256>>
    [] v <= 2^14 -> <<OrB(v), v \div 2^7>>
    [] v <= 2^21 -> <<OrB(v), OrB(v \div 2^7), v \div 2^14>>
    [] v <= 2^28 -> <<OrB(v), OrB(v \div 2^7), OrB(v \div 2^14), v \div 2^21>>
    [] OTHER     -> <<OrB(v), OrB(v \div 2^7), OrB(v \div 2^14),
                      OrB(v \div 2^21), v \div 2^28>>

\* EncodeVarint32: the if-chain on v < 2^7, 2^14, 2^21, 2^28.
EncodeVarint32(v) ==
  CASE v < 2^7  -> <<v>>
    [] v < 2^14 -> <<OrB(v), v \div 2^7>>
    [] v < 2^21 -> <<OrB(v), OrB(v \div 2^7), v \div 2^14>>
    [] v < 2^28 -> <<OrB(v), OrB(v \div 2^7), OrB(v \div 2^14), v \div 2^21>>
    [] OTHER    -> <<OrB(v), OrB(v \div 2^7), OrB(v \div 2^14),
                     OrB(v \div 2^21), v \div 2^28>>

\* EncodeVarint64: while (v >= B) emit (v & (B-1)) | B and shift by 7.
RECURSIVE EncodeVarint64(_)
EncodeVarint64(v) ==
  IF v >= B THEN <<OrB(v)>> \o EncodeVarint64(v \div 2^7) ELSE <<v>>

\* VarintLength
RECURSIVE VarintLength(_)
VarintLength(v) == IF v >= 128 THEN 1 + VarintLength(v \div 2^7) ELSE 1

(***************************************************************************)
(* Decoders over a buffer buf, reading only bytes p..limit-1 (0-based).   *)
(* A result is [ok, val, next]: next is the pointer returned (the offset *)
(* just past the parsed bytes), meaningless when ok is FALSE (nullptr).  *)
(***************************************************************************)
Fail == [ok |-> FALSE, val |-> 0, next |-> 0]
Done(v, p) == [ok |-> TRUE, val |-> v, next |-> p]

\* Fault: shift < 28 for shift <= 28, rejecting the fifth byte.
RECURSIVE VarintLoopShort(_, _, _, _, _, _)
VarintLoopShort(buf, p, limit, shift, maxShift, result) ==
  IF shift < maxShift /\ p < limit
    THEN LET byte == buf[p + 1] IN
         IF byte >= B
           THEN VarintLoopShort(buf, p + 1, limit, shift + 7, maxShift,
                                result + (byte % B) * 2^shift)
           ELSE Done(result + byte * 2^shift, p + 1)
    ELSE Fail

\* The loop of GetVarint32PtrFallback (shift <= 28) and GetVarint64Ptr
\* (shift <= 63): 7 payload bits per byte, bit 7 set while more follow.
RECURSIVE VarintLoop(_, _, _, _, _, _)
VarintLoop(buf, p, limit, shift, maxShift, result) ==
  IF shift <= maxShift /\ p < limit
    THEN LET byte == buf[p + 1] IN
         IF byte >= B
           THEN VarintLoop(buf, p + 1, limit, shift + 7, maxShift,
                           result + (byte % B) * 2^shift)
           ELSE Done(result + byte * 2^shift, p + 1)
    ELSE Fail

\* Fault: <= B in the fast-path test, taking a continuation byte 0x80 as
\* a complete one-byte varint.
GetVarint32PtrFastLe(buf, p, limit) ==
  IF p < limit /\ buf[p + 1] <= B
    THEN Done(buf[p + 1], p + 1)
    ELSE VarintLoop(buf, p, limit, 0, 28, 0)

\* GetVarint32Ptr: the one-byte fast path, then GetVarint32PtrFallback.
GetVarint32Ptr(buf, p, limit) ==
  IF p < limit /\ buf[p + 1] < B
    THEN Done(buf[p + 1], p + 1)
    ELSE VarintLoop(buf, p, limit, 0, 28, 0)

GetVarint64Ptr(buf, p, limit) == VarintLoop(buf, p, limit, 0, 63, 0)

\* DecodeFixed32 / DecodeFixed64: a load of width bytes, no bounds check.
RECURSIVE DecodeFixedLE(_, _, _)
DecodeFixedLE(buf, p, width) ==
  IF width = 0 THEN 0 ELSE buf[p + 1] + 256 * DecodeFixedLE(buf, p + 1, width - 1)

(***************************************************************************)
(* The encoder and decoder state machine.                                  *)
(***************************************************************************)
VARIABLES
  dst,      \* the std::string the Put* routines append to
  written,  \* history: the items appended, [kind, val]
  phase,    \* "encode", then "decode"
  limit,    \* end of the decoder's Slice
  pos,      \* start of the decoder's Slice (input->data())
  parsed,   \* the items the Get* routines returned, in order
  failed    \* the last Get* returned false / nullptr

vars == <<dst, written, phase, limit, pos, parsed, failed>>

Item(kind, val) == [kind |-> kind, val |-> val]

PutStep(item, bytes) ==
  /\ phase = "encode"
  /\ Len(written) < MaxItems
  /\ dst' = dst \o bytes
  /\ written' = Append(written, item)
  /\ UNCHANGED <<phase, limit, pos, parsed, failed>>

\* PutVarint32 / PutVarint64: encode into buf, dst->append(buf, ptr - buf).
PutVarint32(v) == PutStep(Item("varint32", v), EncodeVarint32(v))
PutVarint64(v) == PutStep(Item("varint64", v), EncodeVarint64(v))

\* PutLengthPrefixedSlice: PutVarint32(value.size()) then the bytes.
PutLengthPrefixedSlice(s) ==
  PutStep(Item("slice", s), EncodeVarint32(Len(s)) \o s)

\* The caller hands the decoder a Slice over the first l bytes of dst.
StartDecode ==
  /\ phase = "encode"
  /\ phase' = "decode"
  /\ \E l \in 0..Len(dst) : limit' = l
  /\ UNCHANGED <<dst, written, pos, parsed, failed>>

\* The item the decoder parses next, chosen by the format it reads.
Expecting(kind) ==
  /\ phase = "decode"
  /\ ~failed
  /\ Len(parsed) < Len(written)
  /\ written[Len(parsed) + 1].kind = kind

\* GetVarint32 / GetVarint64 (Slice*): on success *input = Slice(q, limit-q).
GetVarintStep(kind, r) ==
  /\ Expecting(kind)
  /\ IF r.ok
       THEN /\ pos' = r.next
            /\ parsed' = Append(parsed, Item(kind, r.val))
            /\ UNCHANGED failed
       ELSE /\ failed' = TRUE
            /\ UNCHANGED <<pos, parsed>>
  /\ UNCHANGED <<dst, written, phase, limit>>

GetVarint32 == GetVarintStep("varint32", GetVarint32Ptr(dst, pos, limit))
GetVarint64 == GetVarintStep("varint64", GetVarint64Ptr(dst, pos, limit))

\* GetLengthPrefixedSlice(Slice *input, Slice *result): GetVarint32 moves
\* *input past the length before the length is checked against the rest.
GetLengthPrefixedSlice ==
  /\ Expecting("slice")
  /\ LET r == GetVarint32Ptr(dst, pos, limit) IN
     IF r.ok /\ limit - r.next >= r.val
       THEN /\ pos' = r.next + r.val
            /\ parsed' = Append(parsed,
                           Item("slice", SubSeq(dst, r.next + 1, r.next + r.val)))
            /\ UNCHANGED failed
       ELSE /\ failed' = TRUE
            /\ pos' = IF r.ok THEN r.next ELSE pos
            /\ UNCHANGED parsed
  /\ UNCHANGED <<dst, written, phase, limit>>

\* GetLengthPrefixedSlice(p, limit, result): returns nullptr on failure and
\* the caller keeps its own pointer.
GetLengthPrefixedSlicePtr ==
  /\ Expecting("slice")
  /\ LET r == GetVarint32Ptr(dst, pos, limit) IN
     IF r.ok /\ r.next + r.val <= limit
       THEN /\ pos' = r.next + r.val
            /\ parsed' = Append(parsed,
                           Item("slice", SubSeq(dst, r.next + 1, r.next + r.val)))
            /\ UNCHANGED failed
       ELSE /\ failed' = TRUE
            /\ UNCHANGED <<pos, parsed>>
  /\ UNCHANGED <<dst, written, phase, limit>>

Init ==
  /\ dst = <<>>
  /\ written = <<>>
  /\ phase = "encode"
  /\ limit = 0
  /\ pos = 0
  /\ parsed = <<>>
  /\ failed = FALSE

Next ==
  \/ \E v \in Values : PutVarint32(v) \/ PutVarint64(v)
  \/ \E s \in Strings : PutLengthPrefixedSlice(s)
  \/ StartDecode
  \/ GetVarint32 \/ GetVarint64
  \/ GetLengthPrefixedSlice \/ GetLengthPrefixedSlicePtr

Spec == Init /\ [][Next]_vars

(***************************************************************************)
(* Properties.                                                             *)
(***************************************************************************)
CONSTANT ProbeValues  \* boundary values for the pure codec checks

EncodingOf(item) ==
  CASE item.kind = "varint32" -> EncodeVarint32(item.val)
    [] item.kind = "varint64" -> EncodeVarint64(item.val)
    [] OTHER -> EncodeVarint32(Len(item.val)) \o item.val

\* The bytes the first n items occupy in dst.
EncodedLen(n) ==
  FoldSeq(LAMBDA it, acc : Len(EncodingOf(it)) + acc, 0, SubSeq(written, 1, n))

\* Each Get* returns exactly the item the matching Put* appended, and a
\* Get* that succeeds leaves the input just past that item's bytes: the
\* items written back to back are read back one by one, across varint
\* widths and length prefixes.
StreamRoundTrip ==
  /\ parsed = SubSeq(written, 1, Len(parsed))
  /\ ~failed => pos = EncodedLen(Len(parsed))

\* A Get* fails only when the item runs past the end of the Slice it is
\* given: a complete encoding is never rejected.
FailsOnlyWhenTruncated ==
  failed => EncodedLen(Len(parsed) + 1) > limit

\* Spec section 7: a decode failure leaves the caller's input as it was,
\* at the start of the item it could not parse.
FailureKeepsInput ==
  failed => pos = EncodedLen(Len(parsed))

\* The varint format stated by the spec: 7 payload bits per byte, least
\* significant group first, bit 7 set on every byte but the last.
RECURSIVE Shifted(_, _)
Shifted(v, k) == IF k = 0 THEN v ELSE Shifted(v \div 128, k - 1)

SpecVarint(v) ==
  LET n == CHOOSE k \in 1..5 : Shifted(v, k) = 0 /\ (k = 1 \/ Shifted(v, k - 1) # 0)
  IN [i \in 1..n |-> (Shifted(v, i - 1) % 128) + (IF i < n THEN 128 ELSE 0)]

\* Both varint encoders produce the spec's format, VarintLength predicts
\* its length, both decoders invert it, and the fixed-width codecs invert
\* each other, at every boundary value.
CodecAgree ==
  \A v \in ProbeValues :
    LET e == EncodeVarint32(v) IN
    /\ e = SpecVarint(v)
    /\ EncodeVarint64(v) = e
    /\ VarintLength(v) = Len(e)
    /\ GetVarint32Ptr(e, 0, Len(e)) = Done(v, Len(e))
    /\ GetVarint64Ptr(e, 0, Len(e)) = Done(v, Len(e))
    /\ DecodeFixedLE(EncodeFixedLE(v, 4), 0, 4) = v
    /\ DecodeFixedLE(EncodeFixedLE(v, 8), 0, 8) = v

=============================================================================
