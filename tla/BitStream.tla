----------------------------- MODULE BitStream -----------------------------
(***************************************************************************)
(* BitStreamPutInt / BitStreamGetInt of coding.cpp (lines 177-272): fields *)
(* of 0..64 bits at any bit offset of a byte buffer, least significant bit *)
(* first, bits numbered 0-7 in the first byte, 8-15 in the second, ...     *)
(*                                                                         *)
(* The buffer is a std::string of L bytes, put into by both the char*     *)
(* version and the std::string version (which copies the bytes it needs   *)
(* into a 9-byte tmpBuf and back).  Values stay below 2^31 and fields at   *)
(* most 30 bits wide: TLC's integers.                                      *)
(***************************************************************************)
EXTENDS Integers, Sequences, FiniteSets

CONSTANTS
  L,          \* dst->size()
  InitBytes,  \* byte values the buffer may hold before the first put
  Offsets,    \* bit offsets callers pass
  Widths,     \* field widths (bits) callers pass
  Values,     \* values callers pass (may exceed the width: truncated)
  MaxPuts     \* bound on the number of puts

ASSUME L \in Nat \ {0} /\ InitBytes \subseteq 0..255
ASSUME Offsets \subseteq Nat /\ Widths \subseteq 0..30 /\ Values \subseteq 0..2147483647

\* REQUIRES: (offset+bits+7)/8 <= dstlen, bits <= 64
Fits(offset, bits, len) == (offset + bits + 7) \div 8 <= len /\ bits <= 64

MinOf(a, b) == IF a < b THEN a ELSE b

\* The bits of x from bit lo, n of them: (x >> lo) & ((1 << n) - 1).
BitsOf(x, lo, n) == (x \div 2^lo) % 2^n

(***************************************************************************)
(* The loops over bytes, on a buffer ptr (a sequence, ptr[i] at i + 1).   *)
(***************************************************************************)
\* Fault: the mask shifted by bitOffset is not cleared before the add.
RECURSIVE PutLoopNoClear(_, _, _, _, _)
PutLoopNoClear(ptr, byteOffset, bitOffset, bits, value) ==
  IF bits = 0 THEN ptr
  ELSE LET bitsToGet == MinOf(bits, 8 - bitOffset)
           old == ptr[byteOffset + 1]
           new == (old + (value % 2^bitsToGet) * 2^bitOffset) % 256
       IN PutLoopNoClear([ptr EXCEPT ![byteOffset + 1] = new], byteOffset + 1, 0,
                         bits - bitsToGet, value \div 2^bitsToGet)

\* while (bits > 0): replace the bitsToGet bits at bitOffset of
\* ptr[byteOffset] by the low bits of value; value >>= bitsToGet.
RECURSIVE PutLoop(_, _, _, _, _)
PutLoop(ptr, byteOffset, bitOffset, bits, value) ==
  IF bits = 0 THEN ptr
  ELSE LET bitsToGet == MinOf(bits, 8 - bitOffset)
           old == ptr[byteOffset + 1]
           new == old - BitsOf(old, bitOffset, bitsToGet) * 2^bitOffset
                      + (value % 2^bitsToGet) * 2^bitOffset
       IN PutLoop([ptr EXCEPT ![byteOffset + 1] = new], byteOffset + 1, 0,
                  bits - bitsToGet, value \div 2^bitsToGet)

\* Fault: shift advanced by a whole byte instead of bitsToGet.
RECURSIVE GetLoopByteShift(_, _, _, _, _, _)
GetLoopByteShift(ptr, byteOffset, bitOffset, bits, shift, result) ==
  IF bits = 0 THEN result
  ELSE LET bitsToGet == MinOf(bits, 8 - bitOffset) IN
       GetLoopByteShift(ptr, byteOffset + 1, 0, bits - bitsToGet, shift + 8,
         result + BitsOf(ptr[byteOffset + 1], bitOffset, bitsToGet) * 2^shift)

\* while (bits > 0): result += ((ptr[byteOffset] >> bitOffset) & mask)
\* << shift; shift += bitsToGet.
RECURSIVE GetLoop(_, _, _, _, _, _)
GetLoop(ptr, byteOffset, bitOffset, bits, shift, result) ==
  IF bits = 0 THEN result
  ELSE LET bitsToGet == MinOf(bits, 8 - bitOffset) IN
       GetLoop(ptr, byteOffset + 1, 0, bits - bitsToGet, shift + bitsToGet,
         result + BitsOf(ptr[byteOffset + 1], bitOffset, bitsToGet) * 2^shift)

\* BitStreamGetInt, all three overloads (char*, std::string*, Slice*).
BitStreamGetInt(src, offset, bits) == GetLoop(src, offset \div 8, offset % 8, bits, 0, 0)

(***************************************************************************)
(* State: the buffer, and what a caller expects to find in it.             *)
(***************************************************************************)
VARIABLES
  buf,     \* the std::string's bytes
  shadow,  \* history: the value each bit was last given (by Init or a put)
  fields,  \* history: the puts none of whose bits were overwritten since
  puts     \* the number of puts so far

vars == <<buf, shadow, fields, puts>>

Bit(bytes, i) == (bytes[(i \div 8) + 1] \div 2^(i % 8)) % 2

Init ==
  /\ buf \in [1..L -> InitBytes]
  /\ shadow = [i \in 0..(8 * L - 1) |-> Bit(buf, i)]
  /\ fields = {}
  /\ puts = 0

\* The expectation a put sets: the field's bits take value's low bits and
\* any older field it overlaps is no longer intact.
Record(offset, bits, value) ==
  /\ shadow' = [i \in DOMAIN shadow |->
                  IF offset <= i /\ i < offset + bits
                    THEN BitsOf(value, i - offset, 1) ELSE shadow[i]]
  /\ fields' = {f \in fields : f.offset + f.bits <= offset \/ offset + bits <= f.offset}
               \cup {[offset |-> offset, bits |-> bits, value |-> value]}
  /\ puts' = puts + 1

\* BitStreamPutInt(char *dst, dstlen, offset, bits, value) on the whole
\* buffer (dstlen = L).
PutIntChars(offset, bits, value) ==
  /\ puts < MaxPuts
  /\ Fits(offset, bits, L)
  /\ buf' = PutLoop(buf, offset \div 8, offset % 8, bits, value)
  /\ Record(offset, bits, value)

\* BitStreamPutInt(std::string *dst, offset, bits, value): bytes
\* offset/8 .. offset/8 + kUsedBytes go to tmpBuf, the char* version runs
\* at offset % 8, and they come back.  When the field ends on the last
\* byte boundary the last index is dst->size(), whose (*dst)[] is the
\* terminating '\0'; it is read as 0 and written back unchanged.
PutIntString(offset, bits, value) ==
  LET kUsedBytes == ((offset % 8) + bits) \div 8
      base == offset \div 8
      tmp  == [idx \in 1..(kUsedBytes + 1) |->
                 IF base + idx <= L THEN buf[base + idx] ELSE 0]
      out  == PutLoop(tmp, 0, offset % 8, bits, value)
  IN
  /\ puts < MaxPuts
  /\ Fits(offset, bits, L)
  /\ buf' = [i \in 1..L |->
               IF base < i /\ i <= base + kUsedBytes + 1 THEN out[i - base] ELSE buf[i]]
  /\ Record(offset, bits, value)

Next ==
  \E o \in Offsets, b \in Widths, v \in Values :
    PutIntChars(o, b, v) \/ PutIntString(o, b, v)

Spec == Init /\ [][Next]_vars

(***************************************************************************)
(* Properties.                                                             *)
(***************************************************************************)
\* Every bit of the buffer holds what the last put covering it wrote, or
\* its initial value: a put changes exactly the bits of its field, in both
\* versions, across byte boundaries and through tmpBuf.
BitsAsWritten ==
  \A i \in DOMAIN shadow : Bit(buf, i) = shadow[i]

\* BitStreamGetInt returns every intact field's value truncated to its
\* width, as the header comment and the assert after each put promise.
FieldsReadBack ==
  \A f \in fields : BitStreamGetInt(buf, f.offset, f.bits) = f.value % 2^f.bits

=============================================================================
