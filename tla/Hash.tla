------------------------------- MODULE Hash -------------------------------
(***************************************************************************)
(* Hash(data, n, seed) of hash.cpp (src/src/util/hash.cpp, lines 11-42),  *)
(* one step per iteration of its word loop and one for the trailing       *)
(* switch.                                                                 *)
(*                                                                         *)
(* A uint32 is four little-endian bytes: TLC's integers stop below 2^31,  *)
(* so the wrap-around + and * of the code are carried out byte by byte,   *)
(* mod 2^32.  The three trailing bytes are read as char (data[2] << 16):  *)
(* whether char is signed is the build's choice (signed on x86, unsigned  *)
(* on ARM), the constant CharIsSigned.                                     *)
(***************************************************************************)
EXTENDS Integers, Sequences, Bitwise

CONSTANTS
  Inputs,        \* the byte strings data[0..n-1] callers hash
  Seeds,         \* seeds, as uint32 byte tuples
  CharIsSigned   \* char is signed in this build

U32 == [1..4 -> 0..255]

ASSUME Inputs \subseteq Seq(0..255)
ASSUME Seeds \subseteq U32
ASSUME CharIsSigned \in BOOLEAN

(***************************************************************************)
(* uint32 arithmetic.                                                      *)
(***************************************************************************)
\* A size_t below 2^31 truncated to uint32.
ToU32(n) == [i \in 1..4 |-> (n \div 256^(i - 1)) % 256]

\* Limb sums s[1..4] brought back to bytes, dropping the carry out of the
\* top byte: the wrap-around of uint32.
RECURSIVE Carry(_, _, _)
Carry(s, i, c) ==
  IF i > 4 THEN <<>>
  ELSE <<(s[i] + c) % 256>> \o Carry(s, i + 1, (s[i] + c) \div 256)

AddU(a, b) == Carry([i \in 1..4 |-> a[i] + b[i]], 1, 0)

\* Schoolbook product; limbs at position 5 and above are 2^32 multiples.
MulU(a, b) ==
  LET RECURSIVE Conv(_, _)
      Conv(k, i) == IF i > k THEN 0 ELSE a[i] * b[k + 1 - i] + Conv(k, i + 1)
  IN Carry([k \in 1..4 |-> Conv(k, 1)], 1, 0)

XorU(a, b) == [i \in 1..4 |-> a[i] ^^ b[i]]

\* h >> (8 * k)
ShrU(a, k) == [i \in 1..4 |-> IF i + k <= 4 THEN a[i + k] ELSE 0]

m == <<147, 167, 164, 198>>   \* 0xc6a4a793
r == 24

\* data[i] << (8 * k) added to h: the char is promoted to int (sign-
\* extended when char is signed and the byte is >= 0x80), shifted, and
\* converted to uint32, so a negative value fills the bytes above with 0xff.
CharShl(byte, k) ==
  LET negative == CharIsSigned /\ byte >= 128 IN
  [i \in 1..4 |-> IF i = k + 1 THEN byte
                  ELSE IF i > k + 1 /\ negative THEN 255 ELSE 0]

\* h += w; h *= m; h ^= (h >> 16)
MixWord(h, w) == LET h1 == MulU(AddU(h, w), m) IN XorU(h1, ShrU(h1, 2))

\* Fault: case 3 breaks instead of falling through to case 2.
TailMixNoFallThrough(h, t) ==
  LET n  == Len(t)
      h3 == IF n = 3 THEN AddU(h, CharShl(t[3], 2)) ELSE h
      h2 == IF n = 2 THEN AddU(h3, CharShl(t[2], 1)) ELSE h3
      h1 == IF n >= 1 THEN MulU(AddU(h2, CharShl(t[1], 0)), m) ELSE h2
  IN IF n >= 1 THEN XorU(h1, ShrU(h1, r \div 8)) ELSE h1

\* switch (limit - data) with its fall-throughs from case 3 to case 1.
TailMix(h, t) ==
  LET n  == Len(t)
      h3 == IF n >= 3 THEN AddU(h, CharShl(t[3], 2)) ELSE h
      h2 == IF n >= 2 THEN AddU(h3, CharShl(t[2], 1)) ELSE h3
      h1 == IF n >= 1 THEN MulU(AddU(h2, CharShl(t[1], 0)), m) ELSE h2
  IN IF n >= 1 THEN XorU(h1, ShrU(h1, r \div 8)) ELSE h1

(***************************************************************************)
(* The call, step by step.                                                 *)
(***************************************************************************)
VARIABLES
  pc,     \* "idle", "loop" (in the word loop or at the switch), "done"
  data,   \* the bytes being hashed
  seed,
  p,      \* data - (original data): the bytes consumed by the loop
  h

vars == <<pc, data, seed, p, h>>

Zero == <<0, 0, 0, 0>>

Init ==
  /\ pc = "idle"
  /\ data = <<>>
  /\ seed = Zero
  /\ p = 0
  /\ h = Zero

\* uint32_t h = seed ^ (n * m), n * m computed in size_t then truncated.
Call(d, s) ==
  /\ pc = "idle"
  /\ pc' = "loop"
  /\ data' = d
  /\ seed' = s
  /\ p' = 0
  /\ h' = XorU(s, MulU(ToU32(Len(d)), m))

\* while (data + 4 <= limit): w = DecodeFixed32(data), unsigned bytes.
Word ==
  /\ pc = "loop"
  /\ p + 4 <= Len(data)
  /\ h' = MixWord(h, SubSeq(data, p + 1, p + 4))
  /\ p' = p + 4
  /\ UNCHANGED <<pc, data, seed>>

\* The switch on the 0-3 bytes left, then return h.
Finish ==
  /\ pc = "loop"
  /\ p + 4 > Len(data)
  /\ h' = TailMix(h, SubSeq(data, p + 1, Len(data)))
  /\ pc' = "done"
  /\ UNCHANGED <<data, seed, p>>

\* The caller takes the result; the next call starts afresh.
Return ==
  /\ pc = "done"
  /\ pc' = "idle"
  /\ data' = <<>>
  /\ seed' = Zero
  /\ p' = 0
  /\ h' = Zero

Next ==
  \/ \E d \in Inputs, s \in Seeds : Call(d, s)
  \/ Word
  \/ Finish
  \/ Return

Spec == Init /\ [][Next]_vars

(***************************************************************************)
(* Properties.                                                             *)
(***************************************************************************)
\* The hash of spec section 4.5, written from its words as one formula: the
\* whole words are little-endian uint32s; the 1-3 leftover bytes, highest
\* index shifted in first, add up to the unsigned little-endian value they
\* form; then h *= m; h ^= h >> 24.
SpecHash(d, s) ==
  LET nw == Len(d) \div 4
      t  == SubSeq(d, 4 * nw + 1, Len(d))
      RECURSIVE Words(_)
      Words(j) == IF j = 0 THEN XorU(s, MulU(ToU32(Len(d)), m))
                  ELSE MixWord(Words(j - 1), SubSeq(d, 4 * j - 3, 4 * j))
      hw == Words(nw)
      ht == MulU(AddU(hw, [i \in 1..4 |-> IF i <= Len(t) THEN t[i] ELSE 0]), m)
  IN IF t = <<>> THEN hw ELSE XorU(ht, ShrU(ht, 3))

\* The bytes the trailing switch reads.
TailBytes(d) == {d[i] : i \in (Len(d) - (Len(d) % 4) + 1)..Len(d)}

\* Hash returns the spec's value whenever its trailing bytes are below 0x80:
\* the word loop reads bytes unsigned through DecodeFixed32, so only the
\* char reads of the switch can depend on the build.
MatchesSpecOnAsciiTail ==
  pc = "done" /\ (\A b \in TailBytes(data) : b < 128) => h = SpecHash(data, seed)

\* Hash is the spec's function of (data, n, seed), whatever the build's
\* char signedness.
PortableHash ==
  pc = "done" => h = SpecHash(data, seed)

=============================================================================
