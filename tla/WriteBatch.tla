----------------------------- MODULE WriteBatch -----------------------------
(***************************************************************************)
(* The mutation batch.  write_batch.h (src/include/leveldb) declares the   *)
(* class; no implementation exists in the repository, so the operations   *)
(* follow spec sections 4.6 and 6 (wire format) on the encoding           *)
(* primitives of Coding.                                                   *)
(*                                                                         *)
(* rep_ is a 12-byte header (fixed64 sequence number, fixed32 record      *)
(* count) and then records: a tag byte, a varint32-length-prefixed key    *)
(* and, for Put and Merge, a length-prefixed value.  Iterate replays the   *)
(* records of a batch, or of one built from a prefix of its Data(), to a  *)
(* Handler one by one.                                                     *)
(***************************************************************************)
EXTENDS Integers, Sequences, SequencesExt

CONSTANTS
  Keys,           \* byte strings used as keys
  Vals,           \* byte strings used as values
  MaxOps,         \* bound on the records appended between two Clears
  MergeOverridden  \* the handler overrides Handler::Merge

ASSUME Keys \subseteq Seq(0..255) /\ Vals \subseteq Seq(0..255)
ASSUME MergeOverridden \in BOOLEAN

\* The encoding primitives, without Coding's own state.
C == INSTANCE Coding WITH dst <- <<>>, written <- <<>>, phase <- "encode",
       limit <- 0, pos <- 0, parsed <- <<>>, failed <- FALSE,
       Values <- {}, Strings <- {}, MaxItems <- 0, ProbeValues <- {}

\* Tag bytes (the spec leaves them open; these are LevelDB's and RocksDB's).
kTypeDeletion == 0
kTypeValue    == 1
kTypeMerge    == 2
kHeader       == 12

Tag(op) == CASE op = "put" -> kTypeValue
             [] op = "delete" -> kTypeDeletion
             [] op = "merge" -> kTypeMerge

LengthPrefixed(s) == C!EncodeVarint32(Len(s)) \o s

\* The bytes of one record.
Record(r) ==
  <<Tag(r.op)>> \o LengthPrefixed(r.key)
               \o (IF r.op = "delete" THEN <<>> ELSE LengthPrefixed(r.val))

\* The record count in bytes 9..12 of the header.
Count(b) == C!DecodeFixedLE(b, 8, 4)
SetCount(b, n) == [i \in 1..Len(b) |-> IF 8 < i /\ i <= 12
                                         THEN C!EncodeFixedLE(n, 4)[i - 8] ELSE b[i]]

EmptyRep == [i \in 1..kHeader |-> 0]

\* WriteBatch(std::string rep) : rep_(rep) {}, given the first n bytes of
\* a batch's Data(), which returns rep_ by value.
Copy(b, n) == SubSeq(b, 1, n)

(***************************************************************************)
(* State.                                                                  *)
(***************************************************************************)
VARIABLES
  rep,        \* rep_
  appended,   \* history: the records appended since the last Clear
  ipc,        \* "idle", "iter" (in Iterate's loop), "ok", "corruption", "fatal"
  src,        \* rep_ of the batch being iterated
  ipos,       \* Iterate's input Slice: offset into src
  found,      \* Iterate's record counter
  delivered   \* history: the calls the handler received, in order

vars == <<rep, appended, ipc, src, ipos, found, delivered>>

Op(op, k, v) == [op |-> op, key |-> k, val |-> v]

Init ==
  /\ rep = EmptyRep
  /\ appended = <<>>
  /\ ipc = "idle"
  /\ src = <<>>
  /\ ipos = 0
  /\ found = 0
  /\ delivered = <<>>

\* Put / Delete / Merge: SetCount(Count() + 1), then the tag and the
\* length-prefixed key (and value) appended to rep_.
AppendRecord(r) ==
  /\ ipc \in {"idle", "ok", "corruption"}
  /\ Len(appended) < MaxOps
  /\ rep' = SetCount(rep, Count(rep) + 1) \o Record(r)
  /\ appended' = Append(appended, r)
  /\ UNCHANGED <<ipc, src, ipos, found, delivered>>

Put(k, v)   == AppendRecord(Op("put", k, v))
Delete(k)   == AppendRecord(Op("delete", k, <<>>))
Merge(k, v) == AppendRecord(Op("merge", k, v))

\* Clear: rep_ back to the empty header.
Clear ==
  /\ ipc \in {"idle", "ok", "corruption"}
  /\ rep' = EmptyRep
  /\ appended' = <<>>
  /\ UNCHANGED <<ipc, src, ipos, found, delivered>>

(***************************************************************************)
(* Iterate(handler).                                                       *)
(***************************************************************************)
\* Iterate on the batch itself, or on WriteBatch(std::string) built from
\* the first n bytes of its Data(): the whole buffer, or a copy cut short.
\* A batch shorter than the header is rejected before any record.
IterateBegin ==
  /\ ipc \in {"idle", "ok", "corruption"}
  /\ \E n \in 0..Len(rep) :
       /\ src' = Copy(rep, n)
       /\ ipc' = IF n < kHeader THEN "corruption" ELSE "iter"
  /\ ipos' = kHeader
  /\ found' = 0
  /\ delivered' = <<>>
  /\ UNCHANGED <<rep, appended>>

\* Fault: the declared length not checked against the bytes left.
GetSliceNoBound(p) ==
  LET r == C!GetVarint32Ptr(src, p, Len(src)) IN
  IF r.ok
    THEN [ok |-> TRUE, val |-> SubSeq(src, r.next + 1, Min({r.next + r.val, Len(src)})),
          next |-> Min({r.next + r.val, Len(src)})]
    ELSE [ok |-> FALSE, val |-> <<>>, next |-> p]

\* GetLengthPrefixedSlice(&input, &s) at offset p.
GetSlice(p) ==
  LET r == C!GetVarint32Ptr(src, p, Len(src)) IN
  IF r.ok /\ Len(src) - r.next >= r.val
    THEN [ok |-> TRUE, val |-> SubSeq(src, r.next + 1, r.next + r.val), next |-> r.next + r.val]
    ELSE [ok |-> FALSE, val |-> <<>>, next |-> p]

\* One iteration of while (!input.empty()): found++, read the tag, parse
\* the key (and value), call the handler; a short or unknown record ends
\* Iterate with Corruption.  The default Handler::Merge is fatal.
IterateRecord ==
  /\ ipc = "iter"
  /\ ipos < Len(src)
  /\ found' = found + 1
  /\ LET tag == src[ipos + 1]
         k   == GetSlice(ipos + 1)
         v   == GetSlice(k.next)
         op  == CASE tag = kTypeValue -> "put"
                  [] tag = kTypeDeletion -> "delete"
                  [] tag = kTypeMerge -> "merge"
                  [] OTHER -> "unknown"
         ok  == /\ op # "unknown"
                /\ k.ok
                /\ op = "delete" \/ v.ok
     IN IF ~ok
          THEN /\ ipc' = "corruption"
               /\ UNCHANGED <<ipos, delivered>>
          ELSE /\ ipos' = IF op = "delete" THEN k.next ELSE v.next
               /\ delivered' = Append(delivered,
                                 Op(op, k.val, IF op = "delete" THEN <<>> ELSE v.val))
               /\ ipc' = IF op = "merge" /\ ~MergeOverridden THEN "fatal" ELSE "iter"
  /\ UNCHANGED <<rep, appended, src>>

\* Fault: the found != Count() check left out.
IterateEndNoCount ==
  /\ ipc = "iter"
  /\ ipos = Len(src)
  /\ ipc' = "ok"
  /\ UNCHANGED <<rep, appended, src, ipos, found, delivered>>

\* Input exhausted: OK unless the number of records differs from the
\* header's count.
IterateEnd ==
  /\ ipc = "iter"
  /\ ipos = Len(src)
  /\ ipc' = IF found # Count(src) THEN "corruption" ELSE "ok"
  /\ UNCHANGED <<rep, appended, src, ipos, found, delivered>>

Next ==
  \/ \E k \in Keys, v \in Vals : Put(k, v) \/ Merge(k, v)
  \/ \E k \in Keys : Delete(k)
  \/ Clear
  \/ IterateBegin
  \/ IterateRecord
  \/ IterateEnd

Spec == Init /\ [][Next]_vars

(***************************************************************************)
(* Properties.                                                             *)
(***************************************************************************)
\* Spec section 8, batch replay order and round trip: an Iterate that
\* returns OK has handed the handler exactly the records appended since
\* the last Clear, in append order, whether it iterates the batch or a
\* WriteBatch built from the whole of its Data().
ReplayInOrder ==
  [][ipc = "iter" /\ ipc' = "ok" => delivered' = appended']_vars

\* An Iterate that fails (a batch cut short, or the fatal default Merge)
\* has handed the handler only whole records, and only a prefix of those
\* appended: it never delivers a record it read past the end of rep_.
FailedReplayIsPrefix ==
  [][ipc = "iter" /\ ipc' \in {"corruption", "fatal"} => IsPrefix(delivered', appended')]_vars

=============================================================================
