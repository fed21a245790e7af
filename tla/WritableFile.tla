---------------------------- MODULE WritableFile ----------------------------
(***************************************************************************)
(* The preallocation bookkeeping of WritableFile (src/include/leveldb/     *)
(* env.h, lines 285-368): SetPreallocationBlockSize, GetPreallocation-     *)
(* Status and PrepareWrite, which a subclass calls before each write and   *)
(* which calls the virtual Allocate for the blocks the write newly spans.  *)
(*                                                                         *)
(* The base class's Allocate returns OK and does nothing; a subclass       *)
(* (fallocate) reserves the byte range it is given.  The model records     *)
(* that range as the bytes reserved, which is what the subclass relies on. *)
(***************************************************************************)
EXTENDS Naturals, FiniteSets

CONSTANTS
  BlockSizes,  \* sizes callers pass to SetPreallocationBlockSize
  Offsets,     \* write offsets a subclass passes to PrepareWrite
  Lens,        \* write lengths
  MaxCalls     \* bound on the calls of each kind

ASSUME BlockSizes \subseteq Nat /\ Offsets \subseteq Nat /\ Lens \subseteq Nat
ASSUME MaxCalls \in Nat

VARIABLES
  last_preallocated_block_,
  preallocation_block_size_,
  allocated,   \* the bytes handed to Allocate so far
  prepared,    \* history: the bytes of writes prepared while the size was non-zero
  calls,       \* calls so far (bound)
  unit,        \* history: the block size last_preallocated_block_ counts in
  grew,        \* history: a write ran with a block size above unit
  changed      \* history: a write ran with a non-zero block size # unit

\* WritableFile's two fields, and the histories the properties read.
vars == <<last_preallocated_block_, preallocation_block_size_, allocated,
          prepared, calls, unit, grew, changed>>

\* WritableFile() : last_preallocated_block_(0), preallocation_block_size_(0)
Init ==
  /\ last_preallocated_block_ = 0
  /\ preallocation_block_size_ = 0
  /\ allocated = {}
  /\ prepared = {}
  /\ calls = 0
  /\ unit = 0
  /\ grew = FALSE
  /\ changed = FALSE

\* The bytes [offset, offset + len).
Range(offset, len) == offset..(offset + len - 1)

\* Allocate(offset, len): the range a subclass reserves.
Allocate(offset, len) == allocated' = allocated \cup Range(offset, len)

SetPreallocationBlockSize(size) ==
  /\ calls < MaxCalls
  /\ preallocation_block_size_' = size
  /\ calls' = calls + 1
  /\ UNCHANGED <<last_preallocated_block_, allocated, prepared, unit, grew, changed>>

\* GetPreallocationStatus(&block_size, &last_allocated_block)
GetPreallocationStatus ==
  [block_size |-> preallocation_block_size_,
   last_allocated_block |-> last_preallocated_block_]

\* Fault: the last block computed by rounding down, not up.
NewLastFloor(offset, len, block_size) == (offset + len) \div block_size

\* (offset + len + block_size - 1) / block_size
NewLast(offset, len, block_size) == (offset + len + block_size - 1) \div block_size

\* Fault: Allocate starts at the write's block, not at the end of what is
\* already preallocated.
PrepareWriteFromOffset(offset, len) ==
  LET block_size == preallocation_block_size_
      new_last == NewLast(offset, len, block_size)
  IN
  IF block_size = 0 THEN UNCHANGED <<last_preallocated_block_, allocated>>
  ELSE IF new_last > last_preallocated_block_
    THEN /\ Allocate(block_size * (offset \div block_size),
                     block_size * (new_last - offset \div block_size))
         /\ last_preallocated_block_' = new_last
    ELSE UNCHANGED <<last_preallocated_block_, allocated>>

\* PrepareWrite(offset, len): nothing when preallocation is off; otherwise,
\* if the write ends past the last preallocated block, Allocate the blocks
\* from there up to the one that covers the write.
PrepareWrite(offset, len) ==
  LET block_size == preallocation_block_size_
      new_last == NewLast(offset, len, block_size)
  IN
  IF block_size = 0 THEN UNCHANGED <<last_preallocated_block_, allocated>>
  ELSE IF new_last > last_preallocated_block_
    THEN /\ Allocate(block_size * last_preallocated_block_,
                     block_size * (new_last - last_preallocated_block_))
         /\ last_preallocated_block_' = new_last
    ELSE UNCHANGED <<last_preallocated_block_, allocated>>

\* A subclass's write: PrepareWrite, then the bytes are written.
Write(offset, len) ==
  /\ calls < MaxCalls
  /\ PrepareWrite(offset, len)
  /\ prepared' = IF preallocation_block_size_ = 0 THEN prepared
                 ELSE prepared \cup Range(offset, len)
  /\ calls' = calls + 1
  /\ LET bs == preallocation_block_size_ IN
     /\ unit' = IF bs # 0 /\ NewLast(offset, len, bs) > last_preallocated_block_
                THEN bs ELSE unit
     /\ grew' = (grew \/ (unit > 0 /\ bs > unit))
     /\ changed' = (changed \/ (unit > 0 /\ bs # 0 /\ bs # unit))
  /\ UNCHANGED preallocation_block_size_

Next ==
  \/ \E s \in BlockSizes : SetPreallocationBlockSize(s)
  \/ \E o \in Offsets, l \in Lens : Write(o, l)

Spec == Init /\ [][Next]_vars

(***************************************************************************)
(* Properties.                                                             *)
(***************************************************************************)
\* Every byte of every write PrepareWrite saw while preallocation was on
\* lies in a range handed to Allocate: the comment's "determine what the
\* last preallocation block necessary to cover this write would be and
\* Allocate to that point".  last_preallocated_block_ keeps counting in
\* the size it was set with (line 340 compares it with a block number of
\* the current size), so this holds across SetPreallocationBlockSize
\* calls that switch preallocation off and on or shrink the size, and
\* not once a write runs under a larger size than the count's.
WritesPreallocated == ~grew => prepared \subseteq allocated

\* The comment on SetPreallocationBlockSize: once the size is non-zero,
\* Allocate extends the storage for writes to the file, whatever size was
\* set before.  PrepareWrite compares last_preallocated_block_, a count
\* of blocks of the old size, with a block number of the new one (line
\* 340), so after the size grows a write can end past what was reserved.
PreallocatedAcrossResize == prepared \subseteq allocated

\* What GetPreallocationStatus reports is exactly what was preallocated:
\* the bytes [0, block_size * last_allocated_block), no hole and no byte
\* beyond, so a caller may compute the reserved extent from it.  The two
\* numbers agree only while the reported size is the one the block count
\* was kept in, and no write has run under another non-zero size.
StatusMatchesAllocated ==
  LET s == GetPreallocationStatus IN
  ~changed /\ s.block_size = unit =>
    allocated = Range(0, s.block_size * s.last_allocated_block)

=============================================================================
