------------------------------- MODULE Arena -------------------------------
(***************************************************************************)
(* The bump allocator of arena.cc (src/unnamed/part_003) and the inline    *)
(* Allocate / MemoryUsage of arena.h (embedded in src/util/hash.cpp).      *)
(*                                                                         *)
(* A pointer is a block index and an offset in it; the block list is      *)
(* blocks_ with the size each new[] had.  new[] returns memory aligned to *)
(* at least 8 bytes, so the alignment of a pointer is that of its offset; *)
(* alloc_ptr_ = nullptr is block 0, offset 0.  The arena has no internal  *)
(* locking: its single owner calls it sequentially, one call per step.    *)
(***************************************************************************)
EXTENDS Integers, Sequences, SequencesExt, FiniteSets

CONSTANTS
  kBlockSize,  \* constexpr int kBlockSize = 4096, scaled down
  Sizes,       \* byte counts callers request (all > 0)
  MaxCalls     \* bound on the number of allocations

ASSUME kBlockSize \in Nat /\ kBlockSize % 4 = 0 /\ kBlockSize > 0
ASSUME Sizes \subseteq Nat \ {0}
ASSUME MaxCalls \in Nat

\* const int align = (sizeof(void *) > 8) ? sizeof(void *) : 8, on LP64
align == 8

VARIABLES
  blocks,                 \* blocks_: [bytes, shared] per new[] block
  alloc_block,            \* the block alloc_ptr_ points into (0: nullptr)
  alloc_off,              \* the offset of alloc_ptr_ in that block
  alloc_bytes_remaining_,
  blocks_memory_,
  blocks_capacity,        \* blocks_.capacity()
  grants,                 \* history: every result handed out, in order
  freed,                  \* the blocks the destructor has delete[]d
  destroyed               \* ~Arena() has run

\* Arena's fields alloc_ptr_ (alloc_block, alloc_off), alloc_bytes_remaining_,
\* blocks_ (blocks, blocks_capacity) and blocks_memory_, with the histories.
vars == <<blocks, alloc_block, alloc_off, alloc_bytes_remaining_,
          blocks_memory_, blocks_capacity, grants, freed, destroyed>>

Grant(blk, off, bytes, slop, aligned) ==
  [block |-> blk, off |-> off, bytes |-> bytes, slop |-> slop,
   aligned |-> aligned]

\* blocks_.push_back on a full vector reallocates to size + max(size, 1)
\* (libstdc++ and libc++ alike); capacity never shrinks.
Grown(size, cap) == IF size < cap THEN cap ELSE size + (IF size = 0 THEN 1 ELSE size)

\* Fault: blocks_memory_ = block_bytes instead of +=.
NewBlockAssign(bytes, shared) ==
  /\ UNCHANGED <<freed, destroyed>>
  /\ blocks' = Append(blocks, [bytes |-> bytes, shared |-> shared])
  /\ blocks_memory_' = bytes
  /\ blocks_capacity' = Grown(Len(blocks), blocks_capacity)

\* AllocateNewBlock(bytes) as the new block list and memory count.
NewBlock(bytes, shared) ==
  /\ UNCHANGED <<freed, destroyed>>
  /\ blocks' = Append(blocks, [bytes |-> bytes, shared |-> shared])
  /\ blocks_memory_' = blocks_memory_ + bytes
  /\ blocks_capacity' = Grown(Len(blocks), blocks_capacity)

\* Fault: the shared-block path hands out the block start but does not
\* advance alloc_ptr_ past it.
AllocateFallbackNoBump(bytes, aligned) ==
  LET b == Len(blocks) + 1 IN
  /\ grants' = Append(grants, Grant(b, 0, bytes, 0, aligned))
  /\ IF bytes > kBlockSize \div 4
       THEN /\ NewBlock(bytes, FALSE)
            /\ UNCHANGED <<alloc_block, alloc_off, alloc_bytes_remaining_>>
       ELSE /\ NewBlock(kBlockSize, TRUE)
            /\ alloc_block' = b
            /\ alloc_off' = 0
            /\ alloc_bytes_remaining_' = kBlockSize

\* Fault: a dedicated block also replaces the current block, abandoning
\* the rest of it.
AllocateFallbackSwitchOnLarge(bytes, aligned) ==
  LET b == Len(blocks) + 1 IN
  /\ grants' = Append(grants, Grant(b, 0, bytes, 0, aligned))
  /\ IF bytes > kBlockSize \div 4
       THEN /\ NewBlock(bytes, FALSE)
            /\ alloc_block' = b
            /\ alloc_off' = bytes
            /\ alloc_bytes_remaining_' = 0
       ELSE /\ NewBlock(kBlockSize, TRUE)
            /\ alloc_block' = b
            /\ alloc_off' = bytes
            /\ alloc_bytes_remaining_' = kBlockSize - bytes

\* AllocateFallback(bytes): a request above a quarter block gets its own
\* block and leaves alloc_ptr_ alone; any other retires the current block.
AllocateFallback(bytes, aligned) ==
  LET b == Len(blocks) + 1 IN
  /\ grants' = Append(grants, Grant(b, 0, bytes, 0, aligned))
  /\ IF bytes > kBlockSize \div 4
       THEN /\ NewBlock(bytes, FALSE)
            /\ UNCHANGED <<alloc_block, alloc_off, alloc_bytes_remaining_>>
       ELSE /\ NewBlock(kBlockSize, TRUE)
            /\ alloc_block' = b
            /\ alloc_off' = bytes
            /\ alloc_bytes_remaining_' = kBlockSize - bytes

\* Fault: an off-by-one in the fits-in-the-current-block test.
FitsOffByOne(needed) == needed <= alloc_bytes_remaining_ + 1

\* The bump path is taken when the request fits in the current block.
Fits(needed) == needed <= alloc_bytes_remaining_

\* Arena::Allocate (arena.h); assert(bytes > 0) holds for every b in Sizes.
Allocate(bytes) ==
  /\ ~destroyed
  /\ Len(grants) < MaxCalls
  /\ IF Fits(bytes)
       THEN /\ grants' = Append(grants,
                          Grant(alloc_block, alloc_off, bytes, 0, FALSE))
            /\ alloc_off' = alloc_off + bytes
            /\ alloc_bytes_remaining_' = alloc_bytes_remaining_ - bytes
            /\ UNCHANGED <<blocks, alloc_block, blocks_memory_, blocks_capacity,
                           freed, destroyed>>
       ELSE AllocateFallback(bytes, FALSE)

\* Fault: the padding taken as the misalignment itself.
SlopMisaligned(off) == off % align

\* slop: the padding that brings alloc_ptr_ to the next multiple of align.
Slop(off) == LET current_mod == off % align IN
             IF current_mod = 0 THEN 0 ELSE align - current_mod

\* Arena::AllocateAligned
AllocateAligned(bytes) ==
  /\ ~destroyed
  /\ Len(grants) < MaxCalls
  /\ LET slop   == Slop(alloc_off)
         needed == bytes + slop
     IN IF Fits(needed)
          THEN /\ grants' = Append(grants,
                    Grant(alloc_block, alloc_off + slop, bytes, slop, TRUE))
               /\ alloc_off' = alloc_off + needed
               /\ alloc_bytes_remaining_' = alloc_bytes_remaining_ - needed
               /\ UNCHANGED <<blocks, alloc_block, blocks_memory_, blocks_capacity,
                              freed, destroyed>>
          ELSE AllocateFallback(bytes, TRUE)

\* Arena::Arena()
Init ==
  /\ blocks = <<>>
  /\ alloc_block = 0
  /\ alloc_off = 0
  /\ alloc_bytes_remaining_ = 0
  /\ blocks_memory_ = 0
  /\ blocks_capacity = 0
  /\ grants = <<>>
  /\ freed = {}
  /\ destroyed = FALSE

\* for (size_t i = 0; i < blocks_.size(); i++): blocks_[0..size-1].
FreedByLoop(n) == 1..n

\* Arena::~Arena(): delete[] every block in blocks_; the owner makes no
\* call afterwards.
Destroy ==
  /\ ~destroyed
  /\ freed' = freed \cup FreedByLoop(Len(blocks))
  /\ destroyed' = TRUE
  /\ UNCHANGED <<blocks, alloc_block, alloc_off, alloc_bytes_remaining_,
                 blocks_memory_, blocks_capacity, grants>>

Next == \/ \E b \in Sizes : Allocate(b) \/ AllocateAligned(b)
        \/ Destroy

Spec == Init /\ [][Next]_vars

(***************************************************************************)
(* Properties.                                                             *)
(***************************************************************************)
TypeOK ==
  /\ blocks \in Seq([bytes : Nat \ {0}, shared : BOOLEAN])
  /\ alloc_block \in 0..Len(blocks)
  /\ alloc_off \in Nat
  /\ alloc_bytes_remaining_ \in Nat
  /\ blocks_memory_ \in Nat
  /\ blocks_capacity \in Len(blocks)..(2 * Len(blocks))
  /\ grants \in Seq([block : 1..Len(blocks), off : Nat, bytes : Sizes,
                     slop : 0..(align - 1), aligned : BOOLEAN])

\* assert at the end of AllocateAligned: every pointer it returns is a
\* multiple of align, whether it came from the bump path (after slop) or
\* from AllocateFallback.
AlignedResults ==
  \A i \in 1..Len(grants) : grants[i].aligned => grants[i].off % align = 0

\* What ArenaTest.Simple checks by filling every result with its own
\* pattern: each result lies inside its block and no two results share a
\* byte, across bump, slop, dedicated and retired blocks.
DisjointAllocations ==
  /\ \A i \in 1..Len(grants) :
       grants[i].off + grants[i].bytes <= blocks[grants[i].block].bytes
  /\ \A i, j \in 1..Len(grants) :
       i < j /\ grants[i].block = grants[j].block =>
         \/ grants[i].off + grants[i].bytes <= grants[j].off
         \/ grants[j].off + grants[j].bytes <= grants[i].off

\* Bytes handed out, and bytes lost to alignment padding.
Requested == FoldSeq(LAMBDA g, acc : g.bytes + acc, 0, grants)
SlopTotal == FoldSeq(LAMBDA g, acc : g.slop + acc, 0, grants)
SharedBlocks == Cardinality({i \in 1..Len(blocks) : blocks[i].shared})

\* Bounded waste, the design goal of the quarter-block rule: apart from
\* padding and the unused tail of the current block, each shared block the
\* arena moved past loses fewer than kBlockSize/4 + align - 1 bytes.
WasteBounded ==
  LET waste == blocks_memory_ - Requested - SlopTotal - alloc_bytes_remaining_
  IN /\ waste >= 0
     /\ waste <= IF SharedBlocks = 0 THEN 0
                 ELSE (SharedBlocks - 1) * (kBlockSize \div 4 + align - 2)

\* Arena::MemoryUsage: the blocks plus the vector's pointer array.
MemoryUsage == blocks_memory_ + blocks_capacity * 8

\* Spec section 8, arena monotonicity: MemoryUsage() never decreases from
\* one call to the next and always covers every byte handed out.  Both
\* terms move: blocks_memory_ on AllocateNewBlock, and the capacity of
\* blocks_ when push_back reallocates.
MemoryUsageMonotone ==
  /\ [][MemoryUsage' >= MemoryUsage]_vars
  /\ [](MemoryUsage >= Requested)

=============================================================================
