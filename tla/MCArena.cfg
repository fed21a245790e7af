\* A 64-byte block (quarter: 16).  Sizes hit every branch: 3 misaligns the
\* bump pointer, 16 is exactly a quarter block and fills a block in four,
\* 17 is the smallest dedicated request, 70 exceeds a whole block.
CONSTANTS
  kBlockSize = 64
  Sizes = {3, 16, 17, 70}
  MaxCalls = 6
SPECIFICATION Spec
CHECK_DEADLOCK FALSE
INVARIANT TypeOK
INVARIANT AlignedResults
INVARIANT DisjointAllocations
INVARIANT WasteBounded
PROPERTY MemoryUsageMonotone
