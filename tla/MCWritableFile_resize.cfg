\* The bounds of MCWritableFile.cfg: block sizes 2 and 4 let the size
\* grow from 2 to 4 between two writes.
CONSTANTS
  BlockSizes = {0, 2, 4}
  Offsets = {0, 3, 9}
  Lens = {0, 2, 6}
  MaxCalls = 6
SPECIFICATION Spec
CHECK_DEADLOCK FALSE
INVARIANT PreallocatedAcrossResize
