\* Block sizes 4 and 2, each of which may be switched off and on, and a
\* shrink from 4 to 2 after writes.  Offsets 0, 3 and 9 start inside the
\* first, first and third block of 4; lengths 0, 2 and 6 end within a
\* block, across one boundary and across two.
CONSTANTS
  BlockSizes = {0, 2, 4}
  Offsets = {0, 3, 9}
  Lens = {0, 2, 6}
  MaxCalls = 6
SPECIFICATION Spec
CHECK_DEADLOCK FALSE
INVARIANT WritesPreallocated
INVARIANT StatusMatchesAllocated
