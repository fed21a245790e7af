\* One reader suffices: the upper levels are ordered by the writer alone.
CONSTANTS
  Keys = {1, 2, 3}
  Readers = {r1}
  kMaxHeight = 2
  MaxNodes = 3
SPECIFICATION Spec
INVARIANT EveryLevelSorted
