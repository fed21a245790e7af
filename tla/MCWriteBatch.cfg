\* One key, an empty and a one-byte value, up to three records between
\* Clears, and a handler that keeps the default (fatal) Merge.
CONSTANTS
  Keys <- MCKeys
  Vals <- MCVals
  MaxOps = 3
  MergeOverridden = FALSE
SPECIFICATION Spec
CHECK_DEADLOCK FALSE
PROPERTY ReplayInOrder
PROPERTY FailedReplayIsPrefix
