CONSTANTS
  Keys = {1, 2, 3}
  Readers = {r1}
  kMaxHeight = 2
  MaxNodes = 3
SPECIFICATION Spec
INVARIANTS NoUninitializedRead KeyWriteVisible SyncedKeyFound
PROPERTY ContainsReturns
