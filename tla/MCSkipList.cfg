\* One reader against the writer.  Readers never write, so a second one
\* adds no new interaction with the writer or with the first reader.  Four
\* inserts over three keys and two levels make the fast path, the slow
\* path, duplicates, a height increase and fast-path inserts behind a tall
\* node all reachable.  The safety invariants and the refinement of
\* KeySet (with its liveness) are checked on the same state graph.
CONSTANTS
  Keys = {1, 2, 3}
  Readers = {r1}
  kMaxHeight = 2
  MaxNodes = 4
SPECIFICATION Spec
INVARIANT TypeOK
INVARIANT Level0Ordered
INVARIANT QueriesAgree
INVARIANT NoUninitializedRead
PROPERTY KeySetRefinement
