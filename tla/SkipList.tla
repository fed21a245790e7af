------------------------------ MODULE SkipList ------------------------------
(***************************************************************************)
(* The lock-free skip list of skiplist.h (src/unnamed/part_005): one       *)
(* writer thread calling Insert, any number of reader threads calling      *)
(* Contains concurrently, without locks.                                   *)
(*                                                                         *)
(* Nodes live in the arena and are never freed: node n is the n-th node   *)
(* allocated by Insert, head_ is the sentinel head_.  A forward pointer is *)
(* a node, Nil (nullptr) or Uninit (arena memory never written).          *)
(*                                                                         *)
(* Insert is split where another thread can observe it: the search, the   *)
(* height choice and NewNode are writer-private (one step); each          *)
(* iteration of the link loop ends in a release store that readers can   *)
(* observe (one step per level).  A reader's FindGreatOrEqual is one step *)
(* per pointer it loads.  Release/acquire pairing makes sequentially      *)
(* consistent interleaving of these steps faithful for the pointers.      *)
(***************************************************************************)
EXTENDS Integers, Sequences, SequencesExt, FiniteSets

CONSTANTS
  Keys,              \* keys the writer inserts and readers look up (integers)
  Readers,           \* reader threads
  kMaxHeight,        \* enum { kMaxHeight = 12 }, scaled down
  MaxNodes           \* bound on the number of Insert calls

ASSUME Keys \subseteq Int /\ Keys # {}
ASSUME kMaxHeight \in Nat \ {0}
ASSUME MaxNodes \in Nat \ {0}

head_   == 0
Nil    == -1
Uninit == -2
Nodes  == 1..MaxNodes
Levels == 0..(kMaxHeight - 1)

VARIABLES
  key,         \* key[n]: the immutable key of node n (Len(key) nodes allocated)
  height,      \* height[n]: the height chosen for node n by RandomHeight
  next,        \* next[n][i]: forward pointer i of node n (next_[i])
  max_height,  \* max_height_
  prev,        \* prev_: the writer's cached predecessors, one per level
  wpc,         \* writer: "idle" or "link" (inside the link loop of Insert)
  wnode,       \* the node being linked
  wlevel,      \* the loop index i of the link loop
  rpc,         \* reader: "idle", "search" (in FindGreatOrEqual) or "done"
  rkey,        \* the key the reader looks up
  rx,          \* FindGreatOrEqual's x
  rlevel,      \* FindGreatOrEqual's level
  rresult,     \* the value Contains returns
  rwasPresent  \* history: rkey was in the level-0 list when Contains began

\* SkipList's fields head_ (node 0), max_height_ and prev_, the nodes' key and
\* next_, and the control state of the writer and the readers.
vars == <<key, height, next, max_height, prev, wpc, wnode, wlevel,
          rpc, rkey, rx, rlevel, rresult, rwasPresent>>

Allocated == 1..Len(key)

(***************************************************************************)
(* Helpers of the SkipList class.                                          *)
(***************************************************************************)

\* KeyIsAfterNode: n is not null and n->key < key
KeyIsAfterNode(k, n) == n \notin {Nil, Uninit} /\ key[n] < k

\* The nodes reachable from head_ along level l, in list order.
RECURSIVE ChainFrom(_, _, _)
ChainFrom(n, l, fuel) ==
  IF fuel = 0 \/ next[n][l] \in {Nil, Uninit} THEN <<>>
  ELSE <<next[n][l]>> \o ChainFrom(next[n][l], l, fuel - 1)

Chain(l) == ChainFrom(head_, l, MaxNodes)

Level0Keys == {key[n] : n \in ToSet(Chain(0))}

\* The slow path of FindGreatOrEqual with prev != nullptr: descend from x at
\* level lvl, recording in pv the last node before k on every level.
RECURSIVE SlowPrev(_, _, _, _)
SlowPrev(k, x, lvl, pv) ==
  LET nx == next[x][lvl] IN
  IF KeyIsAfterNode(k, nx) THEN SlowPrev(k, nx, lvl, pv)
  ELSE LET pv2 == [pv EXCEPT ![lvl] = x]
       IN IF lvl = 0 THEN pv2 ELSE SlowPrev(k, x, lvl - 1, pv2)

\* Fault: the fast path without its check that prev_[0] is before k.
FastPathNoOrderCheck(k) == ~KeyIsAfterNode(k, next[prev[0]][0])

\* The fast path: prev_[0] still precedes k at level 0.
FastPath(k) ==
  /\ ~KeyIsAfterNode(k, next[prev[0]][0])
  /\ prev[0] = head_ \/ KeyIsAfterNode(k, prev[0])

\* FindGreatOrEqual(key, prev_): the predecessors Insert links after.
FindGreatOrEqualPrev(k) ==
  IF FastPath(k) THEN prev ELSE SlowPrev(k, head_, max_height - 1, prev)

\* Fault: RandomHeight's loop without the height < kMaxHeight bound.
RandomHeightsUncapped == 1..(kMaxHeight + 1)

\* RandomHeight: 1 plus coin flips, capped at kMaxHeight.
RandomHeights == 1..kMaxHeight

\* Fault: the link loop leaves the new node's pointer as it was.  This is
\* line 156 as written, NoBarrier_Next(prev_[i]->NoBarrier_Next(i)): a
\* getter called where the setter NoBarrier_SetNext was meant.
NewNodeNextUnset(p, i, old) == old

\* The successor the link loop stores in the new node at level i:
\* x->NoBarrier_SetNext(i, prev_[i]->NoBarrier_Next(i)), as intended.
NewNodeNext(p, i, old) == next[p][i]

(***************************************************************************)
(* Writer: SkipList::Insert.                                               *)
(***************************************************************************)

\* The search, RandomHeight, growing max_height_ and NewNode.  NewNode's
\* arena memory leaves every forward pointer of the node Uninit.
InsertBegin(k) ==
  /\ wpc = "idle"
  /\ Len(key) < MaxNodes
  /\ \E h \in RandomHeights :
       LET found == FindGreatOrEqualPrev(k) IN
       /\ prev' = [i \in Levels |->
                     IF max_height <= i /\ i < h THEN head_ ELSE found[i]]
       /\ max_height' = IF h > max_height THEN h ELSE max_height
       /\ key' = Append(key, k)
       /\ height' = Append(height, h)
       /\ wnode' = Len(key) + 1
       /\ wlevel' = 0
       /\ wpc' = "link"
  /\ UNCHANGED <<next, rpc, rkey, rx, rlevel, rresult, rwasPresent>>

\* One iteration of the link loop; the last one also sets prev_[0] = x.
InsertLink ==
  /\ wpc = "link"
  /\ LET x == wnode
         i == wlevel
         p == prev[i]
     IN /\ next' = [next EXCEPT ![x][i] = NewNodeNext(p, i, @),
                                ![p][i] = x]
        /\ IF i + 1 = height[x]
             THEN /\ wpc' = "idle"
                  /\ prev' = [prev EXCEPT ![0] = x]
                  /\ UNCHANGED wlevel
             ELSE /\ wlevel' = i + 1
                  /\ UNCHANGED <<wpc, prev>>
  /\ UNCHANGED <<key, height, max_height, wnode,
                 rpc, rkey, rx, rlevel, rresult, rwasPresent>>

(***************************************************************************)
(* Readers: SkipList::Contains = FindGreatOrEqual(key, nullptr) + Equal.   *)
(* GetMaxHeight is a relaxed load: the reader may see any height up to    *)
(* the current one.                                                       *)
(***************************************************************************)

ContainsBegin(r, k) ==
  /\ rpc[r] = "idle"
  /\ \E h \in 1..max_height : rlevel' = [rlevel EXCEPT ![r] = h - 1]
  /\ rpc' = [rpc EXCEPT ![r] = "search"]
  /\ rkey' = [rkey EXCEPT ![r] = k]
  /\ rx' = [rx EXCEPT ![r] = head_]
  /\ rwasPresent' = [rwasPresent EXCEPT ![r] = k \in Level0Keys]
  /\ UNCHANGED <<key, height, next, max_height, prev, wpc, wnode, wlevel,
                 rresult>>

\* The pointer the reader loads next (x->Next(level), acquire).
ReadNext(r) == next[rx[r]][rlevel[r]]

\* A load of an Uninit pointer is undefined; these steps need a defined one.
ReaderAdvance(r) ==
  /\ rpc[r] = "search"
  /\ ReadNext(r) # Uninit
  /\ KeyIsAfterNode(rkey[r], ReadNext(r))
  /\ rx' = [rx EXCEPT ![r] = ReadNext(r)]
  /\ UNCHANGED <<key, height, next, max_height, prev, wpc, wnode, wlevel,
                 rpc, rkey, rlevel, rresult, rwasPresent>>

ReaderDescend(r) ==
  /\ rpc[r] = "search"
  /\ ReadNext(r) # Uninit
  /\ ~KeyIsAfterNode(rkey[r], ReadNext(r))
  /\ rlevel[r] > 0
  /\ rlevel' = [rlevel EXCEPT ![r] = @ - 1]
  /\ UNCHANGED <<key, height, next, max_height, prev, wpc, wnode, wlevel,
                 rpc, rkey, rx, rresult, rwasPresent>>

\* Fault: Contains without the Equal test.
FoundKeyAnyNode(k, n) == n # Nil

\* Contains: x != nullptr && Equal(key, x->key)
FoundKey(k, n) == n # Nil /\ key[n] = k

\* Level 0 reached: Contains returns FoundKey for the node reached.
ReaderFinish(r) ==
  /\ rpc[r] = "search"
  /\ ReadNext(r) # Uninit
  /\ ~KeyIsAfterNode(rkey[r], ReadNext(r))
  /\ rlevel[r] = 0
  /\ rresult' = [rresult EXCEPT ![r] = FoundKey(rkey[r], ReadNext(r))]
  /\ rpc' = [rpc EXCEPT ![r] = "done"]
  /\ UNCHANGED <<key, height, next, max_height, prev, wpc, wnode, wlevel,
                 rkey, rx, rlevel, rwasPresent>>

\* The caller consumes the result; the thread may call Contains again.
ContainsReturn(r) ==
  /\ rpc[r] = "done"
  /\ rpc' = [rpc EXCEPT ![r] = "idle"]
  /\ UNCHANGED <<key, height, next, max_height, prev, wpc, wnode, wlevel,
                 rkey, rx, rlevel, rresult, rwasPresent>>

ReaderStep(r) == ReaderAdvance(r) \/ ReaderDescend(r) \/ ReaderFinish(r)

(***************************************************************************)
(* The SkipList constructor: head_ = NewNode(0, kMaxHeight) with every     *)
(* next pointer set to nullptr, max_height_ = 1, prev_[i] = head_.         *)
(***************************************************************************)
Init ==
  /\ key = <<>>
  /\ height = <<>>
  /\ next = [n \in {head_} \cup Nodes |->
               [i \in Levels |-> IF n = head_ THEN Nil ELSE Uninit]]
  /\ max_height = 1
  /\ prev = [i \in Levels |-> head_]
  /\ wpc = "idle"
  /\ wnode = head_
  /\ wlevel = 0
  /\ rpc = [r \in Readers |-> "idle"]
  /\ rkey = [r \in Readers |-> CHOOSE k \in Keys : TRUE]
  /\ rx = [r \in Readers |-> head_]
  /\ rlevel = [r \in Readers |-> 0]
  /\ rresult = [r \in Readers |-> FALSE]
  /\ rwasPresent = [r \in Readers |-> FALSE]

Next ==
  \/ \E k \in Keys : InsertBegin(k)
  \/ InsertLink
  \/ \E r \in Readers, k \in Keys : ContainsBegin(r, k)
  \/ \E r \in Readers : ReaderStep(r)
  \/ \E r \in Readers : ContainsReturn(r)

\* Reader threads are scheduled by the OS and never block: each keeps
\* taking its own steps.  The writer and the callers are not obliged to.
Fairness == \A r \in Readers : WF_vars(ReaderStep(r))

Spec == Init /\ [][Next]_vars /\ Fairness

(***************************************************************************)
(* FindLessThan and FindLast: the read-only descents of the class.        *)
(***************************************************************************)
RECURSIVE LessThanFrom(_, _, _)

\* Fault: FindLessThan stepping onto nodes equal to the key.
LessThanFromGt(k, x, lvl) ==
  LET nx == next[x][lvl] IN
  IF nx \in {Nil, Uninit} \/ key[nx] > k
    THEN IF lvl = 0 THEN x ELSE LessThanFrom(k, x, lvl - 1)
    ELSE LessThanFrom(k, nx, lvl)

LessThanFrom(k, x, lvl) ==
  LET nx == next[x][lvl] IN
  IF nx \in {Nil, Uninit} \/ key[nx] >= k
    THEN IF lvl = 0 THEN x ELSE LessThanFrom(k, x, lvl - 1)
    ELSE LessThanFrom(k, nx, lvl)

FindLessThan(k) == LessThanFrom(k, head_, max_height - 1)

RECURSIVE LastFrom(_, _)
LastFrom(x, lvl) ==
  LET nx == next[x][lvl] IN
  IF nx \in {Nil, Uninit}
    THEN IF lvl = 0 THEN x ELSE LastFrom(x, lvl - 1)
    ELSE LastFrom(nx, lvl)

FindLast == LastFrom(head_, max_height - 1)

(***************************************************************************)
(* Properties.                                                             *)
(***************************************************************************)
NodeRef == {head_} \cup Nodes \cup {Nil, Uninit}

TypeOK ==
  /\ key \in Seq(Keys) /\ Len(key) <= MaxNodes
  /\ height \in Seq(RandomHeights) /\ Len(height) = Len(key)
  /\ next \in [{head_} \cup Nodes -> [Levels -> NodeRef]]
  /\ max_height \in 1..kMaxHeight
  /\ prev \in [Levels -> {head_} \cup Allocated]
  /\ wpc \in {"idle", "link"}
  /\ wnode \in {head_} \cup Allocated
  /\ wlevel \in Levels
  /\ rpc \in [Readers -> {"idle", "search", "done"}]
  /\ rkey \in [Readers -> Keys]
  /\ rx \in [Readers -> {head_} \cup Allocated]
  /\ rlevel \in [Readers -> Levels]
  /\ rresult \in [Readers -> BOOLEAN]
  /\ rwasPresent \in [Readers -> BOOLEAN]

\* The nodes whose level-0 release store has happened.
LinkedAt0 == {n \in Allocated : ~(wpc = "link" /\ wnode = n /\ wlevel = 0)}

\* Every published node is on the level-0 list, exactly once, and the list
\* is sorted.  Insert's fast path (FindGreatOrEqual, prev_ cache) and slow
\* path must both hand the link loop the true level-0 predecessor.
Level0Ordered ==
  LET c == Chain(0) IN
  /\ Len(c) = Cardinality(LinkedAt0)
  /\ ToSet(c) = LinkedAt0
  /\ \A i \in 1..(Len(c) - 1) : key[c[i]] <= key[c[i + 1]]

\* The data-model invariant of the spec: at every level the chain is
\* sorted.  Insert links level i after prev_[i], which the fast path of
\* FindGreatOrEqual leaves as it was after the previous Insert.
EveryLevelSorted ==
  \A l \in Levels : LET c == Chain(l) IN
    \A i \in 1..(Len(c) - 1) : key[c[i]] <= key[c[i + 1]]

\* A reader never loads a forward pointer of a node that the writer has not
\* initialised: Insert must fill the new node's next_[i] (line 156) before
\* the release store that publishes it (line 157).
NoUninitializedRead ==
  \A r \in Readers : rpc[r] = "search" => ReadNext(r) # Uninit

\* FindLessThan returns the last level-0 node with a smaller key and
\* FindLast the last level-0 node, on every state a reader can meet,
\* although the levels above 0 may be out of order.
ProbeKeys == Keys \cup {Max(Keys) + 1}

LastBefore(k) ==
  LET c == Chain(0)
      idx == {i \in 1..Len(c) : key[c[i]] < k}
  IN IF idx = {} THEN head_ ELSE c[Max(idx)]

QueriesAgree ==
  /\ \A k \in ProbeKeys : FindLessThan(k) = LastBefore(k)
  /\ FindLast = IF Chain(0) = <<>> THEN head_ ELSE Last(Chain(0))

\* Contains, run concurrently with Insert, behaves like a linearizable
\* membership test of the set of level-0 keys, and always returns.
KS == INSTANCE KeySet WITH present <- Level0Keys, phase <- rpc,
        askKey <- rkey, atStart <- rwasPresent, answer <- rresult
KeySetRefinement == KS!Spec

=============================================================================
