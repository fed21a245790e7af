----------------------------- MODULE Publication -----------------------------
(***************************************************************************)
(* The skip list's memory orders.  SkipList interleaves Insert and         *)
(* Contains as if every load saw the latest store.  Here each shared word  *)
(* keeps the history of what was stored in it, as C++ release/acquire     *)
(* semantics allows, and a reader thread may load any store not older     *)
(* than the ones it has already synchronised with.                        *)
(*                                                                         *)
(* port::AtomicPointer (src/src/port/port.h) gives the four accesses.  A  *)
(* store appends a message [val, g, rel]: g numbers the writer's stores   *)
(* in program order, rel marks a release store.  A reader's view maps     *)
(* each location to the oldest message it may still load; an acquire load *)
(* of a release message raises the view to every store the writer made   *)
(* up to that one.  The writer is the only thread that stores, so it      *)
(* always reads its own latest stores and SkipList's search is reused on  *)
(* them.  Node keys are plain (non-atomic) fields: NewNode writes them,   *)
(* readers read them, and a read not ordered after the write is a race.   *)
(***************************************************************************)
EXTENDS Integers, Sequences, FiniteSetsExt

CONSTANTS Keys, Readers, kMaxHeight, MaxNodes

VARIABLES
  mem,      \* mem[l]: the messages stored at location l, oldest first
  gclock,   \* the number of stores the writer has made
  key, height, prev, wpc, wnode, wlevel,    \* the writer, as in SkipList
  rpc, rkey, rx, rlevel, rresult,           \* the readers, as in SkipList
  rnext,    \* the pointer the reader loaded and has not yet compared
  rview,    \* rview[r][l]: the oldest message of l reader r may load
  rsynced   \* history: when Contains began, the reader's view already
            \* held rkey's node on the level-0 list

\* Every AtomicPointer's rep_ is a location of mem; the rest as in SkipList.
vars == <<mem, gclock, key, height, prev, wpc, wnode, wlevel,
          rpc, rkey, rx, rlevel, rresult, rnext, rview, rsynced>>

NoLoad == -3                 \* rnext when no pointer is held
NodeIds == 0..MaxNodes       \* head_ and the arena nodes
LevelIds == 0..(kMaxHeight - 1)

\* The shared words: next_[i] of every node, every node's key, max_height_.
NextLoc(n, i) == <<"next", n, i>>
KeyLoc(n) == <<"key", n>>
MaxHeightLoc == <<"max_height">>
Locs == {NextLoc(n, i) : n \in NodeIds, i \in LevelIds}
          \cup {KeyLoc(n) : n \in 1..MaxNodes} \cup {MaxHeightLoc}

\* The value of the latest store, which the writer itself reads.
Latest(l) == mem[l][Len(mem[l])].val
LatestNext == [n \in NodeIds |-> [i \in LevelIds |-> Latest(NextLoc(n, i))]]

SL == INSTANCE SkipList WITH next <- LatestNext,
        max_height <- Latest(MaxHeightLoc),
        rwasPresent <- [r \in Readers |-> FALSE]

(***************************************************************************)
(* port::AtomicPointer.  A store returns the new memory; a load is the     *)
(* set of <<value, new view>> pairs it may produce.                       *)
(***************************************************************************)
NoBarrier_Store(m, l, v, g) ==
  [m EXCEPT ![l] = Append(@, [val |-> v, g |-> g, rel |-> FALSE])]

\* Fault: Release_Store with memory_order_relaxed.
ReleaseStoreRelaxed(m, l, v, g) == NoBarrier_Store(m, l, v, g)

Release_Store(m, l, v, g) ==
  [m EXCEPT ![l] = Append(@, [val |-> v, g |-> g, rel |-> TRUE])]

\* The view after synchronising with the writer's store number g.
LastUpTo(l, g) == Max({i \in 1..Len(mem[l]) : mem[l][i].g <= g})
Join(vw, g) == [l \in Locs |-> Max({vw[l], LastUpTo(l, g)})]

NoBarrier_Load(vw, l) ==
  {<<mem[l][i].val, [vw EXCEPT ![l] = i]>> : i \in vw[l]..Len(mem[l])}

\* Fault: Acquire_Load with memory_order_relaxed.
AcquireLoadRelaxed(vw, l) == NoBarrier_Load(vw, l)

Acquire_Load(vw, l) ==
  {<<mem[l][i].val,
     IF mem[l][i].rel THEN Join([vw EXCEPT ![l] = i], mem[l][i].g)
                      ELSE [vw EXCEPT ![l] = i]>> : i \in vw[l]..Len(mem[l])}

\* The level-0 list read through the oldest messages reader r may load:
\* the nodes it has synchronised with and can never miss again.
RECURSIVE ViewChainFrom(_, _, _)
ViewChainFrom(vw, n, fuel) ==
  LET nx == mem[NextLoc(n, 0)][vw[NextLoc(n, 0)]].val IN
  IF fuel = 0 \/ nx \notin 1..MaxNodes THEN {}
  ELSE {nx} \cup ViewChainFrom(vw, nx, fuel - 1)

SyncedKeys(vw) == {key[n] : n \in ViewChainFrom(vw, 0, MaxNodes)}

(***************************************************************************)
(* Writer: SkipList::Insert.                                               *)
(***************************************************************************)

\* FindGreatOrEqual, RandomHeight, max_height_.NoBarrier_Store(height) when
\* the list grows, then NewNode: the plain store of the key into arena
\* memory whose next_ words were never written.
InsertBegin(k) ==
  /\ wpc = "idle"
  /\ Len(key) < MaxNodes
  /\ \E h \in SL!RandomHeights :
       LET mh == Latest(MaxHeightLoc)
           found == SL!FindGreatOrEqualPrev(k)
           x == Len(key) + 1
           m1 == IF h > mh THEN NoBarrier_Store(mem, MaxHeightLoc, h, gclock + 1)
                 ELSE mem
           g1 == IF h > mh THEN gclock + 1 ELSE gclock
       IN /\ prev' = [i \in LevelIds |-> IF mh <= i /\ i < h THEN 0 ELSE found[i]]
          /\ mem' = NoBarrier_Store(m1, KeyLoc(x), k, g1 + 1)
          /\ gclock' = g1 + 1
          /\ key' = Append(key, k)
          /\ height' = Append(height, h)
          /\ wnode' = x
          /\ wlevel' = 0
          /\ wpc' = "link"
  /\ UNCHANGED <<rpc, rkey, rx, rlevel, rresult, rnext, rview, rsynced>>

\* One iteration of the link loop: x->NoBarrier_SetNext(i,
\* prev_[i]->NoBarrier_Next(i)), then prev_[i]->SetNext(i, x).
InsertLink ==
  /\ wpc = "link"
  /\ LET x == wnode
         i == wlevel
         p == prev[i]
         m1 == NoBarrier_Store(mem, NextLoc(x, i), Latest(NextLoc(p, i)), gclock + 1)
     IN /\ mem' = Release_Store(m1, NextLoc(p, i), x, gclock + 2)
        /\ gclock' = gclock + 2
        /\ IF i + 1 = height[x]
             THEN /\ wpc' = "idle"
                  /\ prev' = [prev EXCEPT ![0] = x]
                  /\ UNCHANGED wlevel
             ELSE /\ wlevel' = i + 1
                  /\ UNCHANGED <<wpc, prev>>
  /\ UNCHANGED <<key, height, wnode, rpc, rkey, rx, rlevel, rresult, rnext, rview, rsynced>>

(***************************************************************************)
(* Readers: Contains = FindGreatOrEqual(key, nullptr) + Equal.  A load of *)
(* x->Next(level) is one step; the use of the loaded pointer, which reads *)
(* next->key in KeyIsAfterNode, is the next step.                        *)
(***************************************************************************)

\* GetMaxHeight: max_height_.NoBarrier_Load().
ContainsBegin(r, k) ==
  /\ rpc[r] = "idle"
  /\ \E o \in NoBarrier_Load(rview[r], MaxHeightLoc) :
       /\ rlevel' = [rlevel EXCEPT ![r] = o[1] - 1]
       /\ rview' = [rview EXCEPT ![r] = o[2]]
       /\ rsynced' = [rsynced EXCEPT ![r] = k \in SyncedKeys(o[2])]
  /\ rpc' = [rpc EXCEPT ![r] = "search"]
  /\ rkey' = [rkey EXCEPT ![r] = k]
  /\ rx' = [rx EXCEPT ![r] = 0]
  /\ UNCHANGED <<mem, gclock, key, height, prev, wpc, wnode, wlevel,
                 rresult, rnext>>

\* Node* next = x->Next(level): next_[level].Acquire_Load().
ReaderLoad(r) ==
  /\ rpc[r] = "search"
  /\ rnext[r] = NoLoad
  /\ \E o \in Acquire_Load(rview[r], NextLoc(rx[r], rlevel[r])) :
       /\ rnext' = [rnext EXCEPT ![r] = o[1]]
       /\ rview' = [rview EXCEPT ![r] = o[2]]
  /\ UNCHANGED <<mem, gclock, key, height, prev, wpc, wnode, wlevel,
                 rpc, rkey, rx, rlevel, rresult, rsynced>>

\* A pointer is used only when loaded and defined (see NoUninitializedRead).
Holds(r) == rnext[r] \notin {NoLoad, SL!Uninit}

\* Fault: FindGreatOrEqual returning without descending to level 0.
AtBottomAnyLevel(r) == TRUE

\* if (level == 0) return next; else level--;
AtBottom(r) == rlevel[r] = 0

ReaderAdvance(r) ==
  /\ rpc[r] = "search"
  /\ Holds(r)
  /\ SL!KeyIsAfterNode(rkey[r], rnext[r])
  /\ rx' = [rx EXCEPT ![r] = rnext[r]]
  /\ rnext' = [rnext EXCEPT ![r] = NoLoad]
  /\ UNCHANGED <<mem, gclock, key, height, prev, wpc, wnode, wlevel,
                 rpc, rkey, rlevel, rresult, rview, rsynced>>

\* Fault: the else branch without level--.
DescendNoDecrement(lvl) == lvl

\* level-- in FindGreatOrEqual's else branch.
Descend(lvl) == lvl - 1

ReaderDescend(r) ==
  /\ rpc[r] = "search"
  /\ Holds(r)
  /\ ~SL!KeyIsAfterNode(rkey[r], rnext[r])
  /\ ~AtBottom(r)
  /\ rlevel' = [rlevel EXCEPT ![r] = Descend(@)]
  /\ rnext' = [rnext EXCEPT ![r] = NoLoad]
  /\ UNCHANGED <<mem, gclock, key, height, prev, wpc, wnode, wlevel,
                 rpc, rkey, rx, rresult, rview, rsynced>>

\* Level 0: Contains returns x != nullptr && Equal(key, x->key).
ReaderFinish(r) ==
  /\ rpc[r] = "search"
  /\ Holds(r)
  /\ ~SL!KeyIsAfterNode(rkey[r], rnext[r])
  /\ AtBottom(r)
  /\ rresult' = [rresult EXCEPT ![r] = SL!FoundKey(rkey[r], rnext[r])]
  /\ rnext' = [rnext EXCEPT ![r] = NoLoad]
  /\ rpc' = [rpc EXCEPT ![r] = "done"]
  /\ UNCHANGED <<mem, gclock, key, height, prev, wpc, wnode, wlevel,
                 rkey, rx, rlevel, rview, rsynced>>

ReaderStep(r) ==
  ReaderLoad(r) \/ ReaderAdvance(r) \/ ReaderDescend(r) \/ ReaderFinish(r)

ContainsReturn(r) ==
  /\ rpc[r] = "done"
  /\ rpc' = [rpc EXCEPT ![r] = "idle"]
  /\ UNCHANGED <<mem, gclock, key, height, prev, wpc, wnode, wlevel,
                 rkey, rx, rlevel, rresult, rnext, rview, rsynced>>

(***************************************************************************)
(* The constructor's stores (max_height_ = 1, head_->SetNext(i, nullptr)) *)
(* and the arena's unwritten words are message 1 of every location; the   *)
(* readers are started after the constructor, so every view starts there.*)
(***************************************************************************)
InitVal(l) ==
  CASE l = MaxHeightLoc -> 1
    [] l \in {NextLoc(0, i) : i \in LevelIds} -> SL!Nil
    [] OTHER -> SL!Uninit

Init ==
  /\ mem = [l \in Locs |-> <<[val |-> InitVal(l), g |-> 0, rel |-> FALSE]>>]
  /\ gclock = 0
  /\ key = <<>>
  /\ height = <<>>
  /\ prev = [i \in LevelIds |-> 0]
  /\ wpc = "idle"
  /\ wnode = 0
  /\ wlevel = 0
  /\ rpc = [r \in Readers |-> "idle"]
  /\ rkey = [r \in Readers |-> CHOOSE k \in Keys : TRUE]
  /\ rx = [r \in Readers |-> 0]
  /\ rlevel = [r \in Readers |-> 0]
  /\ rresult = [r \in Readers |-> FALSE]
  /\ rnext = [r \in Readers |-> NoLoad]
  /\ rview = [r \in Readers |-> [l \in Locs |-> 1]]
  /\ rsynced = [r \in Readers |-> FALSE]

Next ==
  \/ \E k \in Keys : InsertBegin(k)
  \/ InsertLink
  \/ \E r \in Readers, k \in Keys : ContainsBegin(r, k)
  \/ \E r \in Readers : ReaderStep(r) \/ ContainsReturn(r)

\* Reader threads never block and the OS keeps running them; the writer
\* and the callers of Contains are not obliged to take steps.
Fairness == \A r \in Readers : WF_vars(ReaderStep(r))

Spec == Init /\ [][Next]_vars /\ Fairness

(***************************************************************************)
(* Properties.                                                             *)
(***************************************************************************)
TypeOK ==
  /\ gclock \in Nat
  /\ \A l \in Locs : Len(mem[l]) >= 1
  /\ rpc \in [Readers -> {"idle", "search", "done"}]
  /\ rview \in [Readers -> [Locs -> Nat \ {0}]]
  /\ \A r \in Readers, l \in Locs : rview[r][l] <= Len(mem[l])

\* Whatever stale stores a reader's loads return, a pointer it loads is
\* never arena memory the writer has not written: the release store of
\* SetNext (line 157) orders the new node's NoBarrier_SetNext (line 156)
\* before it, and Next's acquire load brings that store into the view.
NoUninitializedRead == \A r \in Readers : rnext[r] # SL!Uninit

\* The reader's read of next->key is ordered after NewNode's plain store of
\* the key: Node::key is not atomic, so a read that does not happen after
\* the write is a data race.  This rests on the release store publishing
\* the node and the acquire load finding it.
KeyWriteVisible ==
  \A r \in Readers : rnext[r] \in 1..MaxNodes =>
    rview[r][KeyLoc(rnext[r])] = Len(mem[KeyLoc(rnext[r])])

\* Read-your-synchronisation: if, when Contains(k) begins, the reader has
\* already synchronised with the store linking k's node into level 0, it
\* returns true.  GetMaxHeight's relaxed load may return an older height
\* than the one the node was linked with, and the search starts there.
SyncedKeyFound ==
  \A r \in Readers : rpc[r] = "done" /\ rsynced[r] => rresult[r]

\* FindGreatOrEqual's while (true) ends: every Contains that has begun
\* returns, whatever stale pointers and heights its loads return and
\* however the writer's stores interleave with it.
ContainsReturns == \A r \in Readers : rpc[r] = "search" ~> rpc[r] = "done"
====
