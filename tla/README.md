# TLA+ models of the rockscopy in-memory write path

This directory holds TLA+ models of the source under `../src`. Each model is
checked with TLC. Every definition is a translation of the code that
`PROJECT.json` ("map") names.

## 1. Inventory

| Component | Source | State it keeps | Operations | Status |
|---|---|---|---|---|
| Arena | `src/unnamed/part_003` (arena.cc), `src/src/util/hash.cpp` lines 44-105 (arena.h, embedded) | `alloc_ptr_`, `alloc_bytes_remaining_`, `blocks_`, `blocks_memory_` | `Allocate`, `AllocateAligned`, `AllocateFallback`, `AllocateNewBlock`, `MemoryUsage` (read-only), destructor | modelled: `Arena` |
| SkipList | `src/unnamed/part_005` lines 33-261 (skiplist.h) | `head_`, nodes with immutable `key` and `next_[height]`, `max_height_`, writer cache `prev_[kMaxHeight]`, `rnd_` | `Insert` (writer), `Contains` (readers), private `FindGreatOrEqual`, `FindLessThan`, `FindLast`, `RandomHeight`, `NewNode` | modelled: `SkipList`, abstract `KeySet` |
| port::AtomicPointer | `src/src/port/port.h` (atomic_pointer.h, embedded) | one `std::atomic<void*>` | acquire load, release store, relaxed load and store | modelled: `Publication` (release/acquire memory semantics, as the skip list uses them) |
| MemTable | `src/unnamed/part_005` lines 1-32 | `refs_`, `arena_`, `flush_in_progress_`, `flush_completed_`, `file_number_`, `first_seqno_`, `mem_logfile_number_` | none (declaration only) | not modelled |
| Encoding primitives | `src/src/util/coding.cpp`, `src/unnamed/part_002` lines 25-152 (coding.h) | none: functions over a caller's buffer or `Slice` | `PutFixed32/64`, `Encode/PutVarint32/64`, `Get/GetVarint32/64(Ptr)`, `VarintLength`, `Put/GetLengthPrefixedSlice`, `BitStreamPutInt/GetInt` | modelled: `Coding`, `BitStream` (`PutFixed32/64` only as pure operators) |
| Hash | `src/src/util/hash.cpp` lines 1-43 | none | `Hash(data, n, seed)` | modelled: `Hash` |
| WriteBatch | `src/include/leveldb/write_batch.h` | `rep_` | declared only: `Put`, `Delete`, `Merge`, `Clear`, `Iterate`; defined inline: `Data`, `WriteBatch(std::string)` | modelled: `WriteBatch` (the declared operations from the spec, since there is no implementation in the repository; `Data` and the constructor from the code) |
| DB / DBImpl | `src/unnamed/part_004`, `src/src/db/db_impl.h`, `src/unnamed/part_001` | none | `DB::Put` builds a one-record batch and calls `DBImpl::Write`, whose body is empty | not modelled |
| WritableFile preallocation | `src/include/leveldb/env.h` lines 285-368 | `last_preallocated_block_`, `preallocation_block_size_` | `SetPreallocationBlockSize`, `GetPreallocationStatus` (read-only), `PrepareWrite` (calls the virtual `Allocate`) | modelled: `WritableFile` |
| Env, files, Logger, TransactionLogIterator, VersionSet | the rest of the headers under `src/include`, `src/src/util/env_posix.cpp`, `src/src/db/version_set.h` | none | abstract interfaces, `EnvWrapper`'s one-line forwards, an empty `Append` | not modelled (pure I/O interfaces and placeholders) |
| Status | `src/unnamed/part_002` lines 1-24 | `state_` | none | not modelled (data holder) |

### How the parts interact

The skip list allocates every node from the arena, through
`NewNode -> Arena::AllocateAligned`. Nodes are never freed; the arena frees
all blocks when it is destroyed. The memtable owns one arena and, per the
spec, one skip list. The spec says a single external writer replays write
batches into it. None of the memtable, batch or DB code exists yet.

Concurrency is confined to the skip list. One thread calls `Insert`; the
caller must serialise writers. Any number of threads call `Contains` with no
lock. The writer publishes each level of a new node with a release store
(`Node::SetNext`), and readers load pointers with acquire loads
(`Node::Next`). `max_height_` is read and written relaxed. The arena is used
only by the writer.

### What is hard here

* Interleaving: a reader runs while a node is half-linked, linked at level 0
  but not yet above. It may also see a `max_height_` that is newer or older
  than the head's linked levels.
* Publication order: the new node's `next_[i]` must be written before the
  release store that makes the node reachable at level i.
* A stale cache: `prev_` is reused by the fast path for sequential
  inserts.
* Boundaries in the arena: a request exactly the remaining size, the
  quarter-block split, and the alignment slop after unaligned requests.
* Codecs: varint decoding at the 5- and 10-byte limits, truncated
  inputs, partial updates of the caller's `Slice` on failure, bit packing
  across byte boundaries, 32-bit wrap-around and sign extension in `Hash`.

### What makes each component correct

* Arena: results are aligned where promised, lie inside their block and
  never overlap. Waste is bounded by the quarter-block rule.
* SkipList: level 0 is sorted and holds every published node. Every level is
  sorted (the header comment and the spec). Readers never see a partly built
  node. `Contains` is a linearizable membership test and always returns.
  `FindLessThan` and `FindLast` agree with level 0.
* Coding: decode inverts encode, lengths match `VarintLength`, and a failed
  decode leaves the caller's input unchanged (spec §7). Bit packing leaves
  the bits outside the written range alone.
* Hash: it matches the spec's algorithm bit for bit on every build, and returns the seed
  when `n = 0`.

## 2. Modules

### `SkipList` (with `MCSkipList`)

State: `key`, `height` (sequences indexed by node: node n is the n-th
`NewNode`), `next[n][i]`, `max_height`, `prev`. The writer's position in the
link loop is `wpc`, `wnode` and `wlevel`. Each reader has `rpc`, `rkey`,
`rx` and `rlevel` (FindGreatOrEqual's locals) and `rresult`. `rwasPresent` is
a history variable. Node `head_` = 0. A pointer is a node, `Nil` (nullptr)
or `Uninit` (arena bytes never written).

Actions:

* `InsertBegin(k)`: the writer-private part of `Insert`, which no other
  thread can observe. It runs `FindGreatOrEqual(key, prev_)`, with the fast
  path `FastPath` and the slow path `SlowPrev`. It then picks a height with
  `RandomHeights`, grows `max_height_`, fills `prev_` for the new levels and
  calls `NewNode`.
* `InsertLink`: one iteration of the link loop. It does the relaxed store of
  line 156 (`NewNodeNext`) and then the release store of line 157. The last
  iteration also does `prev_[0] = x`.
* `ContainsBegin` and `ReaderAdvance`, `ReaderDescend`, `ReaderFinish`:
  `Contains`, with one step per acquire load. The starting level comes from
  a relaxed load of `max_height_`, which may return any height up to the
  current one.
* `ContainsReturn`: the caller takes the result.

Release/acquire pairing means a reader that loads a pointer sees everything
the writer wrote before the matching release. A sequentially consistent
interleaving of these steps is therefore faithful. `Publication` checks
this claim against a weaker memory.

Line 156 as written calls the getter `NoBarrier_Next` where the setter
`NoBarrier_SetNext` was meant, and stores nothing. Once `Insert` is
instantiated that line does not compile, so no build runs it. The model
takes the intended setter (`NewNodeNext`). The line as written is the
mutant `NewNodeNextUnset`: after one insert, a reader advances to node 1
and loads its unwritten `next_[0]`, which violates `NoUninitializedRead`.

`KeySet` is the abstract specification. It holds a growing set of keys. An
atomic `Respond` answers TRUE only for a key present at return, and always
answers TRUE for a key that was present at call. Weak fairness makes every
call return. `SkipList` maps `present` to the keys on the level-0 list, and
maps each reader's phase, key and answer directly.

### `Publication` (with `MCPublication.cfg`)

This module models `port::AtomicPointer`'s four accesses with C++
release/acquire semantics, and runs the skip list's `Insert` and
`Contains` on them.
* `mem[l]` is the history of stores to one shared word `l`. The shared
  words are every `next_[i]` (`NextLoc`), every node's plain `key`
  (`KeyLoc`) and `max_height_` (`MaxHeightLoc`).
* A message is `[val, g, rel]`. `g` numbers the writer's stores in program
  order, and `rel` marks `Release_Store`. Message 1 of every word is the
  constructor's store or the arena's unwritten bytes (`InitVal`).
* `rview[r][l]` is the oldest message reader `r` may still load.
  `NoBarrier_Load` returns any message from there on and moves the view of
  that word only. `Acquire_Load` of a release message also joins in every
  store the writer made up to it (`Join`).
* The writer is the only thread that stores, so it always reads its own
  latest stores. `SL == INSTANCE SkipList` substitutes the latest values
  for `next` and `max_height`, so the search, the fast path and
  `RandomHeights` are `SkipList`'s own.
* `InsertBegin` is the relaxed `max_height_` store, then `NewNode`'s plain
  key store. `InsertLink` is `NoBarrier_SetNext` on the new node, then
  `SetNext`'s release store into the predecessor.
* A reader's `ContainsBegin` is `GetMaxHeight`, a relaxed load.
  `ReaderLoad` is `Node::Next`, an acquire load. The next step uses the
  pointer it loaded, and reads `next->key` in `KeyIsAfterNode`.
* Reader steps are weakly fair, as in `SkipList`.
* `rsynced` is a history variable. It records whether, when `Contains(k)`
  began, k's node was already on the level-0 list read through the oldest
  messages the reader may load (`SyncedKeys`).

### `Arena` (with `MCArena`)

A pointer is (block index, offset). `new[]` results are at least 8-aligned,
so alignment is a property of the offset. `grants` records every result.

* `Allocate(bytes)`: the bump path (`Fits`), otherwise `AllocateFallback`.
* `AllocateAligned(bytes)`: `Slop`, then the bump path or `AllocateFallback`.
* `AllocateFallback` and `NewBlock`: the dedicated-block path above a
  quarter block, and the new shared block below it.
* `Destroy`: the destructor's loop (`FreedByLoop`) `delete[]`s
  `blocks_[0..size-1]` into `freed`. The owner makes no call afterwards.

`MemoryUsage` adds `blocks_.capacity()*8` to `blocks_memory_`. It reads
state and changes none, so it is an operator, not an action. The vector's
capacity (`blocks_capacity`) changes inside `NewBlock`, because
`AllocateNewBlock` calls `blocks_.push_back`. On a full vector both libstdc++
and libc++ reallocate to `size + max(size, 1)` (`Grown`).

### `Coding` (with `MCCoding`)

Encoders and decoders are operators over a byte sequence, and a decoder
result is `[ok, val, next]`:
* `EncodeVarint32` is the if-chain, and `EncodeVarint64` is the loop.
* `VarintLength`.
* `VarintLoop` is the loop shared by `GetVarint32PtrFallback` (shift <= 28)
  and `GetVarint64Ptr` (shift <= 63).
* `GetVarint32Ptr` is the one-byte fast path followed by that loop.
* `EncodeFixedLE` and `DecodeFixedLE` are the fixed-width codecs on a
  little-endian target.

The state machine runs in two phases:
* Encode: `PutVarint32`, `PutVarint64` and `PutLengthPrefixedSlice` append
  to `dst`. `written` records the items.
* Decode: `StartDecode` hands the decoder a `Slice` over the first `limit`
  bytes of `dst`. This may be the whole buffer or a truncated copy. `pos` is
  `input->data()`.
* The decode actions are `GetVarint32`, `GetVarint64`, the
  `Slice*` overload `GetLengthPrefixedSlice` and the pointer overload
  `GetLengthPrefixedSlicePtr`. Each consumes the next item in the order it
  was written.

The `Slice*` overload updates `pos` through `GetVarint32` before it checks
the body length. That is why a failed call may leave `pos` past the length
prefix.

### `BitStream` (with `MCBitStream`)

`PutLoop` and `GetLoop` are the byte loops of the `char*` versions of
`BitStreamPutInt` and `BitStreamGetInt`. The actions put into a `std::string`
of `L` bytes:
* `PutIntChars` is the `char*` version over the whole buffer.
* `PutIntString` is the `std::string` version. It copies `kUsedBytes + 1`
  bytes into `tmpBuf`, puts at `offset % 8` and copies them back. When that
  range reaches `dst->size()`, the byte read there is the terminating `'\0'`.

`shadow` and `fields` are history variables. `shadow` holds the bit each
position was last given. `fields` holds the puts that have not been
overwritten since.

### `Hash` (with `MCHash`)

TLC's integers end below 2^31, so a `uint32` is four little-endian bytes.
`AddU`, `MulU`, `XorU` and `ShrU` carry out `+`, `*`, `^` and `>>` modulo
2^32 (`Carry` drops the carry out of the top byte).

The actions follow the function:
* `Call` computes `h = seed ^ (n * m)`.
* Each `Word` is one iteration of the 4-byte loop.
* `Finish` is the switch with its fall-throughs (`TailMix`).
* `Return` hands back the result.

The trailing bytes are read as `char`. `CharShl` promotes, sign-extends and
shifts them. `CharIsSigned` is the build's choice: signed on x86, unsigned
on ARM. `SpecHash` is the reference, written from spec §4.5 as one formula
over whole words and the tail read as an unsigned little-endian value.

### `WriteBatch` (with `MCWriteBatch`)

No `write_batch.cc` exists, so this module follows spec §4.6 and the wire
format of §6. `Copy` translates the two inline definitions of the header
(`Data()` and `WriteBatch(std::string)`). Everything else (`Put`,
`Delete`, `Merge`, `Clear`, the `Iterate` loop, the record encoding and the
count check) has only a declaration in the header and comes from the
spec; it is marked `spec_modelled`. The Handler comment gives the
throwing default `Merge`.
It builds on the `Coding` operators through `C == INSTANCE Coding`.
* `rep` is `rep_`: a 12-byte header (fixed64 sequence, fixed32 count) and
  the records.
* `Put`, `Delete` and `Merge` (`AppendRecord`) bump the count and append a
  tag byte and the length-prefixed key (and value). `Clear` restores the
  empty header.
* `IterateBegin` picks what is iterated: the batch itself, or a
  `WriteBatch(std::string)` built from the first n bytes of `Data()`.
  `IterateRecord` is one loop iteration, including the handler call, and
  `IterateEnd` is the final count check.
* `Copy` is the header's own code (lines 63 and 66): `Data()` returns
  `rep_` by value and `WriteBatch(std::string)` stores it unchecked.
* The handler keeps the default `Merge` (`MergeOverridden = FALSE`), which
  spec §7 makes fatal.
* The tag values are the spec's open question. LevelDB's are used.

### `WritableFile`

`WritableFile` models the preallocation bookkeeping of `env.h` (lines
285-368), the one algorithm in the Env headers.
* The variables are the two members, plus `allocated` (every byte handed
  to `Allocate`) and the history `prepared` (every byte of a write
  prepared while the block size was non-zero).
* `Write(offset, len)` is a subclass's write. It is the whole of
  `PrepareWrite` (early return at size 0, `NewLast` rounding up, and the
  `Allocate` from the end of the last preallocated block), followed by
  the write itself.
* The base `Allocate` does nothing. A subclass reserves the range it is
  given, and the model records that range.
* `GetPreallocationStatus` is an operator read by a property.
* `last_preallocated_block_` is a count of blocks of the size in force
  when it was set, and line 340 compares it with a block number of the
  current size. The history variable `unit` is that size. `grew` records
  a write under a larger size than `unit`, and `changed` a write under
  any other non-zero size. The passing run states its properties for the histories
  without such a write; `PreallocatedAcrossResize` drops the precondition,
  and TLC finds it violated as soon as the size grows between writes.

## 3. Runs

| Run | Config | Checks | Result |
|---|---|---|---|
| `skiplist_safety` | `MCSkipList.cfg`: keys {1,2,3}, 1 reader, kMaxHeight 2, 4 inserts | `TypeOK`, `Level0Ordered`, `QueriesAgree`, `NoUninitializedRead`, `KeySetRefinement` (`KeySet!Spec`, fairness included) | pass, about 204k states |
| `skiplist_upper_levels` | `MCSkipList_levels.cfg` | `EveryLevelSorted` | violation: insert 1 (height 2), then 2 (height 2) by the fast path; level 1 becomes head -> 2 -> 1 |
| `skiplist_release_acquire` | `MCPublication.cfg`: module `Publication`, keys {1,2,3}, 1 reader, kMaxHeight 2, 3 inserts | `NoUninitializedRead`, `KeyWriteVisible`, `SyncedKeyFound`, `ContainsReturns` (fairness of reader steps) | pass, about 123k states, 1.5 min |
| `arena_allocations` | `MCArena.cfg`: kBlockSize 64, sizes {3,16,17,70}, 6 calls | `TypeOK`, `AlignedResults`, `DisjointAllocations`, `WasteBounded`, `MemoryUsageMonotone` | pass, about 600k states |
| `coding_roundtrip` | `MCCoding.cfg`: values {0, 128, 2^28}, strings of 0, 1 and 128 bytes, 3 items, any truncation; 12 boundary values for the pure check | `StreamRoundTrip`, `FailsOnlyWhenTruncated`, `CodecAgree` | pass, about 153k states |
| `coding_partial_update` | `MCCoding_partial.cfg` | `FailureKeepsInput` | violation: one slice `<<200>>` (bytes 01 C8); the `Slice` covers only the first byte; `GetLengthPrefixedSlice` fails and leaves the `Slice` at offset 1 |
| `bitstream_fields` | `MCBitStream.cfg`: 3-byte string, offsets {2,5,8,13}, widths {0,3,11,12}, 3 puts | `BitsAsWritten`, `FieldsReadBack` | pass, about 18k states |
| `writebatch_replay` | `MCWriteBatch.cfg`: one key, values `<<>>` and `<<9>>`, 3 records between Clears, every prefix of `Data()` | `ReplayInOrder`, `FailedReplayIsPrefix` | pass, about 44k states |
| `writablefile_prealloc` | `MCWritableFile.cfg`: block sizes {0,2,4}, offsets {0,3,9}, lengths {0,2,6}, 6 calls | `WritesPreallocated`, `StatusMatchesAllocated` | pass, about 1.7k states |
| `writablefile_resize` | `MCWritableFile_resize.cfg`: the same bounds | `PreallocatedAcrossResize` | violation: `SetPreallocationBlockSize(2)`, a zero-length write at offset 3 (`Allocate(0, 4)`, last block 2), `SetPreallocationBlockSize(4)`, a write of bytes 3..4: `new_last` is (3+2+3)/4 = 2, not above 2, so byte 4 is never reserved |
| `hash_x86` | `MCHash.cfg`: all strings of up to 7 bytes over {0x01,0x80,0xff}, 2 seeds, signed char | `MatchesSpecOnAsciiTail` | pass, about 20k states |
| `hash_signed_tail` | `MCHash_signed.cfg` | `PortableHash` | violation: `Hash("\x80", 1, 0)` is 0x33b554da with signed char; the spec's byte-wise value is 0xd85ce731 |

What the passing runs show:

* Lookups stay correct despite the stale-`prev_` bug. The bug leaves the
  upper levels unsorted, but readers only ever stand on nodes whose key is
  less than the target. Level 0, which decides the answer, stays sorted,
  because `prev_[0]` is always right.
* `Contains` is linearizable against a concurrent, multi-step `Insert`. This
  holds even when the reader starts from a stale or a too-new `max_height_`.
* With stale loads allowed, the release store of `SetNext` and the
  acquire load of `Next` are enough. A reader never loads an unwritten
  `next_` word. Its read of `next->key` always happens after `NewNode`'s
  plain store, so there is no data race. A key it has synchronised with
  is never missed, even when the relaxed `GetMaxHeight` returns an old
  height. The mutants show that each order is needed. With a relaxed
  `Release_Store`, or a relaxed `Acquire_Load`, a reader follows the new
  pointer into unwritten memory and reads the key unordered.
* Varints of 1 to 5 bytes, written back to back with length-prefixed
  strings (including a 2-byte length), are read back in order. A decode
  fails only when the item runs past the `Slice`.
* Both `BitStreamPutInt` overloads change exactly the bits of their field,
  including a field inside one byte off a boundary, fields across two
  and across three bytes, and one that ends on the last bit. A put that
  would run past the end is refused.
* `Hash` computes the spec's function whenever the trailing bytes are below
  0x80, including across 32-bit wrap-around. The reference shares the
  model's limb arithmetic, so this run does not test the wrap itself.
* `MemoryUsage()` never decreases from one step to the next (spec §8).
* A batch replays in append order. The round trip through `Data()`
  reproduces it. A copy cut exactly at a record boundary is still rejected
  by the count check. A failed replay has delivered only whole records,
  and only a prefix of them.
* `PrepareWrite` reserves every byte of every write it prepares. This
  holds when the block size is switched off and on, and when it shrinks
  from 4 to 2 between writes. A count kept in blocks of 4 then covers
  more than the new size needs.
  `GetPreallocationStatus` describes exactly the reserved prefix
  `[0, block_size * last)`, with no hole, whenever the size it reports
  is the one the count was kept in.
* Every `Contains` returns, even when its loads return stale pointers and
  heights.
* The arena's alignment assert (line 56) cannot fire. No two results share a
  byte. Each retired shared block loses fewer than `kBlockSize/4 + align - 1`
  bytes.

Every property of a passing run has a mutant in `PROJECT.json`. A mutant is
a plausible fault, such as a dropped guard, a missing cap, an off-by-one or a
missing pointer bump. TLC finds the property violated under that mutant.

### Bounds and why they suffice

* Skip list: two levels and three or four inserts reach every path of the
  code. That covers the fast and the slow path, a height increase, a
  duplicate key, a fast-path insert behind a tall node, and a reader at
  every step of a two-level link. Both bugs show up within two inserts.
  Readers do not write, so a second reader adds no new interaction with the
  writer. One run checks the invariants and the refinement on the same graph.
* Publication: three inserts at two levels let a reader meet every
  message of a word: the unwritten arena word, the constructor's nullptr,
  and one or two later pointers. They also cover a relaxed `max_height_`
  newer than the head's linked levels, and a node reached through a level-1
  pointer. Two readers (2 inserts, about 312k states) found nothing more.
* Arena: `kBlockSize` is scaled from 4096 to 64. The code uses it only
  through `kBlockSize / 4` and comparisons, so the branch structure is
  unchanged. The sizes are chosen to hit the boundaries: 3 misaligns, 16 is
  exactly a quarter and four of them fill a block, 17 is the smallest
  dedicated request, and 70 is larger than a block. Six calls retire
  blocks, mix aligned and unaligned requests, and interleave dedicated
  blocks.

* Coding: the values sit at the 1/2-byte and the 4/5-byte varint
  boundaries. The 128-byte string gets a two-byte length. Every prefix of
  `dst` is tried as the decoder's input, so every item is cut at every byte.
  The pure `CodecAgree` check covers the boundaries 2^7, 2^14, 2^21 and 2^28
  (each value and the one below it) and 2^31 - 1. Values of 2^31 and above
  (varint64 forms of 6 to 10 bytes) are beyond TLC's integers.
* BitStream: offset 2 with width 3 lies inside byte 0 off both of its
  boundaries. Offsets 8 and 13 with width 11 span two bytes, the latter
  ending on the last bit. Offset 5 with width 12 spans three bytes.
  Offset 13 with width 12 would run past the end (13 + 12 > 24). Width 0
  is the empty field. 8191 is wider than every field, so the model
  exercises truncation. All-zero and all-one
  initial bytes make every overwritten or neighbouring bit visible.
* WriteBatch: three records of any kind, cut at every byte, reach every
  failure: a short header, a cut key or value, a missing record (count
  mismatch) and a fatal Merge. Long values only change the varint width
  of the length, which the coding run covers.
* WritableFile: offsets inside the first and third block, lengths that end
  within a block or cross one or two boundaries, and zero lengths (a write
  that allocates no byte of its own but may still round a block up). Six
  calls allow the size to be switched off and on around several writes,
  or shrunk from 4 to 2 after a write has preallocated whole blocks of 4.
* Hash: seven bytes make one word and a 3-byte tail. Every tail length
  0-3 occurs. The bytes cover a small value, exactly 0x80 and 0xff.

### Fairness

Only reader steps are weakly fair (`WF_vars(ReaderStep(r))`). A reader
thread in `FindGreatOrEqual` never blocks or waits on another thread, so an
OS scheduler that keeps running it is the only assumption. The writer and
the callers may stop at any time. `SkipList` and `Publication` both use
this fairness. The arena has no liveness property; its
run sets `CHECK_DEADLOCK FALSE` because its single owner may simply stop
allocating. The same holds for the coding and bit-stream runs: a decoder
stops at the end of its input, and a caller stops putting. The hash model
never stops, since a caller can always hash again.

## 4. Not modelled, and why

* MemTable and DBImpl::Write: no code exists in the repository beyond
  declarations and an empty function body. WriteBatch is modelled from the
  spec.
* Env, files, Logger, iterators, VersionSet: I/O interfaces and placeholders.
  `EnvWrapper` only forwards each call to `target_`. `Fsync`,
  `GetFileSize`, `Allocate` and `RangeSync` of `WritableFile` return
  constants.
* The `offset + len + block_size - 1` wrap of `PrepareWrite` at 2^64:
  beyond TLC's integers.
* `DB::Put` and `DBImpl::Write`: `Write` has an empty body. `Put` returns
  its result, so it flows off the end of a non-void function, which is
  undefined behaviour, and applies nothing. This is listed as a hazard.
* Concurrent writers: the code requires external serialisation and has no
  internal lock, so the model has one writer.
* `Random` (util/random.h, not in the repository): heights are chosen
  nondeterministically. This covers every seed. The wrong coin, `& 4` for
  `% 4`, changes only probabilities, and TLC does not check those.
* `PutFixed32/64` are checked only as pure operators (`CodecAgree`).
  `coding.cpp` has no `GetFixed` that would consume them from a `Slice`.
* Varint64 values of 2^31 and above, and bit fields wider than 30 bits:
  beyond TLC's integers.
* `size_t` wrap-around of `bytes + slop` for requests near 2^64: outside
  TLC's integers, and unreachable from NewNode.

## 5. Plan

1. Done: `SkipList` and `KeySet`, then `Arena` (with `MemoryUsage`),
   `Coding`, `BitStream`, `Hash`, `WriteBatch` (with `Data()` copies),
   `WritableFile` and `Publication` (the memory orders of
   `AtomicPointer` under the skip list).
   Later: the `Arena` destructor, `Contains` termination under stale loads,
   and preallocation across block-size changes (the `writablefile_resize`
   finding).
2. Considered and not pursued: a `SkipListArena` composition. `NewNode`
   asks `AllocateAligned` for `sizeof(Node) + 8*(height-1)` bytes, which
   is 16 to 104 bytes for `kMaxHeight = 12`. That is always a multiple of
   8, so the slop is 0, and always at most `kBlockSize / 4`, so it is
   carved from the shared block. The `arena_allocations` run already
   covers this class of request, with disjointness and alignment checked.
   Its 64-byte block is scaled down, and the request of 16 there is a
   multiple of 8 and exactly a quarter block.
3. Considered and not pursued: a two-reader liveness run. Readers only
   read, so one reader cannot delay or unblock another. The one-reader
   safety run already checks that every `Contains` returns
   (`KeySetRefinement`, under weak fairness of reader steps).
4. Open: if the repository gains the bodies of `MemTable::Add`,
   `DBImpl::Write` or `WriteBatch`, model them in this order. `Write`
   would compose `WriteBatch` replay with a `MemTable` insert into
   `SkipList`.
