# Verification of the record manager

A TLA+ development of the record manager in `src/`: a page file on disk
(`storage_mgr.c`), a buffer pool over it (`buffer_mgr.c`), and tables of
records over both (`record_mgr.c`). The modules model the calls of the three
layers, the latches under them, and the values, expressions and layouts records
are made of. TLC checks them on small instances. For every value of the
constants, TLAPS proves the invariants of the three layers, those of the pool
with one thread and with several, the order in which the pool evicts pages, that
it implements an abstract page store, that a table keeps its records, and that
schemas, attributes and conditions read as what was stored.

Contents: [inventory](#1-inventory) · [modules](#2-modules-and-how-they-match-the-code)
· [runs](#3-what-the-runs-check-and-show) · [proofs](#4-what-is-proved)
· [disagreements](#5-where-the-code-and-its-comments-disagree)
· [not modelled](#6-what-is-not-modelled).

## 1. Inventory

| Component | Source | State | Operations |
|---|---|---|---|
| Storage manager | `storage_mgr.c` | per `SM_FileHandle`: the stdio stream, `totalNumPages`, `curPagePos`; `isInitialized`; the files on disk | create, open, close, destroy a page file; seven reads; two writes; `appendEmptyBlock`, `ensureCapacity` |
| Buffer manager | `buffer_mgr.c` | the frames (page number, memory, dirty, `fix_cnt`, `lruOrder`), `readFromDisk`, `lruCounter`, `isInitialized_bp`, the strategy | init, shutdown, `forceFlushPool`, `pinPage`, `unpinPage`, `markDirty`, `forcePage`; FIFO, LRU, LRU_K |
| Latches and threads | `dt.h`, `buffer_mgr.c` | one latch per frame, a mutex, a condition variable, `active_threads` | used inside shutdown, flush and the strategies; no code starts a thread |
| Buffer statistics | `buffer_mgr_stat.c`, getters | none | reading and printing the pool |
| Record manager | `record_mgr.c`, `tables.h` | `RM_managementData`: a pool, a file handle, one page handle, the page directory; a `ScanInfo` per scan; on disk a schema page, a page directory and data pages with slot directories | create, open, close, delete a table; insert, delete, update, get; `startScan`, `next`, `closeScan` |
| Schemas, records, attributes | `record_mgr.c` | none between calls | `createSchema`, `createRecord`, `getAttr`, `setAttr`, `getRecordSize` |
| Expressions | `expr.c` | none | `evalExpr`, the comparisons and connectives |
| Serializer, errors | `rm_serializer.c`, `dberror.c` | a message | debug output |

**How they interact.** An open table has two ways to its one file: the buffer
pool, which opens the file anew for every read and write-back (so its block
count is always right and what it writes is on disk when the call returns), and
the file handle of `RM_managementData`, opened once in `openTable` (so its block
count goes stale as soon as the pool makes the file grow, and its last write
stays in the stdio stream until its next seek or close). `insertRecord` writes
the same page both ways. The table has one `BM_PageHandle`, which every call on
records and every scan overwrites. The pool's search for a page, its choice of
a victim and the dirty flag decide between them which version of a page a later
pin sees. The record manager's conditions are evaluated by `expr.c`.

**What is hard to get right, and to test**, with lines, is the list `hazards` of
`PROJECT.json`. In short:

- *Storage manager.* Counts taken at open time that other handles make stale;
  bytes in stdio's buffers in both directions; a file removed while open; the
  `exit(1)` in `createPageFile`. Correct means: no handle counts a block its
  file lacks, no write leaves a gap, read-ahead never hides a handle's own
  write, and a read or `ensureCapacity` that returns `RC_OK` has delivered.
- *Buffer manager.* Clients' calls in any order; victims chosen with or without
  looking at pins; a write-back whose return code nobody looks at; dirty flags
  that must survive replacement, flush and force; a flush that stops half way.
  Correct means: one frame per page, exact fix counts, memory that stays the
  client's while it holds a pin, a pool with the last written content, and a
  disk with the content of everything that is not dirty.
- *Record manager.* Two writers of one file with different block counts; refused
  writes nobody notices; frames that keep old bytes when a page is pinned at
  the end of the file; records addressed by a count; a page directory that is
  saved by inserts only; scans that share one page handle with other calls.
  Correct means: a RID reads as the record it stands for until it is changed,
  across evictions and across close and open; records stay inside their page;
  a scan delivers what is ahead of it; no call but `startScan` leaves a pin.
- *Threads.* Tests made before a latch is taken; searches and counts that no latch
  protects; a shutdown that waits for a counter nobody changes. Correct means: no
  transfer overlaps a write-back of the same frame, a flush writes the page it
  found, every call returns. That pages stay in one frame, fix counts stay exact and
  freed frames stay untouched is more than this code can promise several threads.
- *Values and expressions.* Attributes laid out by three loops in two files;
  strings that fill their attribute; parts of variable length on the schema's
  page; the result types of nested operators. Correct means: what was stored is
  read back, by whoever reads, and a condition means what it says.

## 2. Modules, and how they match the code

```
PageFile ── StorageMgr ─────────────── StorageMgrProofs
   │  └──── PageFileLemmas ──────────────┘   │
   └─ BufferOps ── BufferPool ───────── BufferPoolProofs
          │            ├── BufferPoolOrder ── BufferPoolOrderProofs
          │            └── BufferPoolStore ── (BufferPoolProofs)
          │                   └─(INSTANCE)── PageStore
          ├── BufferPoolThreads ─────── BufferPoolThreadsProofs
          └─(INSTANCE)── RecordMgr ──── RecordMgrLemmas ── RecordMgrProofs
Expr ── RecordLayout ── TableRecords ── TableRecordsProofs
MCStorageMgr, MCBufferPool, MCBufferPoolOrder, MCBufferPoolThreads, MCRecordMgr,
MCTableRecords: instances for TLC
```

**PageFile.** A page file is a sequence of blocks; block `p` of the code is
element `p + 1`. A block's content is an element of `Data`. The operators are
the arithmetic the upper layers lean on: the range test shared by `readBlock`
and `writeBlock` (`InReach`, which lets `totalNumPages` itself pass), one
`fseek`+`fwrite` (`Put`), one `fseek`+`fread` (`Got`: at the end of the file the
caller's buffer keeps its bytes) and `ensureCapacity` (`Shortfall`, `Grown`).

**StorageMgr.** One file name and any number of handles. `hnd[h].total` and
`.pos` are `totalNumPages` and `curPagePos`; `.pend` is the page given to
`fwrite` that stdio still holds, written by the stream's next `fseek`, by
`fclose` or by `exit`; `.cache` is what the stream has read ahead. A file is
an inode, so that a name can be removed and created again while handles have
the old file open. Each function is an action with its early returns as
disjuncts. `CreatePageFileExists` is the branch that ends the process;
`ExitStream` flushes the streams in any order and `NewProcess` starts over on
the files that are left. Where stdio promises nothing - whether a read is served
from the read-ahead - both outcomes are taken.

**BufferOps, BufferPool.** The frames are a function from `0 .. NumFrames - 1`
to records with the fields of `struct Frames`. Loops that stop at the first
match are `First(S, f)`. Each strategy is a predicate on the frame it chooses,
with the pins it does or does not look at. A pool call is one action: calls do
not overlap, since nothing starts a thread; what interleaves is whose call comes
next. A client is a holder of a page handle: it pins, stores through
`page->data` (`WritePage`), marks dirty, unpins, in the way `record_mgr.c` uses
the pool; a client that wrote marks the page before it unpins. `handle[c].frame`
is the memory the client was given, and is not moved when the pool gives the
frame to another page. `logical` is a history variable: the content each page
should have.

**BufferPoolOrder** adds the two orders the pool does not store - by load and
by last pin - as history variables, sets of pairs of pooled pages of which the
first comes before the second, and states which page each strategy evicts.

**PageStore, BufferPoolStore.** `PageStore` is what the buffer manager promises
a client, without frames, counts or a strategy: a pinned page shows what was
last written to it, to every client that pins it; what was written may reach the
disk at any moment (`SomeSaved`); after a shutdown without pins, all of it has.
`BufferPoolStore` maps the pool to it: `up` is `isInitialized_bp`, `cur` the
history variable `logical`, `disk` the file, `pin` the handles' pages, `view`
the memory the handles point at. `ImplementsPageStore` says that every step of
the pool is one of `PageStore` or changes nothing a client sees. Such a client
learns from `PageStore` only that pages nobody has written may show anything
(`Undef`): `readBlock` behind the end of the file fills nothing.

**BufferPoolThreads.** The pool with FIFO, when several threads call it. A call
is cut into steps where another thread's step may come between: the search of the
frames, the wait for the latch of a frame, the transfer, the end of a write-back
with its flag and latch, and then one field of the frame at a time, in the order
of the code (of a free slot first `fix_cnt` and last the page number, of a
victim's frame first the page number and last `fix_cnt`). `fix_cnt++`,
`fix_cnt--` and `readFromDisk++` are a read and a write. `call[t]` is the thread's
place: the kind of call (`op`), the frame it has chosen (`frame`), the value it has
read and not yet written back (`reg`). `latch` is `pageLatches`, `mutex` is
`buffer_pool_init_mutex`. `active_threads` is always 0 and so has no variable.

No rule keeps the threads apart. Two of them may be inside `pinPage` at once, choose
one frame, load one page twice, or lose a pin; a shutdown runs beside any call and
frees the frames under it. What such a call does then is undefined: the model goes
up to there (`UsesFreed`) and ends. `CallsOf` says which functions each thread calls,
so that an instance can have workers and a thread that saves. Each page has a
content of its own that its clients keep writing, so a block with another page's
content shows at once.

**RecordMgr.** `mgmt` is `RM_managementData` with the file: `total` is the stale
`fileHndl.totalNumPages`, `pend` the page its stream still holds, `frames` the
pool, `page` the `pageNum` of the one page handle, `dir` the page directory in
memory. The calls of the pool and of the file handle are operators on that
record (`Pin`, `Dirtied`, `Unpinned`, `Written`), chained by the calls of the
record manager in the order of the code; each public function is one action. A
block is read as a data page (`slot`, `rec`) and as a directory (`dir`). A slot
entry's `offset` is given by the number of the record from the end of the page
(`pos`), as `insertRecord` computes it; 0 stands for the offset 0 of an entry
nobody wrote. `freeSpace` is a signed number that the code compares in `size_t`
(`HasRoom`). `lruCounter` grows without end while LRU only compares `lruOrder`,
so the model keeps its rank. Scans carry `currentPage` and `currentSlot`; `Visit`
is the whole loop of `next`, every pin and unpin included, written as a
recursive function over the pages. `table` is a history variable, the record
each RID stands for; `broken` says that a record was stored outside its page or
over its slot directory, after which the memory means nothing and the model
stops.

A condition is the set of records it accepts. The client of `RecordMgr` uses one
table, opens it once at a time, and deletes it only when it is closed. Beyond that
it may do anything: no guard keeps it from a call the code answers badly. Instead
`incidents` is a history of what has happened to the table that makes the code lose
its records, each decided from the state the code is in when it happens:

| Incident | What happened | Where |
|---|---|---|
| `reuse` | `insertRecord` took the slot of a deleted record, and stores over the page's last one | `record_mgr.c:582` |
| `stale` | `insertRecord` took an entry nobody wrote for a free slot, for the frame's memory reads so | `:557`, `buffer_mgr.c:76` |
| `astray` | `insertRecord` chose a page that is not the last one, and stores into the last one | `:557` |
| `drift` | `insertRecord` took a new slot of a page with an updated or deleted record, whose `freeSpace` is wrong | `:600`, `:690` |
| `move` | `updateRecord` found no room for the record and deleted and inserted it | `:769` |
| `unknown` | a slot that `insertRecord` never returned was updated or deleted | `:690`, `:788` |
| `cut` | `closeTable` found a dirty page pinned, or behind a pinned one, where the flush stops | `:364`, `buffer_mgr.c:220` |

The properties about records have `incidents = {}` as a premise, so each says: as long
as none of these has happened to the table, nothing is lost. `given` and `altered`,
the RIDs `insertRecord` returned and the pages with a changed record, serve to tell
them. `OnlyScansPin` needs less: only `move`. The constant `Tolerated` bounds the
model: a behaviour goes on behind an incident only if it is in there; the step at
which any other one happens is the last but for `deleteTable`, which starts over.
`record_reuse` and `record_move` tolerate one incident each, and show what it does.
`malloc` may return anything (`Fresh`): the runs give it zeros and a block with an
entry that reads as free, the bytes that matter to `insertRecord`.

**Expr, RecordLayout, TableRecords.** `Expr` has the `Value` with its union (a
boolean is the low half of the integer, as `evalExpr` leaves it), the operators of
`expr.c` with what they refuse, `evalExpr`, and, to compare with, a type system
and a meaning in the usual sense (`TypeOf`, `Meaning`). An expression is the
sequence of its nodes, arguments before their operator and the root last, with the
places of the arguments in each node: the tree of pointers that `expr.h` builds,
numbered in the order `evalExpr` finishes with them. Evaluation, types and meaning
are functions on these places. `IsExpr` says what the macros of `expr.h` can build,
`IsSchema` what `tables.h` allows. `RecordLayout` has bytes:
the offsets and widths of attributes as `setAttr`/`getAttr` and, on its own, as
`rm_serializer.c` computes them, `strncpy`, the little-endian integers, and the
schema's page, `PAGE_SIZE` bytes, as `createTable` writes and `openTable` reads it.
`TableRecords`
is one table and one record: `createTable` (with `RC_PAGE_FULL`, and the
`exit(1)` of a second try), `openTable`, `closeTable`, `deleteTable`,
`createRecord`, `freeRecord`, `setAttr`, and the evaluation of a condition as
`next` does it. `row` is a history variable, the value each attribute was set to.
A comparison of two booleans by `<` takes them for pointers; the model ends the
process there, like after a failing `CHECK`. What carries a record's bytes from
`insertRecord` to `next` is in `RecordMgr`, which takes a record for one value
and a condition for a set of them.

Operators under a comment `Slip:` are plausible mistakes in the code next to
them; `PROJECT.json` (`mutants`) names the property that detects each.

## 3. What the runs check, and show

Deadlock is checked in every run but those of `BufferPoolThreads`, which ends when the
calls are used up or a call uses freed frames, and those of `RecordMgr`, which ends
where a record has been stored outside its page or an incident is not tolerated.

| Run | Instance | Distinct states | Shows |
|---|---|---|---|
| `storage` | 2 handles, 2 inodes, two contents | 69,786 | stale counts, pending pages and read-ahead stay inside the file, whatever is removed, created again, or cut off by `exit`; what a sequential read, a re-read of one's own write and `ensureCapacity` deliver |
| `pool_fifo` | 2 clients, 2 frames, 3 pages, file of 1 block | 195,132 | under FIFO: one frame per page, write-backs never refused, exact pins, valid memory, nothing lost; the pool implements `PageStore` |
| `order` | 1 client, 3 frames, 4 pages, k = 1 and 2 | 686,368 | FIFO evicts the page loaded first; LRU goes by recency, and LRU_K takes the k-th most recent page, once every frame has been hit or replaced |
| `records` | 40-byte records, 2 a page, 2 pages, 3 frames | 180,612 | without incidents, records survive evictions, the two writers, close and open, and the directory stays true through updates and deletes |
| `record_scans` | 64-byte records, 1 a page, 2 scans | 101,600 | scans deliver what is ahead of them in spite of changes between their calls; only `startScan` leaves pins; a table closed with such pins is on disk unless `cut` happened |
| `values` | 4 schemas, one that does not fit; values at the bounds; nested conditions | 2,618 | schema, attributes, serializer and conditions agree with what was stored |
| `threads` | 3 threads, 2 frames, 3 pages, 5 calls | 195,493 | transfers exclude write-backs of their frame, however the threads meet; every call returns, unless a shutdown frees the frames under one |
| `pool_evict` | 2 clients, LRU | violation | a pinned page loses its frame |
| `record_reuse` | `reuse` tolerated | violation | a reused slot gets the page's last record |
| `record_move` | 50-byte records, `move` tolerated | violation | an update of the same size moves a record out of its page |
| `expr_and` | nested connectives | violation | the result of AND and OR is no boolean |
| `threads_flush` | 2 threads, 7 calls | violation | a flush writes a page that came after its test |

**Liveness and fairness.** `CallsReturn` in `BufferPoolThreads` says that a call
that has begun returns. Its fairness is `WF_vars(Step(t))` for each thread `t`: a
thread that can go on with the call it is in does, sooner or later. That is the
scheduler running every thread, and rwlocks and the mutex being passed on to
a waiting thread at some time; weak fairness is enough because a thread waits for a
latch only while another is between `lockLatch...` and `releaseLatch...`, takes
no second latch there, and the calls are bounded. Beginning a call is not fair:
nothing obliges a client. The other modules are safety only: their calls are
atomic and always return.

**Why the bounds are enough for what is asked.**

- Storage: two handles are what an open table has (its own and the pool's
  momentary one). The blocks give a stale count, a page one past the count and one
  more than `writeBlock` may accept. A whole block given to `fwrite` may be in the file
  at once or stay in the stream's buffer; the model keeps it there (`pend`), the
  outcome in which more can go wrong: written at once, it is the state after the
  next seek. Two inodes give a removed file next to its
  successor, two contents an overwritten page. `MaxBlocks` bounds writes and
  appends; `PageNums` includes one page on each side.
- Pool: with two frames and three pages every pin may hit, fill or replace, and a
  file of one block makes pages be loaded from behind its end. Two clients give
  every order of two pins. FIFO does not read `lruOrder` and `lruCounter`, so the
  view of `pool_fifo` leaves them out; in `order`, `MaxLru` bounds `lruCounter`,
  hence the number of hits and replacements in a behaviour: four fill the pool,
  renew a frame and replace it. `readFromDisk` is kept modulo `NumFrames`, all
  that FIFO uses of it. The `order` run has three frames and two values of k: with
  k = 1, LRU_K takes the most recent page and so differs from LRU and from the k-th
  least recent; with k = 2 it takes the middle one. Its view leaves the contents
  out, which no property of it reads.
- Threads: a collision needs a frame that is loaded or replaced by one or two threads
  while another writes it, so three threads, two workers and one that flushes or
  shuts down; with `MaxCalls` = 5 all three can be inside a call after pages
  have been loaded and dirtied, and every disjunct fires. `threads` has one content
  for all pages, for none of its properties reads contents. The violation needs two
  threads and seven calls.
- Values: schemas with each type before and behind each other, a string attribute
  filled to its last byte and beyond, negative integers and ones that need all
  four bytes; a page of 128 bytes, which one schema fills to the last byte and another
  exceeds by one; conditions with each operator and operators on operators. The
  proofs lift all of these bounds.
- Records: two data pages with the schema and directory pages are four blocks for
  three frames, so pages are evicted in every interesting order; with five
  frames, the source's `maximum_Pages`, the same needs six blocks. `MaxPages`
  bounds the data pages, `MaxFreeSpace` what updates and deletes may add to
  `freeSpace`, `MaxPins` a fix count that scans may inflate. 40-byte records are
  two to a page, so the second of a page, the slot behind the first, and the page
  that is full all occur. 64-byte records are one to a page, so that a scan crosses
  pages. Every incident but `move` happens in `records` or `record_scans`, and `move`
  in `record_move`.
- `Symmetry` permutes handles, clients, or record values; no property names one
  of them, and no liveness property is checked with it.

The properties, by layer:

- *Storage*: `CountBacked` (a handle's count never exceeds its file), `NoGap`,
  `CacheBacked`, `SequentialReadDelivers`, `EnsureCapacityDelivers`,
  `OwnWriteReadBack`.
- *Pool*: `NoDuplicatePage` and `WriteBackInReach` hold always; `PinCount`,
  `HandleValid`, `PoolCurrent`, `DiskCurrent` and `ShutdownSaves` under
  `PinsRespected` - a strategy that looks at pins, or a program with one page
  handle. `FlushOkSaves`: `RC_OK` of a flush means that nothing is left unwritten.
  `ImplementsPageStore`. `FIFOOrder`, `LRUOrder`, `LRU_KOrder`.
- *Threads*: `NoTornWriteBack`, `CallsReturn`.
- *Records*, as long as no incident has happened: `RecordsKept` (every RID reads as
  its record), `RecordsOnDiskKept` (also after `closeTable`), `InPage`,
  `DirectoryTrue`, `ScanDelivers`; and `OnlyScansPin`, whatever has happened but
  `move`.
- *Values*: `SchemaKept`, `AttrsKept`, `SerializerAgrees`, `EvalMeans`.

## 4. What is proved

By TLAPS, for every value of the constants that satisfies the named assumptions
of the modules (finite sets of clients, at least one frame, page numbers and
blocks of the right type):

- **StorageMgrProofs**: `TypeCorrect`, `CountAlwaysBacked`, `NeverGap`,
  `CacheAlwaysBacked`. `CountBacked` is not inductive: a call changes the file
  under the other handles. The invariant `IInv` says of every open handle that
  its count is within the file once its pending page is written, the pending
  page is at most one past the end, what it read ahead is no longer than the file,
  and a handle with a pending page has read nothing ahead; of a closed one, that
  it keeps nothing. `Backed` states this in lengths only, and since a file with
  an open stream never shrinks, a call through one handle preserves it for the
  others (`BackedMonotone`, `NotShorter`); one lemma per kind of step does the
  rest. `SequentialReadsDeliver`, `CapacityDelivered` and `OwnWritesReadBack` are
  the three action properties. They follow from the state before the step: a page
  below the count is a block of the file once the pending page is written
  (`ReadAtDelivers`), for which the cursor has to stay at or below the count, the
  second invariant `CursorInReach`.
- **BufferPoolProofs**: `TypeCorrect`, `NeverDuplicate`, `AlwaysInReach` without a
  condition; `PinsExact`, `HandlesStayValid`, `PoolAlwaysCurrent`,
  `DiskAlwaysCurrent` and `ShutdownLosesNothing` where pins are respected. The
  invariant is `Shape /\ Service`. `Shape` (types, one frame per page, reach, a
  pool that is down is empty) is inductive by itself. The four parts of `Service`
  need one another: that a victim is no client's page comes from exact pins
  (`VictimUnheld`); that a victim that is not dirty is on disk, and what is
  loaded is what was written, from `DiskCurrent`; that a write-back writes the
  right content, from `PoolCurrent`. `WrittenBackFile` and `EnsuredFile` state
  what writing frames back and growing the file do. `FlushOkLosesNothing` follows
  from what a flush that got past every frame has written.
  Its second part proves `PoolImplementsStore`, a step of the pool is a step of
  `PageStore` or a stutter, as long as pins are respected, and
  `SafePoolImplementsStore`, which draws the conclusion for a pool whose strategy
  never takes a pinned frame or whose only client has one handle. The proof goes
  action by action from `IInv`: each pin writes back at most pages whose memory is
  their last content (`PoolCurrent`), and shows memory that is (`HandleValid`).
- **BufferPoolThreadsProofs**: `TypeCorrect` and `NeverTorn`, for any number of
  threads and whatever they call. The invariant is `TypeOK /\ CallShape /\
  LatchShape`: a call is at a place of its kind, with a frame of the pool where it
  works on one; the writer of a latch is the one thread between `writeBlock` and
  `dirty = false` on that frame, its readers are those at `readBlock`, never both.
  Two threads that have chosen one frame are inside it, so it says nothing of pages
  and pins.
- **BufferPoolOrderProofs**: `FIFOEvictsOldest` for a program with one page handle,
  `LRUEvictsOldest` and `LRU_KEvictsKth` for any number of them. The premise
  `OneClient` is what keeps FIFO's position and the ages in step: no frame is
  pinned when it looks (`TurnOf`, from exact pins). Two invariants say how the pool
  reads an order off its fields. `Rotating`: from `readFromDisk` on and around, the
  frames have the pages in the order of their loads, and as long as there are free
  frames they are the ones from that position to the last. `Ranked`: the frames
  with an `lruOrder` have different ones, at most `lruCounter`, ascending with the
  last pins. Every step of the pool is one of a few kinds (`Kinds`): nothing moves,
  the pool is made or freed, a pin hits, fills a free frame, or replaces. For
  LRU_K, the pages used after the victim are mapped one to one to the frames with
  larger orders, whose number the choice of the victim fixes.
- **RecordMgrLemmas, RecordMgrProofs**, **TableRecordsProofs**: see below.
- **PageFileLemmas**: what `Put`, `Grown`, `Shortfall` and `Got` return, used by
  the proofs about the pool and the storage manager.

**Records.** `RecordMgrProofs` proves two properties of `RecordMgr` without any
premise on the client, the sizes or the memory: `TypeCorrect`, and
`NothingElsePinned`, that no call but `startScan` leaves a pin (`OnlyScansPin`, which
is silent once `updateRecord` has moved a record, because that path unpins a page
twice, and once a record was stored outside its page, where the model stops). The
invariant of the second is `Pins`: only the frame of block 2 may have pins between
calls. In the middle of a call, after `pinPage` and before `unpinPage`, the page of
`pageHndlBM` has one more (`PinnedPins`, `UnpinnedPins`); a call's proof chains
these in the order of the code, and `next` any number of them. `RecordsKept`,
`RecordsOnDiskKept`, `InPage`, `DirectoryTrue` and `ScanDelivers` are only
model-checked.

**Values.** `TableRecordsProofs` proves every property the runs check of
`TableRecords`: `TypeCorrect`, `SchemaAlwaysKept`, `AttrsAlwaysKept`,
`SerializerAlwaysAgrees` and `EvalAlwaysMeans`. The schemas are any that `tables.h`
allows (`IsSchema`: as many lengths and names as types, no length negative), the
values any `Value`, the conditions any expression of any depth, the page of any size
an `int` holds.

The invariant `TableInv` says that a file `createTable` finished has the schema's page
(`FileKept`), that an open table has the schema it was created with (`RelKept`), and
that a record's bytes read as `row` (`RecordKept`). What it needs is about bytes:

- an `int` and a `short` come back from their bytes, the sign included (`IntBytes`,
  `BoolBytes`), and a string as far as it fits, whether or not a NUL ends it
  (`StrncpyBytes`, `StringEnds`);
- the offsets of attributes are sums of widths, so two attributes never overlap and
  the last ends with the record (`Sums`, `OffsetsApart`), and `setAttr` changes one
  of them (`SetAttrReads`);
- the parts of the schema's page lie one behind the other, and `openTable` finds
  where each begins from the NULs that end the names (`Parts`, `NamesBytes`,
  `SchemaRead`).

`EvaluationMeans` is the lemma about `evalExpr`. For each node of a flat expression:
if the evaluation has a value, it has the node's type and, read as `boolV` for a
boolean, its meaning; a boolean that is not the result of AND or OR has the type
`DT_BOOL`; and without a value the types do not fit. `Nodes` shows that a function
on the nodes, computed from the arguments, exists, and so covers the recursions of
the evaluator, of types and of meanings. Nested connectives and booleans under `<`
are outside `Flat`: they are what `expr_and` and section 5 are about.

Some steps of these proofs would be inductions, which the provers do not do: that
the loops and `CHOOSE`s find a first match, that there is a frame of smallest
`lruOrder`, that `next` keeps `Right` through any number of pages, and what is said of
the loops over attributes, names and nodes. They are made with `Smallest` - a set of
numbers has a least element, from the library's theorem on well-founded orders - as
the absence of a first counterexample.

`PinsRespected`, the premise of the pool's theorems, is one of the state, not of
the clients: it says that the strategy is not LRU or LRU_K, or that there is only
one client. `record_mgr.c` has one page handle and LRU, and so is inside it, except
while scans hold pins.

Only model-checked: the liveness property `CallsReturn`. Liveness under fairness and
`ENABLED` are out of the prover's reach, and so are library theorems that take an
operator: what is proved by induction above is proved for the function at hand.
The five disagreements of section 5 are refuted by TLC, as they stand.

## 5. Where the code and its comments disagree

With a run that TLC finds violated (`findings` in `PROJECT.json`):

1. `buffer_mgr.c:312` - LRU takes the frame with the smallest `lruOrder` without
   looking at `fix_cnt` (`pool_evict`).
2. `record_mgr.c:582` - a record put into a reused slot is stored over the page's
   last record (`record_reuse`).
3. `record_mgr.c:769` - `updateRecord` computes the space it has as `freeSpace +
   offset - slot * 8`, which for the second 50-byte record of a page is 12 + 28 - 8
   = 32: an update of the same size deletes the record and inserts it again.
   `insertRecord` then picks the page by the directory and stores into the
   table's last page at a place computed from the other page's `recordCount`;
   `updateRecord` unpins whatever that was a second time (`record_move`).
4. `expr.c:77` - the result of AND and OR keeps the type `DT_INT`, so a connective
   above it ends the process (`expr_and`). `test_expr.c:122` compares such a
   result with the boolean true and passes, because `OP_TRUE` drops the return
   code of `valueEquals` and takes the -1 it left for true.
5. `buffer_mgr.c:206` - a flush looks at `dirty` and `fix_cnt` before it takes the
   latch, so it may write a frame whose memory and page number belong to two
   pages (`threads_flush`).

Met while modelling, without a run:

- `buffer_mgr.c:220` - `forceFlushPool` returns at the first pinned frame and
  leaves dirty, unpinned frames behind it unwritten, where `:186` says that all
  are written; its return code tells (`FlushOkSaves`). It also fails when there
  is nothing to write.
- `buffer_mgr.c:414` - "the K-th least recent page", and `:391-393` likewise: with the
  orders sorted ascending, `orderNum[numPages - k]` is the k-th most recent page. With
  k = 1 a page just used is the one to go. `LRU_KOrder` states what the code does,
  with k = 1 and 2; the comment's reading differs from it whenever k is not in the
  middle of the frames.
- `record_mgr.c:557` - a new page at the end of the file is pinned into a frame that
  keeps another page's bytes, or what `malloc` returned (`buffer_mgr.c:76`): with the
  schema's bytes slot 0 counts as free and the first record goes behind the page.
  This is the incident `stale`. With it in `Tolerated`, TLC finds a record behind the
  page after five calls and, when a later slot reads as free, one stored over another;
  with the five frames of `maximum_Pages` the fourth page of a table is the first
  to meet the schema's bytes.
- `record_mgr.c:995` - `closeScan` of a scan that ran to its end leaves
  `startScan`'s pin (`:977`, "releases associated resources"), and the flush of
  `closeTable` later stops at that frame.
- `record_mgr.c:609` - `insertRecord` writes a page through a file handle whose
  count is from `openTable`: the second page added since is refused, with a return
  code nobody looks at, and is only in the pool, where `README.md:157` has it
  written back to the file. When a pin that `startScan` left ends the flush of
  `closeTable` in front of it, its records are gone: the incident `cut`. With it in
  `Tolerated`, TLC finds records missing from the file after six calls.
- `storage_mgr.c:123` - `readBlock` of the page one past the last returns `RC_OK`
  and fills nothing (`:133` says the content is stored); modelled in `ReadAt` and
  `Got`.
- `buffer_mgr.c:146` - "Wait for all threads to complete their operations": nobody
  counts `active_threads`, so shutdown frees the frames whoever is inside. `:178`
  destroys the mutex and the condition variable that the next pool's shutdown uses.
- `buffer_mgr.c:151` - `shutdownBufferPool` ignores what `forceFlushPool` returns
  and frees every frame; modelled in `ShutdownBufferPool` (see `ShutdownSaves`,
  which asks for no pins) and `CloseTable`.
- `buffer_mgr.c:213` - a `markDirty` between another thread's `writeBlock` and its
  `dirty = false` is lost, and `:605` clears nothing of the kind; the model has
  these steps, but its contents do not tell versions of a page apart.
- `buffer_mgr.c:576` - `pinPage` searches and chooses without a latch: two threads load
  one page twice or choose one frame, and one of two `fix_cnt++` is lost. The model has
  these steps; no comment of the code claims otherwise.
- `buffer_mgr.c:248` - FIFO's position is `readFromDisk % numPages`; after a pinned
  frame was skipped, position and age part. `FIFOOrder` is checked with one page
  handle, which never skips.
- `buffer_mgr.c:608` - a page loaded into a free frame keeps `lruOrder` 0, so
  until each frame has been hit or replaced, LRU and LRU_K do not know how
  recent it is: the premise of `LRUOrder` and `LRU_KOrder`.
- `buffer_mgr.c:501` - `unpinPage` takes the pin off whatever frame holds the page
  number now, also when the client's own frame has been given away.
- `buffer_mgr.c:703`, `:725` - `getFixCounts` allocates `sizeof(bool)` for each
  `int` it stores; `getNumReadIO` returns one more than the reads counted.
- `record_mgr.c:101` - `createTable` of a schema that does not fit returns
  `RC_PAGE_FULL` and leaves the page file, so that a second try ends the process in
  `createPageFile`.
- `record_mgr.c:557` - the page pinned is the table's last, not the one the
  directory chose (`README.md:151`, "Pin the target page"): the incident `astray`,
  which comes with `drift`, `reuse` or `stale`.
- `record_mgr.c:690` - deletes and updates inflate or deflate `freeSpace`, in
  memory only: the incident `drift` is an insertion that trusts it. With it in
  `Tolerated`, TLC finds a record behind its page after six calls.
- `record_mgr.c:788` - `updateRecord` of a slot nobody wrote finds its offset 0 and
  stores the record over the slot directory, with `RC_OK`; `getRecord` of such a
  slot returns what is there (`:827`). This is the incident `unknown`.
- `record_mgr.c:951` - `next` evaluates the condition before it tests it for `NULL`;
  `serializeTableContent` starts exactly such a scan.
- `expr.c:52` - `valueSmaller` of two booleans falls through to `strcmp` of what lies
  in the union.
- `getNumTuples` adds up `recordCount`, which `deleteRecord` does not lower.

## 6. What is not modelled

- **What a call does with frames that a shutdown has freed**: undefined, the model of
  the threads ends there. Loads from behind the end of the file by several threads,
  where `appendEmptyBlock` seeks to the end and writes without anything to keep two
  of them apart: the file of `BufferPoolThreads` has all its pages. LRU and LRU_K
  with several threads.
- **Two pools or tables at once.** The second `initBufferPool` returns `RC_OK` and
  makes no frames; the first pin divides by zero or reads through a wild pointer.
  There is no state after that to say anything about.
- **More than six data pages** (`MaxPages < maxEntriesInPD`), where the directory
  needs a second block and `record_mgr.c:628` writes it over a data page: nine
  blocks with their contents are beyond the instances TLC finishes.
- **A scan without a condition** (`record_mgr.c:951` dereferences `NULL`).
- **Failing `malloc`, `fseek`, `ftell`, `fwrite`** besides the ones named in an
  action; a full disk; a process killed between two writes.
- `createSchema`, `freeSchema`, `freeExpr`, `freeVal`: memory only. Floats below
  zero, whose order is not that of their bits.
- **Statistics, error text, the wording of the serializer, tests**: printing.
- `markDirty`, `forcePage` and the getters on a pool that is down, which the code
  answers with a code and no change.
