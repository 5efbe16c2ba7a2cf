-------------------------- MODULE BufferPoolThreads --------------------------
(***************************************************************************)
(* buffer_mgr.c called by several threads.  The code takes a latch on a    *)
(* frame around every transfer between the frame and the file, a read latch*)
(* for a load and a write latch for a write-back, and a mutex around a     *)
(* shutdown; the searches through the frames and the changes of fix_cnt,   *)
(* dirty and pageNumber take none.  Here a call goes step by step: one     *)
(* search of the frames, one wait for a latch, one transfer, one update of *)
(* a frame's fields.                                                       *)
(*                                                                         *)
(* One pool with FIFO, from when it is up until it is shut down, over a    *)
(* file that has all the pages.  Each page has a content of its own, which *)
(* its clients keep writing: a block with another page's content is wrong. *)
(*                                                                         *)
(* Nothing keeps the threads apart but what the code has: two of them may  *)
(* be inside pinPage or unpinPage at once and choose one frame, and a      *)
(* shutdown may run beside any call, for active_threads, which it waits    *)
(* for, is never counted.  A call that goes on with frames a shutdown has  *)
(* freed is undefined behaviour: there the model ends.                     *)
(***************************************************************************)
EXTENDS BufferOps

CONSTANTS
  Threads,
  NoThread,
  Pages,        \* the pages threads ask for
  InitialFile,  \* the blocks of the page file
  CallsOf,      \* the functions each thread calls
  MaxCalls      \* bound on the calls

PoolFunctions == {"pinPage", "unpinPage", "markDirty", "forceFlushPool",
                  "forcePage", "shutdownBufferPool"}

ASSUME ThreadsAssumption ==
  /\ IsFiniteSet(Threads)
  /\ NoThread \notin Threads
  /\ Pages \subseteq Nat
  /\ InitialFile \in Seq(Data)
  /\ \A p \in Pages : p < Len(InitialFile)
  /\ CallsOf \in [Threads -> SUBSET PoolFunctions]
  /\ MaxCalls \in Nat

VARIABLES
  isInitialized_bp, \* the pool is up
  frames,           \* bm->mgmtData, but for lruOrder, which FIFO does not read
  freed,            \* the frames' memory has been freed
  latch,            \* frames->pageLatches
  mutex,            \* the thread that holds buffer_pool_init_mutex
  readFromDisk,     \* pages loaded, modulo NumFrames
  file,             \* the blocks of the page file
  handle,           \* the page handle of each thread
  call,             \* where each thread is
  done              \* the calls begun

vars == <<isInitialized_bp, frames, freed, latch, mutex, readFromDisk, file,
          handle, call, done>>

pool == <<isInitialized_bp, freed, mutex>>

NoHandle == [page |-> NO_PAGE, frame |-> -1]
Idle     == [op |-> "none", page |-> NO_PAGE, frame |-> -1, at |-> "idle", reg |-> 0]
Unlatched == [readers |-> {}, writer |-> NoThread]

\* The calls: pinPage of a page it finds, of one that goes to a free slot, of
\* one that takes a victim's frame; any call that finds the frames freed.
PinCalls == {"hit", "slot", "victim"}
Calls    == PinCalls \cup {"unpin", "flush", "force", "shutdown", "late"}

\* Where a call may stop between two steps.
Places == {"idle", "count", "uncount", "wantWrite", "writing", "written",
           "wantRead", "reading", "loaded", "name", "clean", "pin",
           "test", "find", "wantMutex", "free", "freed", "lost"}

Cell == [pageNumber : Pages \cup {NO_PAGE}, memPage : Data, dirty : BOOLEAN,
         fix_cnt : Int]

TypeOK ==
  /\ isInitialized_bp \in BOOLEAN
  /\ frames \in [Frames -> Cell]
  /\ freed \in BOOLEAN
  /\ latch \in [Frames -> [readers : SUBSET Threads,
                           writer : Threads \cup {NoThread}]]
  /\ mutex \in Threads \cup {NoThread}
  /\ readFromDisk \in Frames
  /\ file \in Seq(Data)
  /\ handle \in [Threads -> [page : Pages \cup {NO_PAGE}, frame : Frames \cup {-1}]]
  /\ call \in [Threads -> [op : Calls \cup {"none"}, page : Pages \cup {NO_PAGE},
                           frame : Frames \cup {-1, NumFrames},
                           at : Places, reg : Int]]
  /\ done \in 0 .. MaxCalls

Init ==
  /\ isInitialized_bp = TRUE
  /\ frames = [f \in Frames |-> [pageNumber |-> NO_PAGE, memPage |-> ZeroBlock,
                                 dirty |-> FALSE, fix_cnt |-> 0]]
  /\ freed = FALSE
  /\ latch = [f \in Frames |-> Unlatched]
  /\ mutex = NoThread
  /\ readFromDisk = 0
  /\ file = InitialFile
  /\ handle = [t \in Threads |-> NoHandle]
  /\ call = [t \in Threads |-> Idle]
  /\ done = 0

-----------------------------------------------------------------------------

At(t, place) == call[t].at = place
Held(t)      == handle[t].page # NO_PAGE
Inside(t)    == ~At(t, "idle")

\* A thread goes on with frames that have been freed: the model ends.
UsesFreed == freed /\ \E t \in Threads : Inside(t) /\ ~At(t, "freed")

\* Thread t goes on from there.
From(t, place) == At(t, place) /\ ~UsesFreed

\* Thread t may call a function of the pool.
MayCall(t, function) ==
  /\ From(t, "idle")
  /\ done < MaxCalls
  /\ function \in CallsOf[t]

\* The frames are there for a call that begins.
Up == isInitialized_bp /\ ~freed

Begins(t, op, p, f, place, reg) ==
  /\ call' = [call EXCEPT ![t] = [op |-> op, page |-> p, frame |-> f,
                                  at |-> place, reg |-> reg]]
  /\ done' = done + 1

Goes(t, place) == call' = [call EXCEPT ![t].at = place]

\* The call returns.
Returns(t) == call' = [call EXCEPT ![t] = Idle]

\* A call that returns without a stop.
ReturnsAtOnce(t) ==
  /\ done' = done + 1
  /\ UNCHANGED call

Slot(t) == call[t].frame

-----------------------------------------------------------------------------
(***************************************************************************)
(* Write-back and load.                                                    *)
(***************************************************************************)

\* Slip: readers are not waited for.
LatchForWrite_Readers(t) ==
  /\ From(t, "wantWrite")
  /\ latch[Slot(t)].writer = NoThread
  /\ latch' = [latch EXCEPT ![Slot(t)].writer = t]
  /\ Goes(t, "writing")
  /\ UNCHANGED <<pool, frames, readFromDisk, file, handle, done>>

LatchForWrite(t) ==
  /\ From(t, "wantWrite")
  /\ latch[Slot(t)] = Unlatched
  /\ latch' = [latch EXCEPT ![Slot(t)].writer = t]
  /\ Goes(t, "writing")
  /\ UNCHANGED <<pool, frames, readFromDisk, file, handle, done>>

\* writeBlock, of whatever page number and memory the frame has by now.
WriteOut(t) ==
  /\ From(t, "writing")
  /\ file' = WrittenBack(file, frames, {Slot(t)})
  /\ Goes(t, "written")
  /\ UNCHANGED <<pool, frames, latch, readFromDisk, handle, done>>

\* Slip: the latch is not released.
WriteDone_Latched(t) ==
  /\ From(t, "written")
  /\ frames' = [frames EXCEPT ![Slot(t)].dirty = FALSE]
  /\ Goes(t, IF call[t].op = "victim" THEN "wantRead" ELSE "test")
  /\ UNCHANGED <<pool, latch, readFromDisk, file, handle, done>>

\* dirty = false, and the latch is released.  A flush goes on to the test of
\* fix_cnt behind it.
WriteDone(t) ==
  /\ From(t, "written")
  /\ frames' = [frames EXCEPT ![Slot(t)].dirty = FALSE]
  /\ latch' = [latch EXCEPT ![Slot(t)].writer = NoThread]
  /\ Goes(t, IF call[t].op = "victim" THEN "wantRead" ELSE "test")
  /\ UNCHANGED <<pool, readFromDisk, file, handle, done>>

LatchForRead(t) ==
  /\ From(t, "wantRead")
  /\ latch[Slot(t)].writer = NoThread
  /\ latch' = [latch EXCEPT ![Slot(t)].readers = @ \cup {t}]
  /\ Goes(t, "reading")
  /\ UNCHANGED <<pool, frames, readFromDisk, file, handle, done>>

\* readBlock into the frame's memory, and the latch is released; readFromDisk++
\* reads the counter.
ReadIn(t) ==
  /\ From(t, "reading")
  /\ frames' = [frames EXCEPT ![Slot(t)].memPage = Got(file, call[t].page, @)]
  /\ latch' = [latch EXCEPT ![Slot(t)].readers = @ \ {t}]
  /\ call' = [call EXCEPT ![t].at = "loaded", ![t].reg = readFromDisk]
  /\ UNCHANGED <<pool, readFromDisk, file, handle, done>>

\* Slip: the remainder that makes FIFO's index is not taken.
ReadCounted_NoRemainder(t) ==
  /\ From(t, "loaded")
  /\ readFromDisk' = call[t].reg + 1
  /\ Goes(t, IF call[t].op = "victim" THEN "name" ELSE "pin")
  /\ UNCHANGED <<pool, frames, latch, file, handle, done>>

\* readFromDisk++ writes.  From here on the frame's fields are set one by one
\* and without a latch: of a free slot first the fix count and then the page
\* number, of a victim's frame the page number, the dirty flag and the count.
ReadCounted(t) ==
  /\ From(t, "loaded")
  /\ readFromDisk' = (call[t].reg + 1) % NumFrames
  /\ Goes(t, IF call[t].op = "victim" THEN "name" ELSE "pin")
  /\ UNCHANGED <<pool, frames, latch, file, handle, done>>

\* pinPage returns, the caller's handle set.
PinReturns(t) ==
  /\ handle' = [handle EXCEPT ![t] = [page |-> call[t].page, frame |-> Slot(t)]]
  /\ Returns(t)

\* The frame gets its page number, the last thing to be set of a free slot.
NameFrame(t) ==
  /\ From(t, "name")
  /\ frames' = [frames EXCEPT ![Slot(t)].pageNumber = call[t].page]
  /\ IF call[t].op = "victim" THEN Goes(t, "clean") /\ UNCHANGED handle
                              ELSE PinReturns(t)
  /\ UNCHANGED <<pool, latch, readFromDisk, file, done>>

\* The dirty flag of a victim's frame.
CleanFrame(t) ==
  /\ From(t, "clean")
  /\ frames' = [frames EXCEPT ![Slot(t)].dirty = FALSE]
  /\ Goes(t, "pin")
  /\ UNCHANGED <<pool, latch, readFromDisk, file, handle, done>>

\* The fix count, the last thing to be set of a victim's frame.
PinFrame(t) ==
  /\ From(t, "pin")
  /\ frames' = [frames EXCEPT ![Slot(t)].fix_cnt = 1]
  /\ IF call[t].op = "victim" THEN PinReturns(t)
                              ELSE Goes(t, "name") /\ UNCHANGED handle
  /\ UNCHANGED <<pool, latch, readFromDisk, file, done>>

-----------------------------------------------------------------------------
(***************************************************************************)
(* The calls.                                                              *)
(***************************************************************************)

\* The search of pinPage: the page's frame (fix_cnt++ reads the count at
\* once), a free slot, or the frame FIFO takes.
PinPage(t, p) ==
  /\ ~Held(t)
  /\ MayCall(t, "pinPage") /\ Up
  /\ \/ \E f \in Frames :
          /\ First(Holding(frames, p), f)
          /\ Begins(t, "hit", p, f, "count", frames[f].fix_cnt)
     \/ \E f \in Frames :
          /\ ~Pooled(frames, p)
          /\ First(Holding(frames, NO_PAGE), f)
          /\ Begins(t, "slot", p, f, "wantRead", 0)
     \/ /\ ~Pooled(frames, p) /\ ~Pooled(frames, NO_PAGE)
        /\ \/ \E f \in Frames :
                /\ FIFOVictim(frames, readFromDisk, f)
                /\ Begins(t, "victim", p, f,
                          IF frames[f].dirty THEN "wantWrite" ELSE "wantRead", 0)
           \/ /\ \A f \in Frames : ~FIFOVictim(frames, readFromDisk, f)
              /\ ReturnsAtOnce(t)
  /\ UNCHANGED <<pool, frames, latch, readFromDisk, file, handle>>

\* The pool is down: pinPage and forceFlushPool return.
Refused(t) ==
  /\ MayCall(t, "pinPage") \/ MayCall(t, "forceFlushPool")
  /\ ~isInitialized_bp
  /\ ReturnsAtOnce(t)
  /\ UNCHANGED <<pool, frames, latch, readFromDisk, file, handle>>

\* fix_cnt++ writes, and pinPage returns.
PinCounted(t) ==
  /\ From(t, "count")
  /\ frames' = [frames EXCEPT ![Slot(t)].fix_cnt = call[t].reg + 1]
  /\ PinReturns(t)
  /\ UNCHANGED <<pool, latch, readFromDisk, file, done>>

\* The search of unpinPage; fix_cnt-- reads the count it has tested.  A page
\* that is in no frame any more, or not pinned in the first one, is refused.
UnpinPage(t) ==
  /\ Held(t)
  /\ MayCall(t, "unpinPage") /\ Up
  /\ \/ \E f \in Frames :
          /\ First(Holding(frames, handle[t].page), f)
          /\ frames[f].fix_cnt > 0
          /\ Begins(t, "unpin", handle[t].page, f, "uncount", frames[f].fix_cnt)
     \/ /\ \A f \in Frames : First(Holding(frames, handle[t].page), f)
                              => frames[f].fix_cnt <= 0
        /\ ReturnsAtOnce(t)
  /\ UNCHANGED <<pool, frames, latch, readFromDisk, file, handle>>

UnpinCounted(t) ==
  /\ From(t, "uncount")
  /\ frames' = [frames EXCEPT ![Slot(t)].fix_cnt = call[t].reg - 1]
  /\ handle' = [handle EXCEPT ![t] = NoHandle]
  /\ Returns(t)
  /\ UNCHANGED <<pool, latch, readFromDisk, file, done>>

\* A client that holds the page marks it dirty, having stored the page's
\* content in its frame.
MarkDirty(t) ==
  /\ Held(t)
  /\ MayCall(t, "markDirty") /\ Up
  /\ frames' = [f \in Frames |->
                  IF frames[f].pageNumber = handle[t].page
                  THEN [frames[f] EXCEPT !.dirty = TRUE] ELSE frames[f]]
  /\ ReturnsAtOnce(t)
  /\ UNCHANGED <<pool, latch, readFromDisk, file, handle>>

ForceFlushPool(t) ==
  /\ MayCall(t, "forceFlushPool") /\ Up
  /\ Begins(t, "flush", NO_PAGE, 0, "find", 0)
  /\ UNCHANGED <<pool, frames, latch, readFromDisk, file, handle>>

ForcePage(t) ==
  /\ Held(t)
  /\ MayCall(t, "forcePage") /\ Up
  /\ Begins(t, "force", handle[t].page, 0, "find", 0)
  /\ UNCHANGED <<pool, frames, latch, readFromDisk, file, handle>>

\* The frame has to be written, as forcePage or forceFlushPool sees it.
Wanted(t, f) ==
  IF call[t].op = "force" THEN frames[f].pageNumber = call[t].page
                          ELSE frames[f].dirty /\ frames[f].fix_cnt = 0

\* Where a flush goes when it is over: a shutdown frees the pool.
Over(t) ==
  IF call[t].op = "shutdown" THEN Goes(t, "free") ELSE Returns(t)

GoesOn(t) ==
  call' = [call EXCEPT ![t].frame = @ + 1, ![t].at = "find"]

\* One turn of the loop of forcePage or forceFlushPool.
FindFrame(t) ==
  /\ From(t, "find")
  /\ \/ Slot(t) = NumFrames /\ Over(t)
     \/ Slot(t) < NumFrames /\ Wanted(t, Slot(t)) /\ Goes(t, "wantWrite")
     \/ Slot(t) < NumFrames /\ ~Wanted(t, Slot(t))
        /\ IF call[t].op # "force" /\ frames[Slot(t)].fix_cnt # 0
           THEN Over(t) ELSE GoesOn(t)
  /\ UNCHANGED <<pool, frames, latch, readFromDisk, file, handle, done>>

\* The test of fix_cnt behind a write-back; forcePage has none.
TestPin(t) ==
  /\ From(t, "test")
  /\ IF call[t].op # "force" /\ frames[Slot(t)].fix_cnt # 0
     THEN Over(t) ELSE GoesOn(t)
  /\ UNCHANGED <<pool, frames, latch, readFromDisk, file, handle, done>>

-----------------------------------------------------------------------------

\* shutdownBufferPool of a pool that is down returns; else it waits for the
\* mutex.
ShutdownBufferPool(t) ==
  /\ MayCall(t, "shutdownBufferPool")
  /\ \/ Up /\ Begins(t, "shutdown", NO_PAGE, 0, "wantMutex", 0)
     \/ ~isInitialized_bp /\ ReturnsAtOnce(t)
  /\ UNCHANGED <<pool, frames, latch, readFromDisk, file, handle>>

\* active_threads is 0 whoever is inside, so nobody is waited for: with the
\* mutex taken, the flush begins.
LockMutex(t) ==
  /\ From(t, "wantMutex")
  /\ mutex = NoThread
  /\ mutex' = t
  /\ Goes(t, "find")
  /\ UNCHANGED <<isInitialized_bp, frames, freed, latch, readFromDisk, file,
                 handle, done>>

FreeFrames(t) ==
  /\ From(t, "free")
  /\ freed' = TRUE
  /\ Goes(t, "freed")
  /\ UNCHANGED <<isInitialized_bp, mutex, frames, latch, readFromDisk, file,
                 handle, done>>

ShutdownDone(t) ==
  /\ From(t, "freed")
  /\ isInitialized_bp' = FALSE
  /\ mutex' = NoThread
  /\ Returns(t)
  /\ UNCHANGED <<freed, frames, latch, readFromDisk, file, handle, done>>

\* A call that does not see that the frames are gone: the shutdown has not yet
\* taken the pool down, or the function does not look at that.
CallsLate(t) ==
  /\ freed
  /\ \E function \in PoolFunctions :
       /\ MayCall(t, function)
       /\ \/ isInitialized_bp
          \/ Held(t) /\ function \in {"unpinPage", "markDirty", "forcePage"}
  /\ Begins(t, "late", NO_PAGE, 0, "lost", 0)
  /\ UNCHANGED <<pool, frames, latch, readFromDisk, file, handle>>

-----------------------------------------------------------------------------

\* A thread goes on with the call it is in.
Step(t) ==
  \/ LatchForWrite(t)
  \/ WriteOut(t)
  \/ WriteDone(t)
  \/ LatchForRead(t)
  \/ ReadIn(t)
  \/ ReadCounted(t)
  \/ NameFrame(t)
  \/ CleanFrame(t)
  \/ PinFrame(t)
  \/ PinCounted(t)
  \/ UnpinCounted(t)
  \/ FindFrame(t)
  \/ TestPin(t)
  \/ LockMutex(t)
  \/ FreeFrames(t)
  \/ ShutdownDone(t)

\* A thread begins a call.
Begin(t) ==
  \/ \E p \in Pages : PinPage(t, p)
  \/ Refused(t)
  \/ UnpinPage(t)
  \/ MarkDirty(t)
  \/ ForceFlushPool(t)
  \/ ForcePage(t)
  \/ ShutdownBufferPool(t)
  \/ CallsLate(t)

Next == \E t \in Threads : Begin(t) \/ Step(t)

\* A thread that can go on with a call does, sooner or later: the scheduler
\* runs every thread, and rwlocks and the mutex pass on.
Fairness == \A t \in Threads : WF_vars(Step(t))

Spec == Init /\ [][Next]_vars /\ Fairness

-----------------------------------------------------------------------------
(***************************************************************************)
(* Properties.                                                             *)
(***************************************************************************)

\* Whatever the threads call, no frame is loaded from the file while it is
\* being written to it, and no two threads write one frame out at a time: the
\* latches do that much, although two pins may choose one frame.
NoTornWriteBack ==
  \A t, u \in Threads :
    /\ t # u
    /\ At(t, "writing") \/ At(t, "written")
    /\ At(u, "writing") \/ At(u, "written") \/ At(u, "reading")
    => Slot(t) # Slot(u)

\* Every call returns, unless a shutdown frees the frames under one: no thread
\* holds a latch or the mutex while it waits for a latch another one has.
CallsReturn == \A t \in Threads : Inside(t) ~> At(t, "idle") \/ UsesFreed

-----------------------------------------------------------------------------

\* buffer_mgr.c:207, the latch ensures exclusive access to the page: what a
\* flush writes to a block is the page of that block, not what another thread
\* has loaded into the frame since the flush found it dirty.
BlocksKeepTheirPages == file = InitialFile

=============================================================================
