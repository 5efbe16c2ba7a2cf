----------------------------- MODULE BufferPool -----------------------------
(***************************************************************************)
(* The buffer manager, buffer_mgr.c: one pool over one page file, and the  *)
(* parts of a program that pin its pages (a scan, a record operation, an   *)
(* open table), each with one BM_PageHandle.  Calls do not overlap: nothing*)
(* in the repository starts a thread.  What interleaves is which client    *)
(* calls next, while others hold pins.                                     *)
(*                                                                         *)
(* A client pins a page, reads or overwrites the frame's memory, marks the *)
(* page dirty after writing, and unpins it: how record_mgr.c uses the pool.*)
(* The variable logical remembers what each page should contain: what the  *)
(* last client wrote to it, or what was on disk when the pool started.     *)
(***************************************************************************)
EXTENDS BufferOps

CONSTANTS
  Clients,      \* the holders of page handles
  Pages,        \* the pages clients ask for
  Strategies,   \* the ReplacementStrategy values given to initBufferPool
  StratParams,  \* the values given as stratData
  Fresh,        \* what malloc'ed page memory may contain
  InitialFile,  \* the blocks of the page file before the first call
  Undef,        \* the content of a page nobody has written
  MaxLru        \* bound on lruCounter

ASSUME BufferPoolAssumption ==
  /\ IsFiniteSet(Clients)
  /\ Pages \subseteq Nat
  /\ StratParams \subseteq 1 .. NumFrames
  /\ StratParams # {}
  /\ Strategies \subseteq {"RS_FIFO", "RS_LRU", "RS_CLOCK", "RS_LFU", "RS_LRU_K"}
  /\ Strategies # {}
  /\ Fresh \subseteq Data
  /\ InitialFile \in Seq(Data)
  /\ Undef \notin Data
  /\ MaxLru \in Nat

VARIABLES
  isInitialized_bp, \* the pool is up
  strategy,         \* bm->strategy
  stratParam,       \* bm->stratParam
  frames,           \* bm->mgmtData
  lruCounter,       \* the global use counter, never reset
  readFromDisk,     \* pages loaded since initBufferPool, modulo NumFrames:
                    \* FIFO uses no more of it
  file,             \* the blocks of the page file
  handle,           \* the page handle of each client
  logical,          \* what each page should contain
  rc                \* the value the last call returned

vars == <<isInitialized_bp, strategy, stratParam, frames, lruCounter,
          readFromDisk, file, handle, logical, rc>>

NoHandle == [page |-> NO_PAGE, frame |-> -1, wrote |-> FALSE]

Held(c) == handle[c].page # NO_PAGE

Contents(fl) == [p \in Pages |-> IF p < Len(fl) THEN fl[p + 1] ELSE Undef]

ReturnCodes == {"RC_OK", "RC_FILE_NOT_FOUND", "RC_BP_INIT_ERROR",
                "RC_BP_SHUNTDOWN_ERROR", "RC_BP_FLUSHPOOL_FAILED",
                "RC_BP_UNMARK_ERROR", "RC_BP_UNPIN_ERROR",
                "RC_BP_FORCE_ERROR", "RC_BP_PIN_ERROR"}

TypeOK ==
  /\ isInitialized_bp \in BOOLEAN
  /\ strategy \in Strategies
  /\ stratParam \in StratParams
  /\ frames \in [Frames -> Frame]
  /\ lruCounter \in Nat
  /\ readFromDisk \in Frames
  /\ file \in Seq(Data)
  /\ handle \in [Clients -> [page : Pages \cup {NO_PAGE},
                             frame : Frames \cup {-1}, wrote : BOOLEAN]]
  /\ logical \in [Pages -> Data \cup {Undef}]
  /\ rc \in ReturnCodes

Init ==
  /\ isInitialized_bp = FALSE
  /\ strategy \in Strategies
  /\ stratParam \in StratParams
  /\ frames = [f \in Frames |-> EmptyFrame(ZeroBlock)]
  /\ lruCounter = 0
  /\ readFromDisk = 0
  /\ file = InitialFile
  /\ handle = [c \in Clients |-> NoHandle]
  /\ logical = Contents(InitialFile)
  /\ rc = "RC_OK"

Return(code) == rc' = code

Unchanged_but_rc == UNCHANGED <<isInitialized_bp, strategy, stratParam, frames,
                      lruCounter, readFromDisk, file, handle, logical>>

-----------------------------------------------------------------------------

\* A pool that is up is left as it is, and the caller is told RC_OK.
InitBufferPool(s, k) ==
  \/ /\ isInitialized_bp
     /\ Return("RC_OK")
     /\ Unchanged_but_rc
  \/ /\ ~isInitialized_bp
     /\ isInitialized_bp' = TRUE
     /\ strategy' = s
     /\ stratParam' = k
     /\ \E mem \in [Frames -> Fresh] :
          frames' = [f \in Frames |-> EmptyFrame(mem[f])]
     /\ readFromDisk' = 0
     /\ Return("RC_OK")
     /\ UNCHANGED <<lruCounter, file, handle, logical>>

\* The file is missing, or memory is.
InitBufferPoolFails ==
  /\ ~isInitialized_bp
  /\ \E code \in {"RC_FILE_NOT_FOUND", "RC_BP_INIT_ERROR"} : Return(code)
  /\ Unchanged_but_rc

\* The pool is flushed as far as forceFlushPool gets, its return code ignored,
\* and all memory is freed: handles still held dangle, and no client of a pool
\* that is down uses one.
ShutdownBufferPool ==
  \/ /\ isInitialized_bp
     /\ isInitialized_bp' = FALSE
     /\ file' = WrittenBack(file, frames, FlushSet(frames))
     /\ frames' = [f \in Frames |-> EmptyFrame(ZeroBlock)]
     /\ handle' = [c \in Clients |-> NoHandle]
     /\ logical' = Contents(file')
     /\ Return("RC_OK")
     /\ UNCHANGED <<strategy, stratParam, lruCounter, readFromDisk>>
  \/ /\ ~isInitialized_bp
     /\ Return("RC_BP_SHUNTDOWN_ERROR")
     /\ Unchanged_but_rc

\* Slip: pinned frames are passed over, and RC_OK all the same.
ForceFlushPool_Passing ==
  LET S == {f \in Frames : frames[f].dirty /\ frames[f].fix_cnt = 0} IN
  /\ isInitialized_bp
  /\ file' = WrittenBack(file, frames, S)
  /\ frames' = Cleaned(frames, S)
  /\ Return("RC_OK")
  /\ UNCHANGED <<isInitialized_bp, strategy, stratParam, lruCounter,
                 readFromDisk, handle, logical>>

\* RC_OK only when no frame is pinned and at least one was dirty.
ForceFlushPool ==
  \/ /\ isInitialized_bp
     /\ file' = WrittenBack(file, frames, FlushSet(frames))
     /\ frames' = Cleaned(frames, FlushSet(frames))
     /\ Return(IF /\ \A f \in Frames : frames[f].fix_cnt = 0
                  /\ \E f \in Frames : frames[f].dirty
               THEN "RC_OK" ELSE "RC_BP_FLUSHPOOL_FAILED")
     /\ UNCHANGED <<isInitialized_bp, strategy, stratParam, lruCounter,
                    readFromDisk, handle, logical>>
  \/ /\ ~isInitialized_bp
     /\ Return("RC_BP_FLUSHPOOL_FAILED")
     /\ Unchanged_but_rc

-----------------------------------------------------------------------------

\* The client stores into page->data: the memory of the frame it was given,
\* whatever page the pool keeps there by now.
WritePage(c, d) ==
  /\ Held(c)
  /\ frames' = [frames EXCEPT ![handle[c].frame].memPage = d]
  /\ handle' = [handle EXCEPT ![c].wrote = TRUE]
  /\ logical' = [logical EXCEPT ![handle[c].page] = d]
  /\ UNCHANGED <<isInitialized_bp, strategy, stratParam, lruCounter,
                 readFromDisk, file, rc>>

MarkDirty(c) ==
  /\ Held(c)
  /\ frames' = [f \in Frames |->
                  IF frames[f].pageNumber = handle[c].page
                  THEN [frames[f] EXCEPT !.dirty = TRUE] ELSE frames[f]]
  /\ handle' = [handle EXCEPT ![c].wrote = FALSE]
  /\ Return(IF Pooled(frames, handle[c].page) THEN "RC_OK"
            ELSE "RC_BP_UNMARK_ERROR")
  /\ UNCHANGED <<isInitialized_bp, strategy, stratParam, lruCounter,
                 readFromDisk, file, logical>>

\* Slip: the count is not tested, and the client may unpin again.
UnpinPage_Twice(c) ==
  /\ Held(c)
  /\ \E f \in Frames :
       /\ First(Holding(frames, handle[c].page), f)
       /\ frames' = [frames EXCEPT ![f].fix_cnt = @ - 1]
  /\ Return("RC_OK")
  /\ UNCHANGED <<isInitialized_bp, strategy, stratParam, lruCounter,
                 readFromDisk, file, handle, logical>>

\* The pin is taken off the frame that holds the page now, if there is one.
UnpinPage(c) ==
  /\ Held(c)
  /\ ~handle[c].wrote
  /\ handle' = [handle EXCEPT ![c] = NoHandle]
  /\ \/ \E f \in Frames :
          /\ First(Holding(frames, handle[c].page), f)
          /\ frames[f].fix_cnt > 0
          /\ frames' = [frames EXCEPT ![f].fix_cnt = @ - 1]
          /\ Return("RC_OK")
     \/ /\ \A f \in Frames :
             First(Holding(frames, handle[c].page), f) => frames[f].fix_cnt = 0
        /\ Return("RC_BP_UNPIN_ERROR")
        /\ UNCHANGED frames
  /\ UNCHANGED <<isInitialized_bp, strategy, stratParam, lruCounter,
                 readFromDisk, file, logical>>

\* The page is written whether or not it is dirty or pinned.
ForcePage(p) ==
  /\ isInitialized_bp
  /\ file' = WrittenBack(file, frames, Holding(frames, p))
  /\ frames' = Cleaned(frames, Holding(frames, p))
  /\ Return(IF Pooled(frames, p) THEN "RC_OK" ELSE "RC_BP_FORCE_ERROR")
  /\ UNCHANGED <<isInitialized_bp, strategy, stratParam, lruCounter,
                 readFromDisk, handle, logical>>

-----------------------------------------------------------------------------

\* openPageFile, ensureCapacity(p), readBlock(p), closePageFile on behalf of
\* frame f, after the blocks the call has written to the file (fl).
Load(f, p, fl, order) ==
  /\ file' = Ensured(fl, p)
  /\ frames' = [frames EXCEPT ![f] =
       [pageNumber |-> p, memPage |-> Got(Ensured(fl, p), p, @.memPage),
        dirty |-> FALSE, fix_cnt |-> 1, lruOrder |-> order]]
  /\ readFromDisk' = (readFromDisk + 1) % NumFrames

Give(c, p, f) ==
  handle' = [handle EXCEPT ![c] = [page |-> p, frame |-> f, wrote |-> FALSE]]

\* Slip: a hit sets the count as a load does.
PinHit_One(c, p) ==
  /\ lruCounter < MaxLru
  /\ \E f \in Frames :
       /\ First(Holding(frames, p), f)
       /\ frames' = [frames EXCEPT ![f].fix_cnt = 1,
                                   ![f].lruOrder = lruCounter + 1]
       /\ Give(c, p, f)
  /\ lruCounter' = lruCounter + 1
  /\ Return("RC_OK")
  /\ UNCHANGED <<file, readFromDisk>>

\* The page is in the pool: one more pin, and the page becomes the most recent.
PinHit(c, p) ==
  /\ lruCounter < MaxLru
  /\ \E f \in Frames :
       /\ First(Holding(frames, p), f)
       /\ frames' = [frames EXCEPT ![f].fix_cnt = @ + 1,
                                   ![f].lruOrder = lruCounter + 1]
       /\ Give(c, p, f)
  /\ lruCounter' = lruCounter + 1
  /\ Return("RC_OK")
  /\ UNCHANGED <<file, readFromDisk>>

\* Slip: a free frame is taken before the pool is searched for the page.
PinFreeSlot_First(c, p) ==
  /\ \E f \in Frames :
       /\ First(Holding(frames, NO_PAGE), f)
       /\ Load(f, p, file, frames[f].lruOrder)
       /\ Give(c, p, f)
  /\ Return("RC_OK")
  /\ UNCHANGED lruCounter

\* The page goes to the first frame never used; lruOrder stays 0 and the page
\* is not counted as used.
PinFreeSlot(c, p) ==
  /\ ~Pooled(frames, p)
  /\ \E f \in Frames :
       /\ First(Holding(frames, NO_PAGE), f)
       /\ Load(f, p, file, frames[f].lruOrder)
       /\ Give(c, p, f)
  /\ Return("RC_OK")
  /\ UNCHANGED lruCounter

Victim(v) ==
  \/ strategy = "RS_FIFO" /\ FIFOVictim(frames, readFromDisk, v)
  \/ strategy = "RS_LRU" /\ LRUVictim(frames, v)
  \/ strategy = "RS_LRU_K" /\ LRU_KVictim(frames, stratParam, v)

\* Slip: the victim is not written back.
PinReplace_NoWrite(c, p) ==
  /\ ~Pooled(frames, p) /\ ~Pooled(frames, NO_PAGE)
  /\ lruCounter < MaxLru
  /\ \E v \in Frames :
       /\ Victim(v)
       /\ Load(v, p, file, lruCounter + 1)
       /\ Give(c, p, v)
  /\ lruCounter' = lruCounter + 1
  /\ Return("RC_OK")

\* FIFO, LRU, LRU_K: the victim is written back if it is dirty, and its frame
\* loaded with the page.
PinReplace(c, p) ==
  /\ ~Pooled(frames, p) /\ ~Pooled(frames, NO_PAGE)
  /\ lruCounter < MaxLru
  /\ \E v \in Frames :
       /\ Victim(v)
       /\ Load(v, p,
               IF frames[v].dirty THEN WrittenBack(file, frames, {v}) ELSE file,
               lruCounter + 1)
       /\ Give(c, p, v)
  /\ lruCounter' = lruCounter + 1
  /\ Return("RC_OK")

\* FIFO with every frame pinned, or a strategy that is not implemented.
PinNoVictim(p) ==
  /\ ~Pooled(frames, p) /\ ~Pooled(frames, NO_PAGE)
  /\ \A v \in Frames : ~Victim(v)
  /\ Return("RC_BP_PIN_ERROR")
  /\ UNCHANGED <<frames, lruCounter, readFromDisk, file, handle>>

PinPage(c, p) ==
  /\ ~Held(c)
  /\ isInitialized_bp
  /\ \/ PinHit(c, p)
     \/ PinFreeSlot(c, p)
     \/ PinReplace(c, p)
     \/ PinNoVictim(p)
  /\ UNCHANGED <<isInitialized_bp, strategy, stratParam, logical>>

\* The pool is down, or the page number is negative.
PinRefused ==
  /\ Return("RC_BP_PIN_ERROR")
  /\ Unchanged_but_rc

Next ==
  \/ \E s \in Strategies, k \in StratParams : InitBufferPool(s, k)
  \/ InitBufferPoolFails
  \/ ShutdownBufferPool
  \/ ForceFlushPool
  \/ \E p \in Pages : ForcePage(p)
  \/ PinRefused
  \/ \E c \in Clients :
       \/ MarkDirty(c)
       \/ UnpinPage(c)
       \/ \E p \in Pages : PinPage(c, p)
       \/ \E d \in Data \ {ZeroBlock} : WritePage(c, d)

Spec == Init /\ [][Next]_vars

-----------------------------------------------------------------------------
(***************************************************************************)
(* Properties.                                                             *)
(***************************************************************************)

\* LRU and LRU_K do not look at pins, so with more than one page handle about
\* they may take a pinned frame.  What follows is promised when that cannot
\* happen: under another strategy, or when the program has one page handle.
\* (PinnedStays below is what fails otherwise.)
PinsRespected ==
  \/ ~isInitialized_bp
  \/ strategy \notin {"RS_LRU", "RS_LRU_K"}
  \/ \A c, d \in Clients : c = d

\* No page is in two frames, so two clients never work on different copies,
\* under any strategy and any history of pins and replacements.
NoDuplicatePage ==
  \A f, g \in Frames :
    frames[f].pageNumber = frames[g].pageNumber
      => f = g \/ frames[f].pageNumber = NO_PAGE

\* A page is at most one past the end of the file while it is pooled, so no
\* write-back is ever refused by writeBlock, whose code nobody looks at.
WriteBackInReach ==
  \A f \in Frames : frames[f].pageNumber <= Len(file)

\* A frame's fix count is the number of clients that hold it: no call drops a
\* pin that another client owns, and none is left behind.
PinCount ==
  PinsRespected =>
    \A f \in Frames :
      frames[f].fix_cnt = Cardinality({c \in Clients : handle[c].frame = f})

\* The memory a client holds stays the memory of its page until it unpins.
HandleValid ==
  PinsRespected =>
    \A c \in Clients :
      IF Held(c) THEN /\ handle[c].frame \in Frames
                      /\ frames[handle[c].frame].pageNumber = handle[c].page
                 ELSE handle[c] = NoHandle

\* A pin always finds what was last written to the page.
PoolCurrent ==
  PinsRespected =>
    \A f \in Frames :
      LET p == frames[f].pageNumber IN
      p \in Pages /\ logical[p] # Undef => frames[f].memPage = logical[p]

\* The page has changes that are not on disk.
Unsaved(p) ==
  \/ \E f \in Frames : frames[f].pageNumber = p /\ frames[f].dirty
  \/ \E c \in Clients : handle[c].page = p /\ handle[c].wrote

\* What is neither dirty in the pool nor being written by a client is on disk:
\* no dirty flag is lost by replacement, flush or force.
DiskCurrent ==
  PinsRespected =>
    \A p \in Pages :
      logical[p] # Undef /\ ~Unsaved(p)
        => p < Len(file) /\ file[p + 1] = logical[p]

\* Shutting the pool down when no client holds a page loses nothing.
ShutdownSaves ==
  [][ShutdownBufferPool /\ PinsRespected /\ (\A c \in Clients : ~Held(c))
       => \A p \in Pages : logical[p] # Undef
            => p < Len(file') /\ file'[p + 1] = logical[p]]_vars

\* When forceFlushPool returns RC_OK, everything ever written is on disk: it
\* does not say so when it stopped at a pinned frame.
FlushOkSaves ==
  [][isInitialized_bp /\ ForceFlushPool /\ rc' = "RC_OK" /\ PinsRespected
       => \A p \in Pages : logical[p] # Undef
            => p < Len(file') /\ file'[p + 1] = logical[p]]_vars

-----------------------------------------------------------------------------
(***************************************************************************)
(* What a comment of buffer_mgr.c says, and the code does not do.          *)
(***************************************************************************)

\* buffer_mgr.c:555, a pinned page is available for use by the client: it
\* stays in the frame the client was given.
PinnedStays ==
  \A c \in Clients :
    Held(c) => frames[handle[c].frame].pageNumber = handle[c].page

=============================================================================
