----------------------- MODULE BufferPoolThreadsProofs -----------------------
(***************************************************************************)
(* The pool called by any number of threads, for every number of frames    *)
(* and pages, whatever each thread calls.  The invariant is about where    *)
(* the threads are: a call is at a place of its kind with a frame of the   *)
(* pool, and a latch is held by exactly the threads at a transfer of its   *)
(* frame, never by a writer and a reader.  Nothing is known of what two    *)
(* threads that pin at once have found: they may have chosen one frame.    *)
(***************************************************************************)
EXTENDS BufferPoolThreads, PageFileLemmas, TLAPS

Loads  == {"wantRead", "reading", "loaded", "name", "pin"}
Writes == {"wantWrite", "writing", "written"}

\* A call of thread t is at a place of its kind, with the frame it works on.
ShapeOf(t) ==
  /\ \/ call[t].op = "none" /\ call[t].at = "idle"
     \/ call[t].op = "hit" /\ call[t].at = "count"
     \/ call[t].op = "unpin" /\ call[t].at = "uncount"
     \/ call[t].op = "slot" /\ call[t].at \in Loads
     \/ call[t].op = "victim" /\ call[t].at \in Loads \cup Writes \cup {"clean"}
     \/ /\ call[t].op \in {"flush", "force", "shutdown"}
        /\ call[t].at \in Writes \cup {"find", "test"}
     \/ call[t].op = "shutdown" /\ call[t].at \in {"wantMutex", "free", "freed"}
     \/ call[t].op = "late" /\ call[t].at = "lost"
  /\ call[t].at \notin {"idle", "find", "free", "freed", "lost"} => Slot(t) \in Frames
  /\ At(t, "find") => Slot(t) \in 0 .. NumFrames
  /\ call[t].op \in PinCalls \cup {"unpin"} => call[t].page \in Pages

CallShape == \A t \in Threads : ShapeOf(t)

\* A latch is held by the threads at a transfer of its frame, and not for
\* reading and writing at once.
LatchShape ==
  \A f \in Frames :
    /\ \A t \in Threads :
         /\ latch[f].writer = t
              <=> Slot(t) = f /\ (At(t, "writing") \/ At(t, "written"))
         /\ t \in latch[f].readers <=> Slot(t) = f /\ At(t, "reading")
    /\ latch[f].writer # NoThread => latch[f].readers = {}

IInv == TypeOK /\ CallShape /\ LatchShape

CallRec == [op : Calls \cup {"none"}, page : Pages \cup {NO_PAGE},
            frame : Frames \cup {-1, NumFrames}, at : Places, reg : Int]

-----------------------------------------------------------------------------

LEMMA FramesInt ==
  /\ NumFrames \in Nat /\ NumFrames >= 1
  /\ Frames = 0 .. NumFrames - 1 /\ -1 \notin Frames /\ 0 \in Frames
  BY NumFramesAssumption DEF Frames

\* A page number is no NO_PAGE.
LEMMA PagesNat == Pages \subseteq Nat /\ NO_PAGE \notin Pages
  BY ThreadsAssumption DEF NO_PAGE

\* writeBlock of one frame leaves a file.
LEMMA WriteOutFile ==
  ASSUME NEW fl \in Seq(Data), NEW fr \in [Frames -> Cell], NEW f \in Frames
  PROVE  WrittenBack(fl, fr, {f}) \in Seq(Data)
<1> DEFINE Saved(p) == {g \in {f} : fr[g].pageNumber = p}
           n == IF Saved(Len(fl)) # {} THEN Len(fl) + 1 ELSE Len(fl)
           e(i) == IF Saved(i - 1) # {}
                   THEN fr[CHOOSE g \in Saved(i - 1) : TRUE].memPage
                   ELSE fl[i]
           new == [i \in 1 .. n |-> e(i)]
<1>1. WrittenBack(fl, fr, {f}) = new
  BY DEF WrittenBack
<1>2. n \in Nat /\ Len(fl) \in Nat
  OBVIOUS
<1>3. ASSUME NEW i \in 1 .. n PROVE e(i) \in Data
  <2>1. CASE Saved(i - 1) # {}
    <3>1. (CHOOSE g \in Saved(i - 1) : TRUE) = f
      BY <2>1
    <3>2. fr[f].memPage \in Data
      BY DEF Cell
    <3> QED
      BY <2>1, <3>1, <3>2
  <2>2. CASE Saved(i - 1) = {}
    <3>1. i # Len(fl) + 1
      <4> SUFFICES ASSUME i = Len(fl) + 1 PROVE FALSE
        OBVIOUS
      <4>1. i - 1 = Len(fl)
        BY <1>2
      <4>2. Saved(Len(fl)) = {}
        BY <2>2, <4>1
      <4> QED
        BY <1>2, <1>3, <4>2
    <3>2. i \in 1 .. Len(fl)
      BY <1>2, <1>3, <3>1
    <3> QED
      BY <2>2, <3>2
  <2> QED
    BY <2>1, <2>2
<1>4. new \in [1 .. n -> Data]
  BY <1>3
<1> QED
  BY <1>1, <1>2, <1>4, FcnIsSeq, ZenonT(40)

-----------------------------------------------------------------------------
(***************************************************************************)
(* What the step of one thread does to call, the others' calls staying.    *)
(***************************************************************************)

OtherCalls(t) == \A u \in Threads : u # t => call'[u] = call[u]

LEMMA CallGoes ==
  ASSUME TypeOK, NEW t \in Threads, NEW place \in Places, Goes(t, place)
  PROVE  /\ OtherCalls(t) /\ call' \in [Threads -> CallRec]
         /\ call'[t].at = place /\ call'[t].op = call[t].op
         /\ call'[t].page = call[t].page /\ call'[t].frame = call[t].frame
         /\ call'[t].reg = call[t].reg
<1>1. call \in [Threads -> CallRec]
  BY DEF TypeOK, CallRec
<1> DEFINE r == [call[t] EXCEPT !.at = place]
<1>2. /\ r \in CallRec /\ r.at = place /\ r.op = call[t].op
      /\ r.page = call[t].page /\ r.frame = call[t].frame /\ r.reg = call[t].reg
  BY <1>1 DEF CallRec
<1>3. call' = [call EXCEPT ![t] = r]
  BY DEF Goes
<1> HIDE DEF r
<1> QED
  BY <1>1, <1>2, <1>3 DEF OtherCalls

LEMMA CallGoesOn ==
  ASSUME TypeOK, NEW t \in Threads, Slot(t) \in Frames, GoesOn(t)
  PROVE  /\ OtherCalls(t) /\ call' \in [Threads -> CallRec]
         /\ call'[t].at = "find" /\ call'[t].op = call[t].op
         /\ call'[t].page = call[t].page /\ call'[t].frame = call[t].frame + 1
         /\ call'[t].frame \in 0 .. NumFrames
<1>1. call \in [Threads -> CallRec]
  BY DEF TypeOK, CallRec
<1>2. call[t].frame + 1 \in Frames \cup {-1, NumFrames}
      /\ call[t].frame + 1 \in 0 .. NumFrames
  BY FramesInt DEF Slot
<1> DEFINE r == [call[t] EXCEPT !.frame = call[t].frame + 1, !.at = "find"]
<1>3. /\ r \in CallRec /\ r.at = "find" /\ r.op = call[t].op
      /\ r.page = call[t].page /\ r.frame = call[t].frame + 1
  BY <1>1, <1>2 DEF CallRec, Places
<1>4. call' = [call EXCEPT ![t] = r]
  BY DEF GoesOn
<1> HIDE DEF r
<1> QED
  BY <1>1, <1>2, <1>3, <1>4 DEF OtherCalls

LEMMA CallReturns ==
  ASSUME TypeOK, NEW t \in Threads, Returns(t)
  PROVE  /\ OtherCalls(t) /\ call' \in [Threads -> CallRec]
         /\ call'[t].at = "idle" /\ call'[t].op = "none"
<1>1. call \in [Threads -> CallRec]
  BY DEF TypeOK, CallRec
<1>2. Idle \in CallRec /\ Idle.at = "idle" /\ Idle.op = "none"
  BY DEF Idle, CallRec, Places
<1> QED
  BY <1>1, <1>2 DEF Returns, OtherCalls

LEMMA CallBegins ==
  ASSUME TypeOK, NEW t \in Threads, NEW op \in Calls, NEW p \in Pages \cup {NO_PAGE},
         NEW f \in Frames, NEW place \in Places, NEW reg \in Int,
         done < MaxCalls, Begins(t, op, p, f, place, reg)
  PROVE  /\ OtherCalls(t) /\ call' \in [Threads -> CallRec]
         /\ call'[t].at = place /\ call'[t].op = op /\ call'[t].page = p
         /\ call'[t].frame = f /\ call'[t].reg = reg
         /\ done' \in 0 .. MaxCalls
<1>1. call \in [Threads -> CallRec]
  BY DEF TypeOK, CallRec
<1> DEFINE r == [op |-> op, page |-> p, frame |-> f, at |-> place, reg |-> reg]
<1>2. /\ r \in CallRec /\ r.at = place /\ r.op = op /\ r.page = p
      /\ r.frame = f /\ r.reg = reg
  BY DEF CallRec
<1>3. call' = [call EXCEPT ![t] = r] /\ done' = done + 1
  BY DEF Begins
<1> HIDE DEF r
<1>4. done' \in 0 .. MaxCalls
  BY <1>3, ThreadsAssumption DEF TypeOK
<1> QED
  BY <1>1, <1>2, <1>3, <1>4 DEF OtherCalls

-----------------------------------------------------------------------------
(***************************************************************************)
(* The invariant, step by step.                                            *)
(***************************************************************************)

\* The calls have their shape when the one that moved has.
LEMMA ShapeKept ==
  ASSUME CallShape, NEW t \in Threads, OtherCalls(t), ShapeOf(t)'
  PROVE  CallShape'
<1> SUFFICES ASSUME NEW u \in Threads PROVE ShapeOf(u)'
  BY DEF CallShape
<1>1. ShapeOf(u)
  BY DEF CallShape
<1>2. CASE u # t
  <2>1. call'[u] = call[u]
    BY <1>2 DEF OtherCalls
  <2> QED
    BY <1>1, <2>1 DEF ShapeOf, Slot, At
<1> QED
  BY <1>2

\* A step away from the latches keeps them in order.
LEMMA LatchKept ==
  ASSUME LatchShape, NEW t \in Threads, OtherCalls(t), UNCHANGED latch,
         \/ /\ call[t].at \notin {"writing", "written", "reading"}
            /\ call'[t].at \notin {"writing", "written", "reading"}
         \/ /\ call[t].at \in {"writing", "written"}
            /\ call'[t].at \in {"writing", "written"}
            /\ call'[t].frame = call[t].frame
  PROVE  LatchShape'
<1> SUFFICES ASSUME NEW f \in Frames, NEW u \in Threads
             PROVE  /\ latch[f].writer = u
                         <=> (Slot(u) = f /\ (At(u, "writing") \/ At(u, "written")))'
                    /\ u \in latch[f].readers <=> (Slot(u) = f /\ At(u, "reading"))'
                    /\ latch[f].writer # NoThread => latch[f].readers = {}
  BY DEF LatchShape
<1> QED
  BY DEF LatchShape, Slot, At, OtherCalls

\* A step takes or releases the latch of the thread's own frame.
LEMMA LatchMoves ==
  ASSUME LatchShape, NEW t \in Threads, NEW f \in Frames, OtherCalls(t),
         call[t].frame = f, call'[t].frame = f,
         \A g \in Frames : g # f => latch'[g] = latch[g],
         \A u \in Threads : u # t =>
           /\ latch'[f].writer = u <=> latch[f].writer = u
           /\ u \in latch'[f].readers <=> u \in latch[f].readers,
         latch'[f].writer = t <=> call'[t].at \in {"writing", "written"},
         t \in latch'[f].readers <=> call'[t].at = "reading",
         latch'[f].writer # NoThread => latch'[f].readers = {}
  PROVE  LatchShape'
<1> SUFFICES ASSUME NEW g \in Frames
             PROVE  /\ \A u \in Threads :
                         /\ latch'[g].writer = u <=>
                              call'[u].frame = g /\ call'[u].at \in {"writing", "written"}
                         /\ u \in latch'[g].readers
                              <=> call'[u].frame = g /\ call'[u].at = "reading"
                    /\ latch'[g].writer # NoThread => latch'[g].readers = {}
  BY DEF LatchShape, Slot, At
<1>1. /\ \A u \in Threads :
           /\ latch[g].writer = u <=>
                call[u].frame = g /\ call[u].at \in {"writing", "written"}
           /\ u \in latch[g].readers <=> call[u].frame = g /\ call[u].at = "reading"
      /\ latch[g].writer # NoThread => latch[g].readers = {}
  BY DEF LatchShape, Slot, At
<1>2. \A u \in Threads : u # t => call'[u] = call[u]
  BY DEF OtherCalls
<1>3. CASE g = f
  BY <1>1, <1>2, <1>3
<1>4. CASE g # f
  BY <1>1, <1>2, <1>4
<1> QED
  BY <1>3, <1>4

-----------------------------------------------------------------------------

\* A step away from the transfers, of one thread, of its type and shape.
LEMMA QuietStep ==
  ASSUME IInv, NEW t \in Threads, OtherCalls(t), UNCHANGED latch,
         call[t].at \notin {"writing", "written", "reading"},
         call'[t].at \notin {"writing", "written", "reading"},
         TypeOK', ShapeOf(t)'
  PROVE  IInv'
<1>1. CallShape' /\ LatchShape'
  BY ShapeKept, LatchKept DEF IInv
<1> QED
  BY <1>1 DEF IInv

\* A program starts with everyone outside.
LEMMA InitInvariant == Init => IInv
<1> SUFFICES ASSUME Init PROVE IInv
  OBVIOUS
<1>1. /\ Idle \in CallRec /\ Idle.at = "idle" /\ Idle.op = "none"
      /\ NoHandle \in [page : Pages \cup {NO_PAGE}, frame : Frames \cup {-1}]
      /\ NoHandle.page = NO_PAGE
      /\ Unlatched \in [readers : SUBSET Threads, writer : Threads \cup {NoThread}]
      /\ Unlatched.readers = {} /\ Unlatched.writer = NoThread
      /\ [pageNumber |-> NO_PAGE, memPage |-> ZeroBlock, dirty |-> FALSE,
          fix_cnt |-> 0] \in Cell
  BY DataAssumption DEF Idle, CallRec, Places, NoHandle, Unlatched, Cell
<1>2. TypeOK
  <2>1. frames \in [Frames -> Cell]
    BY <1>1 DEF Init
  <2>2. call \in [Threads -> CallRec]
    BY <1>1 DEF Init
  <2>3. 0 \in 0 .. MaxCalls
    BY ThreadsAssumption
  <2> QED
    BY <1>1, <2>1, <2>2, <2>3, FramesInt, ThreadsAssumption
    DEF Init, TypeOK, CallRec
<1>3. \A t \in Threads : call[t] = Idle /\ handle[t] = NoHandle
  BY DEF Init
<1>4. CallShape
  BY <1>1, <1>3 DEF CallShape, ShapeOf, At, PinCalls
<1>5. LatchShape
  BY <1>1, <1>3, ThreadsAssumption DEF Init, LatchShape, At
<1> QED
  BY <1>2, <1>4, <1>5 DEF IInv

LEMMA LatchForWriteIInv ==
  ASSUME IInv, NEW t \in Threads, LatchForWrite(t)
  PROVE  IInv'
<1> DEFINE f == Slot(t)
<1>1. /\ TypeOK /\ CallShape /\ LatchShape
      /\ call[t].at = "wantWrite" /\ f \in Frames /\ f = call[t].frame
      /\ latch[f].writer = NoThread /\ latch[f].readers = {}
  BY DEF IInv, LatchForWrite, From, CallShape, ShapeOf, At, Slot, Unlatched
<1>2. /\ OtherCalls(t) /\ call' \in [Threads -> CallRec]
      /\ call'[t].at = "writing" /\ call'[t].op = call[t].op
      /\ call'[t].page = call[t].page /\ call'[t].frame = f
  BY <1>1, CallGoes DEF LatchForWrite, Places
<1> HIDE DEF f
<1>3. latch \in [Frames -> [readers : SUBSET Threads, writer : Threads \cup {NoThread}]]
  BY <1>1 DEF TypeOK
<1>4. /\ latch' \in [Frames -> [readers : SUBSET Threads,
                                writer : Threads \cup {NoThread}]]
      /\ latch'[f].writer = t /\ latch'[f].readers = {}
      /\ \A g \in Frames : g # f => latch'[g] = latch[g]
  BY <1>1, <1>3 DEF LatchForWrite, f
<1>5. TypeOK'
  BY <1>1, <1>2, <1>4 DEF TypeOK, LatchForWrite, pool, CallRec
<1>6. CallShape'
  <2>1. ShapeOf(t)'
    BY <1>1, <1>2 DEF CallShape, ShapeOf, At, Slot, Loads, Writes
  <2> QED
    BY <1>1, <1>2, <2>1, ShapeKept
<1>7. LatchShape'
  BY <1>1, <1>2, <1>4, ThreadsAssumption, LatchMoves
<1> QED
  BY <1>5, <1>6, <1>7 DEF IInv

LEMMA LatchForReadIInv ==
  ASSUME IInv, NEW t \in Threads, LatchForRead(t)
  PROVE  IInv'
<1> DEFINE f == Slot(t)
<1>1. /\ TypeOK /\ CallShape /\ LatchShape
      /\ call[t].at = "wantRead" /\ f \in Frames /\ f = call[t].frame
      /\ latch[f].writer = NoThread
  BY DEF IInv, LatchForRead, From, CallShape, ShapeOf, At, Slot
<1>2. /\ OtherCalls(t) /\ call' \in [Threads -> CallRec]
      /\ call'[t].at = "reading" /\ call'[t].op = call[t].op
      /\ call'[t].page = call[t].page /\ call'[t].frame = f
  BY <1>1, CallGoes DEF LatchForRead, Places
<1> HIDE DEF f
<1>3. latch \in [Frames -> [readers : SUBSET Threads, writer : Threads \cup {NoThread}]]
  BY <1>1 DEF TypeOK
<1>4. /\ latch' \in [Frames -> [readers : SUBSET Threads,
                                writer : Threads \cup {NoThread}]]
      /\ latch'[f].writer = NoThread
      /\ latch'[f].readers = latch[f].readers \cup {t}
      /\ \A g \in Frames : g # f => latch'[g] = latch[g]
  BY <1>1, <1>3 DEF LatchForRead, f
<1>5. TypeOK'
  BY <1>1, <1>2, <1>4 DEF TypeOK, LatchForRead, pool, CallRec
<1>6. CallShape'
  <2>1. ShapeOf(t)'
    BY <1>1, <1>2 DEF CallShape, ShapeOf, At, Slot, Loads, Writes
  <2> QED
    BY <1>1, <1>2, <2>1, ShapeKept
<1>7. LatchShape'
  BY <1>1, <1>2, <1>4, ThreadsAssumption, LatchMoves
<1> QED
  BY <1>5, <1>6, <1>7 DEF IInv

\* The frame of the writing thread goes to the file.
LEMMA WriteOutIInv ==
  ASSUME IInv, NEW t \in Threads, WriteOut(t)
  PROVE  IInv'
<1>1. /\ TypeOK /\ CallShape /\ LatchShape
      /\ call[t].at = "writing" /\ Slot(t) \in Frames
  BY DEF IInv, WriteOut, From, CallShape, ShapeOf, At
<1>2. /\ OtherCalls(t) /\ call' \in [Threads -> CallRec]
      /\ call'[t].at = "written" /\ call'[t].op = call[t].op
      /\ call'[t].page = call[t].page /\ call'[t].frame = call[t].frame
  BY <1>1, CallGoes DEF WriteOut, Places
<1>3. file' \in Seq(Data)
  BY <1>1, WriteOutFile DEF WriteOut, TypeOK
<1>4. TypeOK'
  BY <1>1, <1>2, <1>3 DEF TypeOK, WriteOut, pool, CallRec
<1>5. CallShape'
  <2>1. ShapeOf(t)'
    BY <1>1, <1>2 DEF CallShape, ShapeOf, At, Slot, Loads, Writes
  <2> QED
    BY <1>1, <1>2, <2>1, ShapeKept
<1>6. LatchShape'
  BY <1>1, <1>2, LatchKept DEF WriteOut
<1> QED
  BY <1>4, <1>5, <1>6 DEF IInv

\* Frames with one field of one of them set anew are frames.
LEMMA FieldSet ==
  ASSUME frames \in [Frames -> Cell], NEW f \in Frames,
         \/ \E p \in Pages \cup {NO_PAGE} : frames' = [frames EXCEPT ![f].pageNumber = p]
         \/ \E m \in Data : frames' = [frames EXCEPT ![f].memPage = m]
         \/ frames' = [frames EXCEPT ![f].dirty = FALSE]
         \/ \E n \in Int : frames' = [frames EXCEPT ![f].fix_cnt = n]
  PROVE  frames' \in [Frames -> Cell]
<1>1. ASSUME NEW p \in Pages \cup {NO_PAGE}
      PROVE  [frames[f] EXCEPT !.pageNumber = p] \in Cell
  BY DEF Cell
<1>2. ASSUME NEW m \in Data PROVE [frames[f] EXCEPT !.memPage = m] \in Cell
  BY DEF Cell
<1>3. [frames[f] EXCEPT !.dirty = FALSE] \in Cell
  BY DEF Cell
<1>4. ASSUME NEW n \in Int PROVE [frames[f] EXCEPT !.fix_cnt = n] \in Cell
  BY DEF Cell
<1> QED
  BY <1>1, <1>2, <1>3, <1>4

LEMMA WriteDoneIInv ==
  ASSUME IInv, NEW t \in Threads, WriteDone(t)
  PROVE  IInv'
<1> DEFINE f == Slot(t)
           place == IF call[t].op = "victim" THEN "wantRead" ELSE "test"
<1>1. /\ TypeOK /\ CallShape /\ LatchShape
      /\ call[t].at = "written" /\ f \in Frames /\ f = call[t].frame
      /\ latch[f].writer = t /\ latch[f].readers = {}
  BY ThreadsAssumption DEF IInv, WriteDone, From, CallShape, ShapeOf, LatchShape,
                          At, Slot
<1>2. place \in {"wantRead", "test"} /\ place \in Places
  BY DEF Places
<1>3. /\ OtherCalls(t) /\ call' \in [Threads -> CallRec]
      /\ call'[t].at = place /\ call'[t].op = call[t].op
      /\ call'[t].page = call[t].page /\ call'[t].frame = f
  BY <1>1, <1>2, CallGoes DEF WriteDone
<1>4. frames' \in [Frames -> Cell]
  BY <1>1, DataAssumption, FieldSet DEF WriteDone, TypeOK
<1> HIDE DEF f
<1>5. latch \in [Frames -> [readers : SUBSET Threads, writer : Threads \cup {NoThread}]]
  BY <1>1 DEF TypeOK
<1>6. /\ latch' \in [Frames -> [readers : SUBSET Threads,
                                writer : Threads \cup {NoThread}]]
      /\ latch'[f].writer = NoThread /\ latch'[f].readers = {}
      /\ \A g \in Frames : g # f => latch'[g] = latch[g]
  BY <1>1, <1>5 DEF WriteDone, f
<1>7. TypeOK'
  BY <1>1, <1>3, <1>4, <1>6 DEF TypeOK, WriteDone, pool, CallRec
<1>8. CallShape'
  <2>1. ShapeOf(t)'
    BY <1>1, <1>3 DEF CallShape, ShapeOf, At, Slot, PinCalls, Loads, Writes
  <2> QED
    BY <1>1, <1>3, <2>1, ShapeKept
<1>9. LatchShape'
  BY <1>1, <1>2, <1>3, <1>6, ThreadsAssumption, LatchMoves
<1> QED
  BY <1>7, <1>8, <1>9 DEF IInv


\* What call keeps when a load goes on with the counter it has read.
LEMMA CallReads ==
  ASSUME TypeOK, NEW t \in Threads,
         call' = [call EXCEPT ![t].at = "loaded", ![t].reg = readFromDisk]
  PROVE  /\ OtherCalls(t) /\ call' \in [Threads -> CallRec]
         /\ call'[t].at = "loaded" /\ call'[t].op = call[t].op
         /\ call'[t].page = call[t].page /\ call'[t].frame = call[t].frame
<1>1. call \in [Threads -> CallRec] /\ readFromDisk \in Int
  BY FramesInt DEF TypeOK, CallRec
<1> DEFINE r == [call[t] EXCEPT !.at = "loaded", !.reg = readFromDisk]
<1>2. /\ r \in CallRec /\ r.at = "loaded" /\ r.op = call[t].op
      /\ r.page = call[t].page /\ r.frame = call[t].frame
  BY <1>1 DEF CallRec, Places
<1>3. call' = [call EXCEPT ![t] = r]
  BY <1>1
<1> HIDE DEF r
<1> QED
  BY <1>1, <1>2, <1>3 DEF OtherCalls

LEMMA ReadInIInv ==
  ASSUME IInv, NEW t \in Threads, ReadIn(t)
  PROVE  IInv'
<1> DEFINE f == Slot(t)
<1>1. /\ TypeOK /\ CallShape /\ LatchShape
      /\ call[t].at = "reading" /\ f \in Frames /\ f = call[t].frame
      /\ call[t].page \in Nat /\ t \in latch[f].readers
  BY PagesNat DEF IInv, ReadIn, From, CallShape, ShapeOf, LatchShape, At, Slot,
                  PinCalls, Writes
<1>2. /\ OtherCalls(t) /\ call' \in [Threads -> CallRec]
      /\ call'[t].at = "loaded" /\ call'[t].op = call[t].op
      /\ call'[t].page = call[t].page /\ call'[t].frame = f
  BY <1>1, CallReads DEF ReadIn, Slot
<1>3. frames' \in [Frames -> Cell]
  <2> DEFINE m == Got(file, call[t].page, frames[f].memPage)
  <2>1. m \in Data
    BY <1>1, GotData DEF TypeOK, Cell
  <2>2. frames' = [frames EXCEPT ![f].memPage = m]
    BY DEF ReadIn
  <2> HIDE DEF m
  <2> QED
    BY <1>1, <2>1, <2>2, FieldSet DEF TypeOK
<1> HIDE DEF f
<1>4. latch \in [Frames -> [readers : SUBSET Threads, writer : Threads \cup {NoThread}]]
  BY <1>1 DEF TypeOK
<1>5. /\ latch' \in [Frames -> [readers : SUBSET Threads,
                                writer : Threads \cup {NoThread}]]
      /\ latch'[f].writer = latch[f].writer
      /\ latch'[f].readers = latch[f].readers \ {t}
      /\ \A g \in Frames : g # f => latch'[g] = latch[g]
  BY <1>1, <1>4 DEF ReadIn, f
<1>6. latch[f].writer = NoThread
  BY <1>1 DEF LatchShape
<1>7. TypeOK'
  BY <1>1, <1>2, <1>3, <1>5 DEF TypeOK, ReadIn, pool, CallRec
<1>8. CallShape'
  <2>1. ShapeOf(t)'
    BY <1>1, <1>2 DEF CallShape, ShapeOf, At, Slot, Loads, Writes
  <2> QED
    BY <1>1, <1>2, <2>1, ShapeKept
<1>9. LatchShape'
  BY <1>1, <1>2, <1>5, <1>6, ThreadsAssumption, LatchMoves
<1> QED
  BY <1>7, <1>8, <1>9 DEF IInv

\* The handle pinPage returns, and the one a client is left with.
LEMMA GivenHandle ==
  ASSUME TypeOK, NEW t \in Threads, NEW p \in Pages, NEW f \in Frames
  PROVE  /\ [handle EXCEPT ![t] = [page |-> p, frame |-> f]]
              \in [Threads -> [page : Pages \cup {NO_PAGE}, frame : Frames \cup {-1}]]
         /\ [handle EXCEPT ![t] = NoHandle]
              \in [Threads -> [page : Pages \cup {NO_PAGE}, frame : Frames \cup {-1}]]
  BY DEF TypeOK, NoHandle

\* The counter of the pages loaded stays below NumFrames.
LEMMA ReadCountedIInv ==
  ASSUME IInv, NEW t \in Threads, ReadCounted(t)
  PROVE  IInv'
<1> DEFINE place == IF call[t].op = "victim" THEN "name" ELSE "pin"
<1>1. /\ TypeOK /\ ShapeOf(t) /\ call[t].at = "loaded"
  BY DEF IInv, CallShape, ReadCounted, From, At
<1>2. place \in Places /\ place \in {"name", "pin"}
  BY DEF Places
<1>3. /\ OtherCalls(t) /\ call' \in [Threads -> CallRec]
      /\ call'[t].at = place /\ call'[t].op = call[t].op
      /\ call'[t].page = call[t].page /\ call'[t].frame = call[t].frame
  BY <1>1, <1>2, CallGoes DEF ReadCounted
<1>4. readFromDisk' \in Frames
  <2>1. call[t].reg \in Int
    BY <1>1 DEF TypeOK
  <2>2. \A i \in Int : (i + 1) % NumFrames \in 0 .. NumFrames - 1
    BY FramesInt
  <2> QED
    BY <2>1, <2>2, FramesInt DEF ReadCounted
<1>5. TypeOK'
  BY <1>1, <1>3, <1>4 DEF ReadCounted, TypeOK, pool, CallRec
<1>6. ShapeOf(t)'
  BY <1>1, <1>2, <1>3 DEF ShapeOf, At, Slot, Loads, Writes
<1> QED
  BY <1>1, <1>2, <1>3, <1>5, <1>6, QuietStep DEF ReadCounted

\* The steps that set a field of the frame that was loaded.
LEMMA FrameSetIInv ==
  ASSUME IInv, NEW t \in Threads, NameFrame(t) \/ CleanFrame(t) \/ PinFrame(t)
  PROVE  IInv'
<1>0. /\ TypeOK /\ ShapeOf(t) /\ call[t].at \in {"name", "clean", "pin"}
      /\ UNCHANGED <<pool, latch, readFromDisk, file, done>>
  BY DEF IInv, CallShape, NameFrame, CleanFrame, PinFrame, From, At
<1>1. /\ TypeOK /\ ShapeOf(t) /\ call[t].at \in {"name", "clean", "pin"}
      /\ call[t].op \in {"slot", "victim"}
      /\ (call[t].op = "slot" => call[t].at # "clean")
      /\ Slot(t) \in Frames /\ call[t].page \in Pages
      /\ UNCHANGED <<pool, latch, readFromDisk, file, done>>
  <2>1. /\ call[t].op \in {"slot", "victim"}
        /\ (call[t].op = "slot" => call[t].at # "clean")
        /\ Slot(t) \in Frames
    BY <1>0 DEF ShapeOf, Loads, Writes
  <2>2. call[t].page \in Pages
    BY <1>0, <2>1 DEF ShapeOf, PinCalls
  <2> QED
    BY <1>0, <2>1, <2>2
<1>2. frames' \in [Frames -> Cell]
  <2>1. \/ frames' = [frames EXCEPT ![Slot(t)].pageNumber = call[t].page]
        \/ frames' = [frames EXCEPT ![Slot(t)].dirty = FALSE]
        \/ frames' = [frames EXCEPT ![Slot(t)].fix_cnt = 1]
    BY DEF NameFrame, CleanFrame, PinFrame
  <2>2. /\ frames \in [Frames -> Cell] /\ call[t].page \in Pages \cup {NO_PAGE}
        /\ FALSE \in BOOLEAN /\ 1 \in Int /\ ZeroBlock \in Data
    BY <1>1, DataAssumption DEF TypeOK
  <2> QED
    BY <1>1, <2>1, <2>2, FieldSet
<1>3. \/ PinReturns(t)
      \/ UNCHANGED handle /\ Goes(t, "name") /\ call[t].op = "slot"
      \/ UNCHANGED handle /\ Goes(t, "clean") /\ call[t].op = "victim"
      \/ UNCHANGED handle /\ Goes(t, "pin") /\ call[t].op = "victim"
  BY <1>1 DEF NameFrame, CleanFrame, PinFrame, ShapeOf, At, From, Loads
<1>4. CASE PinReturns(t)
  <2>1. /\ OtherCalls(t) /\ call' \in [Threads -> CallRec]
        /\ call'[t].at = "idle" /\ call'[t].op = "none"
    BY <1>1, <1>4, CallReturns DEF PinReturns
  <2>2. handle' \in [Threads -> [page : Pages \cup {NO_PAGE}, frame : Frames \cup {-1}]]
    BY <1>1, <1>4, GivenHandle DEF PinReturns
  <2>3. TypeOK'
    BY <1>1, <1>2, <2>1, <2>2 DEF TypeOK, pool, CallRec
  <2>4. ShapeOf(t)'
    BY <2>1 DEF ShapeOf, At, PinCalls
  <2> QED
    BY <1>1, <2>1, <2>3, <2>4, QuietStep
<1>5. CASE UNCHANGED handle /\ \E place \in {"name", "clean", "pin"} :
             /\ Goes(t, place)
             /\ call[t].op = "slot" => place # "clean"
  <2>1. PICK place \in {"name", "clean", "pin"} :
          Goes(t, place) /\ (call[t].op = "slot" => place # "clean")
    BY <1>5
  <2>2. place \in Places
    BY DEF Places
  <2>3. /\ OtherCalls(t) /\ call' \in [Threads -> CallRec]
        /\ call'[t].at = place /\ call'[t].op = call[t].op
        /\ call'[t].page = call[t].page /\ call'[t].frame = call[t].frame
    BY <1>1, <2>1, <2>2, CallGoes
  <2>4. TypeOK'
    BY <1>1, <1>2, <1>5, <2>3 DEF TypeOK, pool, CallRec
  <2>5. ShapeOf(t)'
    BY <1>1, <2>1, <2>3 DEF ShapeOf, At, Slot, Loads, Writes
  <2> QED
    BY <1>1, <2>3, <2>4, <2>5, QuietStep
<1> QED
  BY <1>3, <1>4, <1>5

\* The steps that count a pin or take it off.
LEMMA CountedIInv ==
  ASSUME IInv, NEW t \in Threads, PinCounted(t) \/ UnpinCounted(t)
  PROVE  IInv'
<1>1. /\ TypeOK /\ call[t].at \in {"count", "uncount"}
      /\ call[t].op \in {"hit", "unpin"}
      /\ Slot(t) \in Frames /\ call[t].page \in Pages /\ call[t].reg \in Int
      /\ UNCHANGED <<pool, latch, readFromDisk, file, done>>
  BY DEF IInv, CallShape, ShapeOf, PinCounted, UnpinCounted, From, At, PinCalls,
         Loads, Writes, TypeOK
<1>2. /\ Returns(t)
      /\ frames' \in [Frames -> Cell]
      /\ handle' \in [Threads -> [page : Pages \cup {NO_PAGE}, frame : Frames \cup {-1}]]
  <2>1. call[t].reg + 1 \in Int /\ call[t].reg - 1 \in Int
    BY <1>1
  <2>2. frames' \in [Frames -> Cell]
    <3>1. \E n \in Int : frames' = [frames EXCEPT ![Slot(t)].fix_cnt = n]
      BY <2>1 DEF PinCounted, UnpinCounted
    <3>2. /\ frames \in [Frames -> Cell] /\ NO_PAGE \in Pages \cup {NO_PAGE}
          /\ FALSE \in BOOLEAN /\ ZeroBlock \in Data
      BY <1>1, DataAssumption DEF TypeOK
    <3> QED
      BY <1>1, <3>1, <3>2, FieldSet
  <2> QED
    BY <1>1, <2>2, GivenHandle DEF PinCounted, UnpinCounted, PinReturns
<1>3. /\ OtherCalls(t) /\ call' \in [Threads -> CallRec]
      /\ call'[t].at = "idle" /\ call'[t].op = "none"
  BY <1>1, <1>2, CallReturns
<1>4. TypeOK'
  BY <1>1, <1>2, <1>3 DEF TypeOK, pool, CallRec
<1>5. ShapeOf(t)'
  BY <1>3 DEF ShapeOf, At, PinCalls
<1> QED
  BY <1>1, <1>3, <1>4, <1>5, QuietStep

\* A flush goes on, or is over.
LEMMA FlushIInv ==
  ASSUME IInv, NEW t \in Threads, FindFrame(t) \/ TestPin(t)
  PROVE  IInv'
<1>1. /\ TypeOK /\ ShapeOf(t) /\ call[t].at \in {"find", "test"}
      /\ call[t].op \in {"flush", "force", "shutdown"}
      /\ UNCHANGED <<pool, frames, latch, readFromDisk, file, handle, done>>
      /\ Slot(t) \in 0 .. NumFrames
  BY FramesInt DEF IInv, FindFrame, TestPin, From, CallShape, ShapeOf, At, Loads,
                   Writes
<1>2. \/ Over(t)
      \/ Goes(t, "wantWrite") /\ Slot(t) \in Frames
      \/ GoesOn(t) /\ Slot(t) \in Frames
  <2>1. CASE FindFrame(t)
    <3>1. Slot(t) < NumFrames => Slot(t) \in Frames
      BY <1>1, FramesInt
    <3> QED
      BY <2>1, <3>1 DEF FindFrame
  <2>2. CASE TestPin(t)
    <3>1. Slot(t) \in Frames
      BY <1>1, <2>2 DEF TestPin, From, At, ShapeOf
    <3> QED
      BY <2>2, <3>1 DEF TestPin
  <2> QED
    BY <2>1, <2>2
<1>3. /\ OtherCalls(t) /\ call' \in [Threads -> CallRec]
      /\ \/ call'[t].at = "idle" /\ call'[t].op = "none"
         \/ call[t].op = "shutdown" /\ call'[t].op = "shutdown" /\ call'[t].at = "free"
         \/ /\ call'[t].at = "wantWrite" /\ call'[t].op = call[t].op
            /\ call'[t].frame \in Frames
         \/ /\ call'[t].at = "find" /\ call'[t].op = call[t].op
            /\ call'[t].frame \in 0 .. NumFrames
  <2>1. CASE Over(t)
    BY <1>1, <2>1, CallReturns, CallGoes DEF Over, Places
  <2>2. CASE Goes(t, "wantWrite") /\ Slot(t) \in Frames
    BY <1>1, <2>2, CallGoes DEF Places, Slot
  <2>3. CASE GoesOn(t) /\ Slot(t) \in Frames
    BY <1>1, <2>3, CallGoesOn
  <2> QED
    BY <1>2, <2>1, <2>2, <2>3
<1>4. TypeOK'
  BY <1>1, <1>3 DEF TypeOK, pool, CallRec
<1>5. ShapeOf(t)'
  BY <1>1, <1>3 DEF ShapeOf, At, Slot, PinCalls, Writes
<1> QED
  BY <1>1, <1>3, <1>4, <1>5, QuietStep

\* The steps of a shutdown around its flush.
LEMMA ShutdownIInv ==
  ASSUME IInv, NEW t \in Threads, LockMutex(t) \/ FreeFrames(t) \/ ShutdownDone(t)
  PROVE  IInv'
<1>1. /\ TypeOK /\ call[t].at \in {"wantMutex", "free", "freed"}
      /\ call[t].op = "shutdown"
      /\ At(t, "wantMutex") => Slot(t) \in Frames
      /\ UNCHANGED <<frames, latch, readFromDisk, file, handle, done>>
  BY DEF IInv, LockMutex, FreeFrames, ShutdownDone, From, CallShape, ShapeOf, At,
         Loads, Writes
<1>2. /\ OtherCalls(t) /\ call' \in [Threads -> CallRec]
      /\ \/ call'[t].at = "idle" /\ call'[t].op = "none"
         \/ call'[t].at = "freed" /\ call'[t].op = "shutdown"
         \/ /\ call'[t].at = "find" /\ call'[t].op = "shutdown"
            /\ call'[t].frame \in Frames
  BY <1>1, CallReturns, CallGoes
  DEF LockMutex, FreeFrames, ShutdownDone, Places, From, At, Slot
<1>3. TypeOK'
  BY <1>1, <1>2 DEF LockMutex, FreeFrames, ShutdownDone, TypeOK, CallRec
<1>4. ShapeOf(t)'
  BY <1>2, FramesInt DEF ShapeOf, At, Slot, PinCalls
<1> QED
  BY <1>1, <1>2, <1>3, <1>4, QuietStep

-----------------------------------------------------------------------------

\* A call begins: where, and of what kind.
LEMMA BeginsIInv ==
  ASSUME IInv, NEW t \in Threads, NEW op \in Calls, NEW p \in Pages \cup {NO_PAGE},
         NEW f \in Frames, NEW place \in Places, NEW reg \in Int,
         At(t, "idle"), done < MaxCalls, Begins(t, op, p, f, place, reg),
         \/ op = "hit" /\ place = "count"
         \/ op = "unpin" /\ place = "uncount"
         \/ op = "slot" /\ place = "wantRead"
         \/ op = "victim" /\ place \in {"wantRead", "wantWrite"}
         \/ op \in {"flush", "force"} /\ place = "find"
         \/ op = "shutdown" /\ place = "wantMutex"
         \/ op = "late" /\ place = "lost",
         op \in PinCalls \cup {"unpin"} => p \in Pages,
         UNCHANGED <<pool, frames, latch, readFromDisk, file, handle>>
  PROVE  IInv'
<1>1. TypeOK /\ call[t].at = "idle"
  BY DEF IInv, At
<1>2. /\ OtherCalls(t) /\ call' \in [Threads -> CallRec]
      /\ call'[t].at = place /\ call'[t].op = op /\ call'[t].page = p
      /\ call'[t].frame = f /\ done' \in 0 .. MaxCalls
  BY <1>1, CallBegins
<1>3. TypeOK'
  BY <1>1, <1>2 DEF TypeOK, CallRec, pool
<1>4. f \in 0 .. NumFrames
  BY FramesInt
<1>5. ShapeOf(t)'
  BY <1>2, <1>4 DEF ShapeOf, At, Slot, PinCalls, Loads, Writes
<1> QED
  BY <1>1, <1>2, <1>3, <1>5, QuietStep

\* A call that is over at once leaves the threads where they are.
LEMMA AtOnceIInv ==
  ASSUME IInv, NEW t \in Threads, ReturnsAtOnce(t), done < MaxCalls,
         frames' \in [Frames -> Cell],
         UNCHANGED <<pool, latch, readFromDisk, file, handle>>
  PROVE  IInv'
<1>1. TypeOK /\ UNCHANGED call /\ done' = done + 1
  BY DEF IInv, ReturnsAtOnce
<1>2. done' \in 0 .. MaxCalls
  BY <1>1, ThreadsAssumption DEF TypeOK
<1>3. TypeOK'
  BY <1>1, <1>2 DEF TypeOK, pool
<1>4. CallShape' /\ LatchShape'
  BY <1>1 DEF IInv, CallShape, ShapeOf, LatchShape, At, Slot
<1> QED
  BY <1>3, <1>4 DEF IInv

\* markDirty changes dirty flags only.
LEMMA DirtiedCells ==
  ASSUME TypeOK, NEW t \in Threads, MarkDirty(t)
  PROVE  frames' \in [Frames -> Cell]
<1>1. frames \in [Frames -> Cell]
  BY DEF TypeOK
<1> DEFINE r(f) == [frames[f] EXCEPT !.dirty = TRUE]
           e(f) == IF frames[f].pageNumber = handle[t].page THEN r(f) ELSE frames[f]
<1>2. ASSUME NEW f \in Frames PROVE r(f) \in Cell
  BY <1>1 DEF Cell
<1>3. frames' = [f \in Frames |-> e(f)]
  BY DEF MarkDirty
<1> HIDE DEF r
<1> QED
  BY <1>1, <1>2, <1>3

LEMMA PinPageIInv ==
  ASSUME IInv, NEW t \in Threads, NEW p \in Pages, PinPage(t, p)
  PROVE  IInv'
<1>1. /\ TypeOK /\ frames \in [Frames -> Cell] /\ done < MaxCalls /\ At(t, "idle")
      /\ \A f \in Frames : frames[f].fix_cnt \in Int
      /\ {"count", "wantRead", "wantWrite"} \subseteq Places /\ 0 \in Int
      /\ {"hit", "slot", "victim"} \subseteq Calls
      /\ UNCHANGED <<pool, frames, latch, readFromDisk, file, handle>>
  BY DEF IInv, TypeOK, Cell, PinPage, MayCall, From, Places, Calls, PinCalls
<1>2. \/ ReturnsAtOnce(t)
      \/ \E f \in Frames : Begins(t, "hit", p, f, "count", frames[f].fix_cnt)
      \/ \E f \in Frames : Begins(t, "slot", p, f, "wantRead", 0)
      \/ \E f \in Frames :
           Begins(t, "victim", p, f,
                  IF frames[f].dirty THEN "wantWrite" ELSE "wantRead", 0)
  BY DEF PinPage
<1>3. CASE ReturnsAtOnce(t)
  BY <1>1, <1>3, AtOnceIInv
<1>4. ASSUME NEW f \in Frames, Begins(t, "hit", p, f, "count", frames[f].fix_cnt)
      PROVE  IInv'
  BY <1>1, <1>4, BeginsIInv
<1>5. ASSUME NEW f \in Frames, Begins(t, "slot", p, f, "wantRead", 0)
      PROVE  IInv'
  BY <1>1, <1>5, BeginsIInv
<1>6. ASSUME NEW f \in Frames, NEW place \in {"wantRead", "wantWrite"},
             Begins(t, "victim", p, f, place, 0)
      PROVE  IInv'
  BY <1>1, <1>6, BeginsIInv
<1> QED
  BY <1>2, <1>3, <1>4, <1>5, <1>6

LEMMA UnpinPageIInv ==
  ASSUME IInv, NEW t \in Threads, UnpinPage(t)
  PROVE  IInv'
<1>1. /\ TypeOK /\ frames \in [Frames -> Cell] /\ done < MaxCalls /\ At(t, "idle")
      /\ \A f \in Frames : frames[f].fix_cnt \in Int
      /\ "uncount" \in Places /\ "unpin" \in Calls
      /\ handle[t].page \in Pages
      /\ UNCHANGED <<pool, frames, latch, readFromDisk, file, handle>>
  BY DEF IInv, TypeOK, Cell, UnpinPage, Held, MayCall, From, Places, Calls
<1>2. \/ ReturnsAtOnce(t)
      \/ \E f \in Frames :
           Begins(t, "unpin", handle[t].page, f, "uncount", frames[f].fix_cnt)
  BY DEF UnpinPage
<1>3. CASE ReturnsAtOnce(t)
  BY <1>1, <1>3, AtOnceIInv
<1>4. ASSUME NEW f \in Frames,
             Begins(t, "unpin", handle[t].page, f, "uncount", frames[f].fix_cnt)
      PROVE  IInv'
  BY <1>1, <1>4, BeginsIInv
<1> QED
  BY <1>2, <1>3, <1>4

LEMMA BeginIInv ==
  ASSUME IInv, NEW t \in Threads, Begin(t)
  PROVE  IInv'
<1>1. /\ TypeOK /\ frames \in [Frames -> Cell] /\ 0 \in Frames /\ 0 \in Int
      /\ NO_PAGE \in Pages \cup {NO_PAGE}
      /\ {"find", "wantMutex", "lost"} \subseteq Places
      /\ {"flush", "force", "shutdown", "late"} \subseteq Calls
      /\ PinCalls \cup {"unpin"} = {"hit", "slot", "victim", "unpin"}
      /\ \A function \in PoolFunctions :
           MayCall(t, function) => done < MaxCalls /\ At(t, "idle")
      /\ handle[t].page \in Pages \cup {NO_PAGE}
  BY FramesInt DEF IInv, TypeOK, Places, Calls, PinCalls, MayCall, From
<1>2. CASE Refused(t)
  BY <1>1, <1>2, AtOnceIInv DEF Refused, PoolFunctions
<1>3. CASE MarkDirty(t)
  BY <1>1, <1>3, DirtiedCells, AtOnceIInv DEF MarkDirty, PoolFunctions
<1>4. CASE ForceFlushPool(t)
  BY <1>1, <1>4, BeginsIInv DEF ForceFlushPool, PoolFunctions
<1>5. CASE ForcePage(t)
  BY <1>1, <1>5, BeginsIInv DEF ForcePage, PoolFunctions
<1>6. CASE ShutdownBufferPool(t)
  <2>1. done < MaxCalls /\ At(t, "idle")
    BY <1>1, <1>6 DEF ShutdownBufferPool, PoolFunctions
  <2>2. CASE Begins(t, "shutdown", NO_PAGE, 0, "wantMutex", 0)
    BY <1>1, <1>6, <2>1, <2>2, BeginsIInv DEF ShutdownBufferPool
  <2>3. CASE ReturnsAtOnce(t)
    BY <1>1, <1>6, <2>1, <2>3, AtOnceIInv DEF ShutdownBufferPool
  <2> QED
    BY <1>6, <2>2, <2>3 DEF ShutdownBufferPool
<1>7. CASE CallsLate(t)
  BY <1>1, <1>7, BeginsIInv DEF CallsLate
<1> QED
  BY <1>2, <1>3, <1>4, <1>5, <1>6, <1>7, PinPageIInv, UnpinPageIInv DEF Begin

\* No step of any thread breaks the invariant.
LEMMA NextInvariant == IInv /\ [Next]_vars => IInv'
<1> SUFFICES ASSUME IInv, [Next]_vars PROVE IInv'
  OBVIOUS
<1>1. CASE \E t \in Threads : Begin(t)
  BY <1>1, BeginIInv
<1>2. CASE \E t \in Threads : Step(t)
  BY <1>2, LatchForWriteIInv, WriteOutIInv, WriteDoneIInv, LatchForReadIInv,
     ReadInIInv, ReadCountedIInv, FrameSetIInv, CountedIInv, FlushIInv,
     ShutdownIInv DEF Step
<1>3. CASE UNCHANGED vars
  BY <1>3 DEF vars, IInv, TypeOK, CallShape, ShapeOf, LatchShape, At, Slot
<1> QED
  BY <1>1, <1>2, <1>3 DEF Next

-----------------------------------------------------------------------------

\* The latches keep two transfers of a frame, one of them a write, apart.
LEMMA LatchesExclude == IInv => NoTornWriteBack
<1> SUFFICES ASSUME IInv, NEW t \in Threads, NEW u \in Threads, t # u,
                    At(t, "writing") \/ At(t, "written"),
                    At(u, "writing") \/ At(u, "written") \/ At(u, "reading"),
                    Slot(t) = Slot(u)
             PROVE  FALSE
  BY DEF NoTornWriteBack
<1>1. Slot(t) \in Frames
  BY DEF IInv, CallShape, ShapeOf, At
<1>2. latch[Slot(t)].writer = t /\ latch[Slot(t)].readers = {}
  BY <1>1, ThreadsAssumption DEF IInv, LatchShape
<1> QED
  BY <1>1, <1>2 DEF IInv, LatchShape

\* The state stays of its type, whatever the threads call and however they
\* interleave.
THEOREM TypeCorrect == Spec => []TypeOK
<1>1. IInv => TypeOK
  BY DEF IInv
<1> QED
  BY <1>1, InitInvariant, NextInvariant, PTL DEF Spec

\* No frame is read in while it is written out, nor written out twice at a time,
\* for any number of threads, whatever they call.
THEOREM NeverTorn == Spec => []NoTornWriteBack
  BY LatchesExclude, InitInvariant, NextInvariant, PTL DEF Spec

=============================================================================
