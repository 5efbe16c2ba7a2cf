-------------------------- MODULE BufferPoolProofs --------------------------
(***************************************************************************)
(* The buffer pool's invariants, and its refinement of PageStore, for every*)
(* number of frames, clients, pages and contents, and every replacement    *)
(* strategy.                                                               *)
(*                                                                         *)
(* The invariant has two parts.  Shape holds whatever the clients do: the  *)
(* types, no page in two frames, every pooled page within reach of a       *)
(* write-back, nothing left in a pool that is down.  Service is what       *)
(* clients rely on, and holds while pins are respected: the four parts need*)
(* one another.  That replacement throws away no client's page follows from*)
(* the fix counts being exact; that what it throws away is on disk, from   *)
(* DiskCurrent, because an unheld page is unsaved only if it is dirty; that*)
(* what it loads is what was written, again from DiskCurrent.              *)
(***************************************************************************)
EXTENDS BufferPoolStore, PageFileLemmas, FiniteSetTheorems

\* A pool that is down holds no page and nobody holds a page of it.
DownClean ==
  ~isInitialized_bp =>
    /\ \A f \in Frames : frames[f].pageNumber = NO_PAGE /\ frames[f].fix_cnt = 0
    /\ handle = [c \in Clients |-> NoHandle]

Shape == TypeOK /\ NoDuplicatePage /\ WriteBackInReach /\ DownClean

Service == PinCount /\ HandleValid /\ PoolCurrent /\ DiskCurrent

IInv == Shape /\ Service

Holders(f) == {c \in Clients : handle[c].frame = f}

-----------------------------------------------------------------------------

\* The frames are numbered from 0.
LEMMA FramesNat == Frames \subseteq Nat /\ 0 \in Frames /\ -1 \notin Frames
  BY NumFramesAssumption DEF Frames

\* Writing frames back: the blocks of the frames written have their contents,
\* every other block is as it was.
LEMMA WrittenBackFile ==
  ASSUME NEW fl \in Seq(Data), NEW fr \in [Frames -> Frame],
         NEW S \in SUBSET Frames,
         \A f, g \in S : fr[f].pageNumber = fr[g].pageNumber
                           => f = g \/ fr[f].pageNumber = NO_PAGE
  PROVE  /\ WrittenBack(fl, fr, S) \in Seq(Data)
         /\ Len(fl) <= Len(WrittenBack(fl, fr, S))
         /\ \A f \in S :
              fr[f].pageNumber \in 0 .. Len(fl)
                => /\ fr[f].pageNumber < Len(WrittenBack(fl, fr, S))
                   /\ WrittenBack(fl, fr, S)[fr[f].pageNumber + 1] = fr[f].memPage
         /\ \A p \in Nat :
              p < Len(fl) /\ (\A f \in S : fr[f].pageNumber # p)
                => /\ p < Len(WrittenBack(fl, fr, S))
                   /\ WrittenBack(fl, fr, S)[p + 1] = fl[p + 1]
<1> DEFINE Saved(p) == {f \in S : fr[f].pageNumber = p}
           n == IF Saved(Len(fl)) # {} THEN Len(fl) + 1 ELSE Len(fl)
           e(i) == IF Saved(i - 1) # {}
                   THEN fr[CHOOSE f \in Saved(i - 1) : TRUE].memPage
                   ELSE fl[i]
           new == [i \in 1 .. n |-> e(i)]
<1>1. WrittenBack(fl, fr, S) = new
  BY DEF WrittenBack
<1>2. n \in Nat /\ Len(fl) \in Nat /\ Len(fl) <= n
  OBVIOUS
<1>3. ASSUME NEW p, Saved(p) # {}
      PROVE  (CHOOSE f \in Saved(p) : TRUE) \in Saved(p)
  BY <1>3
<1>4. ASSUME NEW i \in 1 .. n PROVE e(i) \in Data
  <2>1. CASE Saved(i - 1) # {}
    <3> DEFINE f == CHOOSE f \in Saved(i - 1) : TRUE
    <3>1. f \in Frames
      BY <1>3, <2>1
    <3>2. fr[f].memPage \in Data
      BY <3>1 DEF Frame
    <3> QED
      BY <2>1, <3>2
  <2>2. CASE Saved(i - 1) = {}
    <3>1. i \in 1 .. Len(fl)
      <4>1. i \in 1 .. Len(fl) \/ i = Len(fl) + 1
        BY <1>2, <1>4
      <4>2. CASE i = Len(fl) + 1
        <5>1. i - 1 = Len(fl)
          BY <1>2, <4>2
        <5>2. Saved(Len(fl)) = {}
          BY <2>2, <5>1
        <5>3. n = Len(fl)
          BY <5>2
        <5> QED
          BY <1>2, <1>4, <4>2, <5>3
      <4> QED
        BY <4>1, <4>2
    <3> QED
      BY <2>2, <3>1
  <2> QED
    BY <2>1, <2>2
<1>5. new \in [1 .. n -> Data]
  BY <1>4
<1>6. new \in Seq(Data) /\ Len(new) = n
  BY <1>2, <1>5, FcnIsSeq
<1>7. ASSUME NEW f \in S, fr[f].pageNumber \in 0 .. Len(fl)
      PROVE  fr[f].pageNumber < n /\ new[fr[f].pageNumber + 1] = fr[f].memPage
  <2> DEFINE p == fr[f].pageNumber
             g == CHOOSE x \in Saved(p) : TRUE
  <2>1. f \in Saved(p) /\ Saved(p) # {}
    OBVIOUS
  <2>2. g \in Saved(p)
    BY <1>3, <2>1
  <2>3. g = f
    BY <1>7, <2>2 DEF NO_PAGE
  <2>4. p < n
    BY <1>2, <1>7, <2>1
  <2>5. p + 1 \in 1 .. n /\ (p + 1) - 1 = p
    BY <1>2, <1>7, <2>4
  <2>6. new[p + 1] = e(p + 1)
    BY <2>5
  <2>7. e(p + 1) = fr[g].memPage
    BY <2>1, <2>5
  <2> QED
    BY <2>3, <2>4, <2>6, <2>7
<1>8. ASSUME NEW p \in Nat, p < Len(fl), \A f \in S : fr[f].pageNumber # p
      PROVE  p < n /\ new[p + 1] = fl[p + 1]
  <2>1. p + 1 \in 1 .. n /\ (p + 1) - 1 = p
    BY <1>2, <1>8
  <2>2. Saved(p) = {}
    BY <1>8
  <2> QED
    BY <1>2, <1>8, <2>1, <2>2
<1> HIDE DEF new, n
<1> QED
  BY <1>1, <1>2, <1>6, <1>7, <1>8

\* ensureCapacity before a load: the file gets no shorter, keeps its blocks,
\* and reaches the page.
LEMMA EnsuredFile ==
  ASSUME NEW fl \in Seq(Data), NEW p \in Nat
  PROVE  /\ Ensured(fl, p) \in Seq(Data)
         /\ Len(fl) <= Len(Ensured(fl, p))
         /\ p <= Len(Ensured(fl, p))
         /\ \A q \in Nat : q < Len(fl) => Ensured(fl, p)[q + 1] = fl[q + 1]
<1> DEFINE k == Shortfall(Len(fl), p)
<1>1. Len(fl) \in Nat
  OBVIOUS
<1>2. k \in Nat /\ Len(fl) + k >= p
  BY <1>1, ShortfallBound
<1> HIDE DEF k
<1>3. Grown(fl, k) \in Seq(Data) /\ Len(Grown(fl, k)) = Len(fl) + k
  BY <1>2, GrownFile
<1>4. ASSUME NEW q \in Nat, q < Len(fl)
      PROVE  Grown(fl, k)[q + 1] = fl[q + 1]
  BY <1>1, <1>2, <1>4 DEF Grown
<1> QED
  BY <1>1, <1>2, <1>3, <1>4 DEF Ensured, k

-----------------------------------------------------------------------------

\* The start: no page pooled, and logical is what the file holds.
LEMMA InitInvariant == Init => IInv
<1> SUFFICES ASSUME Init PROVE IInv
  OBVIOUS
<1>1. /\ EmptyFrame(ZeroBlock) \in Frame
      /\ EmptyFrame(ZeroBlock).pageNumber = NO_PAGE
      /\ EmptyFrame(ZeroBlock).fix_cnt = 0
      /\ EmptyFrame(ZeroBlock).dirty = FALSE
  BY DataAssumption DEF EmptyFrame, Frame
<1>2. \A f \in Frames : frames[f] = EmptyFrame(ZeroBlock)
  BY DEF Init
<1>3. \A c \in Clients : handle[c] = NoHandle
  BY DEF Init
<1>4. NoHandle \in [page : Pages \cup {NO_PAGE}, frame : Frames \cup {-1},
                    wrote : BOOLEAN]
      /\ NoHandle.frame = -1 /\ NoHandle.page = NO_PAGE /\ ~NoHandle.wrote
  BY DEF NoHandle
<1>5. InitialFile \in Seq(Data) /\ Len(InitialFile) \in Nat
  BY BufferPoolAssumption
<1>6. Contents(InitialFile) \in [Pages -> Data \cup {Undef}]
  BY <1>5, BufferPoolAssumption DEF Contents
<1>7. TypeOK
  BY <1>1, <1>4, <1>5, <1>6, FramesNat DEF Init, TypeOK, ReturnCodes
<1>8. Shape
  <2>1. NoDuplicatePage
    BY <1>1, <1>2 DEF NoDuplicatePage
  <2>2. WriteBackInReach
    BY <1>1, <1>2, <1>5 DEF Init, WriteBackInReach, NO_PAGE
  <2>3. DownClean
    BY <1>1, <1>2 DEF Init, DownClean
  <2> QED
    BY <1>7, <2>1, <2>2, <2>3 DEF Shape
<1>9. PinCount
  <2>1. \A f \in Frames : Holders(f) = {}
    BY <1>3, <1>4, FramesNat DEF Holders
  <2> QED
    BY <1>1, <1>2, <2>1, FS_EmptySet DEF PinCount, Holders
<1>10. HandleValid
  BY <1>3, <1>4 DEF HandleValid, Held
<1>11. PoolCurrent
  BY <1>1, <1>2, BufferPoolAssumption DEF PoolCurrent, NO_PAGE
<1>12. DiskCurrent
  BY BufferPoolAssumption DEF Init, DiskCurrent, Contents
<1> QED
  BY <1>8, <1>9, <1>10, <1>11, <1>12 DEF IInv, Service

-----------------------------------------------------------------------------
(***************************************************************************)
(* Steps that write frames to the file: flush, force, shutdown.            *)
(***************************************************************************)

\* Writing any frames of the pool back keeps every page in reach, and makes
\* the file current for the pages whose contents the pool has right.
LEMMA WriteFrames ==
  ASSUME Shape, NEW S \in SUBSET Frames
  PROVE  /\ WrittenBack(file, frames, S) \in Seq(Data)
         /\ Len(file) <= Len(WrittenBack(file, frames, S))
         /\ \A f \in S :
              frames[f].pageNumber # NO_PAGE
                => /\ frames[f].pageNumber < Len(WrittenBack(file, frames, S))
                   /\ WrittenBack(file, frames, S)[frames[f].pageNumber + 1]
                        = frames[f].memPage
         /\ \A p \in Nat :
              p < Len(file) /\ (\A f \in S : frames[f].pageNumber # p)
                => /\ p < Len(WrittenBack(file, frames, S))
                   /\ WrittenBack(file, frames, S)[p + 1] = file[p + 1]
<1>1. file \in Seq(Data) /\ frames \in [Frames -> Frame]
  BY DEF Shape, TypeOK
<1>2. \A f, g \in S : frames[f].pageNumber = frames[g].pageNumber
                        => f = g \/ frames[f].pageNumber = NO_PAGE
  BY DEF Shape, NoDuplicatePage
<1>3. ASSUME NEW f \in S, frames[f].pageNumber # NO_PAGE
      PROVE  frames[f].pageNumber \in 0 .. Len(file)
  BY <1>1, <1>3 DEF Shape, WriteBackInReach, Frame
<1> QED
  BY <1>1, <1>2, <1>3, WrittenBackFile

\* Clearing dirty flags changes nothing else of a frame.
LEMMA CleanedFrames ==
  ASSUME TypeOK, NEW S \in SUBSET Frames
  PROVE  /\ Cleaned(frames, S) \in [Frames -> Frame]
         /\ \A f \in Frames :
              /\ Cleaned(frames, S)[f].pageNumber = frames[f].pageNumber
              /\ Cleaned(frames, S)[f].memPage = frames[f].memPage
              /\ Cleaned(frames, S)[f].fix_cnt = frames[f].fix_cnt
              /\ Cleaned(frames, S)[f].dirty = (frames[f].dirty /\ f \notin S)
<1>1. frames \in [Frames -> Frame]
  BY DEF TypeOK
<1>2. ASSUME NEW f \in Frames
      PROVE  LET r == [frames[f] EXCEPT !.dirty = FALSE]
             IN  /\ r \in Frame
                 /\ r.pageNumber = frames[f].pageNumber
                 /\ r.memPage = frames[f].memPage
                 /\ r.fix_cnt = frames[f].fix_cnt
                 /\ r.dirty = FALSE
  BY <1>1 DEF Frame
<1> QED
  BY <1>1, <1>2 DEF Cleaned, Frame

\* A step that writes the frames of S and clears their dirty flags, flush or
\* force, keeps the invariant.
LEMMA WriteAndClean ==
  ASSUME IInv, NEW S \in SUBSET Frames,
         file' = WrittenBack(file, frames, S),
         frames' = Cleaned(frames, S),
         rc' \in ReturnCodes,
         UNCHANGED <<isInitialized_bp, strategy, stratParam, lruCounter,
                     readFromDisk, handle, logical>>
  PROVE  IInv'
<1>1. Shape /\ TypeOK
  BY DEF IInv, Shape
<1>2. /\ file' \in Seq(Data) /\ Len(file) <= Len(file')
      /\ \A f \in S :
           frames[f].pageNumber # NO_PAGE
             => /\ frames[f].pageNumber < Len(file')
                /\ file'[frames[f].pageNumber + 1] = frames[f].memPage
      /\ \A p \in Nat :
           p < Len(file) /\ (\A f \in S : frames[f].pageNumber # p)
             => p < Len(file') /\ file'[p + 1] = file[p + 1]
  BY <1>1, WriteFrames
<1>3. /\ frames' \in [Frames -> Frame]
      /\ \A f \in Frames :
           /\ frames'[f].pageNumber = frames[f].pageNumber
           /\ frames'[f].memPage = frames[f].memPage
           /\ frames'[f].fix_cnt = frames[f].fix_cnt
           /\ frames'[f].dirty = (frames[f].dirty /\ f \notin S)
  BY <1>1, CleanedFrames
<1>4. /\ file \in Seq(Data) /\ frames \in [Frames -> Frame]
      /\ Len(file) \in Nat /\ Len(file') \in Nat
  BY <1>1, <1>2 DEF TypeOK
<1>5. Shape'
  <2>1. TypeOK'
    BY <1>1, <1>2, <1>3 DEF TypeOK
  <2>2. NoDuplicatePage'
    BY <1>1, <1>3 DEF Shape, NoDuplicatePage
  <2>3. WriteBackInReach'
    <3> SUFFICES ASSUME NEW f \in Frames
                 PROVE  frames'[f].pageNumber <= Len(file')
      BY DEF WriteBackInReach
    <3>1. frames[f].pageNumber <= Len(file) /\ frames[f].pageNumber \in Int
      BY <1>1, <1>4 DEF Shape, WriteBackInReach, Frame, NO_PAGE
    <3> QED
      BY <1>2, <1>3, <1>4, <3>1
  <2>4. DownClean'
    BY <1>1, <1>3 DEF Shape, DownClean
  <2> QED
    BY <2>1, <2>2, <2>3, <2>4 DEF Shape
<1>6. ASSUME PinsRespected' PROVE PinsRespected
  BY <1>6 DEF PinsRespected
<1>7. PinCount'
  BY <1>3, <1>6 DEF IInv, Service, PinCount
<1>8. HandleValid'
  BY <1>3, <1>6 DEF IInv, Service, HandleValid, Held
<1>9. PoolCurrent'
  BY <1>3, <1>6 DEF IInv, Service, PoolCurrent
<1>10. DiskCurrent'
  <2> SUFFICES ASSUME PinsRespected', NEW p \in Pages,
                      logical[p] # Undef, ~Unsaved(p)'
               PROVE  p < Len(file') /\ file'[p + 1] = logical[p]
    BY DEF DiskCurrent
  <2>1. p \in Nat
    BY BufferPoolAssumption
  <2>2. CASE \E f \in S : frames[f].pageNumber = p
    <3>1. PICK f \in S : frames[f].pageNumber = p
      BY <2>2
    <3>2. frames[f].memPage = logical[p]
      BY <1>6, <3>1 DEF IInv, Service, PoolCurrent
    <3> QED
      BY <1>2, <2>1, <3>1, <3>2 DEF NO_PAGE
  <2>3. CASE \A f \in S : frames[f].pageNumber # p
    <3>1. ~Unsaved(p)
      BY <1>3, <2>3 DEF Unsaved
    <3>2. p < Len(file) /\ file[p + 1] = logical[p]
      BY <1>6, <3>1 DEF IInv, Service, DiskCurrent
    <3> QED
      BY <1>2, <2>1, <2>3, <3>2
  <2> QED
    BY <2>2, <2>3
<1> QED
  BY <1>5, <1>7, <1>8, <1>9, <1>10 DEF IInv, Service

\* A call that changes nothing but the return code keeps the invariant.
LEMMA OnlyReturns ==
  ASSUME IInv, Unchanged_but_rc, rc' \in ReturnCodes
  PROVE  IInv'
<1>1. Shape'
  BY DEF IInv, Unchanged_but_rc, Shape, TypeOK, NoDuplicatePage,
         WriteBackInReach, DownClean
<1>2. PinsRespected' = PinsRespected
  BY DEF Unchanged_but_rc, PinsRespected
<1>3. Service'
  BY <1>2 DEF IInv, Unchanged_but_rc, Service, PinCount, HandleValid, Held,
              PoolCurrent, DiskCurrent, Unsaved
<1> QED
  BY <1>1, <1>3 DEF IInv

-----------------------------------------------------------------------------
(***************************************************************************)
(* Pool handling.                                                          *)
(***************************************************************************)

\* A pool whose frames are all empty and that nobody holds pages of satisfies
\* everything when logical is what its file holds.
LEMMA FreshPool ==
  ASSUME NEW mem \in [Frames -> Data], file' \in Seq(Data),
         frames' = [f \in Frames |-> EmptyFrame(mem[f])],
         handle' = [c \in Clients |-> NoHandle],
         isInitialized_bp' \in BOOLEAN,
         strategy' \in Strategies, stratParam' \in StratParams,
         lruCounter' \in Nat, readFromDisk' \in Frames,
         logical' \in [Pages -> Data \cup {Undef}],
         \A p \in Pages : logical'[p] # Undef
           => p < Len(file') /\ file'[p + 1] = logical'[p],
         rc' \in ReturnCodes
  PROVE  IInv'
<1>1. \A f \in Frames :
        /\ frames'[f] \in Frame
        /\ frames'[f].pageNumber = NO_PAGE
        /\ frames'[f].fix_cnt = 0
        /\ frames'[f].dirty = FALSE
  BY DEF EmptyFrame, Frame
<1>2. \A c \in Clients : handle'[c] = NoHandle
  OBVIOUS
<1>3. /\ NoHandle \in [page : Pages \cup {NO_PAGE}, frame : Frames \cup {-1},
                       wrote : BOOLEAN]
      /\ NoHandle.frame = -1 /\ NoHandle.page = NO_PAGE /\ ~NoHandle.wrote
  BY DEF NoHandle
<1>4. TypeOK'
  <2>1. frames' \in [Frames -> Frame]
    BY <1>1
  <2> QED
    BY <1>3, <2>1 DEF TypeOK
<1>5. NoDuplicatePage'
  BY <1>1 DEF NoDuplicatePage
<1>6. WriteBackInReach'
  <2>1. Len(file') \in Nat
    OBVIOUS
  <2> QED
    BY <1>1, <2>1 DEF WriteBackInReach, NO_PAGE
<1>7. DownClean'
  BY <1>1 DEF DownClean
<1>8. PinCount'
  <2>1. \A f \in Frames : {c \in Clients : handle'[c].frame = f} = {}
    BY <1>2, <1>3, FramesNat
  <2> QED
    BY <1>1, <2>1, FS_EmptySet DEF PinCount
<1>9. HandleValid'
  BY <1>2, <1>3 DEF HandleValid, Held
<1>10. PoolCurrent'
  BY <1>1, BufferPoolAssumption DEF PoolCurrent, NO_PAGE
<1>11. DiskCurrent'
  BY DEF DiskCurrent
<1> QED
  BY <1>4, <1>5, <1>6, <1>7, <1>8, <1>9, <1>10, <1>11
  DEF IInv, Shape, Service

\* initBufferPool: logical still is what the file holds, since a pool that is
\* down has nothing unsaved.
LEMMA InitBufferPoolStep ==
  ASSUME IInv, NEW s \in Strategies, NEW k \in StratParams, InitBufferPool(s, k)
  PROVE  IInv'
<1>1. CASE isInitialized_bp /\ Return("RC_OK") /\ Unchanged_but_rc
  BY <1>1, OnlyReturns DEF Return, ReturnCodes
<1>2. CASE ~isInitialized_bp
  <2>1. PICK mem \in [Frames -> Fresh] :
          frames' = [f \in Frames |-> EmptyFrame(mem[f])]
    BY <1>2 DEF InitBufferPool
  <2>2. mem \in [Frames -> Data]
    BY BufferPoolAssumption
  <2>3. /\ isInitialized_bp' = TRUE /\ strategy' = s /\ stratParam' = k
        /\ readFromDisk' = 0 /\ rc' = "RC_OK"
        /\ UNCHANGED <<lruCounter, file, handle, logical>>
    BY <1>2 DEF InitBufferPool, Return
  <2>4. /\ \A f \in Frames : frames[f].pageNumber = NO_PAGE
        /\ handle = [c \in Clients |-> NoHandle]
    BY <1>2 DEF IInv, Shape, DownClean
  <2>5. \A p \in Pages : logical[p] # Undef
          => p < Len(file) /\ file[p + 1] = logical[p]
    <3>1. PinsRespected
      BY <1>2 DEF PinsRespected
    <3>2. \A p \in Pages : ~Unsaved(p)
      BY <2>4, BufferPoolAssumption DEF Unsaved, NoHandle, NO_PAGE
    <3> QED
      BY <3>1, <3>2 DEF IInv, Service, DiskCurrent
  <2>6. /\ lruCounter \in Nat /\ file \in Seq(Data)
        /\ logical \in [Pages -> Data \cup {Undef}]
    BY DEF IInv, Shape, TypeOK
  <2> QED
    BY <2>1, <2>2, <2>3, <2>4, <2>5, <2>6, FramesNat, FreshPool DEF ReturnCodes
<1> QED
  BY <1>1, <1>2 DEF InitBufferPool

\* shutdownBufferPool, flushing as far as forceFlushPool gets.
LEMMA ShutdownStep ==
  ASSUME IInv, ShutdownBufferPool
  PROVE  IInv'
<1>1. CASE ~isInitialized_bp
  BY <1>1, OnlyReturns DEF ShutdownBufferPool, Return, ReturnCodes
<1>2. CASE isInitialized_bp
  <2>1. /\ file' = WrittenBack(file, frames, FlushSet(frames))
        /\ frames' = [f \in Frames |-> EmptyFrame(ZeroBlock)]
        /\ handle' = [c \in Clients |-> NoHandle]
        /\ logical' = Contents(file')
        /\ rc' = "RC_OK" /\ isInitialized_bp' = FALSE
        /\ UNCHANGED <<strategy, stratParam, lruCounter, readFromDisk>>
    BY <1>2 DEF ShutdownBufferPool, Return
  <2>2. file' \in Seq(Data)
    <3>1. FlushSet(frames) \in SUBSET Frames /\ Shape
      BY DEF FlushSet, IInv
    <3> QED
      BY <2>1, <3>1, WriteFrames
  <2>3. /\ logical' \in [Pages -> Data \cup {Undef}]
        /\ \A p \in Pages : logical'[p] # Undef
             => p < Len(file') /\ file'[p + 1] = logical'[p]
    BY <2>1, <2>2, BufferPoolAssumption DEF Contents
  <2> DEFINE mem == [f \in Frames |-> ZeroBlock]
  <2>4. /\ mem \in [Frames -> Data]
        /\ frames' = [f \in Frames |-> EmptyFrame(mem[f])]
    BY <2>1, DataAssumption
  <2>5. /\ strategy \in Strategies /\ stratParam \in StratParams
        /\ lruCounter \in Nat /\ readFromDisk \in Frames
    BY DEF IInv, Shape, TypeOK
  <2> HIDE DEF mem
  <2> QED
    BY <2>1, <2>2, <2>3, <2>4, <2>5, FreshPool DEF ReturnCodes
<1> QED
  BY <1>1, <1>2

\* forceFlushPool and forcePage.
LEMMA FlushStep ==
  ASSUME IInv, ForceFlushPool \/ \E p \in Pages : ForcePage(p)
  PROVE  IInv'
<1>1. CASE isInitialized_bp /\ ForceFlushPool
  <2>1. FlushSet(frames) \in SUBSET Frames
    BY DEF FlushSet
  <2> QED
    BY <1>1, <2>1, WriteAndClean DEF ForceFlushPool, Return, ReturnCodes
<1>2. CASE ~isInitialized_bp /\ ForceFlushPool
  BY <1>2, OnlyReturns DEF ForceFlushPool, Return, ReturnCodes
<1>3. CASE \E p \in Pages : ForcePage(p)
  <2>1. PICK p \in Pages : ForcePage(p)
    BY <1>3
  <2>2. Holding(frames, p) \in SUBSET Frames
    BY DEF Holding
  <2> QED
    BY <2>1, <2>2, WriteAndClean DEF ForcePage, Return, ReturnCodes
<1> QED
  BY <1>1, <1>2, <1>3

-----------------------------------------------------------------------------
(***************************************************************************)
(* Steps of a client that holds a page.                                    *)
(***************************************************************************)

\* What a client that holds a page knows of its frame.
LEMMA HeldFrame ==
  ASSUME IInv, PinsRespected, NEW c \in Clients, Held(c)
  PROVE  /\ handle[c].page \in Pages /\ handle[c].page # NO_PAGE
         /\ handle[c].frame \in Frames
         /\ frames[handle[c].frame].pageNumber = handle[c].page
         /\ \A f \in Frames : frames[f].pageNumber = handle[c].page
                                => f = handle[c].frame
         /\ isInitialized_bp
<1>1. handle[c].page \in Pages /\ handle[c].page # NO_PAGE
  BY DEF IInv, Shape, TypeOK, Held
<1>2. /\ handle[c].frame \in Frames
      /\ frames[handle[c].frame].pageNumber = handle[c].page
  BY DEF IInv, Service, HandleValid
<1>3. \A f \in Frames : frames[f].pageNumber = handle[c].page
                          => f = handle[c].frame
  BY <1>1, <1>2 DEF IInv, Shape, NoDuplicatePage
<1>4. isInitialized_bp
  BY DEF IInv, Shape, DownClean, Held, NoHandle
<1> QED
  BY <1>1, <1>2, <1>3, <1>4

\* A client that holds nothing has not written anything.
LEMMA NotHeld ==
  ASSUME IInv, PinsRespected, NEW c \in Clients, ~Held(c)
  PROVE  handle[c].page = NO_PAGE /\ handle[c].frame = -1 /\ ~handle[c].wrote
  BY DEF IInv, Service, HandleValid, NoHandle

\* A step that changes neither the pages of the frames nor the file keeps the
\* shape of a pool that is up.
LEMMA SamePages ==
  ASSUME Shape, isInitialized_bp,
         frames' \in [Frames -> Frame],
         \A f \in Frames : frames'[f].pageNumber = frames[f].pageNumber,
         handle' \in [Clients -> [page : Pages \cup {NO_PAGE},
                                  frame : Frames \cup {-1}, wrote : BOOLEAN]],
         logical' \in [Pages -> Data \cup {Undef}],
         lruCounter' \in Nat, rc' \in ReturnCodes,
         UNCHANGED <<isInitialized_bp, strategy, stratParam, readFromDisk, file>>
  PROVE  Shape'
<1>1. TypeOK'
  BY DEF Shape, TypeOK
<1>2. NoDuplicatePage'
  BY DEF Shape, NoDuplicatePage
<1>3. WriteBackInReach'
  BY DEF Shape, WriteBackInReach
<1>4. DownClean'
  BY DEF DownClean
<1> QED
  BY <1>1, <1>2, <1>3, <1>4 DEF Shape

\* A client stores into the memory of its frame.
LEMMA WritePageStep ==
  ASSUME IInv, NEW c \in Clients, NEW d \in Data, WritePage(c, d)
  PROVE  IInv'
<1> DEFINE h == handle[c].frame
           q == handle[c].page
<1>1. /\ Held(c)
      /\ frames' = [frames EXCEPT ![h].memPage = d]
      /\ handle' = [handle EXCEPT ![c].wrote = TRUE]
      /\ logical' = [logical EXCEPT ![q] = d]
      /\ UNCHANGED <<isInitialized_bp, strategy, stratParam, lruCounter,
                     readFromDisk, file, rc>>
  BY DEF WritePage
<1>2. /\ Shape /\ TypeOK /\ frames \in [Frames -> Frame]
      /\ handle \in [Clients -> [page : Pages \cup {NO_PAGE},
                                 frame : Frames \cup {-1}, wrote : BOOLEAN]]
      /\ logical \in [Pages -> Data \cup {Undef}]
  BY DEF IInv, Shape, TypeOK
<1>3. isInitialized_bp
  BY <1>1 DEF IInv, Shape, DownClean, Held, NoHandle
<1>4. \A f \in Frames :
        /\ frames'[f] \in Frame
        /\ frames'[f].pageNumber = frames[f].pageNumber
        /\ frames'[f].fix_cnt = frames[f].fix_cnt
        /\ frames'[f].dirty = frames[f].dirty
        /\ frames'[f].memPage = IF f = h THEN d ELSE frames[f].memPage
  BY <1>1, <1>2 DEF Frame
<1>5. frames' \in [Frames -> Frame]
  BY <1>1, <1>2, <1>4
<1>6. /\ handle' \in [Clients -> [page : Pages \cup {NO_PAGE},
                                  frame : Frames \cup {-1}, wrote : BOOLEAN]]
      /\ \A x \in Clients :
           /\ handle'[x].page = handle[x].page
           /\ handle'[x].frame = handle[x].frame
           /\ handle'[x].wrote = (handle[x].wrote \/ x = c)
           /\ x # c => handle'[x] = handle[x]
  BY <1>1, <1>2
<1>7. q \in Pages
  BY <1>1, <1>2 DEF Held
<1>8. /\ logical' \in [Pages -> Data \cup {Undef}]
      /\ \A p \in Pages : logical'[p] = IF p = q THEN d ELSE logical[p]
  BY <1>1, <1>2, <1>7
<1>9. Shape'
  <2>1. lruCounter' \in Nat /\ rc' \in ReturnCodes
    BY <1>1, <1>2 DEF TypeOK
  <2> QED
    BY <1>1, <1>2, <1>3, <1>4, <1>5, <1>6, <1>8, <2>1, SamePages
<1>10. ASSUME PinsRespected'
       PROVE  /\ PinsRespected
              /\ h \in Frames /\ frames[h].pageNumber = q
              /\ \A f \in Frames : frames[f].pageNumber = q => f = h
  <2>1. PinsRespected
    BY <1>1, <1>10 DEF PinsRespected
  <2> QED
    BY <1>1, <2>1, HeldFrame
<1>11. PinCount'
  <2> SUFFICES ASSUME PinsRespected', NEW f \in Frames
               PROVE  frames'[f].fix_cnt =
                        Cardinality({x \in Clients : handle'[x].frame = f})
    BY DEF PinCount
  <2>1. {x \in Clients : handle'[x].frame = f} = Holders(f)
    BY <1>6 DEF Holders
  <2>2. frames[f].fix_cnt = Cardinality(Holders(f))
    BY <1>10 DEF IInv, Service, PinCount, Holders
  <2> QED
    BY <1>4, <2>1, <2>2
<1>12. HandleValid'
  <2> SUFFICES ASSUME PinsRespected', NEW x \in Clients
               PROVE  IF Held(x)'
                      THEN /\ handle'[x].frame \in Frames
                           /\ frames'[handle'[x].frame].pageNumber = handle'[x].page
                      ELSE handle'[x] = NoHandle
    BY DEF HandleValid
  <2>1. IF Held(x)
        THEN /\ handle[x].frame \in Frames
             /\ frames[handle[x].frame].pageNumber = handle[x].page
        ELSE handle[x] = NoHandle
    BY <1>10 DEF IInv, Service, HandleValid
  <2>2. Held(x)' = Held(x)
    BY <1>6 DEF Held
  <2> QED
    BY <1>1, <1>4, <1>6, <2>1, <2>2
<1>13. PoolCurrent'
  <2> SUFFICES ASSUME PinsRespected', NEW f \in Frames,
                      frames'[f].pageNumber \in Pages,
                      logical'[frames'[f].pageNumber] # Undef
               PROVE  frames'[f].memPage = logical'[frames'[f].pageNumber]
    BY DEF PoolCurrent
  <2>1. frames[f].pageNumber \in Pages /\ logical[frames[f].pageNumber] # Undef
          => frames[f].memPage = logical[frames[f].pageNumber]
    BY <1>10 DEF IInv, Service, PoolCurrent
  <2> QED
    BY <1>4, <1>8, <1>10, <2>1
<1>14. DiskCurrent'
  <2> SUFFICES ASSUME PinsRespected', NEW p \in Pages,
                      logical'[p] # Undef, ~Unsaved(p)'
               PROVE  p < Len(file') /\ file'[p + 1] = logical'[p]
    BY DEF DiskCurrent
  <2>1. p # q
    BY <1>6 DEF Unsaved
  <2>2. ~Unsaved(p)
    BY <1>4, <1>6 DEF Unsaved
  <2>3. logical[p] # Undef => p < Len(file) /\ file[p + 1] = logical[p]
    BY <1>10, <2>2 DEF IInv, Service, DiskCurrent
  <2> QED
    BY <1>1, <1>8, <2>1, <2>3
<1> QED
  BY <1>9, <1>11, <1>12, <1>13, <1>14 DEF IInv, Service

\* markDirty: what the client wrote is now unsaved because it is dirty.
LEMMA MarkDirtyStep ==
  ASSUME IInv, NEW c \in Clients, MarkDirty(c)
  PROVE  IInv'
<1> DEFINE q == handle[c].page
<1>1. /\ Held(c)
      /\ frames' = [f \in Frames |->
                      IF frames[f].pageNumber = q
                      THEN [frames[f] EXCEPT !.dirty = TRUE] ELSE frames[f]]
      /\ handle' = [handle EXCEPT ![c].wrote = FALSE]
      /\ rc' \in ReturnCodes
      /\ UNCHANGED <<isInitialized_bp, strategy, stratParam, lruCounter,
                     readFromDisk, file, logical>>
  BY DEF MarkDirty, Return, ReturnCodes
<1>2. /\ Shape /\ TypeOK /\ frames \in [Frames -> Frame]
      /\ handle \in [Clients -> [page : Pages \cup {NO_PAGE},
                                 frame : Frames \cup {-1}, wrote : BOOLEAN]]
  BY DEF IInv, Shape, TypeOK
<1>3. isInitialized_bp
  BY <1>1 DEF IInv, Shape, DownClean, Held, NoHandle
<1>4. \A f \in Frames :
        /\ frames'[f] \in Frame
        /\ frames'[f].pageNumber = frames[f].pageNumber
        /\ frames'[f].fix_cnt = frames[f].fix_cnt
        /\ frames'[f].memPage = frames[f].memPage
        /\ frames'[f].dirty = (frames[f].dirty \/ frames[f].pageNumber = q)
  <2> HIDE DEF q
  <2>1. ASSUME NEW f \in Frames
        PROVE  LET r == [frames[f] EXCEPT !.dirty = TRUE]
               IN  /\ r \in Frame /\ r.pageNumber = frames[f].pageNumber
                   /\ r.fix_cnt = frames[f].fix_cnt
                   /\ r.memPage = frames[f].memPage /\ r.dirty = TRUE
    BY <1>2 DEF Frame
  <2> QED
    BY <1>1, <1>2, <2>1 DEF Frame
<1>5. frames' \in [Frames -> Frame]
  BY <1>1, <1>4
<1>6. /\ handle' \in [Clients -> [page : Pages \cup {NO_PAGE},
                                  frame : Frames \cup {-1}, wrote : BOOLEAN]]
      /\ \A x \in Clients :
           /\ handle'[x].page = handle[x].page
           /\ handle'[x].frame = handle[x].frame
           /\ handle'[x].wrote = (handle[x].wrote /\ x # c)
           /\ x # c => handle'[x] = handle[x]
  BY <1>1, <1>2
<1>7. Shape'
  <2>1. lruCounter' \in Nat /\ logical' \in [Pages -> Data \cup {Undef}]
    BY <1>1, <1>2 DEF TypeOK
  <2> QED
    BY <1>1, <1>2, <1>3, <1>4, <1>5, <1>6, <2>1, SamePages
<1>8. ASSUME PinsRespected'
      PROVE  /\ PinsRespected
             /\ \E f \in Frames : frames[f].pageNumber = q
  <2>1. PinsRespected
    BY <1>1, <1>8 DEF PinsRespected
  <2> QED
    BY <1>1, <2>1, HeldFrame
<1>9. PinCount'
  <2> SUFFICES ASSUME PinsRespected', NEW f \in Frames
               PROVE  frames'[f].fix_cnt =
                        Cardinality({x \in Clients : handle'[x].frame = f})
    BY DEF PinCount
  <2>1. {x \in Clients : handle'[x].frame = f} = Holders(f)
    BY <1>6 DEF Holders
  <2>2. frames[f].fix_cnt = Cardinality(Holders(f))
    BY <1>8 DEF IInv, Service, PinCount, Holders
  <2> QED
    BY <1>4, <2>1, <2>2
<1>10. HandleValid'
  <2> SUFFICES ASSUME PinsRespected', NEW x \in Clients
               PROVE  IF Held(x)'
                      THEN /\ handle'[x].frame \in Frames
                           /\ frames'[handle'[x].frame].pageNumber = handle'[x].page
                      ELSE handle'[x] = NoHandle
    BY DEF HandleValid
  <2>1. IF Held(x)
        THEN /\ handle[x].frame \in Frames
             /\ frames[handle[x].frame].pageNumber = handle[x].page
        ELSE handle[x] = NoHandle
    BY <1>8 DEF IInv, Service, HandleValid
  <2>2. Held(x)' = Held(x)
    BY <1>6 DEF Held
  <2> QED
    BY <1>1, <1>4, <1>6, <2>1, <2>2
<1>11. PoolCurrent'
  BY <1>1, <1>4, <1>8 DEF IInv, Service, PoolCurrent
<1>12. DiskCurrent'
  <2> SUFFICES ASSUME PinsRespected', NEW p \in Pages,
                      logical[p] # Undef, ~Unsaved(p)'
               PROVE  p < Len(file) /\ file[p + 1] = logical[p]
    BY <1>1 DEF DiskCurrent
  <2>1. p # q
    BY <1>4, <1>8 DEF Unsaved
  <2>2. ~Unsaved(p)
    BY <1>4, <1>6, <2>1 DEF Unsaved
  <2> QED
    BY <1>8, <2>2 DEF IInv, Service, DiskCurrent
<1> QED
  BY <1>7, <1>9, <1>10, <1>11, <1>12 DEF IInv, Service

\* unpinPage: the pin comes off the frame the client holds.
LEMMA UnpinPageStep ==
  ASSUME IInv, NEW c \in Clients, UnpinPage(c)
  PROVE  IInv'
<1> DEFINE q == handle[c].page
<1>1. /\ Held(c) /\ ~handle[c].wrote
      /\ handle' = [handle EXCEPT ![c] = NoHandle]
      /\ rc' \in ReturnCodes
      /\ UNCHANGED <<isInitialized_bp, strategy, stratParam, lruCounter,
                     readFromDisk, file, logical>>
  BY DEF UnpinPage, Return, ReturnCodes
<1>2. /\ Shape /\ TypeOK /\ frames \in [Frames -> Frame]
      /\ handle \in [Clients -> [page : Pages \cup {NO_PAGE},
                                 frame : Frames \cup {-1}, wrote : BOOLEAN]]
  BY DEF IInv, Shape, TypeOK
<1>3. isInitialized_bp
  BY <1>1 DEF IInv, Shape, DownClean, Held, NoHandle
<1>4. /\ NoHandle \in [page : Pages \cup {NO_PAGE}, frame : Frames \cup {-1},
                       wrote : BOOLEAN]
      /\ NoHandle.page = NO_PAGE /\ NoHandle.frame = -1 /\ ~NoHandle.wrote
  BY DEF NoHandle
<1>5. /\ handle' \in [Clients -> [page : Pages \cup {NO_PAGE},
                                  frame : Frames \cup {-1}, wrote : BOOLEAN]]
      /\ handle'[c] = NoHandle
      /\ \A x \in Clients \ {c} : handle'[x] = handle[x]
  BY <1>1, <1>2, <1>4
<1> DEFINE Taken(f) == /\ First(Holding(frames, q), f)
                       /\ frames[f].fix_cnt > 0
                       /\ frames' = [frames EXCEPT ![f].fix_cnt = @ - 1]
<1>6. \/ \E f \in Frames : Taken(f)
      \/ /\ \A f \in Frames :
              First(Holding(frames, q), f) => frames[f].fix_cnt = 0
         /\ frames' = frames
  BY DEF UnpinPage
<1>7. ASSUME NEW f \in Frames, Taken(f)
      PROVE  /\ frames[f].pageNumber = q
             /\ \A g \in Frames :
                  /\ frames'[g] \in Frame
                  /\ frames'[g].pageNumber = frames[g].pageNumber
                  /\ frames'[g].memPage = frames[g].memPage
                  /\ frames'[g].dirty = frames[g].dirty
                  /\ frames'[g].fix_cnt = IF g = f THEN frames[g].fix_cnt - 1
                                                   ELSE frames[g].fix_cnt
             /\ frames' \in [Frames -> Frame]
  <2>1. frames[f].pageNumber = q
    BY <1>7 DEF First, Holding
  <2>2. frames[f].fix_cnt - 1 \in Nat
    BY <1>2, <1>7 DEF Frame
  <2>3. \A g \in Frames :
          /\ frames'[g] \in Frame
          /\ frames'[g].pageNumber = frames[g].pageNumber
          /\ frames'[g].memPage = frames[g].memPage
          /\ frames'[g].dirty = frames[g].dirty
          /\ frames'[g].fix_cnt = IF g = f THEN frames[g].fix_cnt - 1
                                           ELSE frames[g].fix_cnt
    BY <1>2, <1>7, <2>2 DEF Frame
  <2>4. frames' \in [Frames -> Frame]
    BY <1>2, <1>7, <2>3
  <2> QED
    BY <2>1, <2>3, <2>4
<1>8. /\ frames' \in [Frames -> Frame]
      /\ \A g \in Frames :
           /\ frames'[g].pageNumber = frames[g].pageNumber
           /\ frames'[g].memPage = frames[g].memPage
           /\ frames'[g].dirty = frames[g].dirty
  <2> HIDE DEF Taken
  <2> QED
    BY <1>2, <1>6, <1>7
<1>9. Shape'
  <2>1. lruCounter' \in Nat /\ logical' \in [Pages -> Data \cup {Undef}]
    BY <1>1, <1>2 DEF TypeOK
  <2> QED
    BY <1>1, <1>2, <1>3, <1>5, <1>8, <2>1, SamePages
<1>10. ASSUME PinsRespected' PROVE PinsRespected
  BY <1>1, <1>10 DEF PinsRespected
<1>11. PinCount'
  <2> SUFFICES ASSUME PinsRespected', NEW g \in Frames
               PROVE  frames'[g].fix_cnt =
                        Cardinality({x \in Clients : handle'[x].frame = g})
    BY DEF PinCount
  <2>1. \A f \in Frames : frames[f].fix_cnt = Cardinality(Holders(f))
    BY <1>10 DEF IInv, Service, PinCount, Holders
  <2>2. PICK h \in Frames :
          /\ handle[c].frame = h
          /\ frames[h].pageNumber = q
          /\ \A f \in Frames : frames[f].pageNumber = q => f = h
    BY <1>1, <1>10, HeldFrame
  <2>3. IsFiniteSet(Holders(h)) /\ c \in Holders(h)
    BY <2>2, BufferPoolAssumption, FS_Subset DEF Holders
  <2>4. Cardinality(Holders(h)) \in Nat /\ Cardinality(Holders(h)) # 0
    BY <2>3, FS_CardinalityType, FS_EmptySet
  <2>5. First(Holding(frames, q), h)
    BY <2>2, FramesNat DEF First, Holding
  <2>6. frames[h].fix_cnt # 0
    BY <2>1, <2>4
  <2>7. Taken(h)
    <3>1. ASSUME NEW f \in Frames, Taken(f) PROVE f = h
      BY <1>7, <2>2, <3>1
    <3> HIDE DEF Taken
    <3> QED
      BY <1>6, <2>5, <2>6, <3>1
  <2>8. CASE g = h
    <3>1. {x \in Clients : handle'[x].frame = g} = Holders(h) \ {c}
      BY <1>4, <1>5, <2>8, FramesNat DEF Holders
    <3>2. Cardinality(Holders(h) \ {c}) = Cardinality(Holders(h)) - 1
      BY <2>3, FS_RemoveElement
    <3>3. frames'[g].fix_cnt = frames[h].fix_cnt - 1
      BY <1>7, <2>7, <2>8
    <3> QED
      BY <2>1, <3>1, <3>2, <3>3
  <2>9. CASE g # h
    <3>1. {x \in Clients : handle'[x].frame = g} = Holders(g)
      BY <1>4, <1>5, <2>2, <2>9, FramesNat DEF Holders
    <3>2. frames'[g].fix_cnt = frames[g].fix_cnt
      BY <1>7, <2>7, <2>9
    <3> QED
      BY <2>1, <3>1, <3>2
  <2> QED
    BY <2>8, <2>9
<1>12. HandleValid'
  <2> SUFFICES ASSUME PinsRespected', NEW x \in Clients
               PROVE  IF Held(x)'
                      THEN /\ handle'[x].frame \in Frames
                           /\ frames'[handle'[x].frame].pageNumber = handle'[x].page
                      ELSE handle'[x] = NoHandle
    BY DEF HandleValid
  <2>1. IF Held(x)
        THEN /\ handle[x].frame \in Frames
             /\ frames[handle[x].frame].pageNumber = handle[x].page
        ELSE handle[x] = NoHandle
    BY <1>10 DEF IInv, Service, HandleValid
  <2>2. CASE x = c
    BY <1>4, <1>5, <2>2 DEF Held
  <2>3. CASE x # c
    BY <1>5, <1>8, <2>1, <2>3 DEF Held
  <2> QED
    BY <2>2, <2>3
<1>13. PoolCurrent'
  BY <1>1, <1>8, <1>10 DEF IInv, Service, PoolCurrent
<1>14. DiskCurrent'
  <2> SUFFICES ASSUME PinsRespected', NEW p \in Pages,
                      logical[p] # Undef, ~Unsaved(p)'
               PROVE  p < Len(file) /\ file[p + 1] = logical[p]
    BY <1>1 DEF DiskCurrent
  <2>1. ~Unsaved(p)
    BY <1>1, <1>5, <1>8 DEF Unsaved
  <2> QED
    BY <1>10, <2>1 DEF IInv, Service, DiskCurrent
<1> QED
  BY <1>9, <1>11, <1>12, <1>13, <1>14 DEF IInv, Service

-----------------------------------------------------------------------------
(***************************************************************************)
(* pinPage.                                                                *)
(***************************************************************************)

\* The handle a client is given.
LEMMA GivenHandle ==
  ASSUME TypeOK, NEW c \in Clients, NEW p \in Pages, NEW f \in Frames,
         Give(c, p, f)
  PROVE  /\ handle' \in [Clients -> [page : Pages \cup {NO_PAGE},
                                     frame : Frames \cup {-1}, wrote : BOOLEAN]]
         /\ handle'[c].page = p /\ handle'[c].frame = f /\ ~handle'[c].wrote
         /\ \A x \in Clients \ {c} : handle'[x] = handle[x]
<1>1. handle \in [Clients -> [page : Pages \cup {NO_PAGE},
                              frame : Frames \cup {-1}, wrote : BOOLEAN]]
  BY DEF TypeOK
<1>2. [page |-> p, frame |-> f, wrote |-> FALSE]
        \in [page : Pages \cup {NO_PAGE}, frame : Frames \cup {-1}, wrote : BOOLEAN]
  OBVIOUS
<1> QED
  BY <1>1, <1>2 DEF Give

\* The clients that hold frame f once c has been given it.
LEMMA GivenHolders ==
  ASSUME IInv, PinsRespected, NEW c \in Clients, ~Held(c),
         NEW f \in Frames, handle'[c].frame = f,
         \A x \in Clients \ {c} : handle'[x] = handle[x]
  PROVE  /\ {x \in Clients : handle'[x].frame = f} = Holders(f) \cup {c}
         /\ c \notin Holders(f) /\ IsFiniteSet(Holders(f))
         /\ \A g \in Frames \ {f} :
              {x \in Clients : handle'[x].frame = g} = Holders(g)
<1>1. handle[c].frame = -1
  BY NotHeld
<1>2. c \notin Holders(f)
  BY <1>1, FramesNat DEF Holders
<1>3. IsFiniteSet(Holders(f))
  BY BufferPoolAssumption, FS_Subset DEF Holders
<1>4. {x \in Clients : handle'[x].frame = f} = Holders(f) \cup {c}
  BY DEF Holders
<1>5. ASSUME NEW g \in Frames \ {f}
      PROVE  {x \in Clients : handle'[x].frame = g} = Holders(g)
  BY <1>1, FramesNat DEF Holders
<1> QED
  BY <1>2, <1>3, <1>4, <1>5

\* The page is pooled: one more pin.
LEMMA PinHitStep ==
  ASSUME IInv, NEW c \in Clients, NEW p \in Pages, ~Held(c), isInitialized_bp,
         PinHit(c, p), UNCHANGED <<isInitialized_bp, strategy, stratParam, logical>>
  PROVE  IInv'
<1>1. PICK f \in Frames :
        /\ First(Holding(frames, p), f)
        /\ frames' = [frames EXCEPT ![f].fix_cnt = @ + 1,
                                    ![f].lruOrder = lruCounter + 1]
        /\ Give(c, p, f)
  BY DEF PinHit
<1>2. /\ lruCounter' = lruCounter + 1 /\ rc' \in ReturnCodes
      /\ UNCHANGED <<file, readFromDisk>>
  BY DEF PinHit, Return, ReturnCodes
<1>3. /\ Shape /\ TypeOK /\ frames \in [Frames -> Frame] /\ lruCounter \in Nat
      /\ logical \in [Pages -> Data \cup {Undef}]
  BY DEF IInv, Shape, TypeOK
<1>4. frames[f].pageNumber = p /\ p \in Nat
  BY <1>1, BufferPoolAssumption DEF First, Holding
<1>5. \A g \in Frames :
        /\ frames'[g] \in Frame
        /\ frames'[g].pageNumber = frames[g].pageNumber
        /\ frames'[g].memPage = frames[g].memPage
        /\ frames'[g].dirty = frames[g].dirty
        /\ frames'[g].fix_cnt = IF g = f THEN frames[g].fix_cnt + 1
                                         ELSE frames[g].fix_cnt
  <2> DEFINE r == [frames[f] EXCEPT !.fix_cnt = frames[f].fix_cnt + 1,
                                    !.lruOrder = lruCounter + 1]
  <2>1. frames' = [frames EXCEPT ![f] = r]
    BY <1>1
  <2>2. /\ frames[f] \in Frame /\ lruCounter + 1 \in Nat
        /\ frames[f].fix_cnt + 1 \in Nat
    BY <1>3 DEF Frame
  <2>3. /\ r \in Frame
        /\ r.pageNumber = frames[f].pageNumber
        /\ r.memPage = frames[f].memPage
        /\ r.dirty = frames[f].dirty
        /\ r.fix_cnt = frames[f].fix_cnt + 1
    BY <2>2 DEF Frame
  <2> HIDE DEF r
  <2> QED
    BY <1>3, <2>1, <2>3
<1>6. frames' \in [Frames -> Frame]
  BY <1>1, <1>3, <1>5
<1>7. /\ handle' \in [Clients -> [page : Pages \cup {NO_PAGE},
                                  frame : Frames \cup {-1}, wrote : BOOLEAN]]
      /\ handle'[c].page = p /\ handle'[c].frame = f /\ ~handle'[c].wrote
      /\ \A x \in Clients \ {c} : handle'[x] = handle[x]
  BY <1>1, <1>3, GivenHandle
<1>8. Shape'
  <2>1. lruCounter' \in Nat
    BY <1>2, <1>3
  <2> QED
    BY <1>2, <1>3, <1>5, <1>6, <1>7, <2>1, SamePages
<1>9. ASSUME PinsRespected' PROVE PinsRespected
  BY <1>9 DEF PinsRespected
<1>10. PinCount'
  <2> SUFFICES ASSUME PinsRespected', NEW g \in Frames
               PROVE  frames'[g].fix_cnt =
                        Cardinality({x \in Clients : handle'[x].frame = g})
    BY DEF PinCount
  <2>1. \A x \in Frames : frames[x].fix_cnt = Cardinality(Holders(x))
    BY <1>9 DEF IInv, Service, PinCount, Holders
  <2>2. /\ {x \in Clients : handle'[x].frame = f} = Holders(f) \cup {c}
        /\ c \notin Holders(f) /\ IsFiniteSet(Holders(f))
        /\ \A x \in Frames \ {f} :
             {y \in Clients : handle'[y].frame = x} = Holders(x)
    BY <1>7, <1>9, GivenHolders
  <2>3. Cardinality(Holders(f) \cup {c}) = Cardinality(Holders(f)) + 1
    BY <2>2, FS_AddElement
  <2>4. CASE g = f
    BY <1>5, <2>1, <2>2, <2>3, <2>4
  <2>5. CASE g # f
    BY <1>5, <2>1, <2>2, <2>5
  <2> QED
    BY <2>4, <2>5
<1>11. HandleValid'
  <2> SUFFICES ASSUME PinsRespected', NEW x \in Clients
               PROVE  IF Held(x)'
                      THEN /\ handle'[x].frame \in Frames
                           /\ frames'[handle'[x].frame].pageNumber = handle'[x].page
                      ELSE handle'[x] = NoHandle
    BY DEF HandleValid
  <2>1. IF Held(x)
        THEN /\ handle[x].frame \in Frames
             /\ frames[handle[x].frame].pageNumber = handle[x].page
        ELSE handle[x] = NoHandle
    BY <1>9 DEF IInv, Service, HandleValid
  <2>2. CASE x = c
    BY <1>4, <1>5, <1>7, <2>2 DEF Held, NO_PAGE
  <2>3. CASE x # c
    BY <1>5, <1>7, <2>1, <2>3 DEF Held
  <2> QED
    BY <2>2, <2>3
<1>12. PoolCurrent'
  BY <1>5, <1>9 DEF IInv, Service, PoolCurrent
<1>13. DiskCurrent'
  <2> SUFFICES ASSUME PinsRespected', NEW q \in Pages,
                      logical[q] # Undef, ~Unsaved(q)'
               PROVE  q < Len(file) /\ file[q + 1] = logical[q]
    BY <1>2 DEF DiskCurrent
  <2>1. ~handle[c].wrote
    BY <1>9, NotHeld
  <2>2. ~Unsaved(q)
    BY <1>5, <1>7, <2>1 DEF Unsaved
  <2> QED
    BY <1>9, <2>2 DEF IInv, Service, DiskCurrent
<1> QED
  BY <1>8, <1>10, <1>11, <1>12, <1>13 DEF IInv, Service

\* A page goes into frame f, after the call has written the file to fl: the
\* frame's old page is in fl if it was dirty, and no client holds the frame as
\* long as pins are respected.
LEMMA LoadStep ==
  ASSUME IInv, NEW c \in Clients, NEW p \in Pages, ~Held(c), isInitialized_bp,
         NEW f \in Frames, ~Pooled(frames, p),
         NEW fl \in Seq(Data), Len(file) <= Len(fl),
         frames[f].pageNumber # NO_PAGE /\ frames[f].dirty
           => /\ frames[f].pageNumber < Len(fl)
              /\ fl[frames[f].pageNumber + 1] = frames[f].memPage,
         \A q \in Nat :
           q < Len(file) /\ (frames[f].pageNumber # q \/ ~frames[f].dirty)
             => q < Len(fl) /\ fl[q + 1] = file[q + 1],
         NEW order \in Nat, Load(f, p, fl, order), Give(c, p, f),
         PinsRespected => Holders(f) = {},
         lruCounter' \in Nat, rc' \in ReturnCodes,
         UNCHANGED <<isInitialized_bp, strategy, stratParam, logical>>
  PROVE  IInv'
<1> DEFINE mem == Got(Ensured(fl, p), p, frames[f].memPage)
           r == [pageNumber |-> p, memPage |-> mem, dirty |-> FALSE,
                 fix_cnt |-> 1, lruOrder |-> order]
<1>1. /\ Shape /\ TypeOK /\ frames \in [Frames -> Frame]
      /\ file \in Seq(Data) /\ Len(file) \in Nat /\ Len(fl) \in Nat
      /\ readFromDisk \in Frames
      /\ p \in Nat
  BY BufferPoolAssumption DEF IInv, Shape, TypeOK
<1>2. /\ file' = Ensured(fl, p)
      /\ frames' = [frames EXCEPT ![f] = r]
      /\ readFromDisk' = (readFromDisk + 1) % NumFrames
  BY DEF Load
<1>3. /\ file' \in Seq(Data) /\ Len(file') \in Nat
      /\ Len(fl) <= Len(file') /\ p <= Len(file')
      /\ \A q \in Nat : q < Len(fl) => file'[q + 1] = fl[q + 1]
  BY <1>1, <1>2, EnsuredFile
<1>4. mem \in Data
  <2>1. frames[f].memPage \in Data
    BY <1>1 DEF Frame
  <2> QED
    BY <1>1, <1>2, <1>3, <2>1, GotData
<1>5. r \in Frame /\ r.pageNumber = p /\ r.memPage = mem /\ ~r.dirty /\ r.fix_cnt = 1
  <2> HIDE DEF mem
  <2> QED
    BY <1>1, <1>4 DEF Frame
<1> HIDE DEF r
<1>6. /\ frames' \in [Frames -> Frame]
      /\ frames'[f] = r
      /\ \A g \in Frames \ {f} : frames'[g] = frames[g]
  BY <1>1, <1>2, <1>5
<1>7. \A g \in Frames : frames[g].pageNumber # p
  BY DEF Pooled, Holding
<1>8. /\ handle' \in [Clients -> [page : Pages \cup {NO_PAGE},
                                  frame : Frames \cup {-1}, wrote : BOOLEAN]]
      /\ handle'[c].page = p /\ handle'[c].frame = f /\ ~handle'[c].wrote
      /\ \A x \in Clients \ {c} : handle'[x] = handle[x]
  BY <1>1, GivenHandle
<1>9. Shape'
  <2>1. TypeOK'
    <3>1. readFromDisk' \in Frames
      BY <1>1, <1>2, NumFramesAssumption DEF Frames
    <3> QED
      BY <1>1, <1>3, <1>6, <1>8, <3>1 DEF TypeOK
  <2>2. NoDuplicatePage'
    BY <1>1, <1>5, <1>6, <1>7 DEF Shape, NoDuplicatePage
  <2>3. WriteBackInReach'
    <3> SUFFICES ASSUME NEW g \in Frames
                 PROVE  frames'[g].pageNumber <= Len(file')
      BY DEF WriteBackInReach
    <3>1. CASE g = f
      BY <1>3, <1>5, <1>6, <3>1
    <3>2. CASE g # f
      <4>1. frames[g].pageNumber <= Len(file) /\ frames[g].pageNumber \in Int
        BY <1>1 DEF Shape, WriteBackInReach, Frame, NO_PAGE
      <4> QED
        BY <1>1, <1>3, <1>6, <3>2, <4>1
    <3> QED
      BY <3>1, <3>2
  <2>4. DownClean'
    BY DEF DownClean
  <2> QED
    BY <2>1, <2>2, <2>3, <2>4 DEF Shape
<1>10. ASSUME PinsRespected' PROVE PinsRespected
  BY <1>10 DEF PinsRespected
<1>11. PinCount'
  <2> SUFFICES ASSUME PinsRespected', NEW g \in Frames
               PROVE  frames'[g].fix_cnt =
                        Cardinality({x \in Clients : handle'[x].frame = g})
    BY DEF PinCount
  <2>1. \A x \in Frames : frames[x].fix_cnt = Cardinality(Holders(x))
    BY <1>10 DEF IInv, Service, PinCount, Holders
  <2>2. /\ {x \in Clients : handle'[x].frame = f} = Holders(f) \cup {c}
        /\ \A x \in Frames \ {f} :
             {y \in Clients : handle'[y].frame = x} = Holders(x)
    BY <1>8, <1>10, GivenHolders
  <2>3. CASE g = f
    <3>1. {x \in Clients : handle'[x].frame = g} = {c}
      BY <1>10, <2>2, <2>3
    <3>2. Cardinality({c}) = 1
      BY FS_Singleton
    <3> QED
      BY <1>5, <1>6, <2>3, <3>1, <3>2
  <2>4. CASE g # f
    BY <1>6, <2>1, <2>2, <2>4
  <2> QED
    BY <2>3, <2>4
<1>12. HandleValid'
  <2> SUFFICES ASSUME PinsRespected', NEW x \in Clients
               PROVE  IF Held(x)'
                      THEN /\ handle'[x].frame \in Frames
                           /\ frames'[handle'[x].frame].pageNumber = handle'[x].page
                      ELSE handle'[x] = NoHandle
    BY DEF HandleValid
  <2>1. IF Held(x)
        THEN /\ handle[x].frame \in Frames
             /\ frames[handle[x].frame].pageNumber = handle[x].page
        ELSE handle[x] = NoHandle
    BY <1>10 DEF IInv, Service, HandleValid
  <2>2. CASE x = c
    BY <1>1, <1>5, <1>6, <1>8, <2>2 DEF Held, NO_PAGE
  <2>3. CASE x # c
    <3>1. handle[x].frame # f
      BY <1>10 DEF Holders
    <3> QED
      BY <1>6, <1>8, <2>1, <2>3, <3>1 DEF Held
  <2> QED
    BY <2>2, <2>3
<1>13. ASSUME PinsRespected, NEW q \in Pages, logical[q] # Undef, ~Unsaved(q)
       PROVE  q < Len(file') /\ file'[q + 1] = logical[q]
  <2>1. q \in Nat
    BY BufferPoolAssumption
  <2>2. q < Len(file) /\ file[q + 1] = logical[q]
    BY <1>13 DEF IInv, Service, DiskCurrent
  <2>3. frames[f].pageNumber # q \/ ~frames[f].dirty
    BY <1>13 DEF Unsaved
  <2>4. q < Len(fl) /\ fl[q + 1] = logical[q]
    BY <2>1, <2>2, <2>3
  <2> QED
    BY <1>1, <1>3, <2>1, <2>4
<1>14. ASSUME PinsRespected
       PROVE  ~Unsaved(p)
  <2>1. ASSUME NEW x \in Clients, handle[x].page = p PROVE FALSE
    <3>1. Held(x)
      BY <1>1, <2>1 DEF Held, NO_PAGE
    <3> QED
      BY <1>7, <1>14, <2>1, <3>1, HeldFrame
  <2> QED
    BY <1>7, <2>1 DEF Unsaved
<1>15. PoolCurrent'
  <2> SUFFICES ASSUME PinsRespected', NEW g \in Frames,
                      frames'[g].pageNumber \in Pages,
                      logical[frames'[g].pageNumber] # Undef
               PROVE  frames'[g].memPage = logical[frames'[g].pageNumber]
    BY DEF PoolCurrent
  <2>1. CASE g = f
    <3>1. logical[p] # Undef
      BY <1>5, <1>6, <2>1
    <3>2. p < Len(file') /\ file'[p + 1] = logical[p]
      BY <1>10, <1>13, <1>14, <3>1
    <3>3. mem = logical[p]
      BY <1>2, <3>2 DEF Got
    <3> QED
      BY <1>5, <1>6, <2>1, <3>3
  <2>2. CASE g # f
    BY <1>6, <1>10, <2>2 DEF IInv, Service, PoolCurrent
  <2> QED
    BY <2>1, <2>2
<1>16. DiskCurrent'
  <2> SUFFICES ASSUME PinsRespected', NEW q \in Pages,
                      logical[q] # Undef, ~Unsaved(q)'
               PROVE  q < Len(file') /\ file'[q + 1] = logical[q]
    BY DEF DiskCurrent
  <2>1. CASE ~Unsaved(q)
    BY <1>10, <1>13, <2>1
  <2>2. CASE Unsaved(q)
    <3>1. \A x \in Clients : ~(handle[x].page = q /\ handle[x].wrote)
      <4>1. ~handle[c].wrote
        BY <1>10, NotHeld
      <4> QED
        BY <1>8, <4>1 DEF Unsaved
    <3>2. PICK g \in Frames : frames[g].pageNumber = q /\ frames[g].dirty
      BY <2>2, <3>1 DEF Unsaved
    <3>3. g = f
      BY <1>6, <3>2 DEF Unsaved
    <3>4. frames[f].memPage = logical[q]
      BY <1>10, <3>2, <3>3 DEF IInv, Service, PoolCurrent
    <3>5. q \in Nat /\ q # NO_PAGE
      BY BufferPoolAssumption DEF NO_PAGE
    <3>6. q < Len(fl) /\ fl[q + 1] = logical[q]
      BY <3>2, <3>3, <3>4, <3>5
    <3> QED
      BY <1>1, <1>3, <3>5, <3>6
  <2> QED
    BY <2>1, <2>2
<1> QED
  BY <1>9, <1>11, <1>12, <1>15, <1>16 DEF IInv, Service

\* The page goes to a frame never used, which nobody can hold.
LEMMA PinFreeSlotStep ==
  ASSUME IInv, NEW c \in Clients, NEW p \in Pages, ~Held(c), isInitialized_bp,
         PinFreeSlot(c, p),
         UNCHANGED <<isInitialized_bp, strategy, stratParam, logical>>
  PROVE  IInv'
<1>1. PICK f \in Frames :
        /\ First(Holding(frames, NO_PAGE), f)
        /\ Load(f, p, file, frames[f].lruOrder)
        /\ Give(c, p, f)
  BY DEF PinFreeSlot
<1>2. /\ ~Pooled(frames, p) /\ rc' \in ReturnCodes /\ lruCounter' = lruCounter
  BY DEF PinFreeSlot, Return, ReturnCodes
<1>3. /\ file \in Seq(Data) /\ Len(file) \in Nat
      /\ lruCounter \in Nat /\ frames[f].lruOrder \in Nat
  BY DEF IInv, Shape, TypeOK, Frame
<1>4. frames[f].pageNumber = NO_PAGE
  BY <1>1 DEF First, Holding
<1>5. ASSUME PinsRespected PROVE Holders(f) = {}
  <2> SUFFICES ASSUME NEW x \in Clients, handle[x].frame = f PROVE FALSE
    BY DEF Holders
  <2>1. CASE Held(x)
    BY <1>4, <1>5, <2>1, HeldFrame
  <2>2. CASE ~Held(x)
    BY <1>5, <2>2, NotHeld, FramesNat
  <2> QED
    BY <2>1, <2>2
<1> QED
  BY <1>1, <1>2, <1>3, <1>4, <1>5, LoadStep

\* No client holds the frame a strategy takes, as long as pins are respected:
\* FIFO asks for a fix count of 0, and otherwise the one client asks itself.
LEMMA VictimUnheld ==
  ASSUME IInv, PinsRespected, isInitialized_bp, NEW c \in Clients, ~Held(c),
         NEW v \in Frames, Victim(v)
  PROVE  Holders(v) = {}
<1>1. CASE strategy = "RS_FIFO" /\ FIFOVictim(frames, readFromDisk, v)
  <2>1. frames[v].fix_cnt = 0
    BY <1>1 DEF FIFOVictim
  <2>2. Cardinality(Holders(v)) = 0
    BY <2>1 DEF IInv, Service, PinCount, Holders
  <2>3. IsFiniteSet(Holders(v))
    BY BufferPoolAssumption, FS_Subset DEF Holders
  <2> QED
    BY <2>2, <2>3, FS_EmptySet
<1>2. CASE strategy \in {"RS_LRU", "RS_LRU_K"}
  <2>1. \A x \in Clients : x = c
    BY <1>2 DEF PinsRespected
  <2>2. handle[c].frame = -1
    BY NotHeld
  <2> QED
    BY <2>1, <2>2, FramesNat DEF Holders
<1> QED
  BY <1>1, <1>2 DEF Victim

\* The page takes the victim's frame, once that is on disk.
LEMMA PinReplaceStep ==
  ASSUME IInv, NEW c \in Clients, NEW p \in Pages, ~Held(c), isInitialized_bp,
         PinReplace(c, p),
         UNCHANGED <<isInitialized_bp, strategy, stratParam, logical>>
  PROVE  IInv'
<1>1. PICK v \in Frames :
        /\ Victim(v)
        /\ Load(v, p,
                IF frames[v].dirty THEN WrittenBack(file, frames, {v}) ELSE file,
                lruCounter + 1)
        /\ Give(c, p, v)
  BY DEF PinReplace
<1> DEFINE fl == IF frames[v].dirty THEN WrittenBack(file, frames, {v}) ELSE file
<1>2. /\ ~Pooled(frames, p) /\ rc' \in ReturnCodes /\ lruCounter' = lruCounter + 1
  BY DEF PinReplace, Return, ReturnCodes
<1>3. /\ file \in Seq(Data) /\ Len(file) \in Nat /\ Shape
      /\ lruCounter \in Nat /\ lruCounter + 1 \in Nat
  BY DEF IInv, Shape, TypeOK
<1>4. /\ fl \in Seq(Data) /\ Len(file) <= Len(fl)
      /\ frames[v].pageNumber # NO_PAGE /\ frames[v].dirty
           => /\ frames[v].pageNumber < Len(fl)
              /\ fl[frames[v].pageNumber + 1] = frames[v].memPage
      /\ \A q \in Nat :
           q < Len(file) /\ (frames[v].pageNumber # q \/ ~frames[v].dirty)
             => q < Len(fl) /\ fl[q + 1] = file[q + 1]
  <2>1. CASE frames[v].dirty
    <3>1. {v} \in SUBSET Frames /\ fl = WrittenBack(file, frames, {v})
      BY <2>1
    <3> HIDE DEF fl
    <3> QED
      BY <1>3, <2>1, <3>1, WriteFrames
  <2>2. CASE ~frames[v].dirty
    BY <1>3, <2>2
  <2> QED
    BY <2>1, <2>2
<1>5. Load(v, p, fl, lruCounter + 1)
  BY <1>1
<1>6. PinsRespected => Holders(v) = {}
  BY <1>1, VictimUnheld
<1> HIDE DEF fl
<1> QED
  BY <1>1, <1>2, <1>3, <1>4, <1>5, <1>6, LoadStep

\* pinPage.
LEMMA PinPageStep ==
  ASSUME IInv, NEW c \in Clients, NEW p \in Pages, PinPage(c, p)
  PROVE  IInv'
<1>1. /\ ~Held(c) /\ isInitialized_bp
      /\ UNCHANGED <<isInitialized_bp, strategy, stratParam, logical>>
  BY DEF PinPage
<1>2. CASE PinHit(c, p)
  BY <1>1, <1>2, PinHitStep
<1>3. CASE PinFreeSlot(c, p)
  BY <1>1, <1>3, PinFreeSlotStep
<1>4. CASE PinReplace(c, p)
  BY <1>1, <1>4, PinReplaceStep
<1>5. CASE PinNoVictim(p)
  BY <1>1, <1>5, OnlyReturns DEF PinNoVictim, Unchanged_but_rc, Return, ReturnCodes
<1> QED
  BY <1>2, <1>3, <1>4, <1>5 DEF PinPage

-----------------------------------------------------------------------------

\* Every call keeps the invariant.
LEMMA NextInvariant == IInv /\ [Next]_vars => IInv'
<1> SUFFICES ASSUME IInv, [Next]_vars PROVE IInv'
  OBVIOUS
<1>1. CASE \E s \in Strategies, k \in StratParams : InitBufferPool(s, k)
  BY <1>1, InitBufferPoolStep
<1>2. CASE InitBufferPoolFails
  BY <1>2, OnlyReturns DEF InitBufferPoolFails, Return, ReturnCodes
<1>3. CASE ShutdownBufferPool
  BY <1>3, ShutdownStep
<1>4. CASE ForceFlushPool \/ \E p \in Pages : ForcePage(p)
  BY <1>4, FlushStep
<1>5. CASE PinRefused
  BY <1>5, OnlyReturns DEF PinRefused, Return, ReturnCodes
<1>6. CASE \E c \in Clients : MarkDirty(c)
  BY <1>6, MarkDirtyStep
<1>7. CASE \E c \in Clients : UnpinPage(c)
  BY <1>7, UnpinPageStep
<1>8. CASE \E c \in Clients, p \in Pages : PinPage(c, p)
  BY <1>8, PinPageStep
<1>9. CASE \E c \in Clients, d \in Data \ {ZeroBlock} : WritePage(c, d)
  BY <1>9, WritePageStep
<1>10. CASE UNCHANGED vars
  BY <1>10, OnlyReturns DEF vars, Unchanged_but_rc, IInv, Shape, TypeOK
<1> QED
  BY <1>1, <1>2, <1>3, <1>4, <1>5, <1>6, <1>7, <1>8, <1>9, <1>10 DEF Next

\* The state stays of its type.
THEOREM TypeCorrect == Spec => []TypeOK
<1>1. IInv => TypeOK
  BY DEF IInv, Shape
<1> QED
  BY InitInvariant, NextInvariant, <1>1, PTL DEF Spec

\* No page is ever in two frames, under any strategy.
THEOREM NeverDuplicate == Spec => []NoDuplicatePage
<1>1. IInv => NoDuplicatePage
  BY DEF IInv, Shape
<1> QED
  BY InitInvariant, NextInvariant, <1>1, PTL DEF Spec

\* No write-back of the pool is ever refused by the storage manager.
THEOREM AlwaysInReach == Spec => []WriteBackInReach
<1>1. IInv => WriteBackInReach
  BY DEF IInv, Shape
<1> QED
  BY InitInvariant, NextInvariant, <1>1, PTL DEF Spec

\* Fix counts are exact: no pin is dropped or left behind.
THEOREM PinsExact == Spec => []PinCount
<1>1. IInv => PinCount
  BY DEF IInv, Service
<1> QED
  BY InitInvariant, NextInvariant, <1>1, PTL DEF Spec

\* The memory a client holds stays the memory of its page.
THEOREM HandlesStayValid == Spec => []HandleValid
<1>1. IInv => HandleValid
  BY DEF IInv, Service
<1> QED
  BY InitInvariant, NextInvariant, <1>1, PTL DEF Spec

\* The pool never serves anything but what was last written to a page.
THEOREM PoolAlwaysCurrent == Spec => []PoolCurrent
<1>1. IInv => PoolCurrent
  BY DEF IInv, Service
<1> QED
  BY InitInvariant, NextInvariant, <1>1, PTL DEF Spec

\* What is not known to be unsaved is on disk: no write is ever lost by
\* replacement, flush or force.
THEOREM DiskAlwaysCurrent == Spec => []DiskCurrent
<1>1. IInv => DiskCurrent
  BY DEF IInv, Service
<1> QED
  BY InitInvariant, NextInvariant, <1>1, PTL DEF Spec

\* With no page held, what forceFlushPool writes is all there was to write.
LEMMA FlushSavesAll ==
  ASSUME IInv, PinsRespected, isInitialized_bp, \A c \in Clients : ~Held(c),
         NEW p \in Pages, logical[p] # Undef
  PROVE  /\ p < Len(WrittenBack(file, frames, FlushSet(frames)))
         /\ WrittenBack(file, frames, FlushSet(frames))[p + 1] = logical[p]
<1>1. Shape /\ p \in Nat
  BY BufferPoolAssumption DEF IInv
<1>2. \A f \in Frames : frames[f].fix_cnt = 0
  <2> TAKE f \in Frames
  <2>1. Holders(f) = {}
    BY NotHeld, FramesNat DEF Holders
  <2> QED
    BY <2>1, FS_EmptySet DEF IInv, Service, PinCount, Holders
<1>3. FlushSet(frames) = {f \in Frames : frames[f].dirty}
  <2>1. \A f \in Frames : \A g \in 0 .. f : g \in Frames
    BY NumFramesAssumption DEF Frames
  <2> QED
    BY <1>2, <2>1 DEF FlushSet
<1>4. CASE \E f \in Frames : frames[f].pageNumber = p /\ frames[f].dirty
  <2>1. PICK f \in FlushSet(frames) : frames[f].pageNumber = p
    BY <1>3, <1>4
  <2>2. FlushSet(frames) \in SUBSET Frames /\ f \in Frames
    BY DEF FlushSet
  <2>3. frames[f].memPage = logical[p]
    BY <2>1, <2>2 DEF IInv, Service, PoolCurrent
  <2>4. p # NO_PAGE
    BY <1>1 DEF NO_PAGE
  <2> QED
    BY <1>1, <2>1, <2>2, <2>3, <2>4, WriteFrames
<1>5. CASE \A f \in Frames : frames[f].pageNumber = p => ~frames[f].dirty
  <2>1. ~Unsaved(p)
    BY <1>5, NotHeld DEF Unsaved
  <2>2. p < Len(file) /\ file[p + 1] = logical[p]
    BY <2>1 DEF IInv, Service, DiskCurrent
  <2>3. /\ FlushSet(frames) \in SUBSET Frames
        /\ \A f \in FlushSet(frames) : frames[f].pageNumber # p
    BY <1>3, <1>5
  <2> QED
    BY <1>1, <2>2, <2>3, WriteFrames
<1> QED
  BY <1>4, <1>5

\* Shutting down a pool of which nobody holds a page writes every page that
\* had changed.
THEOREM ShutdownLosesNothing == Spec => ShutdownSaves
<1>1. ASSUME IInv, ShutdownBufferPool, PinsRespected, isInitialized_bp,
             \A c \in Clients : ~Held(c),
             NEW p \in Pages, logical[p] # Undef
      PROVE  p < Len(file') /\ file'[p + 1] = logical[p]
  <2>1. file' = WrittenBack(file, frames, FlushSet(frames))
    BY <1>1 DEF ShutdownBufferPool
  <2> QED
    BY <1>1, <2>1, FlushSavesAll
<1>2. ASSUME IInv, ShutdownBufferPool, PinsRespected, ~isInitialized_bp,
             \A c \in Clients : ~Held(c),
             NEW p \in Pages, logical[p] # Undef
      PROVE  p < Len(file') /\ file'[p + 1] = logical[p]
  <2>1. ~Unsaved(p)
    BY <1>2, NotHeld, BufferPoolAssumption DEF Unsaved, IInv, Shape, DownClean, NO_PAGE
  <2>2. file' = file
    BY <1>2 DEF ShutdownBufferPool, Unchanged_but_rc
  <2> QED
    BY <1>2, <2>1, <2>2 DEF IInv, Service, DiskCurrent
<1>3. IInv /\ [Next]_vars
        => [ShutdownBufferPool /\ PinsRespected /\ (\A c \in Clients : ~Held(c))
              => \A p \in Pages : logical[p] # Undef
                   => p < Len(file') /\ file'[p + 1] = logical[p]]_vars
  BY <1>1, <1>2
<1> QED
  BY InitInvariant, NextInvariant, <1>3, PTL DEF Spec, ShutdownSaves

\* A flush that returns RC_OK found no pin, so it wrote every page that had
\* changed.
THEOREM FlushOkLosesNothing == Spec => FlushOkSaves
<1>1. ASSUME IInv, isInitialized_bp, ForceFlushPool, rc' = "RC_OK",
             PinsRespected, NEW p \in Pages, logical[p] # Undef
      PROVE  p < Len(file') /\ file'[p + 1] = logical[p]
  <2>1. /\ file' = WrittenBack(file, frames, FlushSet(frames))
        /\ \A f \in Frames : frames[f].fix_cnt = 0
    BY <1>1 DEF ForceFlushPool, Return
  <2>2. ASSUME NEW c \in Clients, Held(c) PROVE FALSE
    <3> DEFINE f == handle[c].frame
    <3>1. f \in Frames /\ c \in Holders(f)
      BY <1>1, <2>2, HeldFrame DEF Holders
    <3>2. Cardinality(Holders(f)) = 0
      BY <1>1, <2>1, <3>1 DEF IInv, Service, PinCount, Holders
    <3>3. IsFiniteSet(Holders(f))
      BY BufferPoolAssumption, FS_Subset DEF Holders
    <3> QED
      BY <3>1, <3>2, <3>3, FS_EmptySet
  <2> QED
    BY <1>1, <2>1, <2>2, FlushSavesAll
<1>2. IInv /\ [Next]_vars
        => [isInitialized_bp /\ ForceFlushPool /\ rc' = "RC_OK" /\ PinsRespected
              => \A p \in Pages : logical[p] # Undef
                   => p < Len(file') /\ file'[p + 1] = logical[p]]_vars
  BY <1>1
<1> QED
  BY InitInvariant, NextInvariant, <1>2, PTL DEF Spec, FlushOkSaves

-----------------------------------------------------------------------------
(***************************************************************************)
(* The refinement of PageStore by the buffer pool.  The inductive invariant*)
(* is the one above; what is new is what a write-back and the blocks of    *)
(* ensureCapacity do to the disk as PageStore sees it, and what the clients*)
(* of other pages see meanwhile.                                           *)
(***************************************************************************)

\* The file fl as what SomeSaved allows.
SavedTo(fl) ==
  /\ Contents(fl) \in [Pages -> Data \cup {Undef}]
  /\ \A p \in Pages :
       logical[p] # Undef
         => \/ Contents(fl)[p] \in {Contents(file)[p], logical[p]}
            \/ Contents(file)[p] = Undef /\ Contents(fl)[p] = ZeroBlock

-----------------------------------------------------------------------------

\* The disk always shows contents or nothing.
LEMMA ContentsType ==
  ASSUME NEW fl \in Seq(Data)
  PROVE  /\ Contents(fl) \in [Pages -> Data \cup {Undef}]
         /\ \A p \in Pages :
              /\ p \in Nat
              /\ p < Len(fl) => Contents(fl)[p] = fl[p + 1]
              /\ p >= Len(fl) => Contents(fl)[p] = Undef
<1>1. Len(fl) \in Nat /\ Pages \subseteq Nat
  BY BufferPoolAssumption
<1> QED
  BY <1>1 DEF Contents

\* A write-back makes the file longer only by a page it writes.
LEMMA WrittenBackLength ==
  ASSUME NEW fl \in Seq(Data), NEW fr, NEW S, NEW p \in Nat,
         p >= Len(fl), p < Len(WrittenBack(fl, fr, S))
  PROVE  \E f \in S : fr[f].pageNumber = p
<1> DEFINE Saved(q) == {f \in S : fr[f].pageNumber = q}
           n == IF Saved(Len(fl)) # {} THEN Len(fl) + 1 ELSE Len(fl)
<1>1. n \in Nat /\ Len(fl) \in Nat
  OBVIOUS
<1>2. Len(WrittenBack(fl, fr, S)) = n
  BY <1>1 DEF WrittenBack
<1>3. p = Len(fl) /\ Saved(Len(fl)) # {}
  BY <1>1, <1>2
<1> QED
  BY <1>3

\* Writing frames back changes only pages the pool has right, on the disk as
\* PageStore sees it.
LEMMA WrittenBackSaves ==
  ASSUME IInv, PinsRespected, NEW S \in SUBSET Frames, NEW p \in Pages,
         logical[p] # Undef
  PROVE  Contents(WrittenBack(file, frames, S))[p]
           \in {Contents(file)[p], logical[p]}
<1> DEFINE fl == WrittenBack(file, frames, S)
<1>1. /\ Shape /\ file \in Seq(Data) /\ p \in Nat /\ p # NO_PAGE
      /\ Len(file) \in Nat
  BY BufferPoolAssumption DEF IInv, Shape, TypeOK, NO_PAGE
<1>2. fl \in Seq(Data) /\ Len(file) <= Len(fl) /\ Len(fl) \in Nat
  BY <1>1, WriteFrames
<1>3. CASE \E f \in S : frames[f].pageNumber = p
  <2>1. PICK f \in S : frames[f].pageNumber = p
    BY <1>3
  <2>2. frames[f].memPage = logical[p]
    BY <2>1 DEF IInv, Service, PoolCurrent
  <2>3. p < Len(fl) /\ fl[p + 1] = logical[p]
    BY <1>1, <2>1, <2>2, WriteFrames
  <2> QED
    BY <1>2, <2>3, ContentsType
<1>4. CASE ~\E f \in S : frames[f].pageNumber = p
  <2>1. CASE p < Len(file)
    <3>1. p < Len(fl) /\ fl[p + 1] = file[p + 1]
      BY <1>1, <1>4, <2>1, WriteFrames
    <3> QED
      BY <1>1, <1>2, <2>1, <3>1, ContentsType
  <2>2. CASE p >= Len(file)
    <3>1. p >= Len(fl)
      BY <1>1, <1>2, <1>4, <2>2, WrittenBackLength
    <3> QED
      BY <1>1, <1>2, <2>2, <3>1, ContentsType
  <2> QED
    BY <1>1, <2>1, <2>2
<1> QED
  BY <1>3, <1>4

\* So a write-back is what SomeSaved allows,
LEMMA WriteBackIsSave ==
  ASSUME IInv, PinsRespected, NEW S \in SUBSET Frames
  PROVE  SavedTo(WrittenBack(file, frames, S))
<1>1. WrittenBack(file, frames, S) \in Seq(Data)
  BY WriteFrames DEF IInv
<1> QED
  BY <1>1, ContentsType, WrittenBackSaves DEF SavedTo

\* and so is one followed by the blocks a load appends.
LEMMA LoadIsSave ==
  ASSUME IInv, PinsRespected, NEW fl \in Seq(Data), NEW q \in Pages,
         Len(file) <= Len(fl),
         \A p \in Pages : logical[p] # Undef
           => Contents(fl)[p] \in {Contents(file)[p], logical[p]}
  PROVE  SavedTo(Ensured(fl, q))
<1> DEFINE k == Shortfall(Len(fl), q)
           new == Grown(fl, k)
<1>1. /\ file \in Seq(Data) /\ Len(file) \in Nat /\ Len(fl) \in Nat /\ q \in Nat
  BY BufferPoolAssumption DEF IInv, Shape, TypeOK
<1>2. k \in Nat
  BY <1>1, ShortfallBound
<1> HIDE DEF k
<1>3. new \in Seq(Data) /\ Len(new) = Len(fl) + k
  BY <1>2, GrownFile
<1>4. ASSUME NEW p \in Pages, logical[p] # Undef
      PROVE  \/ Contents(new)[p] \in {Contents(file)[p], logical[p]}
             \/ Contents(file)[p] = Undef /\ Contents(new)[p] = ZeroBlock
  <2>1. p \in Nat
    BY BufferPoolAssumption
  <2>2. CASE p < Len(fl)
    <3>1. new[p + 1] = fl[p + 1] /\ p < Len(fl) + k
      BY <1>1, <1>2, <2>1, <2>2 DEF Grown
    <3>2. Contents(new)[p] = Contents(fl)[p]
      BY <1>3, <2>2, <3>1, ContentsType
    <3> QED
      BY <1>4, <3>2
  <2>3. CASE p >= Len(fl) /\ p < Len(fl) + k
    <3>1. new[p + 1] = ZeroBlock
      BY <1>1, <1>2, <2>1, <2>3 DEF Grown
    <3>2. Contents(new)[p] = ZeroBlock
      BY <1>3, <2>3, <3>1, ContentsType
    <3>3. Contents(file)[p] = Undef
      BY <1>1, <2>1, <2>3, ContentsType
    <3> QED
      BY <3>2, <3>3
  <2>4. CASE p >= Len(fl) + k
    <3>1. Contents(new)[p] = Undef
      BY <1>3, <2>4, ContentsType
    <3>2. Contents(file)[p] = Undef
      BY <1>1, <1>2, <2>1, <2>4, ContentsType
    <3> QED
      BY <3>1, <3>2
  <2> QED
    BY <1>1, <1>2, <2>1, <2>2, <2>3, <2>4
<1>5. Contents(new) \in [Pages -> Data \cup {Undef}]
  BY <1>3, ContentsType
<1> QED
  BY <1>4, <1>5 DEF SavedTo, Ensured, k

\* SavedTo of the new file is SomeSaved of PageStore.
LEMMA SavedIsSomeSaved ==
  ASSUME SavedTo(file')
  PROVE  Store!SomeSaved
BY DEF SavedTo, Store!SomeSaved, Store!Persist, Contents

-----------------------------------------------------------------------------

\* A step that changes nothing PageStore sees.
LEMMA Unseen ==
  ASSUME UNCHANGED <<isInitialized_bp, logical, file, handle>>,
         \A c \in Clients : Held(c) =>
           frames'[handle[c].frame].memPage = frames[handle[c].frame].memPage
  PROVE  UNCHANGED Store!storeVars
<1>1. Shown' = Shown
  BY DEF Shown, Held
<1> QED
  BY <1>1 DEF Store!storeVars, Contents

\* A flush or a force is a Save.
LEMMA FlushRefines ==
  ASSUME IInv, PinsRespected, NEW S \in SUBSET Frames,
         file' = WrittenBack(file, frames, S),
         frames' = Cleaned(frames, S),
         UNCHANGED <<isInitialized_bp, logical, handle>>
  PROVE  Store!Save
<1>1. Store!SomeSaved
  BY WriteBackIsSave, SavedIsSomeSaved
<1>2. \A f \in Frames : frames'[f].memPage = frames[f].memPage
  BY CleanedFrames DEF IInv, Shape
<1>3. \A c \in Clients : Held(c) => handle[c].frame \in Frames
  BY HeldFrame
<1>4. Shown' = Shown
  BY <1>2, <1>3 DEF Shown, Held
<1> QED
  BY <1>1, <1>4 DEF Store!Save

\* A shutdown is a Stop: it saves everything when no page is held.
LEMMA ShutdownRefines ==
  ASSUME IInv, PinsRespected, ShutdownBufferPool
  PROVE  Store!Stop \/ UNCHANGED Store!storeVars
<1>1. CASE ~isInitialized_bp
  BY <1>1, Unseen DEF ShutdownBufferPool, Unchanged_but_rc
<1>2. CASE isInitialized_bp
  <2>1. /\ isInitialized_bp' = FALSE
        /\ file' = WrittenBack(file, frames, FlushSet(frames))
        /\ handle' = [c \in Clients |-> NoHandle]
        /\ logical' = Contents(file')
    BY <1>2 DEF ShutdownBufferPool
  <2>2. FlushSet(frames) \in SUBSET Frames
    BY DEF FlushSet
  <2>3. Store!SomeSaved
    BY <2>1, <2>2, WriteBackIsSave, SavedIsSomeSaved
  <2>4. \A c \in Clients : handle'[c] = NoHandle /\ ~Held(c)'
    BY <2>1 DEF Held, NoHandle
  <2>5. /\ [c \in Clients |-> handle[c].page]' = Store!NoPins
        /\ Shown' = Store!Nothing
    BY <2>4 DEF NoHandle, Shown, Store!NoPins, Store!Nothing
  <2>6. ASSUME [c \in Clients |-> handle[c].page] = Store!NoPins,
               NEW p \in Pages
        PROVE  Store!Durable(p)
    <3>1. \A c \in Clients : ~Held(c)
      BY <2>6 DEF Store!NoPins, Held
    <3>2. SUFFICES ASSUME logical[p] # Undef PROVE Contents(file)'[p] = logical[p]
      BY DEF Store!Durable
    <3>3. p < Len(file') /\ file'[p + 1] = logical[p]
      BY <1>2, <2>1, <3>1, <3>2, FlushSavesAll
    <3> QED
      BY <3>3 DEF Contents
  <2>7. logical' = Contents(file)'
    BY <2>1 DEF Contents
  <2> QED
    BY <1>2, <2>1, <2>3, <2>5, <2>6, <2>7 DEF Store!Stop
<1> QED
  BY <1>1, <1>2

\* A client that stores into its frame is seen by the clients of its page, who
\* hold the same frame, and by nobody else.
LEMMA WriteRefines ==
  ASSUME IInv, PinsRespected, NEW c \in Clients, NEW d \in Data, WritePage(c, d)
  PROVE  Store!Write(c, d)
<1> DEFINE f == handle[c].frame
<1>1. /\ Held(c)
      /\ frames' = [frames EXCEPT ![f].memPage = d]
      /\ handle' = [handle EXCEPT ![c].wrote = TRUE]
      /\ logical' = [logical EXCEPT ![handle[c].page] = d]
      /\ UNCHANGED <<isInitialized_bp, file>>
  BY DEF WritePage
<1>2. /\ f \in Frames /\ frames \in [Frames -> Frame]
      /\ handle \in [Clients -> [page : Pages \cup {NO_PAGE},
                                 frame : Frames \cup {-1}, wrote : BOOLEAN]]
  BY <1>1, HeldFrame DEF IInv, Shape, TypeOK
<1>3. \A e \in Clients : handle'[e].page = handle[e].page
                         /\ handle'[e].frame = handle[e].frame
  BY <1>1, <1>2
<1>4. \A g \in Frames : frames'[g].memPage = IF g = f THEN d ELSE frames[g].memPage
  BY <1>1, <1>2 DEF Frame
<1>5. ASSUME NEW e \in Clients
      PROVE  Shown'[e] = IF handle[e].page = handle[c].page THEN d ELSE Shown[e]
  <2>1. CASE ~Held(e)
    BY <1>1, <1>3, <2>1 DEF Shown, Held
  <2>2. CASE Held(e)
    <3>1. /\ handle[e].frame \in Frames
          /\ handle[e].frame = f <=> handle[e].page = handle[c].page
      BY <1>1, <2>2, HeldFrame
    <3> QED
      BY <1>3, <1>4, <2>2, <3>1 DEF Shown, Held
  <2> QED
    BY <2>1, <2>2
<1>6. Shown' = [e \in Clients |-> IF handle[e].page = handle[c].page THEN d
                                   ELSE Shown[e]]
  BY <1>5 DEF Shown
<1>7. [e \in Clients |-> handle[e].page]' = [e \in Clients |-> handle[e].page]
  BY <1>3
<1>8. Contents(file)' = Contents(file)
  BY <1>1
<1> QED
  BY <1>1, <1>6, <1>7, <1>8 DEF Store!Write, Held

\* markDirty is nothing PageStore sees.
LEMMA MarkDirtyRefines ==
  ASSUME IInv, PinsRespected, NEW c \in Clients, MarkDirty(c)
  PROVE  UNCHANGED Store!storeVars
<1>1. /\ frames \in [Frames -> Frame]
      /\ handle \in [Clients -> [page : Pages \cup {NO_PAGE},
                                 frame : Frames \cup {-1}, wrote : BOOLEAN]]
  BY DEF IInv, Shape, TypeOK
<1>2. \A f \in Frames : frames'[f].memPage = frames[f].memPage
  BY <1>1 DEF MarkDirty, Frame
<1>3. \A e \in Clients : /\ handle'[e].page = handle[e].page
                         /\ handle'[e].frame = handle[e].frame
  BY <1>1 DEF MarkDirty
<1>4. \A e \in Clients : Held(e) => handle[e].frame \in Frames
  BY HeldFrame
<1>5. Shown' = Shown
  BY <1>2, <1>3, <1>4 DEF Shown, Held
<1>6. [e \in Clients |-> handle[e].page]' = [e \in Clients |-> handle[e].page]
  BY <1>3
<1>7. UNCHANGED <<isInitialized_bp, logical, file>>
  BY DEF MarkDirty
<1> QED
  BY <1>5, <1>6, <1>7 DEF Store!storeVars, Contents

\* unpinPage takes one client's view away and leaves the others theirs.
LEMMA UnpinRefines ==
  ASSUME IInv, PinsRespected, NEW c \in Clients, UnpinPage(c)
  PROVE  Store!Unpin(c)
<1>1. /\ Held(c)
      /\ handle' = [handle EXCEPT ![c] = NoHandle]
      /\ UNCHANGED <<isInitialized_bp, file, logical>>
  BY DEF UnpinPage
<1>2. /\ frames \in [Frames -> Frame]
      /\ handle \in [Clients -> [page : Pages \cup {NO_PAGE},
                                 frame : Frames \cup {-1}, wrote : BOOLEAN]]
  BY DEF IInv, Shape, TypeOK
<1>3. \A f \in Frames : frames'[f].memPage = frames[f].memPage
  BY <1>2 DEF UnpinPage, Frame
<1>4. /\ handle'[c] = NoHandle
      /\ \A e \in Clients \ {c} : handle'[e] = handle[e]
  BY <1>1, <1>2
<1>5. \A e \in Clients : Held(e) => handle[e].frame \in Frames
  BY HeldFrame
<1>6. Shown' = [Shown EXCEPT ![c] = Undef]
  <2>1. ~Held(c)'
    BY <1>4 DEF Held, NoHandle
  <2>2. Shown'[c] = Undef
    BY <2>1 DEF Shown
  <2>3. ASSUME NEW e \in Clients, e # c PROVE Shown'[e] = Shown[e]
    BY <1>3, <1>4, <1>5, <2>3 DEF Shown, Held
  <2> QED
    BY <2>2, <2>3 DEF Shown
<1>7. [e \in Clients |-> handle[e].page]'
        = [[e \in Clients |-> handle[e].page] EXCEPT ![c] = NO_PAGE]
  <2>1. handle'[c].page = NO_PAGE
    BY <1>4 DEF NoHandle
  <2> QED
    BY <1>4, <2>1
<1>8. Contents(file)' = Contents(file)
  BY <1>1
<1> QED
  BY <1>1, <1>6, <1>7, <1>8 DEF Store!Unpin, Held

-----------------------------------------------------------------------------

\* A pin that succeeds, whatever frame f it took: the frames other clients
\* hold keep their memory, and what they see of the page is what c sees.
LEMMA GivenRefines ==
  ASSUME IInv, PinsRespected, IInv', PinsRespected',
         NEW c \in Clients, NEW p \in Pages, NEW f \in Frames,
         ~Held(c), isInitialized_bp, Give(c, p, f),
         UNCHANGED <<isInitialized_bp, logical>>,
         SavedTo(file'),
         \A e \in Clients : Held(e) =>
           /\ frames'[handle[e].frame].memPage = frames[handle[e].frame].memPage
           /\ handle[e].page = p => handle[e].frame = f
  PROVE  Store!Pin(c, p)
<1> DEFINE d == frames'[f].memPage
<1>1. /\ handle' \in [Clients -> [page : Pages \cup {NO_PAGE},
                                  frame : Frames \cup {-1}, wrote : BOOLEAN]]
      /\ handle'[c].page = p /\ handle'[c].frame = f
      /\ \A x \in Clients \ {c} : handle'[x] = handle[x]
  BY GivenHandle DEF IInv, Shape
<1>2. p # NO_PAGE
  BY BufferPoolAssumption DEF NO_PAGE
<1>3. Held(c)'
  BY <1>1, <1>2 DEF Held
<1>4. /\ d \in Data /\ frames'[f].pageNumber = p
      /\ logical[p] # Undef => d = logical[p]
  <2>1. frames' \in [Frames -> Frame]
    BY DEF IInv, Shape, TypeOK
  <2>2. frames'[f].pageNumber = p
    BY <1>1, <1>3 DEF IInv, Service, HandleValid
  <2>3. logical[p] # Undef => frames'[f].memPage = logical[p]
    BY <2>2 DEF IInv, Service, PoolCurrent
  <2> QED
    BY <2>1, <2>2, <2>3 DEF Frame
<1>5. ASSUME NEW e \in Clients, handle[e].page = p PROVE Shown[e] = d
  BY <1>2, <1>5 DEF Shown, Held
<1>6. Shown' = [Shown EXCEPT ![c] = d]
  <2>1. ASSUME NEW e \in Clients, e # c PROVE Shown'[e] = Shown[e]
    BY <1>1, <2>1 DEF Shown, Held
  <2>2. Shown'[c] = d
    BY <1>1, <1>3 DEF Shown
  <2> QED
    BY <2>1, <2>2 DEF Shown
<1>7. [e \in Clients |-> handle[e].page]'
        = [[e \in Clients |-> handle[e].page] EXCEPT ![c] = p]
  BY <1>1
<1>8. Store!SomeSaved
  BY SavedIsSomeSaved
<1>9. handle[c].page = NO_PAGE
  BY DEF Held
<1> HIDE DEF d
<1> QED
  BY <1>4, <1>5, <1>6, <1>7, <1>8, <1>9 DEF Store!Pin

\* A load takes a frame nobody holds, for a page nobody holds.
LEMMA LoadRefines ==
  ASSUME IInv, PinsRespected, IInv', PinsRespected',
         NEW c \in Clients, NEW p \in Pages, NEW f \in Frames,
         NEW fl \in Seq(Data), NEW order,
         ~Held(c), isInitialized_bp, ~Pooled(frames, p), Holders(f) = {},
         Load(f, p, fl, order), Give(c, p, f),
         UNCHANGED <<isInitialized_bp, logical>>,
         Len(file) <= Len(fl),
         \A q \in Pages : logical[q] # Undef
           => Contents(fl)[q] \in {Contents(file)[q], logical[q]}
  PROVE  Store!Pin(c, p)
<1>1. file' = Ensured(fl, p)
  BY DEF Load
<1>2. SavedTo(file')
  BY <1>1, LoadIsSave
<1>3. \A g \in Frames \ {f} : frames'[g] = frames[g]
  BY DEF Load, IInv, Shape, TypeOK
<1>4. ASSUME NEW e \in Clients, Held(e)
      PROVE  /\ frames'[handle[e].frame].memPage = frames[handle[e].frame].memPage
             /\ handle[e].page # p
  <2>1. handle[e].frame \in Frames \ {f}
    BY <1>4, HeldFrame DEF Holders
  <2>2. frames[handle[e].frame].pageNumber = handle[e].page
    BY <1>4, HeldFrame
  <2> QED
    BY <1>3, <2>1, <2>2 DEF Pooled, Holding
<1> QED
  BY <1>2, <1>4, GivenRefines

\* pinPage of a pooled page.
LEMMA PinHitRefines ==
  ASSUME IInv, PinsRespected, IInv', PinsRespected',
         NEW c \in Clients, NEW p \in Pages, ~Held(c), isInitialized_bp,
         PinHit(c, p), UNCHANGED <<isInitialized_bp, logical>>
  PROVE  Store!Pin(c, p)
<1>1. PICK f \in Frames :
        /\ First(Holding(frames, p), f)
        /\ frames' = [frames EXCEPT ![f].fix_cnt = @ + 1,
                                    ![f].lruOrder = lruCounter + 1]
        /\ Give(c, p, f)
  BY DEF PinHit
<1>2. /\ frames[f].pageNumber = p /\ file' = file
      /\ frames \in [Frames -> Frame] /\ file \in Seq(Data)
  BY <1>1 DEF First, Holding, PinHit, IInv, Shape, TypeOK
<1>3. \A g \in Frames : frames'[g].memPage = frames[g].memPage
  BY <1>1, <1>2 DEF Frame
<1>4. ASSUME NEW e \in Clients, Held(e)
      PROVE  /\ frames'[handle[e].frame].memPage = frames[handle[e].frame].memPage
             /\ handle[e].page = p => handle[e].frame = f
  BY <1>2, <1>3, <1>4, HeldFrame
<1>5. SavedTo(file')
  BY <1>2, ContentsType DEF SavedTo
<1> QED
  BY <1>1, <1>4, <1>5, GivenRefines

\* pinPage into a frame never used: nobody holds it.
LEMMA PinFreeSlotRefines ==
  ASSUME IInv, PinsRespected, IInv', PinsRespected',
         NEW c \in Clients, NEW p \in Pages, ~Held(c), isInitialized_bp,
         PinFreeSlot(c, p), UNCHANGED <<isInitialized_bp, logical>>
  PROVE  Store!Pin(c, p)
<1>1. PICK f \in Frames :
        /\ First(Holding(frames, NO_PAGE), f)
        /\ Load(f, p, file, frames[f].lruOrder)
        /\ Give(c, p, f)
  BY DEF PinFreeSlot
<1>2. ~Pooled(frames, p) /\ file \in Seq(Data) /\ Len(file) <= Len(file)
  BY DEF PinFreeSlot, IInv, Shape, TypeOK
<1>3. frames[f].pageNumber = NO_PAGE
  BY <1>1 DEF First, Holding
<1>4. Holders(f) = {}
  <2> SUFFICES ASSUME NEW x \in Clients, handle[x].frame = f PROVE FALSE
    BY DEF Holders
  <2>1. CASE Held(x)
    BY <1>3, <2>1, HeldFrame
  <2>2. CASE ~Held(x)
    BY <2>2, NotHeld, FramesNat
  <2> QED
    BY <2>1, <2>2
<1> DEFINE order == frames[f].lruOrder
<1>5. Load(f, p, file, order)
  BY <1>1
<1> HIDE DEF order
<1> QED
  BY <1>1, <1>2, <1>4, <1>5, LoadRefines

\* pinPage into a victim's frame, which the strategy took from nobody.
LEMMA PinReplaceRefines ==
  ASSUME IInv, PinsRespected, IInv', PinsRespected',
         NEW c \in Clients, NEW p \in Pages, ~Held(c), isInitialized_bp,
         PinReplace(c, p), UNCHANGED <<isInitialized_bp, logical>>
  PROVE  Store!Pin(c, p)
<1>1. PICK v \in Frames :
        /\ Victim(v)
        /\ Load(v, p,
                IF frames[v].dirty THEN WrittenBack(file, frames, {v}) ELSE file,
                lruCounter + 1)
        /\ Give(c, p, v)
  BY DEF PinReplace
<1> DEFINE fl == IF frames[v].dirty THEN WrittenBack(file, frames, {v}) ELSE file
           order == lruCounter + 1
<1>2. /\ ~Pooled(frames, p) /\ Shape /\ file \in Seq(Data)
      /\ Len(file) <= Len(file) /\ {v} \in SUBSET Frames
  BY DEF PinReplace, IInv, Shape, TypeOK
<1>3. /\ fl \in Seq(Data) /\ Len(file) <= Len(fl)
      /\ \A q \in Pages : logical[q] # Undef
           => Contents(fl)[q] \in {Contents(file)[q], logical[q]}
  <2>1. CASE frames[v].dirty
    <3>1. fl = WrittenBack(file, frames, {v})
      BY <2>1
    <3> HIDE DEF fl
    <3>2. fl \in Seq(Data) /\ Len(file) <= Len(fl)
      BY <1>2, <3>1, WriteFrames
    <3>3. \A q \in Pages : logical[q] # Undef
            => Contents(fl)[q] \in {Contents(file)[q], logical[q]}
      BY <1>2, <3>1, WrittenBackSaves
    <3> QED
      BY <3>2, <3>3
  <2>2. CASE ~frames[v].dirty
    BY <1>2, <2>2
  <2> QED
    BY <2>1, <2>2
<1>4. Load(v, p, fl, order)
  BY <1>1
<1>5. Holders(v) = {}
  BY <1>1, VictimUnheld
<1> HIDE DEF fl, order
<1> QED
  BY <1>1, <1>2, <1>3, <1>4, <1>5, LoadRefines

\* pinPage.
LEMMA PinPageRefines ==
  ASSUME IInv, PinsRespected, IInv', PinsRespected',
         NEW c \in Clients, NEW p \in Pages, PinPage(c, p)
  PROVE  Store!Pin(c, p) \/ UNCHANGED Store!storeVars
<1>1. ~Held(c) /\ isInitialized_bp /\ UNCHANGED <<isInitialized_bp, logical>>
  BY DEF PinPage
<1>2. CASE PinHit(c, p)
  BY <1>1, <1>2, PinHitRefines
<1>3. CASE PinFreeSlot(c, p)
  BY <1>1, <1>3, PinFreeSlotRefines
<1>4. CASE PinReplace(c, p)
  BY <1>1, <1>4, PinReplaceRefines
<1>5. CASE PinNoVictim(p)
  BY <1>1, <1>5, Unseen DEF PinNoVictim
<1> QED
  BY <1>2, <1>3, <1>4, <1>5 DEF PinPage

-----------------------------------------------------------------------------

\* The pool starts as PageStore does.
LEMMA InitRefines == Init => Store!Init
<1> SUFFICES ASSUME Init PROVE Store!Init
  OBVIOUS
<1>1. \A c \in Clients : handle[c].page = NO_PAGE /\ ~Held(c)
  BY DEF Init, NoHandle, Held
<1>2. [c \in Clients |-> handle[c].page] = Store!NoPins
  BY <1>1 DEF Store!NoPins
<1>3. Shown = Store!Nothing
  BY <1>1 DEF Shown, Store!Nothing
<1>4. logical \in [Pages -> Data \cup {Undef}]
  BY BufferPoolAssumption, ContentsType DEF Init
<1>5. Contents(file) = logical
  BY DEF Init
<1> QED
  BY <1>2, <1>3, <1>4, <1>5 DEF Init, Store!Init

\* initBufferPool starts a pool that is down, or does nothing.
LEMMA InitBufferPoolRefines ==
  ASSUME IInv, PinsRespected,
         NEW s \in Strategies, NEW k \in StratParams, InitBufferPool(s, k)
  PROVE  Store!Start \/ UNCHANGED Store!storeVars
<1>1. CASE isInitialized_bp
  BY <1>1, Unseen DEF InitBufferPool, Unchanged_but_rc
<1>2. CASE ~isInitialized_bp
  <2>1. isInitialized_bp' = TRUE /\ UNCHANGED <<file, handle, logical>>
    BY <1>2 DEF InitBufferPool
  <2>2. \A c \in Clients : ~Held(c)
    BY <1>2 DEF IInv, Shape, DownClean, Held, NoHandle
  <2>3. Shown' = Shown
    BY <2>1, <2>2 DEF Shown, Held
  <2> QED
    BY <1>2, <2>1, <2>3 DEF Store!Start, Contents
<1> QED
  BY <1>1, <1>2

\* Every step of the pool is a step of PageStore or none.
LEMMA StepRefines ==
  IInv /\ IInv' /\ PinsRespected /\ PinsRespected' /\ [Next]_vars
    => [Store!Next]_(Store!storeVars)
<1> SUFFICES ASSUME IInv, IInv', PinsRespected, PinsRespected', [Next]_vars
             PROVE  Store!Next \/ UNCHANGED Store!storeVars
  OBVIOUS
<1>1. CASE \E s \in Strategies, k \in StratParams : InitBufferPool(s, k)
  BY <1>1, InitBufferPoolRefines DEF Store!Next
<1>2. CASE InitBufferPoolFails \/ PinRefused
  BY <1>2, Unseen DEF InitBufferPoolFails, PinRefused, Unchanged_but_rc
<1>3. CASE ShutdownBufferPool
  BY <1>3, ShutdownRefines DEF Store!Next
<1>4. CASE ForceFlushPool
  <2>1. CASE isInitialized_bp
    <3>1. FlushSet(frames) \in SUBSET Frames
      BY DEF FlushSet
    <3>2. /\ file' = WrittenBack(file, frames, FlushSet(frames))
          /\ frames' = Cleaned(frames, FlushSet(frames))
          /\ UNCHANGED <<isInitialized_bp, logical, handle>>
      BY <1>4, <2>1 DEF ForceFlushPool
    <3> QED
      BY <3>1, <3>2, FlushRefines DEF Store!Next
  <2>2. CASE ~isInitialized_bp
    BY <1>4, <2>2, Unseen DEF ForceFlushPool, Unchanged_but_rc
  <2> QED
    BY <2>1, <2>2
<1>5. CASE \E p \in Pages : ForcePage(p)
  <2>1. PICK p \in Pages : ForcePage(p)
    BY <1>5
  <2>2. Holding(frames, p) \in SUBSET Frames
    BY DEF Holding
  <2>3. /\ file' = WrittenBack(file, frames, Holding(frames, p))
        /\ frames' = Cleaned(frames, Holding(frames, p))
        /\ UNCHANGED <<isInitialized_bp, logical, handle>>
    BY <2>1 DEF ForcePage
  <2> QED
    BY <2>2, <2>3, FlushRefines DEF Store!Next
<1>6. CASE \E c \in Clients : MarkDirty(c)
  BY <1>6, MarkDirtyRefines
<1>7. CASE \E c \in Clients : UnpinPage(c)
  BY <1>7, UnpinRefines DEF Store!Next
<1>8. CASE \E c \in Clients, p \in Pages : PinPage(c, p)
  BY <1>8, PinPageRefines DEF Store!Next
<1>9. CASE \E c \in Clients, d \in Data \ {ZeroBlock} : WritePage(c, d)
  BY <1>9, WriteRefines DEF Store!Next
<1>10. CASE UNCHANGED vars
  BY <1>10, Unseen DEF vars
<1> QED
  BY <1>1, <1>2, <1>3, <1>4, <1>5, <1>6, <1>7, <1>8, <1>9, <1>10 DEF Next

\* As long as no strategy takes a pinned frame, the pool implements PageStore.
THEOREM PoolImplementsStore == Spec /\ []PinsRespected => ImplementsPageStore
<1>1. Init => Store!Init
  BY InitRefines
<1>2. IInv /\ IInv' /\ PinsRespected /\ PinsRespected' /\ [Next]_vars
        => [Store!Next]_(Store!storeVars)
  BY StepRefines
<1> QED
  BY InitInvariant, NextInvariant, <1>1, <1>2, PTL
  DEF Spec, ImplementsPageStore, Store!Spec

\* It does so for a program that uses neither LRU nor LRU_K, or that has one
\* page handle.
THEOREM SafePoolImplementsStore ==
  ASSUME \/ Strategies \cap {"RS_LRU", "RS_LRU_K"} = {}
         \/ \A c, d \in Clients : c = d
  PROVE  Spec => ImplementsPageStore
<1>1. TypeOK => PinsRespected
  BY DEF TypeOK, PinsRespected
<1> QED
  BY TypeCorrect, PoolImplementsStore, <1>1, PTL

=============================================================================
