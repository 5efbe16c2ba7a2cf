--------------------------- MODULE RecordMgrLemmas ---------------------------
(***************************************************************************)
(* What the operators of RecordMgr return, for every size of records, pool *)
(* and file: the numbers of a page, the first element of a set, the page   *)
(* file, and the calls of the pool and of the file handle.                 *)
(***************************************************************************)
EXTENDS RecordMgr, FiniteSetTheorems, SequenceTheorems, WellFoundedInduction, TLAPS

-----------------------------------------------------------------------------
(* Numbers.                                                                 *)

\* A set of natural numbers has a smallest element.  It is what stands for
\* induction in these proofs: the smallest counterexample does not exist.
LEMMA Smallest ==
  ASSUME NEW S \in SUBSET Nat, S # {}
  PROVE  \E x \in S : \A y \in S : x <= y
<1> DEFINE R == {ss \in Nat \X Nat : ss[1] < ss[2]}
<1>1. IsWellFoundedOn(R, Nat)
  BY NatLessThanWellFounded, Zenon DEF OpToRel
<1>2. PICK x \in S : \A y \in S : ~ (<<y, x>> \in R)
  BY <1>1, WFMin, Zenon
<1>3. \A y \in S : ~ (y < x)
  BY <1>2
<1> QED
  BY <1>3

\* The loops that look for the first match find it.
LEMMA FirstChosen ==
  ASSUME NEW S \in SUBSET Nat, S # {}
  PROVE  First(S, CHOOSE x \in S : First(S, x))
  BY Smallest DEF First

\* The frames are numbered from 0.
LEMMA FramesNat == Frames \subseteq Nat /\ 0 \in Frames /\ NO_PAGE \notin Nat
  BY RecordMgrAssumption DEF Frames, NO_PAGE

\* How many records fit: as many as take PAGE_SIZE bytes with their slots.
LEMMA Fitting ==
  /\ MaxRecords \in Nat /\ MaxRecords >= 1
  /\ MaxRecords * (RecordSize + SlotSize) <= PAGE_SIZE
  /\ PAGE_SIZE < (MaxRecords + 1) * (RecordSize + SlotSize)
<1> DEFINE K == RecordSize + SlotSize
<1>1. K \in Nat /\ K >= 9 /\ K <= PAGE_SIZE
  BY RecordMgrAssumption DEF SlotSize, PAGE_SIZE
<1>2. MaxRecords = PAGE_SIZE \div K
  BY DEF MaxRecords
<1> HIDE DEF K
<1>3. MaxRecords \in Int /\ MaxRecords * K <= PAGE_SIZE /\ PAGE_SIZE < MaxRecords * K + K
  BY <1>1, <1>2 DEF PAGE_SIZE
<1>4. MaxRecords >= 1
  <2>1. ASSUME MaxRecords <= 0 PROVE FALSE
    <3>1. MaxRecords * K <= 0
      BY <1>1, <1>3, <2>1
    <3> QED
      BY <1>1, <1>3, <3>1 DEF PAGE_SIZE
  <2> QED
    BY <1>3, <2>1
<1>5. (MaxRecords + 1) * K = MaxRecords * K + K
  BY <1>1, <1>3
<1> QED
  BY <1>1, <1>3, <1>4, <1>5 DEF K

-----------------------------------------------------------------------------
(* Blocks.                                                                  *)

\* The blocks createTable writes are blocks, and none of a zero page's slots is
\* free.
LEMMA BlockTypes ==
  /\ ZeroPage \in Block
  /\ SchemaPage \in Block
  /\ \A d \in Seq(PageDirectoryEntry) :
       DirectoryPage(d) \in Block /\ DirectoryPage(d).dir = d
  /\ ZeroPage.dir = << >>
  /\ \A z \in Slots : ~ZeroPage.slot[z].isFree
<1>1. 0 \in Slots /\ 0 \in 0 .. MaxRecords
  BY Fitting DEF Slots
<1>2. ZeroPage \in Block
  BY <1>1 DEF ZeroPage, Block, SlotEntry
<1>3. SchemaPage \in Block
  <2> DEFINE s == [ZeroPage.slot EXCEPT ![0].isFree = TRUE]
  <2>1. ZeroPage.slot \in [Slots -> SlotEntry] /\ ZeroPage.slot[0] \in SlotEntry
    BY <1>1, <1>2 DEF Block
  <2>2. s \in [Slots -> SlotEntry]
    BY <1>1, <2>1 DEF SlotEntry
  <2>3. SchemaPage = [ZeroPage EXCEPT !.slot = s]
    BY DEF SchemaPage
  <2> HIDE DEF s
  <2> QED
    BY <1>2, <2>2, <2>3 DEF Block
<1>4. ASSUME NEW d \in Seq(PageDirectoryEntry)
      PROVE  DirectoryPage(d) \in Block /\ DirectoryPage(d).dir = d
  BY <1>3 DEF DirectoryPage, Block
<1>5. ZeroPage.dir = << >> /\ \A z \in Slots : ~ZeroPage.slot[z].isFree
  BY DEF ZeroPage
<1> QED
  BY <1>2, <1>3, <1>4, <1>5

-----------------------------------------------------------------------------
(* The page file.                                                           *)

\* A function from 1 .. n to S is a sequence of length n: how the operators
\* below, which build a file block by block, are seen to return files.
LEMMA FcnIsSeq ==
  ASSUME NEW S, NEW n \in Nat, NEW f \in [1 .. n -> S]
  PROVE  f \in Seq(S) /\ Len(f) = n
  OBVIOUS

\* fwrite of a page leaves a file of the same blocks but that one.
LEMMA PutBlock ==
  ASSUME NEW file \in Seq(Block), NEW p \in Nat, NEW d \in Block
  PROVE  /\ Put(file, p, d) \in Seq(Block)
         /\ Len(Put(file, p, d)) = IF p < Len(file) THEN Len(file) ELSE p + 1
         /\ Put(file, p, d)[p + 1] = d
         /\ \A q \in Nat : q < Len(file) /\ q # p => Put(file, p, d)[q + 1] = file[q + 1]
<1> DEFINE n == IF p < Len(file) THEN Len(file) ELSE p + 1
<1>1. n \in Nat
  OBVIOUS
<1>2. Put(file, p, d) \in [1 .. n -> Block]
  BY BlockTypes DEF Put
<1>3. Put(file, p, d)[p + 1] = d
  BY DEF Put
<1>4. ASSUME NEW q \in Nat, q < Len(file), q # p
      PROVE  Put(file, p, d)[q + 1] = file[q + 1]
  BY <1>4 DEF Put
<1> QED
  BY <1>1, <1>2, <1>3, <1>4, FcnIsSeq

\* ensureCapacity before a load: the file keeps its blocks, reaches the page,
\* and grows to no more than that.
LEMMA EnsuredBlocks ==
  ASSUME NEW file \in Seq(Block), NEW p \in Nat
  PROVE  /\ Ensured(file, p) \in Seq(Block)
         /\ Len(Ensured(file, p)) = IF Len(file) < p THEN p ELSE Len(file)
         /\ \A q \in Nat : q < Len(file) => Ensured(file, p)[q + 1] = file[q + 1]
<1> DEFINE k == Shortfall(Len(file), p)
<1>1. k \in Nat /\ Len(file) + k = (IF Len(file) < p THEN p ELSE Len(file))
  BY DEF Shortfall
<1> HIDE DEF k
<1>2. Grown(file, k) \in [1 .. Len(file) + k -> Block]
  BY <1>1, BlockTypes DEF Grown
<1>3. ASSUME NEW q \in Nat, q < Len(file)
      PROVE  Grown(file, k)[q + 1] = file[q + 1]
  BY <1>1, <1>3 DEF Grown
<1>4. Ensured(file, p) = Grown(file, k)
  BY DEF Ensured, k
<1>5. Len(file) + k \in Nat
  BY <1>1
<1>6. Grown(file, k) \in Seq(Block) /\ Len(Grown(file, k)) = Len(file) + k
  BY <1>2, <1>5, FcnIsSeq
<1> QED
  BY <1>1, <1>3, <1>4, <1>6

\* Writing frames back leaves a file, longer by one block at most.
LEMMA WrittenBackType ==
  ASSUME NEW fl \in Seq(Block), NEW fr \in [Frames -> Frame],
         NEW S \in SUBSET Frames
  PROVE  /\ WrittenBack(fl, fr, S) \in Seq(Block)
         /\ Len(WrittenBack(fl, fr, S)) \in Len(fl) .. Len(fl) + 1
         /\ Len(WrittenBack(fl, fr, S)) =
              IF \E f \in S : fr[f].pageNumber = Len(fl) THEN Len(fl) + 1 ELSE Len(fl)
<1> DEFINE Saved(p) == {f \in S : fr[f].pageNumber = p}
           n == IF Saved(Len(fl)) # {} THEN Len(fl) + 1 ELSE Len(fl)
           e(i) == IF Saved(i - 1) # {}
                   THEN fr[CHOOSE f \in Saved(i - 1) : TRUE].memPage
                   ELSE fl[i]
           new == [i \in 1 .. n |-> e(i)]
<1>1. WrittenBack(fl, fr, S) = new
  BY DEF WrittenBack
<1>2. n \in Nat /\ Len(fl) \in Nat /\ n \in Len(fl) .. Len(fl) + 1
      /\ n = IF \E f \in S : fr[f].pageNumber = Len(fl) THEN Len(fl) + 1 ELSE Len(fl)
  OBVIOUS
<1>3. ASSUME NEW p, Saved(p) # {}
      PROVE  (CHOOSE f \in Saved(p) : TRUE) \in Saved(p)
  BY <1>3
<1>4. ASSUME NEW i \in 1 .. n PROVE e(i) \in Block
  <2>1. CASE Saved(i - 1) # {}
    <3> DEFINE f == CHOOSE f \in Saved(i - 1) : TRUE
    <3>1. f \in Frames
      BY <1>3, <2>1
    <3>2. fr[f].memPage \in Block
      BY <3>1 DEF Frame
    <3> QED
      BY <2>1, <3>2
  <2>2. CASE Saved(i - 1) = {}
    <3>1. i \in 1 .. Len(fl)
      <4>1. i \in 1 .. Len(fl) \/ i = Len(fl) + 1
        BY <1>2, <1>4
      <4>2. CASE i = Len(fl) + 1
        <5>1. i - 1 = Len(fl)
          BY <1>2, <4>2
        <5>2. Saved(Len(fl)) = {}
          BY <2>2, <5>1
        <5>3. n = Len(fl)
          BY <5>2
        <5> QED
          BY <1>2, <1>4, <4>2, <5>3
      <4> QED
        BY <4>1, <4>2
    <3> QED
      BY <2>2, <3>1
  <2> QED
    BY <2>1, <2>2
<1>5. new \in [1 .. n -> Block]
  BY <1>4
<1>6. new \in Seq(Block) /\ Len(new) = n
  <2> HIDE DEF n, new
  <2> QED
    BY <1>2, <1>5, FcnIsSeq
<1> QED
  BY <1>1, <1>2, <1>6

\* Writing frames back: the blocks of the frames written have their contents,
\* every other block is as it was.
LEMMA WrittenBackBlocks ==
  ASSUME NEW fl \in Seq(Block), NEW fr \in [Frames -> Frame],
         NEW S \in SUBSET Frames,
         \A f, g \in S : fr[f].pageNumber = fr[g].pageNumber
                           => f = g \/ fr[f].pageNumber = NO_PAGE
  PROVE  /\ WrittenBack(fl, fr, S) \in Seq(Block)
         /\ Len(WrittenBack(fl, fr, S)) \in Len(fl) .. Len(fl) + 1
         /\ (\A f \in S : fr[f].pageNumber # Len(fl)) => Len(WrittenBack(fl, fr, S)) = Len(fl)
         /\ \A f \in S :
              fr[f].pageNumber \in 0 .. Len(fl)
                => /\ fr[f].pageNumber < Len(WrittenBack(fl, fr, S))
                   /\ WrittenBack(fl, fr, S)[fr[f].pageNumber + 1] = fr[f].memPage
         /\ \A p \in Nat :
              p < Len(fl) /\ (\A f \in S : fr[f].pageNumber # p)
                => /\ p < Len(WrittenBack(fl, fr, S))
                   /\ WrittenBack(fl, fr, S)[p + 1] = fl[p + 1]
<1> DEFINE Saved(p) == {f \in S : fr[f].pageNumber = p}
           n == IF Saved(Len(fl)) # {} THEN Len(fl) + 1 ELSE Len(fl)
           e(i) == IF Saved(i - 1) # {}
                   THEN fr[CHOOSE f \in Saved(i - 1) : TRUE].memPage
                   ELSE fl[i]
           new == [i \in 1 .. n |-> e(i)]
<1>1. WrittenBack(fl, fr, S) = new
  BY DEF WrittenBack
<1>2. n \in Nat /\ Len(fl) \in Nat /\ n \in Len(fl) .. Len(fl) + 1
      /\ n = IF \E f \in S : fr[f].pageNumber = Len(fl) THEN Len(fl) + 1 ELSE Len(fl)
  OBVIOUS
<1>3. ASSUME NEW p, Saved(p) # {}
      PROVE  (CHOOSE f \in Saved(p) : TRUE) \in Saved(p)
  BY <1>3
<1>7. ASSUME NEW f \in S, fr[f].pageNumber \in 0 .. Len(fl)
      PROVE  fr[f].pageNumber < n /\ new[fr[f].pageNumber + 1] = fr[f].memPage
  <2> DEFINE p == fr[f].pageNumber
             g == CHOOSE x \in Saved(p) : TRUE
  <2>1. f \in Saved(p) /\ Saved(p) # {}
    OBVIOUS
  <2>2. g \in Saved(p)
    BY <1>3, <2>1
  <2>3. g = f
    BY <1>7, <2>2 DEF NO_PAGE
  <2>4. p < n
    BY <1>2, <1>7, <2>1
  <2>5. p + 1 \in 1 .. n /\ (p + 1) - 1 = p
    BY <1>2, <1>7, <2>4
  <2>6. new[p + 1] = e(p + 1)
    BY <2>5
  <2>7. e(p + 1) = fr[g].memPage
    BY <2>1, <2>5
  <2> QED
    BY <2>3, <2>4, <2>6, <2>7
<1>8. ASSUME NEW p \in Nat, p < Len(fl), \A f \in S : fr[f].pageNumber # p
      PROVE  p < n /\ new[p + 1] = fl[p + 1]
  <2>1. p + 1 \in 1 .. n /\ (p + 1) - 1 = p
    BY <1>2, <1>8
  <2>2. Saved(p) = {}
    BY <1>8
  <2> QED
    BY <1>2, <1>8, <2>1, <2>2
<1>4. WrittenBack(fl, fr, S) \in Seq(Block) /\ Len(WrittenBack(fl, fr, S)) = n
  <2> HIDE DEF n
  <2> QED
    BY <1>2, WrittenBackType
<1>5. (\A f \in S : fr[f].pageNumber # Len(fl)) => n = Len(fl)
  OBVIOUS
<1> HIDE DEF new, n
<1> QED
  BY <1>1, <1>2, <1>4, <1>5, <1>7, <1>8

-----------------------------------------------------------------------------
(* The pool.                                                                *)

\* The frames agree in what their memory is and who uses it.
SameUse(a, b) ==
  /\ a.pageNumber = b.pageNumber
  /\ a.memPage = b.memPage
  /\ a.dirty = b.dirty
  /\ a.fix_cnt = b.fix_cnt

\* LRU finds a frame: one of the frames was hit the longest time ago.
LEMMA VictimChosen ==
  ASSUME NEW fr \in [Frames -> Frame]
  PROVE  (CHOOSE f \in Frames : LRUVictim(fr, f)) \in Frames
<1> DEFINE Oldest == {f \in Frames : \A g \in Frames : fr[f].lruOrder <= fr[g].lruOrder}
           Orders == {fr[f].lruOrder : f \in Frames}
<1>1. \A f \in Frames : fr[f].lruOrder \in Nat
  BY DEF Frame
<1>2. Orders \in SUBSET Nat /\ Orders # {}
  BY <1>1, FramesNat
<1>3. PICK o \in Orders : \A q \in Orders : o <= q
  BY <1>2, Smallest
<1>4. Oldest # {} /\ Oldest \in SUBSET Nat
  <2>1. PICK x \in Frames : o = fr[x].lruOrder
    BY <1>3
  <2>2. \A g \in Frames : fr[g].lruOrder \in Orders
    OBVIOUS
  <2>3. x \in Oldest
    BY <1>3, <2>1, <2>2
  <2> QED
    BY <2>3, FramesNat
<1>5. PICK x \in Oldest : First(Oldest, x)
  BY <1>4, FirstChosen DEF First
<1>6. x \in Frames /\ LRUVictim(fr, x)
  BY <1>5 DEF LRUVictim
<1> QED
  BY <1>6

\* A hit makes its frame the most recent one and changes nothing else.
LEMMA TouchedFrames ==
  ASSUME NEW fr \in [Frames -> Frame], NEW f \in Frames
  PROVE  /\ Touched(fr, f) \in [Frames -> Frame]
         /\ \A g \in Frames : SameUse(Touched(fr, f)[g], fr[g])
<1> DEFINE Used == {g \in Frames : fr[g].lruOrder > 0} \cup {f}
           newest == Cardinality(Used)
           e(g) == IF g = f THEN [fr[g] EXCEPT !.lruOrder = newest]
                   ELSE IF fr[f].lruOrder > 0 /\ fr[g].lruOrder > fr[f].lruOrder
                   THEN [fr[g] EXCEPT !.lruOrder = @ - 1]
                   ELSE fr[g]
<1>1. newest \in Nat
  <2>1. IsFiniteSet(Frames)
    BY RecordMgrAssumption, FS_Interval DEF Frames
  <2>2. IsFiniteSet(Used)
    BY <2>1, FS_Subset
  <2> QED
    BY <2>2, FS_CardinalityType
<1>2. Touched(fr, f) = [g \in Frames |-> e(g)]
  BY DEF Touched
<1> HIDE DEF newest
<1>3. ASSUME NEW g \in Frames PROVE e(g) \in Frame /\ SameUse(e(g), fr[g])
  <2>1. fr[g] \in Frame /\ fr[g].lruOrder \in Nat /\ fr[f].lruOrder \in Nat
    BY DEF Frame
  <2> QED
    BY <1>1, <2>1 DEF Frame, SameUse
<1> HIDE DEF e
<1> QED
  BY <1>2, <1>3

\* What a call leaves in the caller's Record.
Results == {None} \cup [page : Nat, slot : Nat, data : Values \cup {Junk}]

\* The return codes of the calls.
Codes == {"RC_OK", "RC_BP_UNPIN_ERROR", "RC_RM_INVALID_RID",
          "RC_RM_RECORD_NOT_FOUND", "RC_RM_NO_MORE_TUPLES"}

\* RM_managementData in the middle of a call.
Management ==
  [open : BOOLEAN, file : Seq(Block), total : Nat,
   pend : Seq([page : Nat, data : Block]), frames : [Frames -> Frame],
   page : Nat \cup {NO_PAGE}, dir : Seq(PageDirectoryEntry),
   broken : BOOLEAN, rc : Codes, record : Results]

\* The calls of the pool leave everything but the pool and the file alone.
SameTable(m, n) ==
  /\ n.open = m.open
  /\ n.total = m.total
  /\ n.pend = m.pend
  /\ n.dir = m.dir
  /\ n.broken = m.broken

\* n is m after page p was read into frame f.
ReadInto(m, n, f, p) ==
  /\ SameTable(m, n) /\ n.page = p /\ n.file = Ensured(m.file, p)
  /\ n.frames[f].pageNumber = p
  /\ n.frames[f].fix_cnt = 1
  /\ n.frames[f].dirty = FALSE
  /\ n.frames[f].memPage = Got(n.file, p, m.frames[f].memPage)
  /\ \A g \in Frames \ {f} : n.frames[g] = m.frames[g]

\* What reading page p into frame f leaves of the table: ReadInto says it.
LEMMA LoadedFrame ==
  ASSUME NEW m \in Management, NEW f \in Frames, NEW p \in Nat
  PROVE  Loaded(m, f, p) \in Management /\ ReadInto(m, Loaded(m, f, p), f, p)
<1> DEFINE grown == Ensured(m.file, p)
           mem   == Got(grown, p, m.frames[f].memPage)
           frame == [m.frames[f] EXCEPT !.pageNumber = p, !.fix_cnt = 1,
                                        !.dirty = FALSE, !.memPage = mem]
           frs   == [m.frames EXCEPT ![f] = frame]
           n     == [m EXCEPT !.file = grown, !.page = p, !.frames = frs]
<1>1. /\ m.file \in Seq(Block) /\ m.frames \in [Frames -> Frame]
      /\ m.frames[f] \in Frame /\ m.frames[f].memPage \in Block
  BY DEF Management, Frame
<1>2. grown \in Seq(Block)
  BY <1>1, EnsuredBlocks
<1>3. mem \in Block
  BY <1>1, <1>2 DEF Got
<1>4. Loaded(m, f, p) = n
  BY DEF Loaded, Management
<1> HIDE DEF grown, mem
<1>5. /\ frame \in Frame
      /\ frame.pageNumber = p /\ frame.fix_cnt = 1 /\ frame.dirty = FALSE
      /\ frame.memPage = mem
  BY <1>1, <1>3 DEF Frame
<1> HIDE DEF frame
<1>6. frs \in [Frames -> Frame] /\ frs[f] = frame /\ \A g \in Frames \ {f} : frs[g] = m.frames[g]
  BY <1>1, <1>5
<1> HIDE DEF frs
<1>7. n \in Management /\ SameTable(m, n) /\ n.page = p /\ n.file = grown /\ n.frames = frs
  BY <1>2, <1>6 DEF Management, SameTable
<1> HIDE DEF n
<1> QED
  BY <1>4, <1>5, <1>6, <1>7 DEF grown, mem, ReadInto

\* A pin of a pooled page counts it, and only that.
Hit(m, n, p) ==
  LET h == FrameOf(m, p) IN
  /\ h \in Holding(m.frames, p)
  /\ n.file = m.file
  /\ \A g \in Frames :
       /\ n.frames[g].pageNumber = m.frames[g].pageNumber
       /\ n.frames[g].memPage = m.frames[g].memPage
       /\ n.frames[g].dirty = m.frames[g].dirty
       /\ n.frames[g].fix_cnt =
            IF g = h THEN m.frames[g].fix_cnt + 1 ELSE m.frames[g].fix_cnt

\* The frames written back before page p is read into frame f.
Evicted(m, f) == {g \in {f} : m.frames[g].dirty}

\* A pin of another page reads it into a frame without a page, or into a
\* victim's after writing the victim back.
Read(m, n, p, f) ==
  /\ ~Pooled(m.frames, p)
  /\ \/ m.frames[f].pageNumber = NO_PAGE /\ n.file = Ensured(m.file, p)
     \/ /\ ~Pooled(m.frames, NO_PAGE)
        /\ n.file = Ensured(WrittenBack(m.file, m.frames, Evicted(m, f)), p)
  /\ n.frames[f].pageNumber = p
  /\ n.frames[f].fix_cnt = 1
  /\ n.frames[f].dirty = FALSE
  /\ n.frames[f].memPage = Got(n.file, p, m.frames[f].memPage)
  /\ \A g \in Frames \ {f} : SameUse(n.frames[g], m.frames[g])

\* The frame a page is found in holds it.
LEMMA FrameFound ==
  ASSUME NEW m \in Management, NEW p, Pooled(m.frames, p)
  PROVE  FrameOf(m, p) \in Holding(m.frames, p) /\ FrameOf(m, p) \in Frames
<1> DEFINE S == Holding(m.frames, p)
<1>1. S \in SUBSET Nat /\ S # {} /\ S \subseteq Frames
  BY FramesNat DEF Holding, Pooled
<1>2. PICK x \in S : First(S, x)
  BY <1>1, FirstChosen DEF First
<1>3. First(S, FrameOf(m, p))
  BY <1>1, <1>2 DEF FrameOf
<1> QED
  BY <1>1, <1>3 DEF First

\* Replacing one field of RM_managementData leaves the others.
LEMMA WithFrames ==
  ASSUME NEW m \in Management, NEW frs \in [Frames -> Frame]
  PROVE  LET n == [m EXCEPT !.frames = frs] IN
         /\ n \in Management /\ n.frames = frs
         /\ n.open = m.open /\ n.file = m.file /\ n.total = m.total /\ n.pend = m.pend
         /\ n.page = m.page /\ n.dir = m.dir /\ n.broken = m.broken /\ n.rc = m.rc
         /\ n.record = m.record
  BY DEF Management

\* Another file.
LEMMA WithFile ==
  ASSUME NEW m \in Management, NEW file \in Seq(Block)
  PROVE  LET n == [m EXCEPT !.file = file] IN
         /\ n \in Management /\ n.file = file
         /\ n.open = m.open /\ n.total = m.total /\ n.pend = m.pend /\ n.frames = m.frames
         /\ n.page = m.page /\ n.dir = m.dir /\ n.broken = m.broken /\ n.rc = m.rc
         /\ n.record = m.record
  BY DEF Management

\* Another return code.
LEMMA WithCode ==
  ASSUME NEW m \in Management, NEW code \in Codes
  PROVE  LET n == [m EXCEPT !.rc = code] IN
         /\ n \in Management /\ n.rc = code
         /\ n.open = m.open /\ n.file = m.file /\ n.total = m.total /\ n.pend = m.pend
         /\ n.frames = m.frames /\ n.page = m.page /\ n.dir = m.dir /\ n.broken = m.broken
         /\ n.record = m.record
  BY DEF Management

\* Another Record.
LEMMA WithRecord ==
  ASSUME NEW m \in Management, NEW result \in Results
  PROVE  LET n == [m EXCEPT !.record = result] IN
         /\ n \in Management /\ n.record = result
         /\ n.open = m.open /\ n.file = m.file /\ n.total = m.total /\ n.pend = m.pend
         /\ n.frames = m.frames /\ n.page = m.page /\ n.dir = m.dir /\ n.broken = m.broken
         /\ n.rc = m.rc
  BY DEF Management

\* Another directory.
LEMMA WithDir ==
  ASSUME NEW m \in Management, NEW d \in Seq(PageDirectoryEntry)
  PROVE  LET n == [m EXCEPT !.dir = d] IN
         /\ n \in Management /\ n.dir = d
         /\ n.open = m.open /\ n.file = m.file /\ n.total = m.total /\ n.pend = m.pend
         /\ n.frames = m.frames /\ n.page = m.page /\ n.broken = m.broken /\ n.rc = m.rc
         /\ n.record = m.record
  BY DEF Management

\* pinPage is a hit or a read.
LEMMA PinCases ==
  ASSUME NEW m \in Management, NEW p \in Nat
  PROVE  LET n == Pin(m, p) IN
         /\ n \in Management /\ SameTable(m, n) /\ n.page = p
         /\ Hit(m, n, p) \/ \E f \in Frames : Read(m, n, p, f)
<1> DEFINE n == Pin(m, p)
<1>1. m.frames \in [Frames -> Frame] /\ m.file \in Seq(Block)
  BY DEF Management
<1>2. CASE Pooled(m.frames, p)
  <2> DEFINE h   == FrameOf(m, p)
             one == [m.frames EXCEPT ![h].fix_cnt = @ + 1]
             frs == Touched(one, h)
             m1  == [m EXCEPT !.page = p]
  <2>1. h \in Holding(m.frames, p) /\ h \in Frames
    BY <1>2, FrameFound
  <2>2. n = [m1 EXCEPT !.frames = frs]
    BY <1>2 DEF Pin, Management
  <2>3. m1 \in Management /\ SameTable(m, m1) /\ m1.page = p /\ m1.file = m.file
    BY DEF Management, SameTable
  <2> HIDE DEF h, m1
  <2>4. /\ one \in [Frames -> Frame]
        /\ \A g \in Frames :
             /\ one[g].pageNumber = m.frames[g].pageNumber
             /\ one[g].memPage = m.frames[g].memPage
             /\ one[g].dirty = m.frames[g].dirty
             /\ one[g].fix_cnt = IF g = h THEN m.frames[g].fix_cnt + 1
                                         ELSE m.frames[g].fix_cnt
    BY <1>1, <2>1 DEF Frame
  <2> HIDE DEF one
  <2>5. /\ frs \in [Frames -> Frame]
        /\ \A g \in Frames : SameUse(frs[g], one[g])
    BY <2>1, <2>4, TouchedFrames
  <2> HIDE DEF frs
  <2>6. n \in Management /\ SameTable(m1, n) /\ n.frames = frs /\ n.file = m1.file /\ n.page = m1.page
    BY <2>2, <2>3, <2>5, WithFrames DEF SameTable
  <2> HIDE DEF n
  <2>7. Hit(m, n, p)
    BY <2>1, <2>3, <2>4, <2>5, <2>6 DEF Hit, SameUse, h
  <2> QED
    BY <2>3, <2>6, <2>7 DEF SameTable, n
<1>3. CASE ~Pooled(m.frames, p) /\ Pooled(m.frames, NO_PAGE)
  <2> DEFINE Free == Holding(m.frames, NO_PAGE)
             f    == CHOOSE f \in Free : First(Free, f)
  <2>1. Free \in SUBSET Nat /\ Free # {} /\ Free \subseteq Frames
    BY <1>3, FramesNat DEF Holding, Pooled
  <2>2. n = Loaded(m, f, p)
    BY <1>3 DEF Pin, Pooled
  <2>3. First(Free, f)
    BY <2>1, FirstChosen
  <2>4. f \in Frames /\ m.frames[f].pageNumber = NO_PAGE
    BY <2>1, <2>3 DEF First, Holding
  <2> HIDE DEF f
  <2>5. n \in Management /\ ReadInto(m, n, f, p)
    BY <2>2, <2>4, LoadedFrame
  <2> HIDE DEF n
  <2>6. Read(m, n, p, f)
    BY <1>3, <2>4, <2>5 DEF Read, ReadInto, SameUse
  <2> QED
    BY <2>4, <2>5, <2>6 DEF n, ReadInto
<1>4. CASE ~Pooled(m.frames, p) /\ ~Pooled(m.frames, NO_PAGE)
  <2> DEFINE v    == CHOOSE f \in Frames : LRUVictim(m.frames, f)
             file == WrittenBack(m.file, m.frames, Evicted(m, v))
             m1   == [m EXCEPT !.file = file]
             m2   == Loaded(m1, v, p)
             frs  == Touched(m2.frames, v)
  <2>1. v \in Frames
    BY <1>1, VictimChosen
  <2>2. n = [m2 EXCEPT !.frames = frs]
    BY <1>4 DEF Pin, Pooled, Evicted
  <2> HIDE DEF v
  <2>3. file \in Seq(Block)
    <3>1. Evicted(m, v) \in SUBSET Frames
      BY <2>1 DEF Evicted
    <3>2. \A f, g \in Evicted(m, v) : f = g
      BY DEF Evicted
    <3> QED
      BY <1>1, <3>1, <3>2, WrittenBackBlocks
  <2> HIDE DEF file
  <2>4. m1 \in Management /\ SameTable(m, m1) /\ m1.file = file /\ m1.frames = m.frames
    BY <2>3, WithFile DEF SameTable
  <2> HIDE DEF m1
  <2>5. m2 \in Management /\ ReadInto(m1, m2, v, p)
    BY <2>1, <2>4, LoadedFrame
  <2> HIDE DEF m2
  <2>6. m2.frames \in [Frames -> Frame]
    BY <2>5 DEF Management
  <2>7. /\ frs \in [Frames -> Frame]
        /\ \A g \in Frames : SameUse(frs[g], m2.frames[g])
    BY <2>1, <2>6, TouchedFrames
  <2> HIDE DEF frs
  <2>8. n \in Management /\ SameTable(m2, n) /\ n.frames = frs /\ n.file = m2.file /\ n.page = m2.page
    BY <2>2, <2>5, <2>7, WithFrames DEF SameTable
  <2> HIDE DEF n
  <2>9. Read(m, n, p, v)
    BY <1>4, <2>1, <2>4, <2>5, <2>7, <2>8 DEF Read, ReadInto, SameUse, file
  <2> QED
    BY <2>1, <2>4, <2>5, <2>8, <2>9 DEF SameTable, ReadInto, n
<1> QED
  BY <1>2, <1>3, <1>4

\* What a pool that differs in fix counts, lruOrder and results has in common.
SameContent(m, n) ==
  /\ SameTable(m, n)
  /\ n.file = m.file
  /\ n.page = m.page
  /\ \A g \in Frames :
       /\ n.frames[g].pageNumber = m.frames[g].pageNumber
       /\ n.frames[g].memPage = m.frames[g].memPage
       /\ n.frames[g].dirty = m.frames[g].dirty

\* n is m after one pin, if there was one, was taken off frame h.
LessPin(m, n, h) ==
  \A g \in Frames :
    n.frames[g].fix_cnt =
      IF g = h /\ m.frames[g].fix_cnt > 0 THEN m.frames[g].fix_cnt - 1
      ELSE m.frames[g].fix_cnt

\* unpinPage of a pooled page takes one pin off its frame, if it has one.
LEMMA UnpinnedFrames ==
  ASSUME NEW m \in Management, Pooled(m.frames, m.page)
  PROVE  /\ Unpinned(m) \in Management
         /\ SameContent(m, Unpinned(m))
         /\ Unpinned(m).record = m.record
         /\ Unpinned(m).rc = IF m.frames[FrameOf(m, m.page)].fix_cnt > 0
                             THEN "RC_OK" ELSE "RC_BP_UNPIN_ERROR"
         /\ LessPin(m, Unpinned(m), FrameOf(m, m.page))
<1> DEFINE h   == FrameOf(m, m.page)
           frs == [m.frames EXCEPT ![h].fix_cnt = @ - 1]
           m1  == [m EXCEPT !.rc = "RC_OK"]
<1>1. h \in Frames /\ m.frames \in [Frames -> Frame]
  BY FrameFound DEF Management
<1>2. CASE m.frames[h].fix_cnt > 0
  <2>1. Unpinned(m) = [m1 EXCEPT !.frames = frs]
    BY <1>2 DEF Unpinned, Management
  <2>2. /\ m1 \in Management /\ SameTable(m, m1) /\ m1.file = m.file /\ m1.page = m.page
        /\ m1.frames = m.frames /\ m1.record = m.record /\ m1.rc = "RC_OK"
    BY DEF SameTable, Management, Codes
  <2> HIDE DEF m1, h
  <2>3. /\ frs \in [Frames -> Frame]
        /\ \A g \in Frames :
             /\ frs[g].pageNumber = m.frames[g].pageNumber
             /\ frs[g].memPage = m.frames[g].memPage
             /\ frs[g].dirty = m.frames[g].dirty
             /\ frs[g].fix_cnt = IF g = h THEN m.frames[g].fix_cnt - 1
                                         ELSE m.frames[g].fix_cnt
    BY <1>1, <1>2 DEF Frame
  <2> HIDE DEF frs
  <2> DEFINE n == [m1 EXCEPT !.frames = frs]
  <2>4. /\ n \in Management /\ SameTable(m1, n) /\ n.frames = frs /\ n.file = m1.file
        /\ n.page = m1.page /\ n.record = m1.record /\ n.rc = m1.rc
    BY <2>2, <2>3, WithFrames DEF SameTable
  <2> HIDE DEF n
  <2>5. Unpinned(m) = n
    BY <2>1 DEF n
  <2>6. SameContent(m, n)
    <3>1. SameTable(m, n)
      BY <2>2, <2>4 DEF SameTable
    <3> QED
      BY <2>2, <2>3, <2>4, <3>1 DEF SameContent
  <2>7. LessPin(m, n, h)
    BY <1>2, <2>3, <2>4 DEF LessPin
  <2> QED
    BY <1>2, <2>2, <2>4, <2>5, <2>6, <2>7 DEF h
<1>3. CASE ~ (m.frames[h].fix_cnt > 0)
  <2> DEFINE n == [m EXCEPT !.rc = "RC_BP_UNPIN_ERROR"]
  <2>1. Unpinned(m) = n
    BY <1>3 DEF Unpinned
  <2>2. /\ n \in Management /\ SameTable(m, n) /\ n.file = m.file /\ n.page = m.page
        /\ n.record = m.record /\ n.rc = "RC_BP_UNPIN_ERROR" /\ n.frames = m.frames
    BY DEF SameTable, Management, Codes
  <2> HIDE DEF n
  <2>3. SameContent(m, n)
    BY <2>2 DEF SameContent
  <2>4. LessPin(m, n, h)
    BY <1>3, <2>2 DEF LessPin
  <2> QED
    BY <1>3, <2>1, <2>2, <2>3, <2>4 DEF h
<1> QED
  BY <1>2, <1>3

\* The bytes behind pageHndlBM are replaced.
Replaces(m, n, block) ==
  /\ SameTable(m, n) /\ n.file = m.file /\ n.page = m.page
  /\ n.rc = m.rc /\ n.record = m.record
  /\ n.frames[FrameOf(m, m.page)].memPage = block
  /\ \A g \in Frames :
       /\ n.frames[g].pageNumber = m.frames[g].pageNumber
       /\ n.frames[g].dirty = m.frames[g].dirty
       /\ n.frames[g].fix_cnt = m.frames[g].fix_cnt
       /\ g # FrameOf(m, m.page) => n.frames[g].memPage = m.frames[g].memPage

\* A store through the page handle changes the frame of its page and no more.
LEMMA StoredFrame ==
  ASSUME NEW m \in Management, Pooled(m.frames, m.page), NEW block \in Block
  PROVE  Stored(m, block) \in Management /\ Replaces(m, Stored(m, block), block)
<1> DEFINE h   == FrameOf(m, m.page)
           frs == [m.frames EXCEPT ![h].memPage = block]
           n   == [m EXCEPT !.frames = frs]
<1>1. h \in Frames /\ m.frames \in [Frames -> Frame]
  BY FrameFound DEF Management
<1>2. Stored(m, block) = n
  BY DEF Stored, Management
<1> HIDE DEF h
<1>3. /\ frs \in [Frames -> Frame]
      /\ frs[h].memPage = block
      /\ \A g \in Frames :
           /\ frs[g].pageNumber = m.frames[g].pageNumber
           /\ frs[g].dirty = m.frames[g].dirty
           /\ frs[g].fix_cnt = m.frames[g].fix_cnt
           /\ g # h => frs[g].memPage = m.frames[g].memPage
  BY <1>1 DEF Frame
<1> HIDE DEF frs
<1>4. /\ n \in Management /\ SameTable(m, n) /\ n.frames = frs /\ n.file = m.file
      /\ n.page = m.page /\ n.rc = m.rc /\ n.record = m.record
  BY <1>3, WithFrames DEF SameTable
<1> HIDE DEF n
<1> QED
  BY <1>2, <1>3, <1>4 DEF Replaces, h

\* markDirty marks the frames of the page, and changes nothing else.
Marks(m, n) ==
  /\ SameTable(m, n) /\ n.file = m.file /\ n.page = m.page
  /\ n.rc = m.rc /\ n.record = m.record
  /\ \A g \in Frames :
       /\ n.frames[g].pageNumber = m.frames[g].pageNumber
       /\ n.frames[g].memPage = m.frames[g].memPage
       /\ n.frames[g].fix_cnt = m.frames[g].fix_cnt
       /\ n.frames[g].dirty =
            IF m.frames[g].pageNumber = m.page THEN TRUE ELSE m.frames[g].dirty

\* markDirty marks the frames of the page handle's page and changes no more.
LEMMA DirtiedFrames ==
  ASSUME NEW m \in Management
  PROVE  Dirtied(m) \in Management /\ Marks(m, Dirtied(m))
<1> DEFINE e(g) == IF m.frames[g].pageNumber = m.page
                   THEN [m.frames[g] EXCEPT !.dirty = TRUE] ELSE m.frames[g]
           frs == [g \in Frames |-> e(g)]
           n   == [m EXCEPT !.frames = frs]
<1>1. m.frames \in [Frames -> Frame]
  BY DEF Management
<1>2. Dirtied(m) = n
  BY DEF Dirtied
<1>3. ASSUME NEW g \in Frames
      PROVE  /\ e(g) \in Frame
             /\ e(g).pageNumber = m.frames[g].pageNumber
             /\ e(g).memPage = m.frames[g].memPage
             /\ e(g).fix_cnt = m.frames[g].fix_cnt
             /\ e(g).dirty =
                  IF m.frames[g].pageNumber = m.page THEN TRUE ELSE m.frames[g].dirty
  <2>1. m.frames[g] \in Frame
    BY <1>1
  <2> QED
    BY <2>1 DEF Frame
<1> HIDE DEF e
<1>4. frs \in [Frames -> Frame] /\ \A g \in Frames : frs[g] = e(g)
  BY <1>3
<1> HIDE DEF frs
<1>5. /\ n \in Management /\ SameTable(m, n) /\ n.frames = frs /\ n.file = m.file
      /\ n.page = m.page /\ n.rc = m.rc /\ n.record = m.record
  BY <1>4, WithFrames DEF SameTable
<1> HIDE DEF n
<1> QED
  BY <1>2, <1>3, <1>4, <1>5 DEF Marks

\* What the handle's stream still had is in the file.
LEMMA FlushedFile ==
  ASSUME NEW m \in Management
  PROVE  FileFlushed(m) \in Seq(Block) /\ Len(FileFlushed(m)) >= Len(m.file)
<1>1. /\ m.file \in Seq(Block) /\ m.pend \in Seq([page : Nat, data : Block])
  BY DEF Management
<1>2. CASE m.pend # << >>
  <2> DEFINE W == [page : Nat, data : Block]
  <2>1. m.pend[1] \in W
    <3> HIDE DEF W
    <3>1. m.pend \in Seq(W)
      BY <1>1 DEF W
    <3>2. Len(m.pend) \in Nat \ {0}
      BY <1>2, <3>1, EmptySeq
    <3> QED
      BY <3>1, <3>2
  <2>2. m.pend[1].page \in Nat /\ m.pend[1].data \in Block
    BY <2>1
  <2> DEFINE p   == m.pend[1].page
             d   == m.pend[1].data
             new == Put(m.file, p, d)
  <2>3. FileFlushed(m) = new
    BY <1>2 DEF FileFlushed
  <2>4. p \in Nat /\ d \in Block
    BY <2>2
  <2> HIDE DEF p, d
  <2>5. new \in Seq(Block) /\ Len(new) = IF p < Len(m.file) THEN Len(m.file) ELSE p + 1
    BY <1>1, <2>4, PutBlock
  <2> QED
    BY <1>1, <2>3, <2>4, <2>5
<1> QED
  BY <1>1, <1>2 DEF FileFlushed

\* writeBlock of an accepted page leaves it with the stream, after what the
\* stream had went to the file.
Writes(m, n, p, block) ==
  /\ n.open = m.open /\ n.total = m.total /\ n.dir = m.dir /\ n.broken = m.broken
  /\ n.frames = m.frames /\ n.page = m.page /\ n.rc = m.rc /\ n.record = m.record
  /\ IF p <= m.total
     THEN n.file = FileFlushed(m) /\ n.pend = <<[page |-> p, data |-> block]>>
     ELSE n.file = m.file /\ n.pend = m.pend

\* writeBlock puts what the stream has buffered on disk and buffers the block;
\* a block behind the file's end, as the handle counts it, is refused.
LEMMA WrittenBlock ==
  ASSUME NEW m \in Management, NEW p \in Nat, NEW block \in Block
  PROVE  Written(m, p, block) \in Management /\ Writes(m, Written(m, p, block), p, block)
<1>1. m.total \in Nat
  BY DEF Management
<1>2. CASE p <= m.total
  <2> DEFINE file == FileFlushed(m)
             pend == <<[page |-> p, data |-> block]>>
             n    == [m EXCEPT !.file = file, !.pend = pend]
  <2>1. Written(m, p, block) = n
    BY <1>1, <1>2 DEF Written, InReach
  <2>2. file \in Seq(Block) /\ pend \in Seq([page : Nat, data : Block])
    BY FlushedFile
  <2>3. pend = <<[page |-> p, data |-> block]>>
    OBVIOUS
  <2> HIDE DEF pend
  <2>4. n \in Management /\ Writes(m, n, p, block)
    <3>1. file = FileFlushed(m)
      OBVIOUS
    <3> HIDE DEF file
    <3> QED
      BY <1>2, <2>2, <2>3, <3>1 DEF Management, Writes
  <2> QED
    BY <2>1, <2>4
<1>3. CASE ~ (p <= m.total)
  BY <1>1, <1>3 DEF Written, InReach, Writes
<1> QED
  BY <1>2, <1>3

-----------------------------------------------------------------------------
(* The calls on records.                                                    *)

\* The page under pageHndlBM is a block, and its slots are entries.
LEMMA PageBlock ==
  ASSUME NEW m \in Management, Pooled(m.frames, m.page)
  PROVE  /\ Page(m) \in Block
         /\ \A z \in Slots : Slot(m, z) \in SlotEntry
         /\ Page(m).slot \in [Slots -> SlotEntry]
         /\ Page(m).rec \in [1 .. MaxRecords -> Values \cup {Junk}]
         /\ Page(m).dir \in Seq(PageDirectoryEntry)
<1>1. Page(m) \in Block
  BY FrameFound DEF Page, Management, Frame
<1> QED
  BY <1>1 DEF Block, Slot

\* The directory and its entries.
LEMMA DirEntries ==
  ASSUME NEW m \in Management
  PROVE  /\ m.dir \in Seq(PageDirectoryEntry) /\ numPages(m) \in Nat
         /\ \A i \in 1 .. numPages(m) : m.dir[i] \in PageDirectoryEntry
         /\ \A i \in 1 .. numPages(m) : m.dir[i].recordCount \in 0 .. MaxRecords
         /\ \A i \in 1 .. numPages(m) : m.dir[i].freeSpace \in Int
         /\ \A i \in 1 .. numPages(m) : m.dir[i].hasFreeSlot \in BOOLEAN
<1>1. m.dir \in Seq(PageDirectoryEntry)
  BY DEF Management
<1>2. \A i \in 1 .. numPages(m) : m.dir[i] \in PageDirectoryEntry
  BY <1>1 DEF numPages
<1> QED
  BY <1>1, <1>2 DEF PageDirectoryEntry, numPages

\* A new page has an entry behind the others, and its block of zeros is with
\* the handle's stream if the handle reaches it.
NewPage(m, n) ==
  /\ n.dir = Append(m.dir, NewEntry)
  /\ n.open = m.open /\ n.total = m.total /\ n.broken = m.broken
  /\ n.frames = m.frames /\ n.page = m.page
  /\ IF numPages(m) + 2 <= m.total
     THEN n.file = FileFlushed(m) /\ n.pend = <<[page |-> numPages(m) + 2, data |-> ZeroPage]>>
     ELSE n.file = m.file /\ n.pend = m.pend

\* A new data page is one more entry of the directory, with all its space, and
\* a block of zeros written or refused like any other.
LEMMA NewPageAdded ==
  ASSUME NEW m \in Management
  PROVE  /\ WithNewPage(m) \in Management
         /\ NewPage(m, WithNewPage(m))
         /\ numPages(WithNewPage(m)) = numPages(m) + 1
<1> DEFINE d  == Append(m.dir, NewEntry)
           m1 == [m EXCEPT !.dir = d]
           p  == numPages(m) + 2
           n  == Written(m1, p, ZeroPage)
<1>1. NewEntry \in PageDirectoryEntry
  BY Fitting DEF NewEntry, PageDirectoryEntry, PAGE_SIZE
<1>2. /\ d \in Seq(PageDirectoryEntry) /\ Len(d) = numPages(m) + 1
      /\ p \in Nat
  BY <1>1, DirEntries, AppendProperties DEF numPages
<1>3. WithNewPage(m) = n
  BY DEF WithNewPage
<1>4. d = Append(m.dir, NewEntry)
  OBVIOUS
<1> HIDE DEF d
<1>5. /\ m1 \in Management /\ m1.dir = d
      /\ m1.open = m.open /\ m1.total = m.total /\ m1.broken = m.broken
      /\ m1.frames = m.frames /\ m1.page = m.page /\ m1.file = m.file /\ m1.pend = m.pend
  BY <1>2, WithDir
<1> HIDE DEF m1
<1>6. n \in Management /\ Writes(m1, n, p, ZeroPage)
  BY <1>2, <1>5, BlockTypes, WrittenBlock
<1>7. FileFlushed(m1) = FileFlushed(m)
  BY <1>5 DEF FileFlushed
<1> HIDE DEF n
<1>8. numPages(n) = numPages(m) + 1
  BY <1>2, <1>5, <1>6 DEF Writes, numPages
<1>9. NewPage(m, n)
  BY <1>4, <1>5, <1>6, <1>7 DEF Writes, NewPage
<1> QED
  BY <1>3, <1>6, <1>8, <1>9

\* The directory chooses one of the table's pages or the next one.
LEMMA TargetPage ==
  ASSUME NEW m \in Management
  PROVE  /\ Target(m) \in 0 .. numPages(m)
         /\ Target(m) # numPages(m) => m.dir[Target(m) + 1].hasFreeSlot
         /\ \A i \in 0 .. numPages(m) - 1 :
              m.dir[i + 1].hasFreeSlot => Target(m) <= i
<1> DEFINE Room == {i \in 0 .. numPages(m) - 1 : m.dir[i + 1].hasFreeSlot}
           i    == CHOOSE i \in Room : First(Room, i)
<1>1. numPages(m) \in Nat
  BY DirEntries
<1>2. Room \in SUBSET Nat
  BY <1>1
<1>3. CASE Room # {}
  <2>1. First(Room, i)
    BY <1>2, <1>3, FirstChosen
  <2>2. Target(m) = i
    BY <1>3 DEF Target
  <2> HIDE DEF i
  <2> QED
    BY <1>1, <2>1, <2>2 DEF First
<1>4. CASE Room = {}
  BY <1>1, <1>4 DEF Target
<1> QED
  BY <1>3, <1>4

\* The slot chosen is one of the page's, or the next one; free if any is.
LEMMA SlotChosen ==
  ASSUME NEW n \in Management, Pooled(n.frames, n.page), NEW count \in 0 .. MaxRecords
  PROVE  /\ SlotFor(n, count) \in 0 .. count
         /\ SlotFor(n, count) \in Slots
         /\ (\A z \in 0 .. count : ~Slot(n, z).isFree) => SlotFor(n, count) = count
<1> DEFINE Free == {z \in 0 .. count : Slot(n, z).isFree}
           z == CHOOSE z \in Free : First(Free, z)
<1>1. Free \in SUBSET Nat /\ count \in Nat
  BY Fitting
<1>2. CASE Free # {}
  <2>1. First(Free, z)
    BY <1>1, <1>2, FirstChosen
  <2>2. SlotFor(n, count) = z
    BY <1>2 DEF SlotFor
  <2> HIDE DEF z
  <2>3. z \in 0 .. count /\ Slot(n, z).isFree
    BY <2>1 DEF First
  <2>4. z \in Slots
    BY <2>3, Fitting DEF Slots
  <2> QED
    BY <2>2, <2>3, <2>4
<1>3. CASE Free = {}
  BY <1>1, <1>3 DEF SlotFor, Slots
<1> QED
  BY <1>2, <1>3

-----------------------------------------------------------------------------
(* Changing a pinned page.                                                  *)

\* Where a page is found depends on the frames' page numbers only.
LEMMA SameFrames ==
  ASSUME NEW a, NEW b, NEW p,
         \A g \in Frames : b.frames[g].pageNumber = a.frames[g].pageNumber
  PROVE  /\ Holding(b.frames, p) = Holding(a.frames, p)
         /\ Pooled(b.frames, p) <=> Pooled(a.frames, p)
         /\ FrameOf(b, p) = FrameOf(a, p)
<1>1. Holding(b.frames, p) = Holding(a.frames, p)
  BY DEF Holding
<1> QED
  BY <1>1 DEF Pooled, FrameOf

\* n is m with the pinned page holding block, marked dirty, and unpinned.
Wrote(m, n, block) ==
  /\ n.open = m.open /\ n.file = m.file /\ n.total = m.total /\ n.pend = m.pend
  /\ n.broken = m.broken /\ n.page = m.page
  /\ n.rc = IF m.frames[FrameOf(m, m.page)].fix_cnt > 0
            THEN "RC_OK" ELSE "RC_BP_UNPIN_ERROR"
  /\ \A g \in Frames :
       /\ n.frames[g].pageNumber = m.frames[g].pageNumber
       /\ n.frames[g].memPage =
            IF g = FrameOf(m, m.page) THEN block ELSE m.frames[g].memPage
       /\ n.frames[g].dirty =
            IF m.frames[g].pageNumber = m.page THEN TRUE ELSE m.frames[g].dirty
  /\ LessPin(m, n, FrameOf(m, m.page))

\* What deleteRecord, updateRecord and insertRecord do with the page they
\* pinned, whatever they put into the directory and the caller's Record.
LEMMA WrotePage ==
  ASSUME NEW m \in Management, Pooled(m.frames, m.page), NEW block \in Block,
         NEW x \in Management,
         x.open = m.open, x.file = m.file, x.total = m.total, x.pend = m.pend,
         x.broken = m.broken, x.page = m.page, x.frames = Stored(m, block).frames
  PROVE  /\ Unpinned(Dirtied(x)) \in Management
         /\ Wrote(m, Unpinned(Dirtied(x)), block)
         /\ Unpinned(Dirtied(x)).dir = x.dir
         /\ Unpinned(Dirtied(x)).record = x.record
<1> DEFINE s == Stored(m, block)
           d == Dirtied(x)
           u == Unpinned(d)
<1>1. s \in Management /\ Replaces(m, s, block)
  BY StoredFrame
<1>2. d \in Management /\ Marks(x, d)
  BY DirtiedFrames
<1> HIDE DEF s
<1>3. x.frames = s.frames
  BY DEF s
<1> HIDE DEF d
<1>4. \A g \in Frames : d.frames[g].pageNumber = m.frames[g].pageNumber
  BY <1>1, <1>2, <1>3, ZenonT(40) DEF Replaces, Marks
<1>5. d.page = m.page
  BY <1>2 DEF Marks
<1>6. Pooled(d.frames, d.page) /\ FrameOf(d, d.page) = FrameOf(m, m.page)
  BY <1>4, <1>5, SameFrames
<1>7. /\ u \in Management /\ SameContent(d, u) /\ u.record = d.record
      /\ u.rc = IF d.frames[FrameOf(m, m.page)].fix_cnt > 0
                THEN "RC_OK" ELSE "RC_BP_UNPIN_ERROR"
      /\ LessPin(d, u, FrameOf(m, m.page))
  BY <1>2, <1>6, UnpinnedFrames
<1>8. FrameOf(m, m.page) \in Frames
  BY FrameFound
<1>9. u.dir = x.dir /\ u.record = x.record
  BY <1>2, <1>7 DEF Marks, SameContent, SameTable
<1> HIDE DEF u
<1>10. \A g \in Frames : d.frames[g].fix_cnt = m.frames[g].fix_cnt
  BY <1>1, <1>2, <1>3, ZenonT(40) DEF Replaces, Marks
<1>11. LessPin(m, u, FrameOf(m, m.page))
  BY <1>7, <1>10 DEF LessPin
<1>12. ASSUME NEW g \in Frames
       PROVE  /\ u.frames[g].pageNumber = m.frames[g].pageNumber
              /\ u.frames[g].memPage =
                   IF g = FrameOf(m, m.page) THEN block ELSE m.frames[g].memPage
              /\ u.frames[g].dirty =
                   IF m.frames[g].pageNumber = m.page THEN TRUE ELSE m.frames[g].dirty
  <2>1. /\ u.frames[g].pageNumber = d.frames[g].pageNumber
        /\ u.frames[g].memPage = d.frames[g].memPage
        /\ u.frames[g].dirty = d.frames[g].dirty
    BY <1>7 DEF SameContent
  <2>2. /\ d.frames[g].memPage = s.frames[g].memPage
        /\ d.frames[g].dirty =
             IF s.frames[g].pageNumber = m.page THEN TRUE ELSE s.frames[g].dirty
    BY <1>2, <1>3 DEF Marks
  <2>3. /\ s.frames[g].pageNumber = m.frames[g].pageNumber
        /\ s.frames[g].dirty = m.frames[g].dirty
        /\ s.frames[g].memPage =
             IF g = FrameOf(m, m.page) THEN block ELSE m.frames[g].memPage
    BY <1>1 DEF Replaces
  <2>4. u.frames[g].dirty = d.frames[g].dirty
    BY <2>1
  <2>5. u.frames[g].dirty =
          IF m.frames[g].pageNumber = m.page THEN TRUE ELSE m.frames[g].dirty
    BY <2>2, <2>3, <2>4
  <2>6. u.frames[g].memPage =
          IF g = FrameOf(m, m.page) THEN block ELSE m.frames[g].memPage
    BY <2>1, <2>2, <2>3
  <2> QED
    BY <1>4, <2>1, <2>5, <2>6
<1>13. u.rc = IF m.frames[FrameOf(m, m.page)].fix_cnt > 0
              THEN "RC_OK" ELSE "RC_BP_UNPIN_ERROR"
  BY <1>7, <1>8, <1>10
<1>14. /\ u.open = m.open /\ u.file = m.file /\ u.total = m.total /\ u.pend = m.pend
       /\ u.broken = m.broken /\ u.page = m.page
  BY <1>2, <1>7 DEF Marks, SameContent, SameTable
<1>15. Wrote(m, u, block)
  BY <1>11, <1>12, <1>13, <1>14 DEF Wrote
<1> QED
  BY <1>7, <1>9, <1>15 DEF u, d

\* The entry insertRecord writes for a page it filled to count records.
EntryFor(old, count) ==
  LET space == old.freeSpace - (RecordSize + SlotSize) IN
  [hasFreeSlot |-> HasRoom(space), freeSpace |-> space, recordCount |-> count]

\* n is m with block in the pinned page, the page's new entry, and both handed
\* to the file handle.
Fills(m, n, i, count, block) ==
  \E u, w \in Management :
    /\ Wrote(m, u, block)
    /\ u.dir = [m.dir EXCEPT ![i + 1] = EntryFor(m.dir[i + 1], count)]
    /\ Writes(u, w, m.page, block)
    /\ Writes(w, n, 1, DirectoryPage(w.dir))

\* The end of insertRecord.
LEMMA FilledPage ==
  ASSUME NEW m \in Management, Pooled(m.frames, m.page), m.page \in Nat,
         NEW i \in 0 .. numPages(m) - 1, NEW count \in 0 .. MaxRecords,
         NEW block \in Block
  PROVE  /\ Filled(m, i, count, block) \in Management
         /\ Fills(m, Filled(m, i, count, block), i, count, block)
<1> DEFINE e == EntryFor(m.dir[i + 1], count)
           d == [m.dir EXCEPT ![i + 1] = e]
           s == Stored(m, block)
           u == Unpinned(Dirtied(s))
           f == [u EXCEPT !.dir = d]
           w == Written(f, m.page, block)
           n == Written(w, 1, DirectoryPage(w.dir))
<1>1. /\ m.dir \in Seq(PageDirectoryEntry) /\ m.dir[i + 1] \in PageDirectoryEntry
      /\ i + 1 \in 1 .. Len(m.dir)
  BY DirEntries DEF numPages
<1>2. e \in PageDirectoryEntry
  <2>1. m.dir[i + 1].freeSpace \in Int
    BY <1>1 DEF PageDirectoryEntry
  <2>2. m.dir[i + 1].freeSpace - (RecordSize + SlotSize) \in Int
    BY <2>1, RecordMgrAssumption DEF SlotSize
  <2>3. HasRoom(m.dir[i + 1].freeSpace - (RecordSize + SlotSize)) \in BOOLEAN
    BY DEF HasRoom
  <2> QED
    BY <2>2, <2>3 DEF EntryFor, PageDirectoryEntry
<1> HIDE DEF e
<1>3. d \in Seq(PageDirectoryEntry)
  BY <1>1, <1>2
<1>4. s \in Management /\ Replaces(m, s, block)
  BY StoredFrame
<1>5. s.frames = Stored(m, block).frames
  OBVIOUS
<1> HIDE DEF s
<1>6. u \in Management /\ Wrote(m, u, block) /\ u.dir = m.dir /\ u.record = m.record
  BY <1>4, <1>5, WrotePage DEF Replaces, SameTable
<1>7. Filled(m, i, count, block) = n
  <2>1. [u EXCEPT !.dir[i + 1] = e] = f
    BY <1>6 DEF Management
  <2> QED
    BY <2>1 DEF Filled, DirectorySaved, EntryFor, e, s
<1>8. d = [m.dir EXCEPT ![i + 1] = EntryFor(m.dir[i + 1], count)]
  BY DEF e
<1> HIDE DEF u, d
<1>9. /\ f \in Management /\ f.dir = d
      /\ f.open = u.open /\ f.file = u.file /\ f.total = u.total /\ f.pend = u.pend
      /\ f.frames = u.frames /\ f.page = u.page /\ f.broken = u.broken /\ f.rc = u.rc
      /\ f.record = u.record
  BY <1>3, <1>6, WithDir
<1> HIDE DEF f
<1>10. Wrote(m, f, block)
  BY <1>6, <1>9 DEF Wrote, LessPin
<1>11. w \in Management /\ Writes(f, w, m.page, block)
  BY <1>9, WrittenBlock
<1> HIDE DEF w
<1>12. w.dir \in Seq(PageDirectoryEntry)
  BY <1>11 DEF Management
<1>13. n \in Management /\ Writes(w, n, 1, DirectoryPage(w.dir))
  BY <1>11, <1>12, BlockTypes, WrittenBlock
<1> QED
  BY <1>7, <1>8, <1>9, <1>10, <1>11, <1>13 DEF Fills

\* The tables differ in what the call returned at most.
SameState(m, n) ==
  /\ n.open = m.open /\ n.file = m.file /\ n.total = m.total /\ n.pend = m.pend
  /\ n.frames = m.frames /\ n.page = m.page /\ n.dir = m.dir /\ n.broken = m.broken

\* The next call sees the table as the last one left it.
LEMMA KeptState ==
  ASSUME NEW m \in Management
  PROVE  /\ Kept(m) \in Management /\ SameState(m, Kept(m))
         /\ Kept(m).rc = "RC_OK" /\ Kept(m).record = None
<1> DEFINE code == "RC_OK"
<1>1. code \in Codes /\ None \in Results
  BY DEF Codes, Results
<1>2. Kept(m) = [m EXCEPT !.rc = code, !.record = None]
  BY DEF Kept
<1>3. code = "RC_OK"
  OBVIOUS
<1> HIDE DEF code
<1> QED
  BY <1>1, <1>2, <1>3 DEF Management, SameState

\* The block of the pinned page with v as record count, and slot pointing at it.
Placed(m, slot, count, v) ==
  [Page(m) EXCEPT !.slot[slot] = [pos |-> count, isFree |-> FALSE], !.rec[count] = v]

\* The block insertRecord stores: the record is where its slot points, and the
\* other slots and records are as they were.
LEMMA PlacedBlock ==
  ASSUME NEW m \in Management, Pooled(m.frames, m.page),
         NEW slot \in Slots, NEW count \in 1 .. MaxRecords, NEW v \in Values
  PROVE  LET block == Placed(m, slot, count, v) IN
         /\ block \in Block
         /\ block.slot[slot].pos = count /\ ~block.slot[slot].isFree
         /\ block.rec[count] = v
         /\ \A z \in Slots \ {slot} : block.slot[z] = Slot(m, z)
         /\ \A q \in (1 .. MaxRecords) \ {count} : block.rec[q] = Page(m).rec[q]
<1> DEFINE s == [Page(m).slot EXCEPT ![slot] = [pos |-> count, isFree |-> FALSE]]
           r == [Page(m).rec EXCEPT ![count] = v]
           b == [[Page(m) EXCEPT !.slot = s] EXCEPT !.rec = r]
<1>1. /\ Page(m) \in Block /\ Page(m).slot \in [Slots -> SlotEntry]
      /\ Page(m).rec \in [1 .. MaxRecords -> Values \cup {Junk}]
  BY PageBlock
<1>2. Placed(m, slot, count, v) = b
  BY <1>1 DEF Placed, Block
<1>3. /\ s \in [Slots -> SlotEntry]
      /\ s[slot].pos = count /\ ~s[slot].isFree
      /\ \A z \in Slots \ {slot} : s[z] = Page(m).slot[z]
  BY <1>1 DEF SlotEntry
<1>4. /\ r \in [1 .. MaxRecords -> Values \cup {Junk}]
      /\ r[count] = v
      /\ \A q \in (1 .. MaxRecords) \ {count} : r[q] = Page(m).rec[q]
  BY <1>1
<1> HIDE DEF s, r
<1>5. b \in Block /\ b.slot = s /\ b.rec = r
  BY <1>1, <1>3, <1>4 DEF Block
<1> HIDE DEF b
<1> QED
  BY <1>2, <1>3, <1>4, <1>5 DEF Slot

\* The record number insertRecord takes for a slot.
CountAt(m, i, slot) ==
  IF Slot(m, slot).isFree THEN m.dir[i + 1].recordCount ELSE m.dir[i + 1].recordCount + 1

\* insertRecord after the choice of a slot: the page is filled, or the record
\* has no place in it.
Inserts(m, n, i, slot, v) ==
  IF CountAt(m, i, slot) \in 1 .. MaxRecords
  THEN \E x \in Management :
         /\ Fills(m, x, i, CountAt(m, i, slot), Placed(m, slot, CountAt(m, i, slot), v))
         /\ SameState(x, n)
         /\ n.rc = "RC_OK" /\ n.record = [page |-> i, slot |-> slot, data |-> v]
  ELSE n.broken /\ n.file = m.file

\* Placing a record fills its slot and counts it in the page's entry, when the
\* number it gets is one the page has room for.
LEMMA InsertedState ==
  ASSUME NEW m \in Management, Pooled(m.frames, m.page), m.page \in Nat,
         NEW i \in 0 .. numPages(m) - 1, NEW slot \in Slots, NEW v \in Values
  PROVE  /\ InsertedAt(m, i, slot, v) \in Management
         /\ Inserts(m, InsertedAt(m, i, slot, v), i, slot, v)
<1> DEFINE count == CountAt(m, i, slot)
           block == Placed(m, slot, count, v)
           x     == Filled(m, i, count, block)
           n     == [x EXCEPT !.rc = "RC_OK", !.record = [page |-> i, slot |-> slot, data |-> v]]
           n0    == [m EXCEPT !.broken = TRUE]
<1>1. InsertedAt(m, i, slot, v) = IF count \in 1 .. MaxRecords THEN n ELSE n0
  BY DEF InsertedAt, CountAt, Placed
<1>2. CASE count \in 1 .. MaxRecords
  <2>1. block \in Block
    BY <1>2, PlacedBlock
  <2>2. count \in 0 .. MaxRecords
    BY <1>2
  <2> HIDE DEF count, block
  <2>3. x \in Management /\ Fills(m, x, i, count, block)
    BY <2>1, <2>2, FilledPage
  <2> HIDE DEF x
  <2> DEFINE code == "RC_OK"
             result == [page |-> i, slot |-> slot, data |-> v]
  <2>4. code \in Codes /\ code = "RC_OK"
    BY DEF Codes
  <2>5. result \in Results
    BY Fitting, DirEntries DEF Results, Slots
  <2>6. n = [x EXCEPT !.rc = code, !.record = result]
    OBVIOUS
  <2>8. result = [page |-> i, slot |-> slot, data |-> v]
    OBVIOUS
  <2> HIDE DEF code, result
  <2> HIDE DEF n
  <2>7. /\ n \in Management /\ SameState(x, n) /\ n.rc = "RC_OK"
        /\ n.record = [page |-> i, slot |-> slot, data |-> v]
    BY <2>3, <2>4, <2>5, <2>6, <2>8 DEF Management, SameState
  <2> QED
    BY <1>1, <1>2, <2>3, <2>7 DEF Inserts, count, block
<1>3. CASE count \notin 1 .. MaxRecords
  <2>1. n0 \in Management /\ n0.broken /\ n0.file = m.file
    BY DEF Management
  <2> HIDE DEF n0
  <2> QED
    BY <1>1, <1>3, <2>1 DEF Inserts, count
<1> QED
  BY <1>2, <1>3

\* No call makes the file shorter.
FileGrows(m, n) == Len(m.file) <= Len(n.file)

\* The page file is a sequence of blocks.
LEMMA FileLength ==
  ASSUME NEW m \in Management
  PROVE  m.file \in Seq(Block) /\ Len(m.file) \in Nat
  BY DEF Management

\* A file that stays does not get shorter.
LEMMA NoGrowth ==
  ASSUME NEW m \in Management, NEW n, n.file = m.file
  PROVE  FileGrows(m, n)
  BY FileLength DEF FileGrows

\* Nor does it in two steps that each do not make it shorter.
LEMMA Growing ==
  ASSUME NEW a \in Management, NEW b \in Management, NEW c \in Management,
         FileGrows(a, b), FileGrows(b, c)
  PROVE  FileGrows(a, c)
<1>1. Len(a.file) \in Nat /\ Len(b.file) \in Nat /\ Len(c.file) \in Nat
  BY DEF Management
<1> QED
  BY <1>1 DEF FileGrows

\* A pin does not make the file shorter.
LEMMA PinGrows ==
  ASSUME NEW m \in Management, NEW p \in Nat
  PROVE  FileGrows(m, Pin(m, p))
<1> DEFINE n == Pin(m, p)
<1>1. /\ n \in Management
      /\ Hit(m, n, p) \/ \E f \in Frames : Read(m, n, p, f)
  BY PinCases
<1> HIDE DEF n
<1>2. m.file \in Seq(Block) /\ m.frames \in [Frames -> Frame]
  BY DEF Management
<1>3. ASSUME Hit(m, n, p) PROVE FileGrows(m, n)
  <2>1. n.file = m.file
    BY <1>3 DEF Hit
  <2> QED
    BY <1>1, <2>1, FileLength DEF FileGrows
<1>4. ASSUME NEW f \in Frames, Read(m, n, p, f) PROVE FileGrows(m, n)
  <2> DEFINE back == WrittenBack(m.file, m.frames, Evicted(m, f))
  <2>1. n.file = Ensured(m.file, p) \/ n.file = Ensured(back, p)
    BY <1>4 DEF Read
  <2>2. back \in Seq(Block) /\ Len(back) >= Len(m.file)
    BY <1>2, WrittenBackType DEF Evicted
  <2> HIDE DEF back
  <2>3. \A x \in Seq(Block) : Len(Ensured(x, p)) >= Len(x)
    BY EnsuredBlocks
  <2>4. Len(Ensured(back, p)) >= Len(back) /\ Len(Ensured(m.file, p)) >= Len(m.file)
    BY <1>2, <2>2, <2>3
  <2>5. Ensured(back, p) \in Seq(Block)
    BY <2>2, EnsuredBlocks
  <2> QED
    BY <1>2, <2>1, <2>2, <2>4, <2>5 DEF FileGrows
<1> QED
  BY <1>1, <1>3, <1>4 DEF n

\* After a pin the page is in the pool, under the page handle, and has a pin.
LEMMA Pinned ==
  ASSUME NEW m \in Management, NEW p \in Nat
  PROVE  /\ Pin(m, p) \in Management /\ SameTable(m, Pin(m, p)) /\ Pin(m, p).page = p
         /\ Pooled(Pin(m, p).frames, Pin(m, p).page)
         /\ Pin(m, p).frames[FrameOf(Pin(m, p), Pin(m, p).page)].fix_cnt > 0
<1> DEFINE n == Pin(m, p)
<1>1. /\ n \in Management /\ SameTable(m, n) /\ n.page = p
      /\ Hit(m, n, p) \/ \E f \in Frames : Read(m, n, p, f)
  BY PinCases
<1> HIDE DEF n
<1>2. CASE Hit(m, n, p)
  <2>1. FrameOf(m, p) \in Holding(m.frames, p)
    BY <1>2 DEF Hit
  <2>2. \A g \in Frames : n.frames[g].pageNumber = m.frames[g].pageNumber
    BY <1>2 DEF Hit
  <2>3. Pooled(n.frames, p) /\ FrameOf(n, p) = FrameOf(m, p)
    BY <2>1, <2>2, SameFrames DEF Pooled
  <2>4. FrameOf(m, p) \in Frames
    BY <2>1 DEF Holding
  <2>5. n.frames[FrameOf(m, p)].fix_cnt = m.frames[FrameOf(m, p)].fix_cnt + 1
    BY <1>2, <2>4 DEF Hit
  <2>6. m.frames[FrameOf(m, p)].fix_cnt \in Nat
    BY <2>4 DEF Management, Frame
  <2> QED
    BY <1>1, <2>3, <2>5, <2>6 DEF n
<1>3. CASE \E f \in Frames : Read(m, n, p, f)
  <2>1. PICK f \in Frames : Read(m, n, p, f)
    BY <1>3
  <2>2. f \in Holding(n.frames, p) /\ n.frames[f].fix_cnt = 1
    BY <2>1 DEF Read, Holding
  <2>3. \A g \in Holding(n.frames, p) : g = f
    BY <2>1 DEF Read, Holding, Pooled, SameUse
  <2>4. Pooled(n.frames, p) /\ FrameOf(n, p) = f
    BY <1>1, <2>2, <2>3, FrameFound DEF Pooled
  <2> QED
    BY <1>1, <2>2, <2>4 DEF n
<1> QED
  BY <1>1, <1>2, <1>3

\* insertRecord pins the last page of a table that has the page it chose.
LEMMA PinnedLast ==
  ASSUME NEW m \in Management
  PROVE  LET pages == IF Target(m) = numPages(m) THEN WithNewPage(m) ELSE m
             n     == PinnedForInsert(m)
         IN  /\ pages \in Management
             /\ n = Pin(pages, numPages(pages) + 1)
             /\ n \in Management /\ SameTable(pages, n) /\ n.page = numPages(n) + 1
             /\ n.page \in Nat /\ numPages(n) = numPages(pages)
             /\ Pooled(n.frames, n.page)
             /\ n.frames[FrameOf(n, n.page)].fix_cnt > 0
             /\ Target(m) \in 0 .. numPages(n) - 1
             /\ FileGrows(m, n)
<1> DEFINE pages == IF Target(m) = numPages(m) THEN WithNewPage(m) ELSE m
           n     == PinnedForInsert(m)
<1>1. pages \in Management /\ Target(m) \in 0 .. numPages(pages) - 1
  <2>1. numPages(m) \in Nat /\ Target(m) \in 0 .. numPages(m)
    BY DirEntries, TargetPage
  <2>2. WithNewPage(m) \in Management /\ numPages(WithNewPage(m)) = numPages(m) + 1
    BY NewPageAdded
  <2> QED
    BY <2>1, <2>2
<1>2. n = Pin(pages, numPages(pages) + 1)
  BY DEF PinnedForInsert
<1>6. FileGrows(m, pages)
  <2>1. WithNewPage(m).file = FileFlushed(m) \/ WithNewPage(m).file = m.file
    BY NewPageAdded DEF NewPage
  <2>2. Len(FileFlushed(m)) >= Len(m.file) /\ FileFlushed(m) \in Seq(Block)
    BY FlushedFile
  <2> QED
    BY <2>1, <2>2, FileLength DEF FileGrows
<1> HIDE DEF pages
<1>3. numPages(pages) \in Nat /\ numPages(pages) + 1 \in Nat
  BY <1>1, DirEntries
<1>4. /\ n \in Management /\ SameTable(pages, n) /\ n.page = numPages(pages) + 1
      /\ Pooled(n.frames, n.page) /\ n.frames[FrameOf(n, n.page)].fix_cnt > 0
  BY <1>1, <1>2, <1>3, Pinned
<1>5. numPages(n) = numPages(pages)
  BY <1>4 DEF SameTable, numPages
<1>7. FileGrows(m, n)
  BY <1>1, <1>2, <1>3, <1>4, <1>6, PinGrows, Growing
<1> QED
  BY <1>1, <1>2, <1>3, <1>4, <1>5, <1>7 DEF pages

\* A write does not make the file shorter.
LEMMA WriteGrows ==
  ASSUME NEW m \in Management, NEW n, NEW p, NEW block, Writes(m, n, p, block)
  PROVE  FileGrows(m, n)
<1>1. n.file = FileFlushed(m) \/ n.file = m.file
  BY DEF Writes
<1>2. Len(FileFlushed(m)) >= Len(m.file) /\ FileFlushed(m) \in Seq(Block)
  BY FlushedFile
<1> QED
  BY <1>1, <1>2, FileLength DEF FileGrows

\* What insertRecord hands to the file handle makes the file no shorter.
LEMMA InsertGrows ==
  ASSUME NEW m \in Management, NEW n \in Management, NEW i, NEW slot, NEW v,
         Inserts(m, n, i, slot, v)
  PROVE  FileGrows(m, n)
<1>1. CASE n.file = m.file
  <2>1. Len(m.file) \in Nat
    BY DEF Management
  <2> QED
    BY <1>1, <2>1 DEF FileGrows
<1>2. CASE n.file # m.file
  <2> DEFINE count == CountAt(m, i, slot)
             block == Placed(m, slot, count, v)
  <2>1. PICK x \in Management : Fills(m, x, i, count, block) /\ SameState(x, n)
    BY <1>2 DEF Inserts
  <2> HIDE DEF count, block
  <2>2. PICK u, w \in Management :
          /\ Wrote(m, u, block) /\ Writes(u, w, m.page, block)
          /\ Writes(w, x, 1, DirectoryPage(w.dir))
    BY <2>1 DEF Fills
  <2>3. FileGrows(m, u)
    BY <2>2, NoGrowth DEF Wrote
  <2>4. FileGrows(u, w)
    BY <2>2, WriteGrows
  <2>5. FileGrows(w, x)
    BY <2>2, WriteGrows
  <2>6. FileGrows(m, x)
    BY <2>2, <2>3, <2>4, <2>5, Growing
  <2> QED
    BY <2>1, <2>6 DEF SameState, FileGrows
<1> QED
  BY <1>1, <1>2

\* The caller's Record names a slot of a page the table has.
Located(m) == m.record.page \in 0 .. numPages(m) - 1 /\ m.record.slot \in Slots

\* So it does after insertRecord stored a record.
LEMMA InsertedPlace ==
  ASSUME NEW m \in Management, NEW n \in Management, NEW i \in 0 .. numPages(m) - 1,
         NEW slot \in Slots, NEW v, Inserts(m, n, i, slot, v), ~n.broken
  PROVE  Located(n)
<1> DEFINE count == CountAt(m, i, slot)
           block == Placed(m, slot, count, v)
<1>1. /\ n.record = [page |-> i, slot |-> slot, data |-> v]
      /\ \E x \in Management : Fills(m, x, i, count, block) /\ SameState(x, n)
  BY DEF Inserts
<1> HIDE DEF count, block
<1>2. PICK x \in Management : Fills(m, x, i, count, block) /\ SameState(x, n)
  BY <1>1
<1>3. PICK u, w \in Management :
        /\ u.dir = [m.dir EXCEPT ![i + 1] = EntryFor(m.dir[i + 1], count)]
        /\ Writes(u, w, m.page, block)
        /\ Writes(w, x, 1, DirectoryPage(w.dir))
  BY <1>2 DEF Fills
<1>4. n.dir = u.dir
  BY <1>2, <1>3 DEF Writes, SameState
<1>5. m.dir \in Seq(PageDirectoryEntry)
  BY DirEntries
<1>6. numPages(n) = numPages(m)
  BY <1>3, <1>4, <1>5 DEF numPages
<1> QED
  BY <1>1, <1>6 DEF Located

\* insertRecord from the pinned page on.
LEMMA InsertedRecord ==
  ASSUME NEW m \in Management, NEW v \in Values
  PROVE  LET n    == PinnedForInsert(m)
             i    == Target(m)
             slot == SlotFor(n, n.dir[i + 1].recordCount)
         IN  /\ Inserted(m, v) \in Management
             /\ Inserts(n, Inserted(m, v), i, slot, v)
             /\ FileGrows(m, Inserted(m, v))
             /\ ~Inserted(m, v).broken => Located(Inserted(m, v))
<1> DEFINE n    == PinnedForInsert(m)
           i    == Target(m)
           slot == SlotFor(n, n.dir[i + 1].recordCount)
<1>1. /\ n \in Management /\ Pooled(n.frames, n.page) /\ n.page \in Nat
      /\ i \in 0 .. numPages(n) - 1 /\ FileGrows(m, n)
  BY PinnedLast
<1>2. Inserted(m, v) = InsertedAt(n, i, slot, v)
  BY DEF Inserted, InsertedInto
<1> HIDE DEF n, i
<1>3. n.dir[i + 1].recordCount \in 0 .. MaxRecords
  <2>1. i + 1 \in 1 .. numPages(n)
    BY <1>1, DirEntries
  <2> QED
    BY <1>1, <2>1, DirEntries
<1>4. slot \in Slots
  BY <1>1, <1>3, SlotChosen
<1> HIDE DEF slot
<1>5. InsertedAt(n, i, slot, v) \in Management /\ Inserts(n, InsertedAt(n, i, slot, v), i, slot, v)
  BY <1>1, <1>4, InsertedState
<1>6. FileGrows(m, Inserted(m, v))
  BY <1>1, <1>2, <1>5, InsertGrows, Growing
<1>7. ~Inserted(m, v).broken => Located(Inserted(m, v))
  BY <1>1, <1>2, <1>4, <1>5, InsertedPlace
<1> QED
  BY <1>2, <1>5, <1>6, <1>7 DEF n, i, slot

\* An RID is a slot, and of a page the table has, an entry of the directory.
LEMMA RIDParts ==
  ASSUME NEW r \in RIDs
  PROVE  /\ r.slot \in Slots /\ r.slot \in Nat /\ r.page \in Nat
         /\ r.page + 2 \in Nat
         /\ r.page < MaxPages /\ r.slot < MaxRecords
         /\ \A n \in Management :
              Valid(n, r) => r.page + 1 \in 1 .. numPages(n) /\ r.page \in 0 .. numPages(n) - 1
<1>1. r.page \in 0 .. MaxPages - 1 /\ r.slot \in 0 .. MaxRecords - 1
  BY DEF RIDs
<1>2. MaxPages \in Nat
  BY RecordMgrAssumption DEF maxEntriesInPD
<1> QED
  BY <1>1, <1>2, Fitting, DirEntries, SMTT(30) DEF Slots, Valid

\* The pinned page with slot z free, or with v as the record of slot z.
FreeBlock(n, z)   == [Page(n) EXCEPT !.slot[z].isFree = TRUE]
NewBlock(n, z, v) == [Page(n) EXCEPT !.rec[Slot(n, z).pos] = v]

\* deleteRecord's block: the slot is free, its record and the other slots stay.
LEMMA FreeBlockIs ==
  ASSUME NEW n \in Management, Pooled(n.frames, n.page), NEW z \in Slots
  PROVE  /\ FreeBlock(n, z) \in Block
         /\ FreeBlock(n, z).rec = Page(n).rec
         /\ FreeBlock(n, z).slot[z].isFree /\ FreeBlock(n, z).slot[z].pos = Slot(n, z).pos
         /\ \A y \in Slots \ {z} : FreeBlock(n, z).slot[y] = Slot(n, y)
<1> DEFINE e == [Page(n).slot[z] EXCEPT !.isFree = TRUE]
           s == [Page(n).slot EXCEPT ![z] = e]
           b == [Page(n) EXCEPT !.slot = s]
<1>1. /\ Page(n) \in Block /\ Page(n).slot \in [Slots -> SlotEntry]
      /\ Slot(n, z) \in SlotEntry /\ Slot(n, z) = Page(n).slot[z]
  BY PageBlock DEF Slot
<1>2. e \in SlotEntry /\ e.isFree /\ e.pos = Slot(n, z).pos
  BY <1>1 DEF SlotEntry
<1>3. FreeBlock(n, z) = b
  BY <1>1 DEF FreeBlock, Block
<1> HIDE DEF e
<1>4. /\ s \in [Slots -> SlotEntry] /\ s[z] = e
      /\ \A y \in Slots \ {z} : s[y] = Page(n).slot[y]
  BY <1>1, <1>2
<1> HIDE DEF s
<1>5. b \in Block /\ b.slot = s /\ b.rec = Page(n).rec
  BY <1>1, <1>4 DEF Block
<1> HIDE DEF b
<1> QED
  BY <1>2, <1>3, <1>4, <1>5 DEF Slot

\* updateRecord's block: the record of the slot is new, slots and other records
\* stay.
LEMMA NewBlockIs ==
  ASSUME NEW n \in Management, Pooled(n.frames, n.page), NEW z \in Slots, NEW v \in Values,
         Slot(n, z).pos # 0
  PROVE  /\ NewBlock(n, z, v) \in Block
         /\ NewBlock(n, z, v).slot = Page(n).slot
         /\ NewBlock(n, z, v).rec[Slot(n, z).pos] = v
         /\ \A q \in (1 .. MaxRecords) \ {Slot(n, z).pos} :
              NewBlock(n, z, v).rec[q] = Page(n).rec[q]
<1> DEFINE p == Slot(n, z).pos
           q == [Page(n).rec EXCEPT ![p] = v]
           b == [Page(n) EXCEPT !.rec = q]
<1>1. /\ Page(n) \in Block /\ Page(n).rec \in [1 .. MaxRecords -> Values \cup {Junk}]
      /\ p \in 1 .. MaxRecords
  BY PageBlock, Fitting DEF SlotEntry
<1>2. NewBlock(n, z, v) = b
  BY <1>1 DEF NewBlock, Block
<1> HIDE DEF p
<1>3. /\ q \in [1 .. MaxRecords -> Values \cup {Junk}] /\ q[p] = v
      /\ \A x \in (1 .. MaxRecords) \ {p} : q[x] = Page(n).rec[x]
  BY <1>1
<1> HIDE DEF q
<1>4. b \in Block /\ b.slot = Page(n).slot /\ b.rec = q
  BY <1>1, <1>3 DEF Block
<1> HIDE DEF b
<1> QED
  BY <1>2, <1>3, <1>4 DEF p

\* What deleteRecord and updateRecord add to freeSpace is a number.
LEMMA GapInt ==
  ASSUME NEW n \in Management, Pooled(n.frames, n.page), NEW r \in RIDs
  PROVE  Gap(n, r) \in Int /\ Offset(Slot(n, r.slot)) \in Int
         /\ Gap(n, r) = Offset(Slot(n, r.slot)) - r.slot * SlotSize
<1>1. Slot(n, r.slot).pos \in Nat /\ r.slot \in Nat
  BY PageBlock, RIDParts, Fitting DEF SlotEntry
<1>2. RecordSize \in Nat
  BY RecordMgrAssumption DEF SlotSize, PAGE_SIZE
<1>3. Offset(Slot(n, r.slot)) \in Int
  BY <1>1, <1>2 DEF Offset, PAGE_SIZE
<1> QED
  BY <1>1, <1>3 DEF Gap, SlotSize

\* n is m after the record of r was freed in its pinned page.
Frees(m, n, r) ==
  LET old == m.dir[r.page + 1] IN
  /\ Wrote(m, n, FreeBlock(m, r.slot))
  /\ n.record = None
  /\ Len(n.dir) = Len(m.dir)
  /\ \A i \in 1 .. Len(m.dir) : i # r.page + 1 => n.dir[i] = m.dir[i]
  /\ n.dir[r.page + 1].recordCount = old.recordCount
  /\ n.dir[r.page + 1].hasFreeSlot

\* Freeing a slot changes the frame of the page and the entry of the page.
LEMMA FreedPage ==
  ASSUME NEW n \in Management, Pooled(n.frames, n.page), NEW r \in RIDs, Valid(n, r)
  PROVE  Freed(n, r) \in Management /\ Frees(n, Freed(n, r), r)
<1> DEFINE i == r.page + 1
           b == FreeBlock(n, r.slot)
           s == Stored(n, b)
           space == n.dir[i].freeSpace + Offset(Slot(n, r.slot)) - r.slot * SlotSize
           e == [n.dir[i] EXCEPT !.freeSpace = space]
           f == [e EXCEPT !.hasFreeSlot = TRUE]
           c == [n.dir EXCEPT ![i] = e]
           d == [c EXCEPT ![i] = f]
           v == [s EXCEPT !.dir = c]
           w == [v EXCEPT !.dir = d]
           x == [w EXCEPT !.record = None]
           u == Unpinned(Dirtied(x))
<1>1. /\ n.dir \in Seq(PageDirectoryEntry) /\ n.dir[i] \in PageDirectoryEntry
      /\ i \in 1 .. Len(n.dir)
  BY DirEntries, RIDParts DEF numPages
<1>2. b \in Block
  BY RIDParts, FreeBlockIs
<1>3. s \in Management /\ Replaces(n, s, b)
  BY <1>2, StoredFrame
<1>4. s.frames = Stored(n, b).frames /\ s.dir = n.dir
  BY <1>3 DEF Replaces, SameTable
<1>5. space \in Int
  <2>1. n.dir[i].freeSpace \in Int
    BY <1>1 DEF PageDirectoryEntry
  <2>2. Offset(Slot(n, r.slot)) \in Int /\ r.slot * SlotSize \in Int
    BY GapInt, RIDParts DEF SlotSize
  <2> QED
    BY <2>1, <2>2
<1>6. Freed(n, r) = u
  <2>1. [s EXCEPT !.dir[i].freeSpace = @ + Offset(Slot(n, r.slot)) - r.slot * SlotSize] = v
    BY <1>4
  <2>2. [v EXCEPT !.dir[i].hasFreeSlot = TRUE] = w
    <3> HIDE DEF s, e
    <3>1. c[i] = e
      BY <1>1
    <3> HIDE DEF c
    <3>2. v.dir = c
      BY <1>3 DEF Management
    <3> HIDE DEF v
    <3> QED
      BY <3>1, <3>2
  <2>3. Freed(n, r) = Unpinned(Dirtied(
          [[[s EXCEPT !.dir[i].freeSpace = @ + Offset(Slot(n, r.slot)) - r.slot * SlotSize]
               EXCEPT !.dir[i].hasFreeSlot = TRUE] EXCEPT !.record = None]))
    BY DEF Freed, FreeBlock
  <2> QED
    BY <2>1, <2>2, <2>3
<1> HIDE DEF s, space
<1>7. /\ f \in PageDirectoryEntry /\ f.hasFreeSlot
      /\ f.recordCount = n.dir[i].recordCount /\ e \in PageDirectoryEntry
  BY <1>1, <1>5 DEF PageDirectoryEntry
<1> HIDE DEF f, e
<1>8. /\ d \in Seq(PageDirectoryEntry) /\ Len(d) = Len(n.dir) /\ d[i] = f
      /\ c \in Seq(PageDirectoryEntry)
      /\ \A j \in 1 .. Len(n.dir) : j # i => d[j] = n.dir[j]
  BY <1>1, <1>7
<1> HIDE DEF c, d
<1>9. /\ x \in Management /\ x.dir = d /\ x.record = None
      /\ x.open = s.open /\ x.file = s.file /\ x.total = s.total /\ x.pend = s.pend
      /\ x.broken = s.broken /\ x.page = s.page /\ x.frames = s.frames
  <2>1. None \in Results
    BY DEF Results
  <2> QED
    BY <1>3, <1>8, <2>1 DEF Management
<1> HIDE DEF x
<1>10. u \in Management /\ Wrote(n, u, b) /\ u.dir = d /\ u.record = None
  BY <1>2, <1>3, <1>4, <1>9, WrotePage DEF Replaces, SameTable
<1> HIDE DEF u
<1> QED
  BY <1>6, <1>7, <1>8, <1>10 DEF Frees

\* n is m after v replaced the record of r in its pinned page.
Updates(m, n, r, v) ==
  LET old == m.dir[r.page + 1] IN
  /\ Wrote(m, n, NewBlock(m, r.slot, v))
  /\ n.record = [page |-> r.page, slot |-> r.slot, data |-> v]
  /\ Len(n.dir) = Len(m.dir)
  /\ \A i \in 1 .. Len(m.dir) : i # r.page + 1 => n.dir[i] = m.dir[i]
  /\ n.dir[r.page + 1].recordCount = old.recordCount
  /\ n.dir[r.page + 1].hasFreeSlot = old.hasFreeSlot

\* An update in place, marked dirty and unpinned, changes the record in the
\* frame and nothing on disk.
LEMMA UpdatedPage ==
  ASSUME NEW n \in Management, Pooled(n.frames, n.page), NEW r \in RIDs, Valid(n, r),
         NEW v \in Values, Slot(n, r.slot).pos # 0
  PROVE  LET u == Unpinned(Dirtied(InPlace(n, r, v)))
         IN  /\ InPlace(n, r, v) \in Management /\ InPlace(n, r, v).broken = n.broken
             /\ InPlace(n, r, v).file = n.file
             /\ u \in Management /\ Updates(n, u, r, v)
<1> DEFINE i == r.page + 1
           b == NewBlock(n, r.slot, v)
           s == Stored(n, b)
           space == n.dir[i].freeSpace - (RecordSize - Gap(n, r))
           e == [n.dir[i] EXCEPT !.freeSpace = space]
           d == [n.dir EXCEPT ![i] = e]
           result == [page |-> r.page, slot |-> r.slot, data |-> v]
           w == [s EXCEPT !.dir = d]
           x == [w EXCEPT !.record = result]
           u == Unpinned(Dirtied(x))
<1>1. /\ n.dir \in Seq(PageDirectoryEntry) /\ n.dir[i] \in PageDirectoryEntry
      /\ i \in 1 .. Len(n.dir)
  BY DirEntries, RIDParts DEF numPages
<1>2. b \in Block
  BY RIDParts, NewBlockIs
<1>3. s \in Management /\ Replaces(n, s, b)
  BY <1>2, StoredFrame
<1>4. s.frames = Stored(n, b).frames /\ s.dir = n.dir
  BY <1>3 DEF Replaces, SameTable
<1>5. space \in Int
  <2>1. n.dir[i].freeSpace \in Int
    BY <1>1 DEF PageDirectoryEntry
  <2>2. Gap(n, r) \in Int /\ RecordSize \in Int
    BY GapInt, RecordMgrAssumption DEF SlotSize, PAGE_SIZE
  <2> QED
    BY <2>1, <2>2
<1>6. InPlace(n, r, v) = x
  <2>1. [s EXCEPT !.dir[i].freeSpace = @ - (RecordSize - Gap(n, r))] = w
    BY <1>4
  <2>2. InPlace(n, r, v) =
          [[s EXCEPT !.dir[i].freeSpace = @ - (RecordSize - Gap(n, r))]
             EXCEPT !.record = [page |-> r.page, slot |-> r.slot, data |-> v]]
    BY DEF InPlace, NewBlock
  <2> QED
    BY <2>1, <2>2
<1> HIDE DEF s, space
<1>7. /\ e \in PageDirectoryEntry /\ e.hasFreeSlot = n.dir[i].hasFreeSlot
      /\ e.recordCount = n.dir[i].recordCount
  BY <1>1, <1>5 DEF PageDirectoryEntry
<1> HIDE DEF e
<1>8. /\ d \in Seq(PageDirectoryEntry) /\ Len(d) = Len(n.dir) /\ d[i] = e
      /\ \A j \in 1 .. Len(n.dir) : j # i => d[j] = n.dir[j]
  BY <1>1, <1>7
<1> HIDE DEF d
<1>9. result \in Results
  BY RIDParts DEF Results
<1>10. result = [page |-> r.page, slot |-> r.slot, data |-> v]
  OBVIOUS
<1> HIDE DEF result
<1>11. /\ x \in Management /\ x.dir = d /\ x.record = result
       /\ x.open = s.open /\ x.file = s.file /\ x.total = s.total /\ x.pend = s.pend
       /\ x.broken = s.broken /\ x.page = s.page /\ x.frames = s.frames
  BY <1>3, <1>8, <1>9 DEF Management
<1> HIDE DEF x
<1>12. /\ u \in Management /\ Wrote(n, u, b) /\ u.dir = d /\ u.record = result
       /\ x.broken = n.broken /\ x.file = n.file
  BY <1>2, <1>3, <1>4, <1>11, WrotePage DEF Replaces, SameTable
<1>13. u = Unpinned(Dirtied(InPlace(n, r, v)))
  BY <1>6
<1> HIDE DEF u
<1>14. Updates(n, u, r, v)
  BY <1>7, <1>8, <1>10, <1>12 DEF Updates
<1> QED
  BY <1>6, <1>11, <1>12, <1>13, <1>14

\* n is m with one pin less on its page: what a call that found nothing does.
Unpins(m, n) == SameContent(m, n) /\ LessPin(m, n, FrameOf(m, m.page))

\* unpinPage of a page out of the pool is an error and does nothing.
LEMMA UnpinnedState ==
  ASSUME NEW m \in Management
  PROVE  /\ Unpinned(m) \in Management
         /\ Pooled(m.frames, m.page) => Unpins(m, Unpinned(m))
         /\ ~Pooled(m.frames, m.page) => SameState(m, Unpinned(m))
         /\ Unpinned(m).record = m.record
<1>1. CASE Pooled(m.frames, m.page)
  BY <1>1, UnpinnedFrames DEF Unpins
<1>2. CASE ~Pooled(m.frames, m.page)
  <2> DEFINE n == [m EXCEPT !.rc = "RC_BP_UNPIN_ERROR"]
  <2>1. Unpinned(m) = n
    BY <1>2 DEF Unpinned
  <2>2. n \in Management /\ SameState(m, n) /\ n.record = m.record
    BY DEF Management, Codes, SameState
  <2> QED
    BY <1>2, <2>1, <2>2
<1> QED
  BY <1>1, <1>2

\* A call that finds nothing returns a code and no Record.
LEMMA NothingFound ==
  ASSUME NEW m \in Management
  PROVE  /\ Refused(m) \in Management /\ SameState(m, Refused(m))
         /\ Refused(m).rc = "RC_RM_INVALID_RID"
         /\ NotFound(m) \in Management
         /\ Pooled(m.frames, m.page) => Unpins(m, NotFound(m))
         /\ NotFound(m).rc = "RC_RM_RECORD_NOT_FOUND"
<1>1. /\ Refused(m) \in Management /\ SameState(m, Refused(m))
      /\ Refused(m).rc = "RC_RM_INVALID_RID"
  BY DEF Management, Codes, Results, SameState, Refused
<1> DEFINE u == Unpinned(m)
           n == [u EXCEPT !.rc = "RC_RM_RECORD_NOT_FOUND", !.record = None]
<1>2. u \in Management /\ (Pooled(m.frames, m.page) => Unpins(m, u))
  BY UnpinnedState
<1>3. NotFound(m) = n
  BY DEF NotFound
<1> HIDE DEF u
<1>4. n \in Management /\ SameState(u, n) /\ n.rc = "RC_RM_RECORD_NOT_FOUND"
  BY <1>2 DEF Management, Codes, Results, SameState
<1> HIDE DEF n
<1>5. Pooled(m.frames, m.page) => Unpins(m, n)
  BY <1>2, <1>4 DEF Unpins, SameState, SameContent, SameTable, LessPin
<1> QED
  BY <1>1, <1>3, <1>4, <1>5

\* The pin of a call on an RID of the table.
LEMMA PinnedRID ==
  ASSUME NEW m \in Management, NEW r \in RIDs, Valid(m, r)
  PROVE  /\ PinnedFor(m, r) \in Management /\ SameTable(m, PinnedFor(m, r))
         /\ PinnedFor(m, r).page = r.page + 2
         /\ Pooled(PinnedFor(m, r).frames, PinnedFor(m, r).page)
         /\ PinnedFor(m, r).frames[FrameOf(PinnedFor(m, r), PinnedFor(m, r).page)].fix_cnt > 0
         /\ Valid(PinnedFor(m, r), r)
         /\ FileGrows(m, PinnedFor(m, r))
<1> DEFINE n == PinnedFor(m, r)
<1>1. /\ n \in Management /\ SameTable(m, n) /\ n.page = r.page + 2
      /\ Pooled(n.frames, n.page) /\ n.frames[FrameOf(n, n.page)].fix_cnt > 0
  BY RIDParts, Pinned DEF PinnedFor
<1>2. Valid(n, r)
  BY <1>1 DEF SameTable, Valid, numPages
<1>3. FileGrows(m, n)
  BY RIDParts, PinGrows DEF PinnedFor
<1> QED
  BY <1>1, <1>2, <1>3

\* unpinPage does not touch the file.
LEMMA UnpinKeepsFile ==
  ASSUME NEW m \in Management, NEW a \in Management, NEW b \in Management,
         FileGrows(m, a), Unpins(a, b)
  PROVE  FileGrows(m, b)
  BY DEF Unpins, SameContent, FileGrows

\* deleteRecord.
Erases(m, n, r) ==
  IF ~Valid(m, r) THEN SameState(m, n) /\ n.rc = "RC_RM_INVALID_RID"
  ELSE IF Slot(PinnedFor(m, r), r.slot).isFree
  THEN Unpins(PinnedFor(m, r), n) /\ n.rc = "RC_RM_RECORD_NOT_FOUND"
  ELSE Frees(PinnedFor(m, r), n, r)

\* deleteRecord as a whole does what Erases says, and makes the file no
\* shorter.
LEMMA ErasedRecord ==
  ASSUME NEW m \in Management, NEW r \in RIDs
  PROVE  Erased(m, r) \in Management /\ Erases(m, Erased(m, r), r)
         /\ FileGrows(m, Erased(m, r))
<1> DEFINE n == PinnedFor(m, r)
<1>1. CASE ~Valid(m, r)
  <2>1. Erased(m, r) = Refused(m)
    BY <1>1 DEF Erased
  <2> QED
    BY <1>1, <2>1, NothingFound, NoGrowth DEF Erases, SameState
<1>2. CASE Valid(m, r)
  <2>1. n \in Management /\ Pooled(n.frames, n.page) /\ Valid(n, r)
        /\ FileGrows(m, n)
    BY <1>2, PinnedRID
  <2>2. Erased(m, r) = ErasedIn(n, r)
    BY <1>2 DEF Erased
  <2> HIDE DEF n
  <2>3. CASE Slot(n, r.slot).isFree
    <3>1. ErasedIn(n, r) = NotFound(n)
      BY <2>3 DEF ErasedIn
    <3>2. /\ NotFound(n) \in Management /\ Unpins(n, NotFound(n))
          /\ NotFound(n).rc = "RC_RM_RECORD_NOT_FOUND"
      BY <2>1, NothingFound
    <3>3. FileGrows(m, NotFound(n))
      BY <2>1, <3>2, UnpinKeepsFile
    <3> QED
      BY <1>2, <2>2, <2>3, <3>1, <3>2, <3>3 DEF Erases, n
  <2>4. CASE ~Slot(n, r.slot).isFree
    <3>1. ErasedIn(n, r) = Freed(n, r)
      BY <2>4 DEF ErasedIn
    <3>2. Freed(n, r) \in Management /\ Frees(n, Freed(n, r), r)
      BY <2>1, FreedPage
    <3>3. FileGrows(n, Freed(n, r))
      BY <2>1, <3>2, NoGrowth DEF Frees, Wrote
    <3>4. FileGrows(m, Freed(n, r))
      BY <2>1, <3>2, <3>3, Growing
    <3> QED
      BY <1>2, <2>1, <2>2, <2>4, <3>1, <3>2, <3>4 DEF Erases, n
  <2> QED
    BY <2>3, <2>4
<1> QED
  BY <1>1, <1>2

\* What a slot says is a record's contents or bytes that never were one.
LEMMA ContentType ==
  ASSUME NEW block \in Block, NEW z \in Slots
  PROVE  Content(block, z) \in Values \cup {Junk}
<1>1. /\ block.slot[z].pos \in 0 .. MaxRecords
      /\ block.rec \in [1 .. MaxRecords -> Values \cup {Junk}]
  BY DEF Block, SlotEntry
<1> QED
  BY <1>1, Fitting DEF Content

\* getRecord changes no table.
LEMMA FetchedRecord ==
  ASSUME NEW m \in Management, NEW r \in RIDs
  PROVE  /\ Fetched(m, r) \in Management
         /\ Valid(m, r) => Unpins(PinnedFor(m, r), Fetched(m, r))
         /\ ~Valid(m, r) => SameState(m, Fetched(m, r))
         /\ FileGrows(m, Fetched(m, r))
<1> DEFINE n == PinnedFor(m, r)
<1>1. CASE ~Valid(m, r)
  <2>1. Fetched(m, r) = Refused(m)
    BY <1>1 DEF Fetched
  <2> QED
    BY <1>1, <2>1, NothingFound, NoGrowth DEF SameState
<1>2. CASE Valid(m, r)
  <2>1. n \in Management /\ Pooled(n.frames, n.page) /\ Valid(n, r)
        /\ FileGrows(m, n)
    BY <1>2, PinnedRID
  <2>2. Fetched(m, r) = FetchedFrom(n, r)
    BY <1>2 DEF Fetched
  <2> HIDE DEF n
  <2>3. CASE Slot(n, r.slot).isFree
    <3>1. FetchedFrom(n, r) = NotFound(n)
      BY <2>3 DEF FetchedFrom
    <3>2. NotFound(n) \in Management /\ Unpins(n, NotFound(n))
      BY <2>1, NothingFound
    <3>3. FileGrows(m, NotFound(n))
      BY <2>1, <3>2, UnpinKeepsFile
    <3> QED
      BY <1>2, <2>2, <3>1, <3>2, <3>3 DEF n
  <2>4. CASE ~Slot(n, r.slot).isFree
    <3> DEFINE c == Content(Page(n), r.slot)
               result == [page |-> r.page, slot |-> r.slot, data |-> c]
               u == Unpinned(n)
               x == [u EXCEPT !.record = result]
    <3>1. c \in Values \cup {Junk}
      BY <2>1, PageBlock, RIDParts, ContentType
    <3>2. FetchedFrom(n, r) = x
      BY <2>4 DEF FetchedFrom
    <3> HIDE DEF c
    <3>3. result \in Results
      BY <3>1, RIDParts DEF Results
    <3>4. u \in Management /\ Unpins(n, u)
      BY <2>1, UnpinnedState
    <3> HIDE DEF result, u
    <3>5. x \in Management /\ SameState(u, x)
      BY <3>3, <3>4, WithRecord DEF SameState
    <3> HIDE DEF x
    <3>6. Unpins(n, x)
      BY <3>4, <3>5 DEF Unpins, SameState, SameContent, SameTable, LessPin
    <3>7. FileGrows(m, x)
      BY <2>1, <3>5, <3>6, UnpinKeepsFile
    <3> QED
      BY <1>2, <2>2, <3>2, <3>5, <3>6, <3>7 DEF n
  <2> QED
    BY <2>3, <2>4
<1> QED
  BY <1>1, <1>2

\* updateRecord, as far as it replaces a record in place.
Alters(m, n, r, v) ==
  LET p == PinnedFor(m, r) IN
  IF ~Valid(m, r) THEN SameState(m, n) /\ n.rc = "RC_RM_INVALID_RID"
  ELSE IF Slot(p, r.slot).isFree THEN Unpins(p, n) /\ n.rc = "RC_RM_RECORD_NOT_FOUND"
  ELSE ~NoRoom(p, r) /\ Slot(p, r.slot).pos # 0 /\ ~p.broken => Updates(p, n, r, v)

\* Whatever updateRecord does last, it leaves a table.
LEMMA FinishedType ==
  ASSUME NEW m \in Management
  PROVE  /\ Finished(m) \in Management /\ FileGrows(m, Finished(m))
         /\ Finished(m).record = m.record /\ Finished(m).dir = m.dir
         /\ Finished(m).broken = m.broken
<1> DEFINE d == Dirtied(m)
           u == Unpinned(d)
<1>1. /\ d \in Management /\ d.file = m.file
      /\ d.record = m.record /\ d.dir = m.dir /\ d.broken = m.broken
  BY DirtiedFrames DEF Marks, SameTable
<1> HIDE DEF d
<1>2. /\ u \in Management /\ u.file = d.file
      /\ u.record = d.record /\ u.dir = d.dir /\ u.broken = d.broken
  BY <1>1, UnpinnedState DEF Unpins, SameContent, SameState, SameTable
<1> HIDE DEF u
<1>3. FileGrows(m, u) /\ FileGrows(m, m)
  BY <1>1, <1>2, NoGrowth
<1>4. Finished(m) = IF m.broken THEN m ELSE u
  BY DEF Finished, u, d
<1> QED
  BY <1>1, <1>2, <1>3, <1>4

\* A call on a record names it, unless it was refused or broke off the model.
Names(m) == m.rc \notin Refusals /\ ~m.broken => Located(m)

\* updateRecord as a whole does what Alters says, makes the file no shorter, and
\* names the record.
LEMMA ReplacedRecord ==
  ASSUME NEW m \in Management, NEW r \in RIDs, NEW v \in Values
  PROVE  /\ Replaced(m, r, v) \in Management /\ Alters(m, Replaced(m, r, v), r, v)
         /\ FileGrows(m, Replaced(m, r, v)) /\ Names(Replaced(m, r, v))
<1> DEFINE n == PinnedFor(m, r)
<1>1. CASE ~Valid(m, r)
  <2>1. Replaced(m, r, v) = Refused(m)
    BY <1>1 DEF Replaced
  <2> QED
    BY <1>1, <2>1, NothingFound, NoGrowth DEF Alters, SameState, Names, Refusals
<1>2. CASE Valid(m, r)
  <2>1. n \in Management /\ Pooled(n.frames, n.page) /\ Valid(n, r)
        /\ FileGrows(m, n)
    BY <1>2, PinnedRID
  <2>2. Replaced(m, r, v) = ReplacedIn(n, r, v)
    BY <1>2 DEF Replaced
  <2> HIDE DEF n
  <2>3. CASE Slot(n, r.slot).isFree
    <3>1. ReplacedIn(n, r, v) = NotFound(n)
      BY <2>3 DEF ReplacedIn
    <3>2. /\ NotFound(n) \in Management /\ Unpins(n, NotFound(n))
          /\ NotFound(n).rc = "RC_RM_RECORD_NOT_FOUND"
      BY <2>1, NothingFound
    <3>3. FileGrows(m, NotFound(n))
      BY <2>1, <3>2, UnpinKeepsFile
    <3> QED
      BY <1>2, <2>2, <2>3, <3>1, <3>2, <3>3 DEF Alters, n, Names, Refusals
  <2>4. CASE ~Slot(n, r.slot).isFree
    <3>2. CASE NoRoom(n, r)
      <4> DEFINE e == Erased(n, r)
                 i == Inserted(e, v)
      <4>1. e \in Management /\ FileGrows(n, e)
        BY <2>1, ErasedRecord
      <4>2. i \in Management /\ FileGrows(e, i) /\ (~i.broken => Located(i))
        <5> HIDE DEF e
        <5> QED
          BY <4>1, InsertedRecord
      <4>3. ReplacedIn(n, r, v) = Finished(i)
        BY <2>4, <3>2 DEF ReplacedIn
      <4> HIDE DEF e, i
      <4>4. Finished(i) \in Management /\ FileGrows(i, Finished(i)) /\ Names(Finished(i))
        BY <4>2, FinishedType DEF Names, Located, numPages
      <4>5. FileGrows(m, Finished(i))
        BY <2>1, <4>1, <4>2, <4>4, Growing
      <4> QED
        BY <1>2, <2>2, <2>4, <3>2, <4>3, <4>4, <4>5 DEF Alters, n
    <3>3. CASE ~NoRoom(n, r) /\ Slot(n, r.slot).pos = 0
      <4> DEFINE x == [n EXCEPT !.broken = TRUE]
      <4>1. ReplacedIn(n, r, v) = x
        BY <2>4, <3>3 DEF ReplacedIn
      <4>2. x \in Management /\ x.file = n.file /\ x.broken
        BY <2>1 DEF Management
      <4> HIDE DEF x
      <4>3. FileGrows(m, x)
        BY <2>1, <4>2 DEF FileGrows
      <4> QED
        BY <1>2, <2>2, <2>4, <3>3, <4>1, <4>2, <4>3 DEF Alters, n, Names
    <3>4. CASE ~NoRoom(n, r) /\ Slot(n, r.slot).pos # 0
      <4> DEFINE x == InPlace(n, r, v)
                 u == Unpinned(Dirtied(x))
      <4>1. /\ x \in Management /\ x.broken = n.broken /\ x.file = n.file
            /\ u \in Management /\ Updates(n, u, r, v)
        BY <2>1, <3>4, UpdatedPage
      <4>2. ReplacedIn(n, r, v) = Finished(x)
        BY <2>4, <3>4 DEF ReplacedIn
      <4>3. ~n.broken => Finished(x) = u
        BY <4>1 DEF Finished
      <4> HIDE DEF u, x
      <4>5. Finished(x) \in Management /\ FileGrows(x, Finished(x)) /\ Names(Finished(x))
        <5>1. Finished(x) \in Management /\ FileGrows(x, Finished(x))
              /\ Finished(x).broken = x.broken
          BY <4>1, FinishedType
        <5>2. ~x.broken => Located(u)
          BY <2>1, <4>1, RIDParts DEF Updates, Located, numPages, Valid
        <5> QED
          BY <4>1, <4>3, <5>1, <5>2 DEF Names
      <4>6. FileGrows(m, x)
        BY <2>1, <4>1 DEF FileGrows
      <4>7. FileGrows(m, Finished(x))
        BY <2>1, <4>1, <4>5, <4>6, Growing
      <4> QED
        BY <1>2, <2>2, <2>4, <4>1, <4>2, <4>3, <4>5, <4>7 DEF Alters, n
    <3> QED
      BY <3>2, <3>3, <3>4
  <2> QED
    BY <2>3, <2>4
<1> QED
  BY <1>1, <1>2

-----------------------------------------------------------------------------
(* Closing, and the records of a table that is read again.                  *)

\* closeTable leaves a file that is no shorter.
LEMMA ClosedFile ==
  ASSUME NEW m \in Management
  PROVE  FileClosed(m) \in Seq(Block) /\ Len(FileClosed(m)) >= Len(m.file)
<1> DEFINE file == WrittenBack(m.file, m.frames, FlushSet(m.frames))
           n == [m EXCEPT !.file = file]
<1>1. m.file \in Seq(Block) /\ m.frames \in [Frames -> Frame] /\ FlushSet(m.frames) \in SUBSET Frames
  BY DEF Management, FlushSet
<1>2. file \in Seq(Block) /\ Len(file) \in Len(m.file) .. Len(m.file) + 1
  BY <1>1, WrittenBackType
<1>3. FileClosed(m) = FileFlushed(n)
  BY DEF FileClosed
<1> HIDE DEF file
<1>4. n \in Management /\ n.file = file
  BY <1>2, WithFile
<1> HIDE DEF n
<1>5. FileFlushed(n) \in Seq(Block) /\ Len(FileFlushed(n)) >= Len(n.file)
  BY <1>4, FlushedFile
<1> QED
  BY <1>1, <1>2, <1>3, <1>4, <1>5

\* The records a file holds are records, or bytes that never were one.
LEMMA RecordsType ==
  ASSUME NEW file \in Seq(Block), Len(file) >= 2
  PROVE  RecordsOnDisk(file) \in [RIDs -> Values \cup {None, Junk}]
<1> DEFINE d == file[2].dir
           B(p) == BlockOnDisk(file, p)
<1>1. RecordsOnDisk(file) = Records(d, B)
  BY DEF RecordsOnDisk
<1>2. \A p \in Nat : B(p) \in Block
  BY BlockTypes DEF BlockOnDisk
<1>3. \A r \in RIDs : Content(B(r.page + 2), r.slot) \in Values \cup {Junk}
  BY <1>2, RIDParts, ContentType
<1> HIDE DEF d, B
<1> QED
  BY <1>1, <1>3 DEF Records

-----------------------------------------------------------------------------
(* Scans.                                                                   *)

\* The table with page i pinned, for the pages next goes through: At in Visit.
PinnedAlong(m, first) ==
  LET At[i \in first .. numPages(m) - 1] ==
        Pin(IF i = first THEN m ELSE Unpinned(At[i - 1]), i + 2)
  IN  At

\* What next returns is read off the pages it pins one after the other.
LEMMA VisitIs ==
  ASSUME NEW m, NEW scan
  PROVE  Visit(m, scan) = VisitAlong(m, scan, PinnedAlong(m, scan.currentPage))
  BY DEF Visit, PinnedAlong

\* Each page is pinned after the one before it was unpinned: the recursion has
\* a solution up to every page, since the first page without one does not exist.
LEMMA PinnedAlongIs ==
  ASSUME NEW m, NEW first \in Nat, NEW last \in Int, last = numPages(m) - 1
  PROVE  PinnedAlong(m, first) =
           [i \in first .. last |->
              Pin(IF i = first THEN m ELSE Unpinned(PinnedAlong(m, first)[i - 1]), i + 2)]
<1> DEFINE Solves(A, k) ==
             A = [i \in first .. k |-> Pin(IF i = first THEN m ELSE Unpinned(A[i - 1]), i + 2)]
           P(k) == \E A : Solves(A, k)
<1>1. P(last)
  <2> SUFFICES ASSUME ~P(last) PROVE FALSE
    OBVIOUS
  <2>1. last \in Nat /\ first <= last
    <3>1. ASSUME last < first PROVE FALSE
      <4> DEFINE A == [i \in {} |-> 0]
      <4>1. Solves(A, last)
        BY <3>1
      <4> QED
        BY <4>1
    <3> QED
      BY <3>1
  <2> DEFINE T == {k \in Nat : first <= k /\ ~P(k)}
  <2>2. PICK k \in T : \A j \in T : k <= j
    <3> HIDE DEF P
    <3> QED
      BY <2>1, Smallest
  <2>3. CASE k = first
    <3> DEFINE A == [i \in first .. k |-> Pin(m, i + 2)]
    <3>1. Solves(A, k)
      BY <2>3
    <3> QED
      BY <2>2, <3>1
  <2>4. CASE k > first
    <3>1. P(k - 1)
      <4> HIDE DEF P
      <4> QED
        BY <2>2, <2>4
    <3>2. PICK A : Solves(A, k - 1)
      BY <3>1
    <3> DEFINE B == [i \in first .. k |-> IF i < k THEN A[i]
                                          ELSE Pin(Unpinned(A[k - 1]), k + 2)]
    <3>3. ASSUME NEW i \in first .. k
          PROVE  B[i] = Pin(IF i = first THEN m ELSE Unpinned(B[i - 1]), i + 2)
      <4>1. CASE i < k
        <5>1. B[i] = A[i] /\ (i # first => B[i - 1] = A[i - 1])
          BY <2>2, <4>1
        <5>2. A[i] = Pin(IF i = first THEN m ELSE Unpinned(A[i - 1]), i + 2)
          BY <2>2, <3>2, <4>1
        <5> QED
          BY <5>1, <5>2
      <4>2. CASE i = k
        <5>1. B[k - 1] = A[k - 1]
          BY <2>2, <2>4
        <5> QED
          BY <2>4, <4>2, <5>1
      <4> QED
        BY <2>2, <4>1, <4>2
    <3>4. B = [i \in first .. k |-> B[i]]
      OBVIOUS
    <3> HIDE DEF B
    <3>5. Solves(B, k)
      BY <3>3, <3>4
    <3> QED
      BY <2>2, <3>5
  <2> QED
    BY <2>2, <2>3, <2>4
<1> QED
  BY <1>1 DEF PinnedAlong

\* Every page is pinned in turn, and the table stays what it is.
LEMMA AlongTable ==
  ASSUME NEW m \in Management, NEW first \in Nat, NEW i \in first .. numPages(m) - 1
  PROVE  LET n == PinnedAlong(m, first)[i] IN
         /\ n \in Management /\ SameTable(m, n) /\ n.page = i + 2
         /\ Pooled(n.frames, n.page) /\ n.frames[FrameOf(n, n.page)].fix_cnt > 0
         /\ FileGrows(m, n)
<1> DEFINE At == PinnedAlong(m, first)
           Is(n, j) == /\ n \in Management /\ SameTable(m, n) /\ n.page = j + 2
                       /\ Pooled(n.frames, n.page)
                       /\ n.frames[FrameOf(n, n.page)].fix_cnt > 0
                       /\ FileGrows(m, n)
           last == numPages(m) - 1
           T == {j \in first .. last : ~Is(At[j], j)}
<1>1. numPages(m) \in Nat /\ last \in Int /\ last = numPages(m) - 1
  BY DirEntries
<1>2. \A j \in first .. last : At[j] = Pin(IF j = first THEN m ELSE Unpinned(At[j - 1]), j + 2)
  <2>1. At = [j \in first .. last |-> Pin(IF j = first THEN m ELSE Unpinned(At[j - 1]), j + 2)]
    BY <1>1, PinnedAlongIs
  <2> HIDE DEF At, last
  <2> QED
    BY <2>1
<1> HIDE DEF At, last, Is
<1>3. ASSUME NEW a \in Management, SameTable(m, a), FileGrows(m, a),
             NEW j \in first .. last
      PROVE  Is(Pin(a, j + 2), j)
  <2>1. j + 2 \in Nat
    OBVIOUS
  <2>2. SameTable(m, Pin(a, j + 2))
    BY <1>3, <2>1, Pinned DEF SameTable
  <2>3. Pin(a, j + 2) \in Management /\ FileGrows(m, Pin(a, j + 2))
    BY <1>3, <2>1, Pinned, PinGrows, Growing
  <2> QED
    BY <2>1, <2>2, <2>3, Pinned DEF Is
<1>4. T = {}
  <2> SUFFICES ASSUME T # {} PROVE FALSE
    OBVIOUS
  <2>1. T \in SUBSET Nat
    BY <1>1
  <2>2. PICK j \in T : \A k \in T : j <= k
    BY <2>1, Smallest
  <2>3. CASE j = first
    <3>1. SameTable(m, m) /\ FileGrows(m, m)
      BY NoGrowth DEF SameTable
    <3>2. Is(Pin(m, j + 2), j)
      BY <1>3, <2>2, <3>1
    <3> QED
      BY <1>2, <2>2, <2>3, <3>2
  <2>4. CASE j # first
    <3>1. j - 1 \in first .. last /\ j - 1 \notin T
      BY <1>1, <2>2, <2>4
    <3>2. /\ At[j - 1] \in Management /\ SameTable(m, At[j - 1])
          /\ FileGrows(m, At[j - 1])
      BY <3>1 DEF Is
    <3> DEFINE a == Unpinned(At[j - 1])
    <3>3. a \in Management /\ SameTable(m, a) /\ FileGrows(m, a)
      BY <3>2, UnpinnedState DEF SameTable, SameState, Unpins, SameContent, FileGrows
    <3> HIDE DEF a
    <3>4. Is(Pin(a, j + 2), j)
      BY <1>3, <2>2, <3>3
    <3>5. At[j] = Pin(a, j + 2)
      BY <1>2, <2>2, <2>4 DEF a
    <3> QED
      BY <2>2, <3>4, <3>5
  <2> QED
    BY <2>3, <2>4
<1> QED
  BY <1>4 DEF Is, At, last

\* The matches of a scan on the page that At has pinned for it.
FoundAt(At, scan, i) == Matches(At[i], i, FirstSlot(scan, i), scan.condition)

\* next found a record: the first match on the first page with one.
Delivers(m, scan, visit, hit, slot) ==
  LET At == PinnedAlong(m, scan.currentPage) IN
  /\ slot \in FoundAt(At, scan, hit) /\ \A z \in FoundAt(At, scan, hit) : slot <= z
  /\ \A i \in scan.currentPage .. hit - 1 : FoundAt(At, scan, i) = {}
  /\ Unpins(At[hit], visit.mgmt)
  /\ visit.mgmt.rc = "RC_OK"
  /\ visit.mgmt.record = [page |-> hit, slot |-> slot, data |-> Content(Page(At[hit]), slot)]
  /\ visit.scan = [scan EXCEPT !.currentPage = hit, !.currentSlot = slot + 1]

\* next found none.
Ends(m, scan, visit) ==
  LET At == PinnedAlong(m, scan.currentPage) IN
  /\ \A i \in scan.currentPage .. numPages(m) - 1 : FoundAt(At, scan, i) = {}
  /\ visit.mgmt.rc = "RC_RM_NO_MORE_TUPLES"
  /\ IF scan.currentPage >= numPages(m)
     THEN SameState(m, visit.mgmt) /\ visit.scan = scan
     ELSE /\ Unpins(At[numPages(m) - 1], visit.mgmt)
          /\ visit.scan = [scan EXCEPT !.currentPage = numPages(m), !.currentSlot = 0]

\* A ScanInfo.
ScanInfo == [active : BOOLEAN, condition : SUBSET Values,
             currentPage : 0 .. MaxPages, currentSlot : Slots]

\* next finds the first record ahead that matches, or goes through all pages.
LEMMA VisitCases ==
  ASSUME NEW m \in Management, NEW scan \in ScanInfo
  PROVE  /\ Visit(m, scan).mgmt \in Management
         /\ FileGrows(m, Visit(m, scan).mgmt)
         /\ \/ Ends(m, scan, Visit(m, scan))
            \/ \E hit \in scan.currentPage .. numPages(m) - 1, slot \in 0 .. MaxRecords - 1 :
                 Delivers(m, scan, Visit(m, scan), hit, slot)
<1> DEFINE first == scan.currentPage
           last  == numPages(m) - 1
           At    == PinnedAlong(m, first)
           visit == Visit(m, scan)
           Found(i) == FoundAt(At, scan, i)
           Hits  == {i \in first .. last : Found(i) # {}}
           hit   == CHOOSE i \in Hits : First(Hits, i)
           slot  == CHOOSE z \in Found(hit) : First(Found(hit), z)
           c     == Content(Page(At[hit]), slot)
           result == [page |-> hit, slot |-> slot, data |-> c]
           a     == [Unpinned(At[hit]) EXCEPT !.record = result]
           atEnd == IF first .. last = {} THEN m ELSE Unpinned(At[last])
           b     == [atEnd EXCEPT !.rc = "RC_RM_NO_MORE_TUPLES", !.record = None]
<1>1. first \in Nat /\ numPages(m) \in Nat /\ last \in Int /\ last = numPages(m) - 1
  <2>1. MaxPages \in Nat
    BY RecordMgrAssumption DEF maxEntriesInPD
  <2> QED
    BY <2>1, DirEntries DEF ScanInfo
<1>2. DOMAIN At = first .. last
  <2>1. At = [j \in first .. last |-> Pin(IF j = first THEN m ELSE Unpinned(At[j - 1]), j + 2)]
    <3> HIDE DEF first, last
    <3> QED
      BY <1>1, PinnedAlongIs
  <2> HIDE DEF At, last, first
  <2> QED
    BY <2>1
<1>3. visit = IF Hits # {}
              THEN [mgmt |-> a, scan |-> [scan EXCEPT !.currentPage = hit, !.currentSlot = slot + 1]]
              ELSE [mgmt |-> b,
                    scan |-> IF first .. last = {} THEN scan
                             ELSE [scan EXCEPT !.currentPage = numPages(m), !.currentSlot = 0]]
  BY <1>2, VisitIs DEF VisitAlong, FoundAt
<1>4. ASSUME NEW i \in first .. last
      PROVE  /\ At[i] \in Management /\ SameTable(m, At[i]) /\ At[i].page = i + 2
             /\ Pooled(At[i].frames, At[i].page)
             /\ At[i].frames[FrameOf(At[i], At[i].page)].fix_cnt > 0
             /\ Found(i) \subseteq 0 .. MaxRecords - 1
             /\ FileGrows(m, At[i])
  <2>1. /\ FileGrows(m, At[i])
        /\ At[i] \in Management /\ SameTable(m, At[i]) /\ At[i].page = i + 2
        /\ Pooled(At[i].frames, At[i].page)
        /\ At[i].frames[FrameOf(At[i], At[i].page)].fix_cnt > 0
    BY <1>1, AlongTable
  <2> HIDE DEF At
  <2>2. i + 1 \in 1 .. numPages(At[i])
    BY <1>1, <2>1 DEF SameTable, numPages
  <2>3. At[i].dir[i + 1].recordCount \in 0 .. MaxRecords
    BY <2>1, <2>2, DirEntries
  <2>4. FirstSlot(scan, i) \in Nat
    BY Fitting DEF FirstSlot, ScanInfo, Slots
  <2> QED
    BY <2>1, <2>3, <2>4, Fitting DEF FoundAt, Matches
<1> HIDE DEF visit, At, Found, first, last
<1>5. CASE Hits # {}
  <2>1. First(Hits, hit)
    <3>1. Hits \in SUBSET Nat
      BY <1>1
    <3> HIDE DEF Hits
    <3> QED
      BY <1>5, <3>1, FirstChosen
  <2> HIDE DEF hit
  <2>2. hit \in first .. last /\ Found(hit) # {} /\ \A i \in first .. hit - 1 : Found(i) = {}
    BY <1>1, <2>1 DEF First
  <2>3. Found(hit) \subseteq 0 .. MaxRecords - 1 /\ Found(hit) \in SUBSET Nat
    BY <1>4, <2>2, Fitting
  <2>4. First(Found(hit), slot)
    BY <2>2, <2>3, FirstChosen
  <2> HIDE DEF slot
  <2>5. slot \in Found(hit) /\ (\A z \in Found(hit) : slot <= z) /\ slot \in 0 .. MaxRecords - 1
    BY <2>3, <2>4 DEF First
  <2> DEFINE n == At[hit]
             u == Unpinned(n)
  <2>6. /\ n \in Management /\ Pooled(n.frames, n.page)
        /\ n.frames[FrameOf(n, n.page)].fix_cnt > 0
        /\ FileGrows(m, n)
    BY <1>4, <2>2
  <2> HIDE DEF n
  <2>7. slot \in Slots
    BY <2>5, Fitting DEF Slots
  <2>8. Content(Page(n), slot) \in Values \cup {Junk}
    BY <2>6, <2>7, PageBlock, ContentType
  <2>9. result \in Results
    BY <1>1, <2>2, <2>5, <2>8, Fitting DEF Results, n
  <2>10. u \in Management /\ Unpins(n, u) /\ u.rc = "RC_OK"
    BY <2>6, UnpinnedFrames DEF Unpins
  <2>11. result = [page |-> hit, slot |-> slot, data |-> Content(Page(n), slot)]
    BY DEF n
  <2>12. a = [u EXCEPT !.record = result]
    BY DEF n
  <2> HIDE DEF result, u, a
  <2>13. a \in Management /\ SameState(u, a) /\ a.record = result /\ a.rc = u.rc
    BY <2>9, <2>10, <2>12, WithRecord DEF SameState
  <2>14. Unpins(n, a) /\ a.rc = "RC_OK"
    BY <2>10, <2>13 DEF Unpins, SameState, SameContent, SameTable, LessPin
  <2>15. visit.mgmt = a
    BY <1>3, <1>5
  <2>16. visit.scan = [scan EXCEPT !.currentPage = hit, !.currentSlot = slot + 1]
    BY <1>3, <1>5
  <2>17. Delivers(m, scan, visit, hit, slot)
    BY <2>2, <2>5, <2>11, <2>13, <2>14, <2>15, <2>16 DEF Delivers, Found, At, first, n
  <2>18. FileGrows(m, a)
    BY <2>6, <2>13, <2>14, UnpinKeepsFile
  <2> QED
    BY <2>2, <2>5, <2>13, <2>15, <2>17, <2>18 DEF visit, first, last
<1>6. CASE Hits = {}
  <2>1. atEnd \in Management
    <3>1. CASE first .. last = {}
      BY <3>1
    <3>2. CASE first .. last # {}
      <4>1. last \in first .. last
        BY <1>1, <3>2
      <4> QED
        BY <1>4, <3>2, <4>1, UnpinnedState
    <3> QED
      BY <3>1, <3>2
  <2>2. IF first .. last = {} THEN SameState(m, atEnd) ELSE Unpins(At[last], atEnd)
    <3>1. CASE first .. last = {}
      BY <3>1 DEF SameState
    <3>2. CASE first .. last # {}
      <4>1. last \in first .. last
        BY <1>1, <3>2
      <4> QED
        BY <1>4, <3>2, <4>1, UnpinnedState
    <3> QED
      BY <3>1, <3>2
  <2> HIDE DEF atEnd
  <2>3. b \in Management /\ SameState(atEnd, b) /\ b.rc = "RC_RM_NO_MORE_TUPLES"
    BY <2>1 DEF Management, Codes, Results, SameState
  <2> HIDE DEF b
  <2>4. visit.mgmt = b
    BY <1>3, <1>6
  <2>5. visit.scan = IF first .. last = {} THEN scan
                     ELSE [scan EXCEPT !.currentPage = numPages(m), !.currentSlot = 0]
    BY <1>3, <1>6
  <2>6. first .. last = {} <=> first >= numPages(m)
    BY <1>1
  <2>7. \A i \in first .. last : Found(i) = {}
    BY <1>6
  <2>8. IF first >= numPages(m) THEN SameState(m, b) ELSE Unpins(At[last], b)
    <3>1. CASE first >= numPages(m)
      BY <2>2, <2>3, <2>6, <3>1 DEF SameState
    <3>2. CASE ~ (first >= numPages(m))
      BY <2>2, <2>3, <2>6, <3>2 DEF Unpins, SameState, SameContent, SameTable, LessPin
    <3> QED
      BY <3>1, <3>2
  <2>9. Ends(m, scan, visit)
    BY <2>3, <2>4, <2>5, <2>6, <2>7, <2>8 DEF Ends, Found, At, first, last
  <2>10. FileGrows(m, b)
    <3>1. CASE first >= numPages(m)
      BY <2>8, <3>1, NoGrowth DEF SameState
    <3>2. CASE ~ (first >= numPages(m))
      <4>1. last \in first .. last
        BY <1>1, <3>2
      <4> QED
        BY <1>4, <2>3, <2>8, <3>2, <4>1, UnpinKeepsFile
    <3> QED
      BY <3>1, <3>2
  <2> QED
    BY <2>3, <2>4, <2>9, <2>10 DEF visit
<1> QED
  BY <1>5, <1>6

=============================================================================
