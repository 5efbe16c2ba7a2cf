------------------------ MODULE BufferPoolOrderProofs ------------------------
(***************************************************************************)
(* The order of replacement for every number of frames, pages and clients: *)
(* FIFO's position in the frames is the page loaded first, and lruOrder    *)
(* ranks the pages by their last pins.                                     *)
(*                                                                         *)
(* The invariant has a part for each way the pool reads off an order.      *)
(* Rotating: the frames from readFromDisk % numPages on, and around, hold  *)
(* the pages in the order of their loads, and while the pool fills up,     *)
(* exactly the frames behind that position are free.  Ranked: the lruOrders*)
(* of the frames that have one are different and ascend with the last use. *)
(* Four kinds of steps touch either: nothing moves, the pool is made or    *)
(* freed, a pin finds its page, a pin loads it.                            *)
(***************************************************************************)
EXTENDS BufferPoolOrder, BufferPoolProofs

\* The program has one page handle.
OneClient == \A c, d \in Clients : c = d

\* The loads until FIFO comes to frame f.
Turn(f) == IF f >= readFromDisk THEN f - readFromDisk
                                ELSE f + NumFrames - readFromDisk

Rotating ==
  isInitialized_bp /\ strategy = "RS_FIFO" =>
    \A f \in Frames :
      /\ Pooled(frames, NO_PAGE)
           => (frames[f].pageNumber = NO_PAGE <=> f >= readFromDisk)
      /\ \A g \in Frames :
           frames[f].pageNumber # NO_PAGE /\ frames[g].pageNumber # NO_PAGE
             => (<<frames[f].pageNumber, frames[g].pageNumber>> \in loadedBefore
                   <=> Turn(f) < Turn(g))

Ranked ==
  \A f \in Frames :
    /\ frames[f].lruOrder <= lruCounter
    /\ frames[f].lruOrder > 0 => frames[f].pageNumber # NO_PAGE
    /\ \A g \in Frames :
         frames[f].lruOrder > 0 /\ frames[g].lruOrder > 0
           => /\ frames[f].lruOrder = frames[g].lruOrder => f = g
              /\ <<frames[f].pageNumber, frames[g].pageNumber>> \in usedBefore
                   <=> frames[f].lruOrder < frames[g].lruOrder

-----------------------------------------------------------------------------
(***************************************************************************)
(* The kinds of steps.                                                     *)
(***************************************************************************)

SameStrategy == UNCHANGED <<isInitialized_bp, strategy, stratParam>>

\* No client gets a page.
NoPin == \A c \in Clients : ~Pins(c)

\* Client c gets page p, and no other client a page.
Gets(c, p) == ~Held(c) /\ handle'[c].page = p /\ \A x \in Clients : Pins(x) => x = c

\* Frame f apart, the frames keep their pages and orders.
Others(f) ==
  \A g \in Frames \ {f} : /\ frames'[g].pageNumber = frames[g].pageNumber
                          /\ frames'[g].lruOrder = frames[g].lruOrder

\* Nothing moves.
Quiet ==
  /\ SameStrategy /\ NoPin /\ UNCHANGED <<lruCounter, readFromDisk>>
  /\ \A f \in Frames : /\ frames'[f].pageNumber = frames[f].pageNumber
                       /\ frames'[f].lruOrder = frames[f].lruOrder

\* The pool is made or freed.
Emptied ==
  /\ NoPin /\ lruCounter' = lruCounter
  /\ isInitialized_bp' = ~isInitialized_bp
  /\ isInitialized_bp' => readFromDisk' = 0
  /\ \A f \in Frames : frames'[f].pageNumber = NO_PAGE /\ frames'[f].lruOrder = 0

\* A pin finds its page in frame f.
Hits(c, p, f) ==
  /\ isInitialized_bp /\ SameStrategy /\ Gets(c, p) /\ Others(f)
  /\ frames[f].pageNumber = p /\ frames'[f].pageNumber = p
  /\ frames'[f].lruOrder = lruCounter + 1 /\ lruCounter' = lruCounter + 1
  /\ readFromDisk' = readFromDisk

\* A pin loads its page into frame f.
Loads(c, p, f) ==
  /\ isInitialized_bp /\ SameStrategy /\ Gets(c, p) /\ Others(f)
  /\ ~Pooled(frames, p) /\ frames'[f].pageNumber = p
  /\ readFromDisk' = (readFromDisk + 1) % NumFrames

\* The frame is the first free one.
Fills(c, p, f) ==
  /\ Loads(c, p, f)
  /\ First(Holding(frames, NO_PAGE), f)
  /\ frames'[f].lruOrder = frames[f].lruOrder /\ lruCounter' = lruCounter

\* The frame is the victim of the strategy.
Replaces(c, p, f) ==
  /\ Loads(c, p, f)
  /\ ~Pooled(frames, NO_PAGE) /\ Victim(f)
  /\ frames'[f].lruOrder = lruCounter + 1 /\ lruCounter' = lruCounter + 1

Moves ==
  \E c \in Clients, p \in Pages, f \in Frames :
    Hits(c, p, f) \/ Fills(c, p, f) \/ Replaces(c, p, f)

\* Handles that stay or are given back are no pins.
LEMMA NothingPinned ==
  ASSUME \A c \in Clients : ~Held(c) => handle'[c].page = NO_PAGE
  PROVE  NoPin
  BY DEF NoPin, Pins

\* Every step but pinPage's moves nothing, or all.
LEMMA OtherSteps ==
  ASSUME TypeOK, Next, \A c \in Clients, p \in Pages : ~PinPage(c, p)
  PROVE  Quiet \/ Emptied
<1>1. /\ frames \in [Frames -> Frame]
      /\ handle \in [Clients -> [page : Pages \cup {NO_PAGE},
                                 frame : Frames \cup {-1}, wrote : BOOLEAN]]
  BY DEF TypeOK
<1>2. CASE Unchanged_but_rc
  <2>1. NoPin
    BY <1>2, NothingPinned DEF Unchanged_but_rc, Held
  <2> QED
    BY <1>2, <2>1 DEF Unchanged_but_rc, Quiet, SameStrategy
<1>3. CASE \E s \in Strategies, k \in StratParams : InitBufferPool(s, k)
  <2>1. PICK s \in Strategies, k \in StratParams : InitBufferPool(s, k)
    BY <1>3
  <2>2. CASE ~isInitialized_bp /\ ~Unchanged_but_rc
    <3>1. /\ isInitialized_bp' /\ readFromDisk' = 0 /\ lruCounter' = lruCounter
          /\ handle' = handle
          /\ \E mem \in [Frames -> Fresh] :
               frames' = [f \in Frames |-> EmptyFrame(mem[f])]
      BY <2>1, <2>2 DEF InitBufferPool
    <3>2. \A f \in Frames : frames'[f].pageNumber = NO_PAGE /\ frames'[f].lruOrder = 0
      BY <3>1 DEF EmptyFrame
    <3>3. NoPin
      BY <3>1, NothingPinned DEF Held
    <3> QED
      BY <2>2, <3>1, <3>2, <3>3 DEF Emptied
  <2> QED
    BY <1>2, <2>1, <2>2 DEF InitBufferPool
<1>4. CASE InitBufferPoolFails \/ PinRefused
  BY <1>2, <1>4 DEF InitBufferPoolFails, PinRefused
<1>5. CASE ShutdownBufferPool
  <2>1. CASE isInitialized_bp
    <3>1. /\ ~isInitialized_bp' /\ lruCounter' = lruCounter
          /\ handle' = [c \in Clients |-> NoHandle]
          /\ frames' = [f \in Frames |-> EmptyFrame(ZeroBlock)]
      BY <1>5, <2>1 DEF ShutdownBufferPool
    <3>2. \A f \in Frames : frames'[f].pageNumber = NO_PAGE /\ frames'[f].lruOrder = 0
      BY <3>1 DEF EmptyFrame
    <3>3. NoPin
      BY <3>1, NothingPinned DEF NoHandle
    <3>4. isInitialized_bp = TRUE /\ isInitialized_bp' = FALSE
      BY <1>5, <2>1 DEF ShutdownBufferPool, TypeOK
    <3> QED
      BY <3>1, <3>2, <3>3, <3>4 DEF Emptied
  <2> QED
    BY <1>2, <1>5, <2>1 DEF ShutdownBufferPool
<1>6. ASSUME NEW S, frames' = Cleaned(frames, S), handle' = handle, SameStrategy,
             UNCHANGED <<lruCounter, readFromDisk>>
      PROVE  Quiet
  <2>1. \A f \in Frames : /\ frames'[f].pageNumber = frames[f].pageNumber
                          /\ frames'[f].lruOrder = frames[f].lruOrder
    BY <1>1, <1>6 DEF Cleaned, Frame
  <2>2. NoPin
    BY <1>6, NothingPinned DEF Held
  <2> QED
    BY <1>6, <2>1, <2>2 DEF Quiet
<1>7. CASE ForceFlushPool
  BY <1>2, <1>6, <1>7 DEF ForceFlushPool, SameStrategy
<1>8. CASE \E p \in Pages : ForcePage(p)
  BY <1>6, <1>8 DEF ForcePage, SameStrategy
<1>9. CASE \E c \in Clients : MarkDirty(c)
  <2>1. PICK c \in Clients : MarkDirty(c)
    BY <1>9
  <2>2. \A f \in Frames : /\ frames'[f].pageNumber = frames[f].pageNumber
                          /\ frames'[f].lruOrder = frames[f].lruOrder
    BY <1>1, <2>1 DEF MarkDirty, Frame
  <2>3. NoPin
    BY <1>1, <2>1, NothingPinned DEF MarkDirty, Held
  <2> QED
    BY <2>1, <2>2, <2>3 DEF MarkDirty, Quiet, SameStrategy
<1>10. CASE \E c \in Clients : UnpinPage(c)
  <2>1. PICK c \in Clients : UnpinPage(c)
    BY <1>10
  <2>2. \A f \in Frames : /\ frames'[f].pageNumber = frames[f].pageNumber
                          /\ frames'[f].lruOrder = frames[f].lruOrder
    <3>1. CASE UNCHANGED frames
      BY <3>1
    <3>2. CASE \E f \in Frames : frames' = [frames EXCEPT ![f].fix_cnt = @ - 1]
      BY <1>1, <3>2 DEF Frame
    <3> QED
      BY <2>1, <3>1, <3>2 DEF UnpinPage
  <2>3. NoPin
    BY <1>1, <2>1, NothingPinned DEF UnpinPage, Held, NoHandle
  <2> QED
    BY <2>1, <2>2, <2>3 DEF UnpinPage, Quiet, SameStrategy
<1>11. CASE \E c \in Clients, d \in Data \ {ZeroBlock} : WritePage(c, d)
  <2>1. PICK c \in Clients, d \in Data \ {ZeroBlock} : WritePage(c, d)
    BY <1>11
  <2>2. \A f \in Frames : /\ frames'[f].pageNumber = frames[f].pageNumber
                          /\ frames'[f].lruOrder = frames[f].lruOrder
    BY <1>1, <2>1 DEF WritePage, Frame
  <2>3. NoPin
    BY <1>1, <2>1, NothingPinned DEF WritePage, Held
  <2> QED
    BY <2>1, <2>2, <2>3 DEF WritePage, Quiet, SameStrategy
<1> QED
  BY <1>3, <1>4, <1>5, <1>7, <1>8, <1>9, <1>10, <1>11 DEF Next

-----------------------------------------------------------------------------

\* A pin moves nothing, or puts its page in front.
LEMMA PinSteps ==
  ASSUME TypeOK, NEW c \in Clients, NEW p \in Pages, PinPage(c, p)
  PROVE  Quiet \/ Moves
<1>1. /\ frames \in [Frames -> Frame] /\ lruCounter \in Nat
      /\ ~Held(c) /\ isInitialized_bp /\ SameStrategy
  BY DEF TypeOK, PinPage, SameStrategy
<1>2. ASSUME NEW f \in Frames, Give(c, p, f) PROVE Gets(c, p)
  <2>1. handle'[c].page = p /\ \A x \in Clients \ {c} : handle'[x] = handle[x]
    BY <1>2, GivenHandle
  <2> QED
    BY <1>1, <2>1 DEF Gets, Pins, Held
<1>3. CASE PinHit(c, p)
  <2>1. PICK f \in Frames :
          /\ First(Holding(frames, p), f)
          /\ frames' = [frames EXCEPT ![f].fix_cnt = @ + 1,
                                      ![f].lruOrder = lruCounter + 1]
          /\ Give(c, p, f)
    BY <1>3 DEF PinHit
  <2>2. frames[f].pageNumber = p
    BY <2>1 DEF First, Holding
  <2>3. frames'[f].pageNumber = p /\ frames'[f].lruOrder = lruCounter + 1
    BY <1>1, <2>1, <2>2 DEF Frame
  <2>4. Others(f)
    BY <1>1, <2>1 DEF Others
  <2>5. lruCounter' = lruCounter + 1 /\ readFromDisk' = readFromDisk
    BY <1>3 DEF PinHit
  <2>6. Hits(c, p, f)
    BY <1>1, <1>2, <2>1, <2>2, <2>3, <2>4, <2>5 DEF Hits
  <2> QED
    BY <2>6 DEF Moves
<1>4. ASSUME NEW f \in Frames, NEW fl, NEW order, Load(f, p, fl, order),
             Give(c, p, f), ~Pooled(frames, p)
      PROVE  Loads(c, p, f) /\ frames'[f].lruOrder = order
  <2>1. Gets(c, p)
    BY <1>2, <1>4
  <2>2. frames'[f].pageNumber = p /\ frames'[f].lruOrder = order
    BY <1>1, <1>4 DEF Load
  <2>3. Others(f)
    BY <1>1, <1>4 DEF Others, Load
  <2>4. readFromDisk' = (readFromDisk + 1) % NumFrames
    BY <1>4 DEF Load
  <2> QED
    BY <1>1, <1>4, <2>1, <2>2, <2>3, <2>4 DEF Loads
<1>5. CASE PinFreeSlot(c, p)
  <2>1. PICK f \in Frames :
          /\ First(Holding(frames, NO_PAGE), f)
          /\ Load(f, p, file, frames[f].lruOrder)
          /\ Give(c, p, f)
    BY <1>5 DEF PinFreeSlot
  <2>2. ~Pooled(frames, p) /\ lruCounter' = lruCounter
    BY <1>5 DEF PinFreeSlot
  <2>3. Fills(c, p, f)
    BY <1>4, <2>1, <2>2 DEF Fills
  <2> QED
    BY <2>3 DEF Moves
<1>6. CASE PinReplace(c, p)
  <2>1. PICK v \in Frames :
          /\ Victim(v)
          /\ Load(v, p,
                  IF frames[v].dirty THEN WrittenBack(file, frames, {v}) ELSE file,
                  lruCounter + 1)
          /\ Give(c, p, v)
    BY <1>6 DEF PinReplace
  <2>2. /\ ~Pooled(frames, p) /\ ~Pooled(frames, NO_PAGE)
        /\ lruCounter' = lruCounter + 1
    BY <1>6 DEF PinReplace
  <2>3. Replaces(c, p, v)
    BY <1>4, <2>1, <2>2 DEF Replaces
  <2> QED
    BY <2>3 DEF Moves
<1>7. CASE PinNoVictim(p)
  <2>1. NoPin
    BY <1>7, NothingPinned DEF PinNoVictim, Held
  <2> QED
    BY <1>1, <1>7, <2>1 DEF PinNoVictim, Quiet
<1> QED
  BY <1>3, <1>5, <1>6, <1>7 DEF PinPage

\* Every step is of one of the kinds.
LEMMA Kinds ==
  ASSUME TypeOK, [Next]_vars
  PROVE  Quiet \/ Emptied \/ Moves
<1>1. CASE UNCHANGED vars
  <2>1. NoPin
    BY <1>1, NothingPinned DEF vars, Held
  <2> QED
    BY <1>1, <2>1 DEF vars, Quiet, SameStrategy
<1>2. CASE Next /\ \A c \in Clients, p \in Pages : ~PinPage(c, p)
  BY <1>2, OtherSteps
<1>3. CASE \E c \in Clients, p \in Pages : PinPage(c, p)
  BY <1>3, PinSteps
<1> QED
  BY <1>1, <1>2, <1>3

-----------------------------------------------------------------------------
(***************************************************************************)
(* What the histories record of each kind of step.                         *)
(***************************************************************************)

Forgets == usedBefore' = Kept(usedBefore) /\ loadedBefore' = Kept(loadedBefore)

Records(p) ==
  /\ usedBefore' = Renewed(usedBefore, p)
  /\ loadedBefore' = IF Pooled(frames, p) THEN loadedBefore
                     ELSE Renewed(loadedBefore, p)

\* A pinned page comes last; otherwise only pages that left are forgotten.
LEMMA Histories ==
  ASSUME [OrderNext]_orderVars
  PROVE  /\ NoPin => Forgets \/ UNCHANGED orderVars
         /\ \A c \in Clients, p \in Pages : Gets(c, p) => Records(p)
<1>1. ASSUME NEW c \in Clients, NEW p \in Pages, Gets(c, p)
      PROVE  Records(p)
  <2>1. p # NO_PAGE
    BY BufferPoolAssumption DEF NO_PAGE
  <2>2. Pins(c) /\ \A x \in Clients : Pins(x) => x = c
    BY <1>1, <2>1 DEF Gets, Pins
  <2>3. ~UNCHANGED orderVars
    BY <2>2 DEF orderVars, vars, Pins, Held
  <2> QED
    BY <1>1, <2>2, <2>3 DEF OrderNext, Records, Gets
<1>2. NoPin => Forgets \/ UNCHANGED orderVars
  BY DEF OrderNext, NoPin, Forgets
<1> QED
  BY <1>1, <1>2

\* Among the pages still pooled, forgetting changes no pair.
LEMMA KeptPairs ==
  ASSUME NEW B, NEW a \in PooledPages(frames'), NEW b \in PooledPages(frames')
  PROVE  <<a, b>> \in Kept(B) <=> <<a, b>> \in B
  BY DEF Kept

\* Every other page is before the one renewed, and the rest is as it was.
LEMMA RenewedPairs ==
  ASSUME NEW B, NEW p, NEW a \in PooledPages(frames'), NEW b \in PooledPages(frames')
  PROVE  <<a, b>> \in Renewed(B, p)
           <=> a # p /\ (b = p \/ <<a, b>> \in B)
  BY DEF Renewed

\* The page of a frame that is not free is pooled.
LEMMA FramePooled ==
  ASSUME NEW fr, NEW f \in Frames, fr[f].pageNumber # NO_PAGE
  PROVE  fr[f].pageNumber \in PooledPages(fr)
  BY DEF PooledPages

-----------------------------------------------------------------------------
(***************************************************************************)
(* Ranked.                                                                 *)
(***************************************************************************)

\* The orders stay as they are.
LEMMA RankedStays ==
  ASSUME Ranked, Quiet, Forgets \/ UNCHANGED orderVars
  PROVE  Ranked'
<1>1. /\ lruCounter' = lruCounter
      /\ \A f \in Frames : /\ frames'[f].pageNumber = frames[f].pageNumber
                           /\ frames'[f].lruOrder = frames[f].lruOrder
  BY DEF Quiet
<1>2. ASSUME NEW f \in Frames, NEW g \in Frames,
             frames[f].pageNumber # NO_PAGE, frames[g].pageNumber # NO_PAGE
      PROVE  <<frames[f].pageNumber, frames[g].pageNumber>> \in usedBefore'
               <=> <<frames[f].pageNumber, frames[g].pageNumber>> \in usedBefore
  <2>1. /\ frames[f].pageNumber \in PooledPages(frames')
        /\ frames[g].pageNumber \in PooledPages(frames')
    BY <1>1, <1>2, FramePooled
  <2> QED
    BY <2>1, KeptPairs DEF Forgets, orderVars
<1> QED
  BY <1>1, <1>2 DEF Ranked

\* A pooled page with a new order, higher than all, is the last one used.
LEMMA RankedNewest ==
  ASSUME Ranked, lruCounter \in Nat, frames \in [Frames -> Frame],
         NEW f \in Frames, NEW p \in Pages, Others(f),
         frames'[f].pageNumber = p, frames'[f].lruOrder = lruCounter + 1,
         lruCounter' = lruCounter + 1,
         \A g \in Frames \ {f} : frames[g].pageNumber # p,
         usedBefore' = Renewed(usedBefore, p)
  PROVE  Ranked'
<1>1. \A g \in Frames : /\ frames[g].lruOrder \in Nat
                        /\ frames[g].lruOrder <= lruCounter
                        /\ frames[g].lruOrder > 0 => frames[g].pageNumber # NO_PAGE
  BY DEF Ranked, Frame
<1>2. p # NO_PAGE
  BY BufferPoolAssumption DEF NO_PAGE
<1>3. \A g \in Frames \ {f} : /\ frames'[g].pageNumber = frames[g].pageNumber
                              /\ frames'[g].lruOrder = frames[g].lruOrder
  BY DEF Others
<1>4. ASSUME NEW g \in Frames
      PROVE  /\ frames'[g].lruOrder <= lruCounter'
             /\ frames'[g].lruOrder > 0 => frames'[g].pageNumber # NO_PAGE
  BY <1>1, <1>2, <1>3
<1>5. ASSUME NEW g \in Frames, NEW h \in Frames,
             frames'[g].lruOrder > 0, frames'[h].lruOrder > 0
      PROVE  /\ frames'[g].lruOrder = frames'[h].lruOrder => g = h
             /\ <<frames'[g].pageNumber, frames'[h].pageNumber>> \in usedBefore'
                  <=> frames'[g].lruOrder < frames'[h].lruOrder
  <2>1. /\ frames'[g].pageNumber \in PooledPages(frames')
        /\ frames'[h].pageNumber \in PooledPages(frames')
    BY <1>4, <1>5, FramePooled
  <2>2. <<frames'[g].pageNumber, frames'[h].pageNumber>> \in usedBefore'
          <=> /\ frames'[g].pageNumber # p
              /\ \/ frames'[h].pageNumber = p
                 \/ <<frames'[g].pageNumber, frames'[h].pageNumber>> \in usedBefore
    BY <2>1, RenewedPairs
  <2>3. CASE g = f
    BY <1>1, <1>3, <2>2, <2>3
  <2>4. CASE g # f /\ h = f
    <3>1. frames'[g].pageNumber # p
      BY <1>3, <2>4
    <3>2. frames'[g].lruOrder < lruCounter + 1
      BY <1>1, <1>3, <2>4
    <3> QED
      BY <2>2, <2>4, <3>1, <3>2
  <2>5. CASE g # f /\ h # f
    <3>1. /\ frames'[g].pageNumber = frames[g].pageNumber
          /\ frames'[h].pageNumber = frames[h].pageNumber
          /\ frames'[g].lruOrder = frames[g].lruOrder
          /\ frames'[h].lruOrder = frames[h].lruOrder
          /\ frames[g].pageNumber # p /\ frames[h].pageNumber # p
      BY <1>3, <2>5
    <3>2. /\ frames[g].lruOrder = frames[h].lruOrder => g = h
          /\ <<frames[g].pageNumber, frames[h].pageNumber>> \in usedBefore
               <=> frames[g].lruOrder < frames[h].lruOrder
      BY <1>5, <3>1 DEF Ranked
    <3> QED
      BY <2>2, <3>1, <3>2
  <2> QED
    BY <2>3, <2>4, <2>5
<1> QED
  BY <1>4, <1>5 DEF Ranked

\* A page loaded into a free frame gets no order yet.
LEMMA RankedUnordered ==
  ASSUME Ranked, frames \in [Frames -> Frame],
         NEW c \in Clients, NEW p \in Pages, NEW f \in Frames,
         Fills(c, p, f), usedBefore' = Renewed(usedBefore, p)
  PROVE  Ranked'
<1>1. /\ frames[f].pageNumber = NO_PAGE /\ lruCounter' = lruCounter
      /\ frames'[f].lruOrder = frames[f].lruOrder
      /\ \A g \in Frames \ {f} : /\ frames'[g].pageNumber = frames[g].pageNumber
                                 /\ frames'[g].lruOrder = frames[g].lruOrder
  BY DEF Fills, Loads, Others, First, Holding
<1>2. \A g \in Frames : frames[g].pageNumber # p
  BY DEF Fills, Loads, Pooled, Holding
<1>3. \A g \in Frames : /\ frames'[g].lruOrder = frames[g].lruOrder
                        /\ frames[g].lruOrder > 0
                             => g # f /\ frames[g].pageNumber # NO_PAGE
  BY <1>1 DEF Ranked
<1>4. ASSUME NEW g \in Frames, NEW h \in Frames,
             frames[g].lruOrder > 0, frames[h].lruOrder > 0
      PROVE  <<frames'[g].pageNumber, frames'[h].pageNumber>> \in usedBefore'
               <=> <<frames[g].pageNumber, frames[h].pageNumber>> \in usedBefore
  <2>1. /\ frames'[g].pageNumber = frames[g].pageNumber
        /\ frames'[h].pageNumber = frames[h].pageNumber
        /\ frames'[g].pageNumber # NO_PAGE /\ frames'[h].pageNumber # NO_PAGE
    BY <1>1, <1>3, <1>4
  <2>2. /\ frames'[g].pageNumber \in PooledPages(frames')
        /\ frames'[h].pageNumber \in PooledPages(frames')
    BY <2>1, FramePooled
  <2> QED
    BY <1>2, <2>1, <2>2, RenewedPairs
<1> QED
  BY <1>1, <1>3, <1>4 DEF Ranked

\* Every step keeps the ranking.
LEMMA RankedStep ==
  ASSUME IInv, Ranked, [OrderNext]_orderVars
  PROVE  Ranked'
<1>1. TypeOK /\ lruCounter \in Nat /\ frames \in [Frames -> Frame]
  BY DEF IInv, Shape, TypeOK
<1>2. [Next]_vars
  BY DEF OrderNext, orderVars
<1>3. CASE Quiet
  BY <1>3, Histories, RankedStays DEF Quiet
<1>4. CASE Emptied
  BY <1>1, <1>4 DEF Emptied, Ranked
<1>5. CASE Moves
  <2>1. PICK c \in Clients, p \in Pages, f \in Frames :
          Hits(c, p, f) \/ Fills(c, p, f) \/ Replaces(c, p, f)
    BY <1>5 DEF Moves
  <2>2. Gets(c, p)
    BY <2>1 DEF Hits, Fills, Replaces, Loads
  <2>3. usedBefore' = Renewed(usedBefore, p)
    BY <2>2, Histories DEF Records
  <2>4. CASE Hits(c, p, f)
    <3>1. \A g \in Frames \ {f} : frames[g].pageNumber # p
      BY <2>4, BufferPoolAssumption DEF Hits, IInv, Shape, NoDuplicatePage, NO_PAGE
    <3>2. /\ Others(f) /\ frames'[f].pageNumber = p
          /\ frames'[f].lruOrder = lruCounter + 1 /\ lruCounter' = lruCounter + 1
      BY <2>4 DEF Hits
    <3> QED
      BY <1>1, <2>3, <3>1, <3>2, RankedNewest
  <2>5. CASE Fills(c, p, f)
    BY <1>1, <2>3, <2>5, RankedUnordered
  <2>6. CASE Replaces(c, p, f)
    <3>1. \A g \in Frames \ {f} : frames[g].pageNumber # p
      BY <2>6 DEF Replaces, Loads, Pooled, Holding
    <3>2. /\ Others(f) /\ frames'[f].pageNumber = p
          /\ frames'[f].lruOrder = lruCounter + 1 /\ lruCounter' = lruCounter + 1
      BY <2>6 DEF Replaces, Loads
    <3> QED
      BY <1>1, <2>3, <3>1, <3>2, RankedNewest
  <2> QED
    BY <2>1, <2>4, <2>5, <2>6
<1> QED
  BY <1>1, <1>2, <1>3, <1>4, <1>5, Kinds

-----------------------------------------------------------------------------
(***************************************************************************)
(* Rotating.                                                               *)
(***************************************************************************)

\* The frames are pooled and ordered as they were.
LEMMA RotatingStays ==
  ASSUME Rotating, SameStrategy, readFromDisk' = readFromDisk,
         \A f \in Frames : frames'[f].pageNumber = frames[f].pageNumber,
         loadedBefore' = Kept(loadedBefore) \/ loadedBefore' = loadedBefore
  PROVE  Rotating'
<1>1. Pooled(frames', NO_PAGE) <=> Pooled(frames, NO_PAGE)
  BY DEF Pooled, Holding
<1>2. ASSUME NEW f \in Frames, NEW g \in Frames,
             frames[f].pageNumber # NO_PAGE, frames[g].pageNumber # NO_PAGE
      PROVE  <<frames[f].pageNumber, frames[g].pageNumber>> \in loadedBefore'
               <=> <<frames[f].pageNumber, frames[g].pageNumber>> \in loadedBefore
  <2>1. /\ frames[f].pageNumber \in PooledPages(frames')
        /\ frames[g].pageNumber \in PooledPages(frames')
    BY <1>2, FramePooled
  <2> QED
    BY <2>1, KeptPairs
<1>3. \A f \in Frames : Turn(f)' = Turn(f)
  BY DEF Turn
<1> QED
  BY <1>1, <1>2, <1>3 DEF Rotating, SameStrategy

\* Each load moves every other frame one place forward, and its own to the end.
LEMMA NextTurn ==
  ASSUME readFromDisk \in Frames, readFromDisk' = (readFromDisk + 1) % NumFrames
  PROVE  /\ readFromDisk' = IF readFromDisk + 1 = NumFrames THEN 0
                            ELSE readFromDisk + 1
         /\ \A f \in Frames :
              IF f = readFromDisk
              THEN Turn(f) = 0 /\ Turn(f)' = NumFrames - 1
              ELSE /\ Turn(f) \in Int /\ 0 < Turn(f) /\ Turn(f) < NumFrames
                   /\ Turn(f)' = Turn(f) - 1
<1>1. readFromDisk \in Nat /\ readFromDisk < NumFrames /\ NumFrames \in Nat \ {0}
  BY NumFramesAssumption DEF Frames
<1>2. readFromDisk' = IF readFromDisk + 1 = NumFrames THEN 0 ELSE readFromDisk + 1
  BY <1>1, SMT
<1>3. ASSUME NEW f \in Frames, f = readFromDisk
      PROVE  Turn(f) = 0 /\ Turn(f)' = NumFrames - 1
  BY <1>1, <1>2, <1>3 DEF Turn
<1>4. ASSUME NEW f \in Frames, f # readFromDisk
      PROVE  /\ Turn(f) \in Int /\ 0 < Turn(f) /\ Turn(f) < NumFrames
             /\ Turn(f)' = Turn(f) - 1
  BY <1>1, <1>2, <1>4 DEF Turn, Frames
<1> QED
  BY <1>2, <1>3, <1>4

\* While the program has one page handle, a page goes into the frame whose turn
\* it is: the free frames come in that order, and no frame is pinned.
LEMMA TurnOf ==
  ASSUME OneClient, IInv, Rotating, isInitialized_bp, strategy = "RS_FIFO",
         NEW c \in Clients, ~Held(c), NEW f \in Frames,
         \/ First(Holding(frames, NO_PAGE), f)
         \/ ~Pooled(frames, NO_PAGE) /\ Victim(f)
  PROVE  f = readFromDisk
<1>1. readFromDisk \in Frames /\ Frames \subseteq Nat
  BY FramesNat DEF IInv, Shape, TypeOK
<1>2. CASE First(Holding(frames, NO_PAGE), f)
  <2>1. frames[f].pageNumber = NO_PAGE /\ Pooled(frames, NO_PAGE)
    BY <1>2 DEF First, Holding, Pooled
  <2>2. \A g \in Frames : frames[g].pageNumber = NO_PAGE <=> g >= readFromDisk
    BY <2>1 DEF Rotating
  <2>3. f >= readFromDisk
    BY <2>1, <2>2
  <2>4. readFromDisk \in Holding(frames, NO_PAGE)
    BY <1>1, <2>2 DEF Holding
  <2>5. f <= readFromDisk
    BY <1>2, <2>4 DEF First
  <2> QED
    BY <1>1, <2>3, <2>5
<1>3. CASE ~Pooled(frames, NO_PAGE) /\ Victim(f)
  <2>1. PinsRespected
    BY DEF PinsRespected, OneClient
  <2>2. ASSUME NEW g \in Frames PROVE frames[g].fix_cnt = 0
    <3>1. {x \in Clients : handle[x].frame = g} = {}
      BY <1>1, <2>1, NotHeld, FramesNat DEF OneClient
    <3>2. frames[g].fix_cnt = Cardinality({x \in Clients : handle[x].frame = g})
      BY <2>1 DEF IInv, Service, PinCount
    <3> QED
      BY <3>1, <3>2, FS_EmptySet
  <2>3. FIFOVictim(frames, readFromDisk, f)
    BY <1>3 DEF Victim
  <2>4. PICK i \in Frames :
          /\ f = (readFromDisk + i) % NumFrames
          /\ \A j \in 0 .. i - 1 : frames[(readFromDisk + j) % NumFrames].fix_cnt # 0
    BY <2>3 DEF FIFOVictim
  <2>5. (readFromDisk + 0) % NumFrames = readFromDisk
    BY <1>1, NumFramesAssumption, SMT DEF Frames
  <2>6. i = 0
    <3>1. i \in Nat
      BY <1>1
    <3>2. CASE i > 0
      <4>1. 0 \in 0 .. i - 1
        BY <3>1, <3>2
      <4>2. frames[(readFromDisk + 0) % NumFrames].fix_cnt # 0
        BY <2>4, <4>1
      <4> QED
        BY <1>1, <2>2, <2>5, <4>2
    <3> QED
      BY <3>1, <3>2
  <2> QED
    BY <2>4, <2>5, <2>6
<1> QED
  BY <1>2, <1>3

\* A page loaded into the frame whose turn it is comes last.
LEMMA RotatingLoads ==
  ASSUME OneClient, IInv, Rotating,
         NEW c \in Clients, NEW p \in Pages, NEW f \in Frames,
         Fills(c, p, f) \/ Replaces(c, p, f),
         loadedBefore' = Renewed(loadedBefore, p)
  PROVE  Rotating'
<1> SUFFICES ASSUME strategy' = "RS_FIFO" PROVE Rotating'
  BY DEF Rotating
<1>1. /\ isInitialized_bp /\ strategy = "RS_FIFO" /\ ~Held(c) /\ p # NO_PAGE
      /\ readFromDisk \in Frames /\ Frames \subseteq Nat
      /\ Loads(c, p, f) /\ readFromDisk' = (readFromDisk + 1) % NumFrames
  BY BufferPoolAssumption, FramesNat
     DEF Fills, Replaces, Loads, Gets, SameStrategy, NO_PAGE, IInv, Shape, TypeOK
<1>2. f = readFromDisk
  BY <1>1, TurnOf DEF Fills, Replaces
<1>3. /\ frames'[f].pageNumber = p
      /\ \A g \in Frames : frames[g].pageNumber # p
      /\ \A g \in Frames \ {f} : frames'[g].pageNumber = frames[g].pageNumber
  BY <1>1 DEF Loads, Others, Pooled, Holding
<1>4. /\ readFromDisk' = IF f + 1 = NumFrames THEN 0 ELSE f + 1
      /\ Turn(f) = 0 /\ Turn(f)' = NumFrames - 1
      /\ \A g \in Frames \ {f} : /\ Turn(g) \in Int /\ 0 < Turn(g)
                                 /\ Turn(g) < NumFrames /\ Turn(g)' = Turn(g) - 1
  BY <1>1, <1>2, NextTurn
<1>5. ASSUME NEW g \in Frames, Pooled(frames, NO_PAGE)'
      PROVE  frames'[g].pageNumber = NO_PAGE <=> g >= readFromDisk'
  <2>1. PICK h \in Frames : frames'[h].pageNumber = NO_PAGE
    BY <1>5 DEF Pooled, Holding
  <2>2. h # f /\ frames[h].pageNumber = NO_PAGE /\ Pooled(frames, NO_PAGE)
    BY <1>1, <1>3, <2>1 DEF Pooled, Holding
  <2>3. \A x \in Frames : frames[x].pageNumber = NO_PAGE <=> x >= f
    BY <1>1, <1>2, <2>2 DEF Rotating
  <2>4. h > f /\ readFromDisk' = f + 1
    BY <1>1, <1>4, <2>2, <2>3, NumFramesAssumption DEF Frames
  <2> QED
    BY <1>1, <1>3, <2>3, <2>4
<1>6. ASSUME NEW g \in Frames, NEW h \in Frames,
             frames'[g].pageNumber # NO_PAGE, frames'[h].pageNumber # NO_PAGE
      PROVE  <<frames'[g].pageNumber, frames'[h].pageNumber>> \in loadedBefore'
               <=> Turn(g)' < Turn(h)'
  <2>1. /\ frames'[g].pageNumber \in PooledPages(frames')
        /\ frames'[h].pageNumber \in PooledPages(frames')
    BY <1>6, FramePooled
  <2>2. <<frames'[g].pageNumber, frames'[h].pageNumber>> \in loadedBefore'
          <=> /\ frames'[g].pageNumber # p
              /\ \/ frames'[h].pageNumber = p
                 \/ <<frames'[g].pageNumber, frames'[h].pageNumber>> \in loadedBefore
    BY <2>1, RenewedPairs
  <2>3. CASE g = f
    <3>1. Turn(h)' <= Turn(g)'
      BY <1>4, <2>3, NumFramesAssumption
    <3>2. Turn(h)' \in Int /\ Turn(g)' \in Int
      BY <1>4, <2>3, NumFramesAssumption
    <3> QED
      BY <1>3, <2>2, <2>3, <3>1, <3>2
  <2>4. CASE g # f /\ h = f
    <3>1. Turn(g)' < Turn(h)'
      BY <1>4, <2>4, NumFramesAssumption
    <3> QED
      BY <1>3, <2>2, <2>4, <3>1
  <2>5. CASE g # f /\ h # f
    <3>1. /\ frames'[g].pageNumber = frames[g].pageNumber
          /\ frames'[h].pageNumber = frames[h].pageNumber
          /\ frames[g].pageNumber # p /\ frames[h].pageNumber # p
      BY <1>3, <2>5
    <3>2. <<frames[g].pageNumber, frames[h].pageNumber>> \in loadedBefore
            <=> Turn(g) < Turn(h)
      BY <1>1, <1>6, <3>1 DEF Rotating
    <3>3. Turn(g) < Turn(h) <=> Turn(g)' < Turn(h)'
      BY <1>4, <2>5
    <3> QED
      BY <2>2, <3>1, <3>2, <3>3
  <2> QED
    BY <2>3, <2>4, <2>5
<1> QED
  BY <1>5, <1>6 DEF Rotating

\* Every step keeps the rotation.
LEMMA RotatingStep ==
  ASSUME OneClient, IInv, Rotating, [OrderNext]_orderVars
  PROVE  Rotating'
<1>1. TypeOK /\ Frames \subseteq Nat
  BY FramesNat DEF IInv, Shape
<1>2. [Next]_vars
  BY DEF OrderNext, orderVars
<1>3. CASE Quiet
  <2>1. loadedBefore' = Kept(loadedBefore) \/ loadedBefore' = loadedBefore
    BY <1>3, Histories DEF Quiet, Forgets, orderVars
  <2> QED
    BY <1>3, <2>1, RotatingStays DEF Quiet
<1>4. CASE Emptied
  <2>1. \A f \in Frames : frames'[f].pageNumber = NO_PAGE
    BY <1>4 DEF Emptied
  <2>2. isInitialized_bp' => \A f \in Frames : f >= readFromDisk'
    BY <1>1, <1>4 DEF Emptied
  <2> QED
    BY <2>1, <2>2 DEF Rotating
<1>5. CASE Moves
  <2>1. PICK c \in Clients, p \in Pages, f \in Frames :
          Hits(c, p, f) \/ Fills(c, p, f) \/ Replaces(c, p, f)
    BY <1>5 DEF Moves
  <2>2. Gets(c, p)
    BY <2>1 DEF Hits, Fills, Replaces, Loads
  <2>3. loadedBefore' = IF Pooled(frames, p) THEN loadedBefore
                        ELSE Renewed(loadedBefore, p)
    BY <2>2, Histories DEF Records
  <2>4. CASE Hits(c, p, f)
    <3>1. Pooled(frames, p)
      BY <2>4 DEF Hits, Pooled, Holding
    <3>2. /\ SameStrategy /\ readFromDisk' = readFromDisk
          /\ \A g \in Frames : frames'[g].pageNumber = frames[g].pageNumber
      BY <2>4 DEF Hits, Others
    <3> QED
      BY <2>3, <3>1, <3>2, RotatingStays
  <2>5. CASE Fills(c, p, f) \/ Replaces(c, p, f)
    <3>1. ~Pooled(frames, p)
      BY <2>5 DEF Fills, Replaces, Loads
    <3> QED
      BY <2>3, <2>5, <3>1, RotatingLoads
  <2> QED
    BY <2>1, <2>4, <2>5
<1> QED
  BY <1>1, <1>2, <1>3, <1>4, <1>5, Kinds

-----------------------------------------------------------------------------
(***************************************************************************)
(* Evictions.                                                              *)
(***************************************************************************)

\* The invariants hold before the first call.
LEMMA OrderInitially == OrderInit => IInv /\ Ranked /\ Rotating
<1> SUFFICES ASSUME OrderInit PROVE IInv /\ Ranked /\ Rotating
  OBVIOUS
<1>1. IInv
  BY InitInvariant DEF OrderInit
<1>2. Ranked
  BY DEF OrderInit, Init, EmptyFrame, Ranked
<1>3. Rotating
  BY DEF OrderInit, Init, Rotating
<1> QED
  BY <1>1, <1>2, <1>3

\* Only a replacement evicts a page: the one in the victim's frame.
LEMMA EvictedPage ==
  ASSUME TypeOK, [OrderNext]_orderVars, NEW p \in Pages, Evicted(p)
  PROVE  \E c \in Clients, q \in Pages, f \in Frames :
           Replaces(c, q, f) /\ frames[f].pageNumber = p
<1>1. /\ isInitialized_bp /\ isInitialized_bp'
      /\ p \in PooledPages(frames) /\ p \notin PooledPages(frames')
  BY DEF Evicted
<1>2. PICK g \in Frames : frames[g].pageNumber = p /\ p # NO_PAGE
  BY <1>1 DEF PooledPages
<1>3. frames'[g].pageNumber # p
  BY <1>1, <1>2 DEF PooledPages
<1>4. ~Quiet
  BY <1>2, <1>3 DEF Quiet
<1>5. ~Emptied
  BY <1>1 DEF Emptied
<1>6. [Next]_vars
  BY DEF OrderNext, orderVars
<1>7. PICK c \in Clients, q \in Pages, f \in Frames :
        Hits(c, q, f) \/ Fills(c, q, f) \/ Replaces(c, q, f)
  BY <1>4, <1>5, <1>6, Kinds DEF Moves
<1>8. Others(f)
  BY <1>7 DEF Hits, Fills, Replaces, Loads
<1>9. g = f
  BY <1>2, <1>3, <1>8 DEF Others
<1>10. ~Hits(c, q, f) /\ ~Fills(c, q, f)
  BY <1>2, <1>3, <1>9 DEF Hits, Fills, First, Holding
<1> QED
  BY <1>2, <1>7, <1>9, <1>10

\* FIFO evicts the page that was loaded first.
LEMMA FIFOEvicts ==
  ASSUME OneClient, IInv, Rotating, [OrderNext]_orderVars, strategy = "RS_FIFO",
         NEW p \in Pages, Evicted(p), NEW q \in PooledPages(frames) \ {p}
  PROVE  <<p, q>> \in loadedBefore
<1>1. PICK c \in Clients, r \in Pages, f \in Frames :
        Replaces(c, r, f) /\ frames[f].pageNumber = p
  BY EvictedPage DEF IInv, Shape
<1>2. /\ isInitialized_bp /\ ~Held(c) /\ ~Pooled(frames, NO_PAGE) /\ Victim(f)
      /\ readFromDisk' = (readFromDisk + 1) % NumFrames
  BY <1>1 DEF Replaces, Loads, Gets
<1>3. f = readFromDisk
  BY <1>2, TurnOf
<1>4. PICK g \in Frames : frames[g].pageNumber = q /\ q # NO_PAGE
  BY DEF PooledPages
<1>5. g # f /\ p # NO_PAGE
  BY <1>1, <1>4, BufferPoolAssumption DEF NO_PAGE
<1>6. Turn(f) < Turn(g)
  BY <1>2, <1>3, <1>5, NextTurn DEF IInv, Shape, TypeOK
<1> QED
  BY <1>1, <1>2, <1>4, <1>5, <1>6 DEF Rotating

\* LRU evicts the page that was pinned longest ago.
LEMMA LRUEvicts ==
  ASSUME IInv, Ranked, [OrderNext]_orderVars, strategy = "RS_LRU",
         \A f \in Frames : frames[f].lruOrder > 0,
         NEW p \in Pages, Evicted(p), NEW q \in PooledPages(frames) \ {p}
  PROVE  <<p, q>> \in usedBefore
<1>1. PICK c \in Clients, r \in Pages, f \in Frames :
        Replaces(c, r, f) /\ frames[f].pageNumber = p
  BY EvictedPage DEF IInv, Shape
<1>2. LRUVictim(frames, f)
  BY <1>1 DEF Replaces, Victim
<1>3. PICK g \in Frames : frames[g].pageNumber = q
  BY DEF PooledPages
<1>4. frames[f].lruOrder <= frames[g].lruOrder /\ f # g
  BY <1>1, <1>2, <1>3 DEF LRUVictim, First
<1>5. frames[f].lruOrder \in Nat /\ frames[g].lruOrder \in Nat
  BY DEF IInv, Shape, TypeOK, Frame
<1>6. /\ frames[f].lruOrder = frames[g].lruOrder => f = g
      /\ <<frames[f].pageNumber, frames[g].pageNumber>> \in usedBefore
           <=> frames[f].lruOrder < frames[g].lruOrder
  BY DEF Ranked
<1> QED
  BY <1>1, <1>3, <1>4, <1>5, <1>6

\* LRU_K evicts the page with k - 1 more recent ones in the pool.
LEMMA LRU_KEvicts ==
  ASSUME IInv, Ranked, [OrderNext]_orderVars, strategy = "RS_LRU_K",
         \A f \in Frames : frames[f].lruOrder > 0,
         NEW p \in Pages, Evicted(p)
  PROVE  Cardinality({q \in PooledPages(frames) : <<p, q>> \in usedBefore})
           = stratParam - 1
<1>1. PICK c \in Clients, r \in Pages, f \in Frames :
        Replaces(c, r, f) /\ frames[f].pageNumber = p
  BY EvictedPage DEF IInv, Shape
<1> DEFINE order(g) == frames[g].lruOrder
           Newer == {g \in Frames : order(g) > order(f)}
           NotOlder == {g \in Frames : order(g) >= order(f)}
           Later == {q \in PooledPages(frames) : <<p, q>> \in usedBefore}
<1>2. Cardinality(Newer) < stratParam /\ Cardinality(NotOlder) >= stratParam
  BY <1>1 DEF Replaces, Victim, LRU_KVictim, First
<1>3. /\ \A g \in Frames : order(g) \in Nat
      /\ stratParam \in Nat
  BY BufferPoolAssumption DEF IInv, Shape, TypeOK, Frame
<1>4. \A g, h \in Frames :
        /\ frames[g].lruOrder > 0 /\ frames[g].pageNumber # NO_PAGE
        /\ frames[g].lruOrder = frames[h].lruOrder => g = h
        /\ <<frames[g].pageNumber, frames[h].pageNumber>> \in usedBefore
             <=> frames[g].lruOrder < frames[h].lruOrder
        /\ frames[g].pageNumber = frames[h].pageNumber => g = h
  <2>1. \A g, h \in Frames : frames[g].pageNumber = frames[h].pageNumber
          => g = h \/ frames[g].pageNumber = NO_PAGE
    BY DEF IInv, Shape, NoDuplicatePage
  <2> QED
    BY <2>1 DEF Ranked
<1>5. IsFiniteSet(Frames) /\ IsFiniteSet(Newer)
  <2>1. IsFiniteSet(Frames)
    BY FS_Interval, NumFramesAssumption DEF Frames
  <2>2. Newer \subseteq Frames
    OBVIOUS
  <2> QED
    BY <2>1, <2>2, FS_Subset
<1>6. NotOlder = Newer \cup {f} /\ f \notin Newer
  <2>1. ASSUME NEW g \in Frames, order(g) >= order(f), g # f
        PROVE  order(g) > order(f)
    <3>1. order(g) # order(f)
      BY <1>4, <2>1
    <3>2. order(g) \in Nat /\ order(f) \in Nat
      BY <1>3
    <3> HIDE DEF order
    <3> QED
      BY <2>1, <3>1, <3>2
  <2>2. order(f) \in Nat /\ \A g \in Frames : order(g) \in Nat
    BY <1>3
  <2> HIDE DEF order
  <2> QED
    BY <2>1, <2>2
<1>7. Cardinality(NotOlder) = Cardinality(Newer) + 1
  BY <1>5, <1>6, FS_AddElement
<1>8. Cardinality(Newer) \in Nat
  BY <1>5, FS_CardinalityType
<1>9. Cardinality(Newer) = stratParam - 1
  BY <1>2, <1>3, <1>7, <1>8
<1>10. ExistsBijection(Newer, Later)
  <2> DEFINE page == [g \in Newer |-> frames[g].pageNumber]
  <2>1. ASSUME NEW g \in Newer PROVE page[g] \in Later
    BY <1>1, <1>4, FramePooled
  <2>2. page \in [Newer -> Later]
    BY <2>1
  <2>3. \A a, b \in Newer : page[a] = page[b] => a = b
    BY <1>4
  <2>4. ASSUME NEW q \in Later PROVE \E g \in Newer : page[g] = q
    <3>1. PICK g \in Frames : frames[g].pageNumber = q
      BY DEF PooledPages
    <3>2. g \in Newer
      BY <1>1, <1>4, <3>1
    <3> QED
      BY <3>1, <3>2
  <2> HIDE DEF page
  <2>5. page \in Bijection(Newer, Later)
    BY <2>2, <2>3, <2>4 DEF Bijection, Injection, Surjection, IsInjective
  <2> QED
    BY <2>5 DEF ExistsBijection
<1>11. Cardinality(Later) = Cardinality(Newer)
  BY <1>5, <1>10, FS_Bijection
<1> QED
  BY <1>9, <1>11

-----------------------------------------------------------------------------

\* FIFO evicts the page that was loaded first, when the program pins no page
\* while it loads another.
THEOREM FIFOEvictsOldest == OneClient => (OrderSpec => FIFOOrder)
<1> SUFFICES ASSUME OneClient PROVE OrderSpec => FIFOOrder
  OBVIOUS
<1> DEFINE I == IInv /\ Rotating
<1>1. OrderInit => I
  BY OrderInitially
<1>2. I /\ [OrderNext]_orderVars => I'
  BY NextInvariant, RotatingStep DEF OrderNext, orderVars
<1>3. I /\ [OrderNext]_orderVars
        => [strategy = "RS_FIFO"
              => \A p \in Pages : Evicted(p) =>
                   \A q \in PooledPages(frames) \ {p} :
                     <<p, q>> \in loadedBefore]_orderVars
  BY FIFOEvicts
<1> HIDE DEF I
<1> QED
  BY <1>1, <1>2, <1>3, PTL DEF OrderSpec, FIFOOrder

\* LRU evicts the page pinned longest ago, however many clients hold pages,
\* once every frame has an lruOrder of its own.
THEOREM LRUEvictsOldest == OrderSpec => LRUOrder
<1> DEFINE I == IInv /\ Ranked
<1>1. OrderInit => I
  BY OrderInitially
<1>2. I /\ [OrderNext]_orderVars => I'
  BY NextInvariant, RankedStep DEF OrderNext, orderVars
<1>3. I /\ [OrderNext]_orderVars
        => [strategy = "RS_LRU" /\ (\A f \in Frames : frames[f].lruOrder > 0)
              => \A p \in Pages : Evicted(p) =>
                   \A q \in PooledPages(frames) \ {p} :
                     <<p, q>> \in usedBefore]_orderVars
  BY LRUEvicts
<1> HIDE DEF I
<1> QED
  BY <1>1, <1>2, <1>3, PTL DEF OrderSpec, LRUOrder

\* LRU_K evicts the page with k - 1 more recent ones in the pool, however many
\* clients hold pages, once every frame has an lruOrder of its own.
THEOREM LRU_KEvictsKth == OrderSpec => LRU_KOrder
<1> DEFINE I == IInv /\ Ranked
<1>1. OrderInit => I
  BY OrderInitially
<1>2. I /\ [OrderNext]_orderVars => I'
  BY NextInvariant, RankedStep DEF OrderNext, orderVars
<1>3. I /\ [OrderNext]_orderVars
        => [strategy = "RS_LRU_K" /\ (\A f \in Frames : frames[f].lruOrder > 0)
              => \A p \in Pages : Evicted(p) =>
                   Cardinality({q \in PooledPages(frames) :
                                  <<p, q>> \in usedBefore})
                     = stratParam - 1]_orderVars
  BY LRU_KEvicts
<1> HIDE DEF I
<1> QED
  BY <1>1, <1>2, <1>3, PTL DEF OrderSpec, LRU_KOrder

=============================================================================
