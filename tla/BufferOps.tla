----------------------------- MODULE BufferOps -----------------------------
(***************************************************************************)
(* What the calls of buffer_mgr.c compute from the frames of a pool: the   *)
(* searches through the frames, the three replacement strategies, and what *)
(* writing frames back and loading a page do to the page file.             *)
(*                                                                         *)
(* Every access to the file opens a handle of its own and closes it again, *)
(* so the handle counts the blocks on disk exactly, and what it writes is  *)
(* on disk when the call goes on.                                          *)
(***************************************************************************)
EXTENDS PageFile, FiniteSets

CONSTANT NumFrames   \* numPages of the pool

ASSUME NumFramesAssumption == NumFrames \in Nat \ {0}

Frames  == 0 .. NumFrames - 1
NO_PAGE == -1

Frame == [pageNumber : Nat \cup {NO_PAGE}, memPage : Data, dirty : BOOLEAN,
          fix_cnt : Nat, lruOrder : Nat]

\* A frame as initBufferPool leaves it; its memory is what malloc returned.
EmptyFrame(mem) == [pageNumber |-> NO_PAGE, memPage |-> mem, dirty |-> FALSE,
                    fix_cnt |-> 0, lruOrder |-> 0]

-----------------------------------------------------------------------------

Holding(frames, p) == {f \in Frames : frames[f].pageNumber = p}

Pooled(frames, p) == Holding(frames, p) # {}

\* The loops over the frames stop at the first one that matches.
First(S, f) == f \in S /\ \A g \in S : f <= g

\* Slips: pins are ignored; the search always starts at the first frame.
FIFOVictim_Pinned(frames, reads, v) == v = reads % NumFrames

FIFOVictim_FromZero(frames, reads, v) ==
  First({f \in Frames : frames[f].fix_cnt = 0}, v)

\* FIFO: from frame readFromDisk % numPages on, the first frame nobody pins.
FIFOVictim(frames, reads, v) ==
  \E i \in Frames :
    /\ v = (reads + i) % NumFrames
    /\ frames[v].fix_cnt = 0
    /\ \A j \in 0 .. i - 1 : frames[(reads + j) % NumFrames].fix_cnt # 0

\* Slip: the search starts behind the first frame.
LRUVictim_NotFirst(frames, v) ==
  First({f \in Frames \ {0} : \A g \in Frames \ {0} :
           frames[f].lruOrder <= frames[g].lruOrder}, v)

\* LRU: the first frame with the smallest lruOrder, pinned or not.
LRUVictim(frames, v) ==
  First({f \in Frames : \A g \in Frames :
           frames[f].lruOrder <= frames[g].lruOrder}, v)

\* Slip: element numPages - k - 1.
LRU_KVictim_Off(frames, k, v) ==
  LET order(f) == frames[f].lruOrder
      Next_k == {f \in Frames :
                   /\ Cardinality({g \in Frames : order(g) > order(f)}) <= k
                   /\ Cardinality({g \in Frames : order(g) >= order(f)}) > k}
  IN  First(Next_k, v)

\* LRU_K: the first frame whose lruOrder is element numPages - k of the
\* ascending orderNum, the k-th largest one, pinned or not.
LRU_KVictim(frames, k, v) ==
  LET order(f) == frames[f].lruOrder
      Kth == {f \in Frames :
                /\ Cardinality({g \in Frames : order(g) > order(f)}) < k
                /\ Cardinality({g \in Frames : order(g) >= order(f)}) >= k}
  IN  First(Kth, v)

-----------------------------------------------------------------------------

\* Slip: the loop misses the last frame.
FlushSet_NotLast(frames) ==
  {f \in 0 .. NumFrames - 2 : /\ frames[f].dirty
                              /\ \A g \in 0 .. f : frames[g].fix_cnt = 0}

\* The frames forceFlushPool writes: the dirty ones up to the first frame with
\* a pin, where the loop returns.
FlushSet(frames) ==
  {f \in Frames : /\ frames[f].dirty
                  /\ \A g \in 0 .. f : frames[g].fix_cnt = 0}

\* The file after the frames of S, no two of one page, went through writeBlock:
\* one past the last block extends the file, any page behind that is refused
\* (and no caller looks at the return code).
WrittenBack(file, frames, S) ==
  LET Saved(p) == {f \in S : frames[f].pageNumber = p} IN
  [i \in 1 .. (IF Saved(Len(file)) # {} THEN Len(file) + 1 ELSE Len(file)) |->
     IF Saved(i - 1) # {} THEN frames[CHOOSE f \in Saved(i - 1) : TRUE].memPage
                          ELSE file[i]]

\* Slip: every frame is taken for clean.
Cleaned_All(frames, S) == [f \in Frames |-> [frames[f] EXCEPT !.dirty = FALSE]]

\* dirty = false for the frames of S.
Cleaned(frames, S) ==
  [f \in Frames |-> IF f \in S THEN [frames[f] EXCEPT !.dirty = FALSE]
                               ELSE frames[f]]

\* Slip: no ensureCapacity.
Ensured_Not(file, p) == file

\* ensureCapacity(p) before reading page p: it makes p blocks, not p + 1.
Ensured(file, p) == Grown(file, Shortfall(Len(file), p))

=============================================================================
