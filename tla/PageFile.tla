------------------------------ MODULE PageFile ------------------------------
(***************************************************************************)
(* A page file as storage_mgr.c sees it: a sequence of whole blocks of     *)
(* PAGE_SIZE bytes.  Block p of the file, counted from 0 as in the code,   *)
(* is element p + 1 of the sequence, and a block's contents is one element *)
(* of Data.  The operators below are the pure parts of the storage         *)
(* manager: the range test shared by readBlock and writeBlock, what one    *)
(* fread or fwrite of a page does to the file, and the blocks that         *)
(* ensureCapacity appends.                                                 *)
(***************************************************************************)
EXTENDS Integers, Sequences

CONSTANTS
  Data,       \* the contents a block can have
  ZeroBlock   \* a block of '\0' bytes

ASSUME DataAssumption == ZeroBlock \in Data

-----------------------------------------------------------------------------

\* Slip: one page further.
InReach_OneMore(total, p) == 0 <= p /\ p <= total + 1

\* The range test of readBlock and writeBlock: a page number is refused when
\* it is negative or GREATER than totalNumPages, so the position just past
\* the last block passes.
InReach(total, p) == 0 <= p /\ p <= total

\* fseek to page p and fwrite one page: the block is replaced, or the file
\* grows, a gap reading as zeros.
Put(file, p, d) ==
  [i \in 1 .. (IF p < Len(file) THEN Len(file) ELSE p + 1) |->
     IF i = p + 1 THEN d
     ELSE IF i <= Len(file) THEN file[i] ELSE ZeroBlock]

\* fseek to page p and fread one page into a buffer that holds old: at the
\* end of the file no byte is transferred and the buffer keeps its contents.
Got(file, p, old) == IF p < Len(file) THEN file[p + 1] ELSE old

\* Slip: one block short.
Shortfall_Short(total, n) == IF total + 1 < n THEN n - total - 1 ELSE 0

\* How many blocks ensureCapacity(n) appends through a handle that counts
\* total blocks.
Shortfall(total, n) == IF total < n THEN n - total ELSE 0

\* The file after k calls of appendEmptyBlock.
Grown(file, k) ==
  [i \in 1 .. (Len(file) + k) |->
     IF i <= Len(file) THEN file[i] ELSE ZeroBlock]

=============================================================================
