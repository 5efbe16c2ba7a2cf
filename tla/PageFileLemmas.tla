--------------------------- MODULE PageFileLemmas ---------------------------
(* What the operators of PageFile return, for every file and page number.   *)
EXTENDS PageFile, TLAPS

-----------------------------------------------------------------------------

\* A function from 1 .. n to S is a sequence of length n: how the operators
\* below, which build a file block by block, are seen to return files.
LEMMA FcnIsSeq ==
  ASSUME NEW S, NEW n \in Nat, NEW f \in [1 .. n -> S]
  PROVE  f \in Seq(S) /\ Len(f) = n
  OBVIOUS

\* fwrite of a page leaves a file, at least as long as it was and reaching
\* past the page written.
LEMMA PutFile ==
  ASSUME NEW file \in Seq(Data), NEW p \in Nat, NEW d \in Data
  PROVE  /\ Put(file, p, d) \in Seq(Data)
         /\ Len(Put(file, p, d)) = IF p < Len(file) THEN Len(file) ELSE p + 1
<1> DEFINE n == IF p < Len(file) THEN Len(file) ELSE p + 1
<1>1. n \in Nat
  OBVIOUS
<1>2. Put(file, p, d) \in [1 .. n -> Data]
  BY DataAssumption DEF Put
<1> QED
  BY <1>1, <1>2, FcnIsSeq

\* k calls of appendEmptyBlock leave a file that is k blocks longer.
LEMMA GrownFile ==
  ASSUME NEW file \in Seq(Data), NEW k \in Nat
  PROVE  /\ Grown(file, k) \in Seq(Data)
         /\ Len(Grown(file, k)) = Len(file) + k
<1>1. Len(file) + k \in Nat
  OBVIOUS
<1>2. Grown(file, k) \in [1 .. Len(file) + k -> Data]
  BY DataAssumption DEF Grown
<1> QED
  BY <1>1, <1>2, FcnIsSeq

\* ensureCapacity appends a number of blocks that is at least what is missing.
LEMMA ShortfallBound ==
  ASSUME NEW total \in Nat, NEW n \in Nat
  PROVE  Shortfall(total, n) \in Nat /\ total + Shortfall(total, n) >= n
  BY DEF Shortfall

\* What a fread leaves in the caller's page is page contents.
LEMMA GotData ==
  ASSUME NEW file \in Seq(Data), NEW p \in Nat, NEW old \in Data
  PROVE  Got(file, p, old) \in Data
  BY DEF Got

=============================================================================
