---------------------------- MODULE MCBufferPool ----------------------------
(* Small instances of BufferPool: one or two page handles, two frames, a    *)
(* page file of one block as createPageFile leaves it.                      *)
EXTENDS BufferPoolStore, TLC

CONSTANTS c1, c2, zero, a

MCOneClient    == {c1}
MCTwoClients   == {c1, c2}
MCData         == {zero, a}
MCInitialFile  == <<zero>>
MCPages        == 0 .. 2
ClientSymmetry == Permutations(Clients)

\* FIFO never reads lruOrder, and no call reads rc, so states that differ in
\* nothing else are one.
FIFOView ==
  <<isInitialized_bp, strategy, [f \in Frames |-> [frames[f] EXCEPT !.lruOrder = 0]],
    lruCounter, readFromDisk, file, handle, logical>>

=============================================================================
