-------------------------- MODULE MCBufferPoolOrder --------------------------
(* Small instances of BufferPoolOrder: contents do not matter here, so one  *)
(* content besides the zero block, and a file that has all the pages.       *)
EXTENDS BufferPoolOrder

CONSTANTS c1, zero

MCOneClient   == {c1}
MCData        == {zero}
MCInitialFile == <<zero, zero, zero, zero, zero>>
MCPages       == 0 .. 3

\* No call reads rc.
OrderView ==
  <<isInitialized_bp, strategy, stratParam, frames, lruCounter, readFromDisk,
    file, handle, logical, loadedBefore, usedBefore>>

=============================================================================
