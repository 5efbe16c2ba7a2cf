------------------------ MODULE MCBufferPoolThreads ------------------------
(* Small instances of BufferPoolThreads: two or three threads, two frames,  *)
(* three pages, each page with a content of its own.                        *)
EXTENDS BufferPoolThreads, TLC

CONSTANTS t1, t2, t3, b0, b1, b2

MCTwoThreads   == {t1, t2}
MCThreeThreads == {t1, t2, t3}
MCPages        == 0 .. 2
MCData         == {b0, b1, b2}
MCInitialFile  == <<b0, b1, b2>>

\* Two workers and a thread that saves what they do, or takes the pool down.
MCWorkersAndSaver ==
  t1 :> {"pinPage", "unpinPage", "markDirty"}
    @@ t2 :> {"pinPage", "unpinPage", "forcePage"}
    @@ t3 :> {"forceFlushPool", "shutdownBufferPool"}

\* One worker and a thread that flushes.
MCWorkerAndFlusher ==
  t1 :> {"pinPage", "unpinPage", "markDirty"} @@ t2 :> {"forceFlushPool"}

\* One content for every page, where contents do not matter.
MCOneContent == {b0}
MCSameFile   == <<b0, b0, b0>>

=============================================================================
