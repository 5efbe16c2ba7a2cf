-------------------------- MODULE BufferPoolStore --------------------------
(***************************************************************************)
(* The buffer pool implements PageStore, as long as LRU and LRU_K cannot   *)
(* take a pinned frame.                                                    *)
(***************************************************************************)
EXTENDS BufferPool

\* What the handle of each client shows: the memory of the frame it was given.
Shown ==
  [c \in Clients |-> IF Held(c) THEN frames[handle[c].frame].memPage ELSE Undef]

Store == INSTANCE PageStore
  WITH Zero   <- ZeroBlock,
       NoPage <- NO_PAGE,
       up     <- isInitialized_bp,
       cur    <- logical,
       disk   <- Contents(file),
       pin    <- [c \in Clients |-> handle[c].page],
       view   <- Shown

\* Every step of the pool is a step of PageStore or changes nothing a client
\* can see: whatever frames are searched, written back and loaded again behind
\* its back, a client that pins a page finds what was last written to it, and
\* a shutdown without pins leaves all of it on disk.
ImplementsPageStore == Store!Spec

=============================================================================
