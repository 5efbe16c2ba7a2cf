--------------------------- MODULE BufferPoolOrder ---------------------------
(***************************************************************************)
(* The order in which the replacement strategies of buffer_mgr.c evict     *)
(* pages.  The pool does not remember this order; it reads it off          *)
(* readFromDisk and lruOrder.  Two history variables remember it here, as  *)
(* the pairs of pooled pages of which the first one was loaded, or last    *)
(* pinned, before the second.                                              *)
(***************************************************************************)
EXTENDS BufferPool

VARIABLES
  loadedBefore,   \* <<p, q>>: p was loaded before q
  usedBefore      \* <<p, q>>: p was pinned for the last time before q

orderVars == <<vars, loadedBefore, usedBefore>>

PooledPages(fr) == {fr[f].pageNumber : f \in Frames} \ {NO_PAGE}

\* The pairs of pages that are still pooled.
Kept(before) == before \cap (PooledPages(frames') \X PooledPages(frames'))

\* p comes last.
Renewed(before, p) ==
  LET Others == PooledPages(frames') \ {p}
  IN  (before \cap (Others \X Others)) \cup (Others \X {p})

Pins(c) == ~Held(c) /\ handle'[c].page # NO_PAGE

OrderInit == Init /\ loadedBefore = {} /\ usedBefore = {}

\* A successful pin makes the page the last one used, and the last one loaded
\* when it was not pooled; any other call only keeps what is still in the pool.
OrderNext ==
  /\ Next
  /\ \/ \E c \in Clients :
          /\ Pins(c)
          /\ usedBefore' = Renewed(usedBefore, handle'[c].page)
          /\ loadedBefore' = IF Pooled(frames, handle'[c].page) THEN loadedBefore
                             ELSE Renewed(loadedBefore, handle'[c].page)
     \/ /\ \A c \in Clients : ~Pins(c)
        /\ usedBefore' = Kept(usedBefore)
        /\ loadedBefore' = Kept(loadedBefore)

OrderSpec == OrderInit /\ [][OrderNext]_orderVars

-----------------------------------------------------------------------------

\* Page p makes room for another one, the pool staying up.
Evicted(p) ==
  /\ isInitialized_bp /\ isInitialized_bp'
  /\ p \in PooledPages(frames) \ PooledPages(frames')

\* While no client pins a page when another is loaded, FIFO evicts the page
\* that was loaded first: the free slots are filled in the order in which
\* readFromDisk then walks the frames, and each load advances it by one.
FIFOOrder ==
  [][strategy = "RS_FIFO"
       => \A p \in Pages : Evicted(p) =>
            \A q \in PooledPages(frames) \ {p} : <<p, q>> \in loadedBefore]_orderVars

\* Once every frame has an lruOrder of its own, LRU evicts the page that was
\* pinned longest ago.
LRUOrder ==
  [][strategy = "RS_LRU" /\ (\A f \in Frames : frames[f].lruOrder > 0)
       => \A p \in Pages : Evicted(p) =>
            \A q \in PooledPages(frames) \ {p} : <<p, q>> \in usedBefore]_orderVars

\* Once every frame has an lruOrder of its own, LRU_K evicts the page with
\* k - 1 more recent ones in the pool, the k-th MOST recent: buffer_mgr.c:414 has
\* "the K-th least recent", which is another page but for k = (numPages + 1) / 2.
LRU_KOrder ==
  [][strategy = "RS_LRU_K" /\ (\A f \in Frames : frames[f].lruOrder > 0)
       => \A p \in Pages : Evicted(p) =>
            Cardinality({q \in PooledPages(frames) : <<p, q>> \in usedBefore})
              = stratParam - 1]_orderVars

=============================================================================
