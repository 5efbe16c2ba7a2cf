---------------------------- MODULE MCRecordMgr ----------------------------
(* Small instances of RecordMgr: three frames and a table of two data       *)
(* pages, whose four blocks do not fit the pool.  Records of 40 bytes are    *)
(* two to a page; for the scans, of 64 bytes, one to a page; of 50 bytes,    *)
(* two to a page with no room left for the difference an update computes.    *)
EXTENDS RecordMgr, TLC

CONSTANTS v1, v2, s1, s2

MCValues     == {v1, v2}
MCConditions == {{v2}}
MCScans      == {s1, s2}

\* A frame's first memory: zeros, or bytes whose second entry reads as free.
MCStale == [ZeroPage EXCEPT !.slot[1] = [pos |-> 1, isFree |-> TRUE]]
MCFresh == {ZeroPage, MCStale}

MCValueSymmetry == Permutations(MCValues)
MCScanSymmetry  == Permutations(MCScans)

=============================================================================
