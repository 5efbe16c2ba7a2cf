---------------------------- MODULE MCStorageMgr ----------------------------
(* A small instance of StorageMgr: two handles and two files, so that a     *)
(* removed file can stay open next to its successor of the same name.       *)
EXTENDS StorageMgr, TLC

CONSTANTS h1, h2, zero, a

MCHandles == {h1, h2}
MCInodes  == {1, 2}
MCData    == {zero, a}
Symmetry  == Permutations(MCHandles)

\* No call reads rc, and the two files are alike: the one the name denotes is
\* taken for file 1.
FirstNamed(i) == IF dir = 2 /\ i # NoInode THEN 3 - i ELSE i
StorageView ==
  <<isInitialized, exiting, FirstNamed(dir), [i \in Inodes |-> files[FirstNamed(i)]],
    [h \in Handles |-> [hnd[h] EXCEPT !.inode = FirstNamed(@)]], memPage>>

\* Bounds: the two files have three blocks between them, and no stream holds a
\* copy of a file that has all three.
ThreeBlocks ==
  /\ Len(files[1]) + Len(files[2]) <= 3
  /\ (\E i \in Inodes : Len(files[i]) = 3) => \A h \in Handles : hnd[h].cache = << >>

=============================================================================
