----------------------------- MODULE StorageMgr -----------------------------
(***************************************************************************)
(* The storage manager, storage_mgr.c: one page file name, and a set of    *)
(* SM_FileHandles through which the program reads and writes its blocks.   *)
(*                                                                         *)
(* Four things the code leans on, and that make it hard to test, are kept  *)
(* in the state:                                                           *)
(*   - a handle counts the file's blocks once, in openPageFile, and then   *)
(*     only its own appendEmptyBlock changes the count: with two handles   *)
(*     open (the table's own and the buffer pool's) a count gets stale;    *)
(*   - a handle is a stdio stream: the page last given to fwrite stays in  *)
(*     the stream until the stream's next fseek, fclose or exit writes it; *)
(*   - a stream that reads fetches more than one page, and may serve later *)
(*     reads from that copy although another handle has written since;     *)
(*   - remove() unlinks a file that handles may still have open, so a name *)
(*     can be created again while old handles write to the removed file.   *)
(* A stream holds at most one unwritten page, because every operation that *)
(* writes seeks first.                                                     *)
(***************************************************************************)
EXTENDS PageFile

CONSTANTS
  Handles,    \* the SM_FileHandles of the program
  Inodes,     \* the files that may exist at once, named or only open
  Written,    \* the contents callers write
  MaxBlocks   \* bound: no file grows past this many blocks

ASSUME StorageAssumption == /\ Inodes \subseteq Nat \ {0}
                            /\ Written \subseteq Data
                            /\ MaxBlocks \in Nat

VARIABLES
  isInitialized, \* initStorageManager has run in this process
  exiting,       \* exit(1) was called; streams are still to be flushed
  dir,           \* the file the name denotes, or NoInode
  files,         \* the blocks each file has on disk
  hnd,           \* the file handles
  memPage,       \* the caller's page buffer
  rc             \* the value the last call returned

vars == <<isInitialized, exiting, dir, files, hnd, memPage, rc>>

NoInode == 0
NoPend  == [page |-> -1, data |-> ZeroBlock]
Closed  == [open |-> FALSE, inode |-> NoInode, total |-> 0, pos |-> 0,
            pend |-> NoPend, cache |-> << >>]

\* An open handle.
Stream(inode, total, pos, pend, cache) ==
  [open |-> TRUE, inode |-> inode, total |-> total, pos |-> pos,
   pend |-> pend, cache |-> cache]

ReturnCodes == {"RC_OK", "RC_FILE_NOT_FOUND", "RC_FILE_HANDLE_NOT_INIT",
                "RC_WRITE_FAILED", "RC_READ_NON_EXISTING_PAGE"}

Handle == [open : BOOLEAN, inode : Inodes \cup {NoInode}, total : Nat,
           pos : Nat, pend : [page : Nat \cup {-1}, data : Data],
           cache : Seq(Data)]

TypeOK ==
  /\ isInitialized \in BOOLEAN
  /\ exiting \in BOOLEAN
  /\ dir \in Inodes \cup {NoInode}
  /\ files \in [Inodes -> Seq(Data)]
  /\ hnd \in [Handles -> Handle]
  /\ \A h \in Handles : hnd[h].open => hnd[h].inode \in Inodes
  /\ memPage \in Data
  /\ rc \in ReturnCodes

Init ==
  /\ isInitialized = FALSE
  /\ exiting = FALSE
  /\ dir = NoInode
  /\ files = [i \in Inodes |-> << >>]
  /\ hnd = [h \in Handles |-> Closed]
  /\ memPage = ZeroBlock
  /\ rc = "RC_OK"

-----------------------------------------------------------------------------

Pending(h) == hnd[h].pend.page >= 0

\* The file of handle h once the stream's unwritten page is in it: what every
\* fseek, and fclose, leaves on disk.
Flushed(h) ==
  IF Pending(h)
  THEN Put(files[hnd[h].inode], hnd[h].pend.page, hnd[h].pend.data)
  ELSE files[hnd[h].inode]

\* The file stays in existence without handle h.
HeldBesides(h, i) ==
  dir = i \/ \E g \in Handles \ {h} : hnd[g].open /\ hnd[g].inode = i

\* fclose: the unwritten page goes to disk and the stream is released; a file
\* without name and without stream is gone.  (The count and the cursor stay in
\* the C struct, but the next openPageFile sets both before any use.)
FClose(h) ==
  /\ files' = [files EXCEPT ![hnd[h].inode] =
                 IF HeldBesides(h, hnd[h].inode) THEN Flushed(h) ELSE << >>]
  /\ hnd' = [hnd EXCEPT ![h] = Closed]

Return(code) == rc' = code

-----------------------------------------------------------------------------

InitStorageManager ==
  /\ isInitialized' = TRUE
  /\ UNCHANGED <<exiting, dir, files, hnd, memPage, rc>>

\* A new file with one zero block, closed again before the call returns.
CreatePageFile ==
  /\ dir = NoInode
  /\ \E i \in Inodes :
       /\ \A h \in Handles : ~(hnd[h].open /\ hnd[h].inode = i)
       /\ dir' = i
       /\ files' = [files EXCEPT ![i] = <<ZeroBlock>>]
  /\ Return("RC_OK")
  /\ UNCHANGED <<isInitialized, exiting, hnd, memPage>>

\* When the name exists the whole process ends: exit(1).
CreatePageFileExists ==
  /\ dir # NoInode
  /\ exiting' = TRUE
  /\ UNCHANGED <<isInitialized, dir, files, hnd, memPage, rc>>

\* The block count is read off the file's size on disk at this moment.
OpenPageFile(h) ==
  /\ ~hnd[h].open
  /\ dir # NoInode
  /\ hnd' = [hnd EXCEPT ![h] = Stream(dir, Len(files[dir]), 0, NoPend, << >>)]
  /\ Return("RC_OK")
  /\ UNCHANGED <<isInitialized, exiting, dir, files, memPage>>

OpenPageFileMissing(h) ==
  /\ ~hnd[h].open
  /\ dir = NoInode
  /\ Return("RC_FILE_NOT_FOUND")
  /\ UNCHANGED <<isInitialized, exiting, dir, files, hnd, memPage>>

ClosePageFile(h) ==
  \/ /\ hnd[h].open
     /\ FClose(h)
     /\ Return("RC_OK")
     /\ UNCHANGED <<isInitialized, exiting, dir, memPage>>
  \/ /\ ~hnd[h].open
     /\ Return("RC_FILE_NOT_FOUND")
     /\ UNCHANGED <<isInitialized, exiting, dir, files, hnd, memPage>>

\* Slip: the file is emptied, also when handles have it open.
DestroyPageFile_Truncates ==
  /\ dir # NoInode
  /\ dir' = NoInode
  /\ files' = [files EXCEPT ![dir] = << >>]
  /\ Return("RC_OK")
  /\ UNCHANGED <<isInitialized, exiting, hnd, memPage>>

DestroyPageFile ==
  \/ /\ dir # NoInode
     /\ dir' = NoInode
     /\ files' = IF \E h \in Handles : hnd[h].open /\ hnd[h].inode = dir
                 THEN files ELSE [files EXCEPT ![dir] = << >>]
     /\ Return("RC_OK")
     /\ UNCHANGED <<isInitialized, exiting, hnd, memPage>>
  \/ /\ dir = NoInode
     /\ Return("RC_FILE_NOT_FOUND")
     /\ UNCHANGED <<isInitialized, exiting, dir, files, hnd, memPage>>

-----------------------------------------------------------------------------

\* Slip: the stream reads around the page it has yet to write.
ReadAt_NoFlush(h, p) ==
  /\ hnd[h].open
  /\ InReach(hnd[h].total, p)
  /\ memPage' = Got(files[hnd[h].inode], p, memPage)
  /\ hnd' = [hnd EXCEPT ![h].pos = p]
  /\ Return("RC_OK")
  /\ UNCHANGED <<isInitialized, exiting, dir, files>>

\* readBlock: fseek and fread.  When the page is among those the stream has
\* fetched, neither need touch the file; otherwise fseek writes the pending
\* page and fread fetches.  Which of the two, stdio does not promise.
ReadAt(h, p) ==
  /\ hnd[h].open
  /\ \/ /\ InReach(hnd[h].total, p)
        /\ p < Len(hnd[h].cache)
        /\ memPage' = hnd[h].cache[p + 1]
        /\ hnd' = [hnd EXCEPT ![h] =
                     Stream(@.inode, @.total, p, @.pend, @.cache)]
        /\ Return("RC_OK")
        /\ UNCHANGED files
     \/ /\ InReach(hnd[h].total, p)
        /\ files' = [files EXCEPT ![hnd[h].inode] = Flushed(h)]
        /\ memPage' = Got(Flushed(h), p, memPage)
        /\ hnd' = [hnd EXCEPT ![h] =
                     Stream(@.inode, @.total, p, NoPend, Flushed(h))]
        /\ Return("RC_OK")
     \/ /\ ~InReach(hnd[h].total, p)
        /\ Return("RC_READ_NON_EXISTING_PAGE")
        /\ UNCHANGED <<files, memPage, hnd>>
  /\ UNCHANGED <<isInitialized, exiting, dir>>

\* The wrappers refuse a position without touching the file.
RefuseRead(h, code) ==
  /\ hnd[h].open
  /\ Return(code)
  /\ UNCHANGED <<isInitialized, exiting, dir, files, hnd, memPage>>

ReadBlock(h, p) == ReadAt(h, p)

ReadFirstBlock(h) ==
  \/ /\ isInitialized
     /\ ReadAt(h, 0)
  \/ /\ ~isInitialized
     /\ RefuseRead(h, "RC_FILE_HANDLE_NOT_INIT")

\* Slip: the cursor goes back before the test.
ReadPreviousBlock_Back(h) ==
  \/ /\ hnd[h].pos # 0
     /\ ReadAt(h, hnd[h].pos - 1)
  \/ /\ hnd[h].open
     /\ hnd[h].pos = 0
     /\ hnd' = [hnd EXCEPT ![h].pos = @ - 1]
     /\ Return("RC_READ_NON_EXISTING_PAGE")
     /\ UNCHANGED <<isInitialized, exiting, dir, files, memPage>>

ReadPreviousBlock(h) ==
  \/ /\ hnd[h].pos # 0
     /\ ReadAt(h, hnd[h].pos - 1)
  \/ /\ hnd[h].pos = 0
     /\ RefuseRead(h, "RC_READ_NON_EXISTING_PAGE")

ReadCurrentBlock(h) == ReadAt(h, hnd[h].pos)

\* Slip: the last block has a next one.
ReadNextBlock_PastLast(h) ==
  /\ hnd[h].pos < hnd[h].total
  /\ ReadAt(h, hnd[h].pos + 1)

ReadNextBlock(h) ==
  \/ /\ hnd[h].pos < hnd[h].total - 1
     /\ ReadAt(h, hnd[h].pos + 1)
  \/ /\ hnd[h].pos >= hnd[h].total - 1
     /\ RefuseRead(h, "RC_READ_NON_EXISTING_PAGE")

ReadLastBlock(h) == ReadAt(h, hnd[h].total - 1)

\* Slip: the stream keeps what it had fetched.
WriteBlock_KeepsCache(h, p, d) ==
  /\ hnd[h].open
  /\ InReach(hnd[h].total, p)
  /\ p < MaxBlocks
  /\ files' = [files EXCEPT ![hnd[h].inode] = Flushed(h)]
  /\ hnd' = [hnd EXCEPT ![h].pos = p, ![h].pend = [page |-> p, data |-> d]]
  /\ Return("RC_OK")
  /\ UNCHANGED <<isInitialized, exiting, dir, memPage>>

\* writeBlock: fseek (which writes the pending page), then fwrite, which
\* leaves the new page in the stream in place of what it had fetched.
\* totalNumPages is not touched.
WriteBlock(h, p, d) ==
  /\ hnd[h].open
  /\ \/ /\ InReach(hnd[h].total, p)
        /\ p < MaxBlocks
        /\ files' = [files EXCEPT ![hnd[h].inode] = Flushed(h)]
        /\ hnd' = [hnd EXCEPT ![h] =
                     Stream(@.inode, @.total, p, [page |-> p, data |-> d], << >>)]
        /\ Return("RC_OK")
     \/ /\ ~InReach(hnd[h].total, p)
        /\ Return("RC_WRITE_FAILED")
        /\ UNCHANGED <<files, hnd>>
  /\ UNCHANGED <<isInitialized, exiting, dir, memPage>>

WriteCurrentBlock(h, d) == WriteBlock(h, hnd[h].pos, d)

\* k calls of appendEmptyBlock, k > 0: each seeks to the end of the file,
\* which puts the stream's page on disk, and writes one zero page there.
Append_k(h, k) ==
  LET n == Len(Flushed(h)) IN
  /\ n + k <= MaxBlocks
  /\ files' = [files EXCEPT ![hnd[h].inode] = Grown(Flushed(h), k - 1)]
  /\ hnd' = [hnd EXCEPT ![h] =
               Stream(@.inode, @.total + k, @.total + k - 1,
                      [page |-> n + k - 1, data |-> ZeroBlock], << >>)]

AppendEmptyBlock(h) ==
  /\ hnd[h].open
  /\ Append_k(h, 1)
  /\ Return("RC_OK")
  /\ UNCHANGED <<isInitialized, exiting, dir, memPage>>

EnsureCapacity(h, n) ==
  /\ hnd[h].open
  /\ \/ /\ Shortfall(hnd[h].total, n) > 0
        /\ Append_k(h, Shortfall(hnd[h].total, n))
     \/ /\ Shortfall(hnd[h].total, n) = 0
        /\ UNCHANGED <<files, hnd>>
  /\ Return("RC_OK")
  /\ UNCHANGED <<isInitialized, exiting, dir, memPage>>

\* Every operation but readBlock tests mgmtInfo for NULL first.
ClosedHandle(h) ==
  /\ ~hnd[h].open
  /\ Return("RC_FILE_HANDLE_NOT_INIT")
  /\ UNCHANGED <<isInitialized, exiting, dir, files, hnd, memPage>>

-----------------------------------------------------------------------------

\* exit() writes and closes the open streams in no order the program fixes,
\* and a later process starts afresh on the files that are left.
ExitStream(h) ==
  /\ exiting
  /\ hnd[h].open
  /\ FClose(h)
  /\ UNCHANGED <<isInitialized, exiting, dir, memPage, rc>>

NewProcess ==
  /\ exiting
  /\ \A h \in Handles : ~hnd[h].open
  /\ exiting' = FALSE
  /\ isInitialized' = FALSE
  /\ hnd' = [h \in Handles |-> Closed]
  /\ memPage' = ZeroBlock
  /\ rc' = "RC_OK"
  /\ UNCHANGED <<dir, files>>

PageNums == -1 .. MaxBlocks

Call ==
  \/ InitStorageManager
  \/ CreatePageFile
  \/ CreatePageFileExists
  \/ DestroyPageFile
  \/ \E h \in Handles :
       \/ OpenPageFile(h)
       \/ OpenPageFileMissing(h)
       \/ ClosePageFile(h)
       \/ ReadFirstBlock(h)
       \/ ReadPreviousBlock(h)
       \/ ReadCurrentBlock(h)
       \/ ReadNextBlock(h)
       \/ ReadLastBlock(h)
       \/ AppendEmptyBlock(h)
       \/ ClosedHandle(h)
       \/ \E p \in PageNums : ReadBlock(h, p) \/ EnsureCapacity(h, p)
       \/ \E d \in Written : WriteCurrentBlock(h, d)
       \/ \E p \in PageNums, d \in Written : WriteBlock(h, p, d)

Next ==
  \/ ~exiting /\ Call
  \/ \E h \in Handles : ExitStream(h)
  \/ NewProcess

Spec == Init /\ [][Next]_vars

-----------------------------------------------------------------------------
(***************************************************************************)
(* Properties.                                                             *)
(***************************************************************************)

\* A handle never counts a block that its file lacks, however stale the count
\* is and whatever other handles, removals and re-creations did meanwhile:
\* so readBlock and writeBlock below totalNumPages always hit a block.
CountBacked ==
  \A h \in Handles : hnd[h].open => hnd[h].total <= Len(Flushed(h))

\* The page a stream still has to write lies inside its file or directly
\* behind it: no interleaving of two handles makes fseek + fwrite leave a gap,
\* although writeBlock accepts a page number equal to totalNumPages.
NoGap ==
  \A h \in Handles :
    Pending(h) => hnd[h].pend.page <= Len(files[hnd[h].inode])

\* What a stream has fetched never runs past its file, so a read served from
\* the copy is of a block the file has; and a stream with a page to write
\* serves nothing from a copy, so it cannot miss its own write.
CacheBacked ==
  \A h \in Handles :
    /\ hnd[h].open => Len(hnd[h].cache) <= Len(files[hnd[h].inode])
    /\ Pending(h) => hnd[h].cache = << >>

\* A sequential read that returns RC_OK (next, previous, last) has filled the
\* caller's page from a block of the file, even from a cursor that readBlock
\* left one past the last block; and the block is the file's current one when
\* the handle has not read since it was opened or last wrote.
SequentialReadDelivers ==
  [][\A h \in Handles :
       /\ ReadNextBlock(h) \/ ReadPreviousBlock(h) \/ ReadLastBlock(h)
       /\ rc' = "RC_OK"
       => /\ hnd'[h].pos < Len(Flushed(h))
          /\ hnd[h].cache = << >> => memPage' = Flushed(h)[hnd'[h].pos + 1]]_vars

\* After ensureCapacity(n) the file has n blocks as seen through the handle,
\* also when the handle's count was behind the file's size.
EnsureCapacityDelivers ==
  [][\A h \in Handles, n \in PageNums :
       EnsureCapacity(h, n) => Len(Flushed(h)') >= n]_vars

\* A handle reads back the page it has just written, also when that page lies
\* past the count the handle took at openPageFile.
OwnWriteReadBack ==
  [][\A h \in Handles :
       ReadCurrentBlock(h) /\ Pending(h) /\ hnd[h].pend.page = hnd[h].pos
         => rc' = "RC_OK" /\ memPage' = hnd[h].pend.data]_vars

=============================================================================
