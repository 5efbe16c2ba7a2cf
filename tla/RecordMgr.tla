----------------------------- MODULE RecordMgr -----------------------------
(***************************************************************************)
(* The record manager of record_mgr.c for one table and one client: the    *)
(* table's page file, RM_managementData with its two ways to that file (a  *)
(* buffer pool under RS_LRU, and a file handle whose block count is taken  *)
(* once, when the table is opened), the pages' slot directories, the page  *)
(* directory, and the scans.                                               *)
(*                                                                         *)
(* Block 0 of the file is the schema, block 1 the page directory, block    *)
(* p + 2 data page p.  Every call of the pool and of the file handle is an *)
(* operator on RM_managementData; a call of the record manager is an       *)
(* action that chains them.                                                *)
(***************************************************************************)
EXTENDS Integers, Sequences, FiniteSets

CONSTANTS
  RecordSize,    \* getRecordSize(schema), in bytes
  NumFrames,     \* maximum_Pages, the frames of the table's pool
  Values,        \* the contents of a record
  None,          \* no record
  Junk,          \* bytes that never were a record
  Conditions,    \* scan conditions, each the set of values it accepts
  Scans,         \* the client's RM_ScanHandles
  Fresh,         \* the blocks malloc may return as a frame's memory
  Tolerated,     \* bound: the Incidents with which the model goes on
  MaxPages,      \* bound: data pages of the table
  MaxFreeSpace,  \* bound: freeSpace of a page, which updates inflate
  MaxPins        \* bound: fix_cnt of a frame, which scans inflate

PAGE_SIZE == 128

\* sizeof(SlotDirectoryEntry), and the PageDirectoryEntries of one block.
SlotSize       == 8
maxEntriesInPD == 7

\* The records whose bytes and slot entries fit one page.
MaxRecords == PAGE_SIZE \div (RecordSize + SlotSize)

\* What happened to a table on which record_mgr.c keeps no promise.
\*   reuse    insertRecord took the slot of a deleted record;
\*   stale    insertRecord took an entry nobody wrote for a free slot;
\*   astray   insertRecord stored for a page that is not the last one;
\*   drift    insertRecord took a new slot of a page with an updated or deleted
\*            record;
\*   move     updateRecord deleted and inserted the record;
\*   unknown  a slot no insertRecord returned was updated or deleted;
\*   cut      closeTable found a dirty page pinned or behind a pinned one.
Incidents == {"reuse", "stale", "astray", "drift", "move", "unknown", "cut"}

ASSUME RecordMgrAssumption ==
  /\ NumFrames \in Nat /\ NumFrames >= 3
  /\ RecordSize \in 1 .. PAGE_SIZE - SlotSize
  /\ MaxPages \in 1 .. maxEntriesInPD - 1
  /\ Conditions \subseteq SUBSET Values
  /\ Tolerated \subseteq Incidents
  /\ {None, Junk} \cap Values = {} /\ None # Junk

Slots == 0 .. MaxRecords
RIDs  == [page : 0 .. MaxPages - 1, slot : 0 .. MaxRecords - 1]

\* SlotDirectoryEntry: the record it points at is the pos-th one from the end
\* of the page; pos = 0 is an entry nobody wrote, whose offset is 0.
SlotEntry == [pos : 0 .. MaxRecords, isFree : BOOLEAN]

Offset(entry) == IF entry.pos = 0 THEN 0 ELSE PAGE_SIZE - entry.pos * RecordSize

PageDirectoryEntry ==
  [hasFreeSlot : BOOLEAN, freeSpace : Int, recordCount : 0 .. MaxRecords]

\* A block: read as a data page, and as the page directory.
Block == [slot : [Slots -> SlotEntry],
          rec  : [1 .. MaxRecords -> Values \cup {Junk}],
          dir  : Seq(PageDirectoryEntry)]

ZeroPage == [slot |-> [z \in Slots |-> [pos |-> 0, isFree |-> FALSE]],
             rec  |-> [q \in 1 .. MaxRecords |-> Junk],
             dir  |-> << >>]

\* The schema's and the directory's fifth byte are not 0: as data pages, their
\* slot 0 is free.
SchemaPage       == [ZeroPage EXCEPT !.slot[0].isFree = TRUE]
DirectoryPage(d) == [SchemaPage EXCEPT !.dir = d]

INSTANCE BufferOps WITH Data <- Block, ZeroBlock <- ZeroPage

ASSUME FreshAssumption == Fresh \subseteq Block

VARIABLES
  mgmt,      \* RM_managementData, the page file and the last return code
  scans,     \* the ScanInfo behind every RM_ScanHandle
  table,     \* history: the record every RID stands for
  given,     \* history: the RIDs insertRecord returned
  altered,   \* history: the pages with an updated or deleted record
  incidents  \* history: the Incidents of the table

history == <<table, given, altered, incidents>>
vars    == <<mgmt, scans, history>>

Closed(file) ==
  [open |-> FALSE, file |-> file, total |-> 0, pend |-> << >>,
   frames |-> [f \in Frames |-> EmptyFrame(ZeroPage)], page |-> NO_PAGE,
   dir |-> << >>, broken |-> FALSE, rc |-> "RC_OK", record |-> None]

NoScan    == [active |-> FALSE, condition |-> {}, currentPage |-> 0, currentSlot |-> 0]
NoRecords == [r \in RIDs |-> None]

numPages(m) == Len(m.dir)

-----------------------------------------------------------------------------
(* The pool and the file handle of an open table.                           *)

FrameOf(m, p) == CHOOSE f \in Frames : First(Holding(m.frames, p), f)

\* lruCounter grows with every pin; the strategies only compare lruOrder, so
\* it is kept as a rank: 0 for a frame never hit, else 1, 2, ... by recency.
Touched(frames, f) ==
  LET old    == frames[f].lruOrder
      Used   == {g \in Frames : frames[g].lruOrder > 0}
      newest == Cardinality(Used \cup {f})
  IN  [g \in Frames |->
         IF g = f THEN [frames[g] EXCEPT !.lruOrder = newest]
         ELSE IF old > 0 /\ frames[g].lruOrder > old
         THEN [frames[g] EXCEPT !.lruOrder = @ - 1]
         ELSE frames[g]]

\* Page p is read into frame f, which keeps its bytes at the end of the file.
Loaded(m, f, p) ==
  LET grown == Ensured(m.file, p)
      bytes == Got(grown, p, m.frames[f].memPage)
  IN  [m EXCEPT !.file = grown, !.page = p,
                !.frames[f] = [@ EXCEPT !.pageNumber = p, !.fix_cnt = 1,
                                        !.dirty = FALSE, !.memPage = bytes]]

\* pinPage: the page is pooled, a frame is free, or LRU chooses one.
Pin(m, p) ==
  LET Free   == Holding(m.frames, NO_PAGE)
      victim == CHOOSE f \in Frames : LRUVictim(m.frames, f)
      Dirty  == {f \in {victim} : m.frames[f].dirty}
      n      == Loaded([m EXCEPT !.file = WrittenBack(@, m.frames, Dirty)],
                       victim, p)
  IN  IF Pooled(m.frames, p)
      THEN [m EXCEPT !.page = p,
                     !.frames = Touched([m.frames EXCEPT ![FrameOf(m, p)].fix_cnt = @ + 1],
                                        FrameOf(m, p))]
      ELSE IF Free # {}
      THEN Loaded(m, CHOOSE f \in Free : First(Free, f), p)
      ELSE [n EXCEPT !.frames = Touched(@, victim)]

\* The pages pageHndlBM and its data pointer reach.
Page(m)     == m.frames[FrameOf(m, m.page)].memPage
Slot(m, z)  == Page(m).slot[z]
Stored(m, block) == [m EXCEPT !.frames[FrameOf(m, m.page)].memPage = block]

\* markDirty through pageHndlBM.
Dirtied(m) == [m EXCEPT !.frames =
  [f \in Frames |-> IF @[f].pageNumber = m.page THEN [@[f] EXCEPT !.dirty = TRUE]
                                                ELSE @[f]]]

\* Slip: the fix count is not looked at.
Unpinned_Below(m) ==
  [m EXCEPT !.rc = "RC_OK", !.frames[FrameOf(m, m.page)].fix_cnt = @ - 1]

\* unpinPage through pageHndlBM.
Unpinned(m) ==
  IF Pooled(m.frames, m.page) /\ m.frames[FrameOf(m, m.page)].fix_cnt > 0
  THEN [m EXCEPT !.rc = "RC_OK", !.frames[FrameOf(m, m.page)].fix_cnt = @ - 1]
  ELSE [m EXCEPT !.rc = "RC_BP_UNPIN_ERROR"]

\* The file after stdio wrote what the handle's stream still had.
FileFlushed(m) ==
  IF m.pend = << >> THEN m.file ELSE Put(m.file, m.pend[1].page, m.pend[1].data)

\* writeBlock through fileHndl: refused, with nobody looking at the return
\* code, behind the blocks the file had when the table was opened.
Written(m, p, block) ==
  IF InReach(m.total, p)
  THEN [m EXCEPT !.file = FileFlushed(m), !.pend = <<[page |-> p, data |-> block]>>]
  ELSE m

-----------------------------------------------------------------------------
(* What the calls on records do to an open table.                           *)

\* The pageID of the first page with a free slot, else of a new page.
Target(m) ==
  LET Room == {i \in 0 .. numPages(m) - 1 : m.dir[i + 1].hasFreeSlot} IN
  IF Room # {} THEN CHOOSE i \in Room : First(Room, i) ELSE numPages(m)

NewEntry == [hasFreeSlot |-> TRUE, freeSpace |-> PAGE_SIZE, recordCount |-> 0]

\* A new page: its directory entry, and zeros for its block.
WithNewPage(m) ==
  Written([m EXCEPT !.dir = Append(@, NewEntry)], numPages(m) + 2, ZeroPage)

\* The first free slot among the page's records and one more, else a new one.
\* The loop looks at the last page, whichever page the directory chose.
SlotFor(m, count) ==
  LET Free == {z \in 0 .. count : Slot(m, z).isFree} IN
  IF Free # {} THEN CHOOSE z \in Free : First(Free, z) ELSE count

\* Slip: the record takes no space.
HasRoom_SlotOnly(space) == space < 0 \/ space >= SlotSize

\* freeSpace >= recordSize + sizeof(...) compares in size_t, so a negative
\* freeSpace is a large one.
HasRoom(space) == space < 0 \/ space >= RecordSize + SlotSize

\* Slip: the directory is not written.
DirectorySaved_Not(m) == m

\* Block 1 gets the directory.
DirectorySaved(m) == Written(m, 1, DirectoryPage(m.dir))

\* The page insertRecord pins: the table's last one, new if the directory
\* knows of no free slot.
PinnedForInsert(m) ==
  LET pages == IF Target(m) = numPages(m) THEN WithNewPage(m) ELSE m
  IN  Pin(pages, numPages(pages) + 1)

\* The pinned page gets block, and directory entry i its new count and space.
Filled(n, i, count, block) ==
  LET space == n.dir[i + 1].freeSpace - (RecordSize + SlotSize)
      full  == [Unpinned(Dirtied(Stored(n, block))) EXCEPT
                  !.dir[i + 1] = [hasFreeSlot |-> HasRoom(space),
                                  freeSpace |-> space, recordCount |-> count]]
  IN  DirectorySaved(Written(full, n.page, block))

\* The record goes to the place of record recordCount from the end of the page,
\* also when its slot is a reused one and recordCount did not grow; a place
\* outside of the page, or over the slot entries, breaks off the model.
InsertedAt(n, i, slot, v) ==
  LET entry == n.dir[i + 1]
      count == IF Slot(n, slot).isFree THEN entry.recordCount
                                       ELSE entry.recordCount + 1
      block == [Page(n) EXCEPT !.slot[slot] = [pos |-> count, isFree |-> FALSE],
                               !.rec[count] = v]
  IN  IF count \in 1 .. MaxRecords
      THEN [Filled(n, i, count, block) EXCEPT
              !.rc = "RC_OK", !.record = [page |-> i, slot |-> slot, data |-> v]]
      ELSE [n EXCEPT !.broken = TRUE]

InsertedInto(n, i, v) ==
  InsertedAt(n, i, SlotFor(n, n.dir[i + 1].recordCount), v)

\* insertRecord.
Inserted(m, v) == InsertedInto(PinnedForInsert(m), Target(m), v)

Valid(m, r) == r.page < numPages(m)

\* pinPage for the page of r.
PinnedFor(m, r) == Pin(m, r.page + 2)

Refused(m)  == [m EXCEPT !.rc = "RC_RM_INVALID_RID", !.record = None]
NotFound(m) ==
  [Unpinned(m) EXCEPT !.rc = "RC_RM_RECORD_NOT_FOUND", !.record = None]

\* The slot of r is freed in the pinned page.  What the entry's offset says is
\* added to freeSpace, and the directory is not written.
Freed(n, r) ==
  LET block == [Page(n) EXCEPT !.slot[r.slot].isFree = TRUE] IN
  Unpinned(Dirtied([Stored(n, block) EXCEPT
    !.dir[r.page + 1].freeSpace =
       @ + Offset(Slot(n, r.slot)) - r.slot * SlotSize,
    !.dir[r.page + 1].hasFreeSlot = TRUE, !.record = None]))

\* Slip: the page stays pinned when there is no record.
ErasedIn_KeepsPin(n, r) ==
  IF Slot(n, r.slot).isFree
  THEN [n EXCEPT !.rc = "RC_RM_RECORD_NOT_FOUND", !.record = None]
  ELSE Freed(n, r)

ErasedIn(n, r) == IF Slot(n, r.slot).isFree THEN NotFound(n) ELSE Freed(n, r)

\* deleteRecord.
Erased(m, r) ==
  IF Valid(m, r) THEN ErasedIn(PinnedFor(m, r), r) ELSE Refused(m)

\* What updateRecord adds to freeSpace for the entry it replaces.
Gap(n, r) == Offset(Slot(n, r.slot)) - r.slot * SlotSize

InPlace(n, r, v) ==
  [Stored(n, [Page(n) EXCEPT !.rec[Slot(n, r.slot).pos] = v]) EXCEPT
     !.dir[r.page + 1].freeSpace = @ - (RecordSize - Gap(n, r)),
     !.record = [page |-> r.page, slot |-> r.slot, data |-> v]]

\* markDirty and unpinPage at the end of updateRecord, unless the insertion
\* broke off the model.
Finished(m) == IF m.broken THEN m ELSE Unpinned(Dirtied(m))

\* Slip: the page is not marked dirty.
ReplacedIn_Clean(n, r, v) ==
  IF Slot(n, r.slot).isFree THEN NotFound(n) ELSE Unpinned(InPlace(n, r, v))

\* The record does not fit what freeSpace says.
NoRoom(n, r) == RecordSize > n.dir[r.page + 1].freeSpace + Gap(n, r)

\* Without room the record is deleted and inserted, and the handle then is the
\* insertion's; otherwise it is replaced in place, over the slot entries if
\* nobody wrote its entry.
ReplacedIn(n, r, v) ==
  IF Slot(n, r.slot).isFree THEN NotFound(n)
  ELSE IF NoRoom(n, r)
  THEN Finished(Inserted(Erased(n, r), v))
  ELSE IF Slot(n, r.slot).pos = 0 THEN [n EXCEPT !.broken = TRUE]
  ELSE Finished(InPlace(n, r, v))

\* updateRecord.
Replaced(m, r, v) ==
  IF Valid(m, r) THEN ReplacedIn(PinnedFor(m, r), r, v) ELSE Refused(m)

Content(block, z) ==
  IF block.slot[z].pos = 0 THEN Junk ELSE block.rec[block.slot[z].pos]

FetchedFrom(n, r) ==
  IF Slot(n, r.slot).isFree THEN NotFound(n)
  ELSE [Unpinned(n) EXCEPT
          !.record = [page |-> r.page, slot |-> r.slot,
                      data |-> Content(Page(n), r.slot)]]

\* getRecord: a slot nobody wrote is not free, and its bytes are returned.
Fetched(m, r) ==
  IF Valid(m, r) THEN FetchedFrom(PinnedFor(m, r), r) ELSE Refused(m)

-----------------------------------------------------------------------------
(* Scans.                                                                   *)

\* The slots of page i, pinned by m, where next stops: from slot first on, not
\* free, and accepted by the condition.
Matches(m, i, first, condition) ==
  {z \in first .. m.dir[i + 1].recordCount - 1 :
     ~Slot(m, z).isFree /\ Content(Page(m), z) \in condition}

\* Slip: a scan that goes on to the next page goes on behind the same slot.
FirstSlot_Kept(scan, i) == scan.currentSlot

\* The slot from which next looks at page i.
FirstSlot(scan, i) == IF i = scan.currentPage THEN scan.currentSlot ELSE 0

\* What next returns when At[i] is the table with page i pinned.
VisitAlong(m, scan, At) ==
  LET pages    == DOMAIN At
      Found(i) == Matches(At[i], i, FirstSlot(scan, i), scan.condition)
      Hits     == {i \in pages : Found(i) # {}}
      hit      == CHOOSE i \in Hits : First(Hits, i)
      slot     == CHOOSE z \in Found(hit) : First(Found(hit), z)
      atEnd    == IF pages = {} THEN m ELSE Unpinned(At[numPages(m) - 1])
  IN  IF Hits # {}
      THEN [mgmt |-> [Unpinned(At[hit]) EXCEPT
                        !.record = [page |-> hit, slot |-> slot,
                                    data |-> Content(Page(At[hit]), slot)]],
            scan |-> [scan EXCEPT !.currentPage = hit, !.currentSlot = slot + 1]]
      ELSE [mgmt |-> [atEnd EXCEPT !.rc = "RC_RM_NO_MORE_TUPLES", !.record = None],
            scan |-> IF pages = {} THEN scan
                     ELSE [scan EXCEPT !.currentPage = numPages(m),
                                       !.currentSlot = 0]]

\* next: pages are pinned and unpinned one after the other up to the first one
\* with a match; page i is block i + 2 while the directory is one block.
Visit(m, scan) ==
  LET At[i \in scan.currentPage .. numPages(m) - 1] ==
        Pin(IF i = scan.currentPage THEN m ELSE Unpinned(At[i - 1]), i + 2)
  IN  VisitAlong(m, scan, At)

-----------------------------------------------------------------------------
(* The history of a table.                                                  *)

\* The incidents of an insertRecord that takes slot for page i, pinned by n.
AtSlot(n, i, slot) ==
  IF Slot(n, slot).isFree
  THEN {IF slot < n.dir[i + 1].recordCount THEN "reuse" ELSE "stale"}
  ELSE {x \in {"drift"} : i \in altered}

AtInsert(m) ==
  LET n == PinnedForInsert(m)
      i == Target(m)
  IN  AtSlot(n, i, SlotFor(n, n.dir[i + 1].recordCount))
        \cup {x \in {"astray"} : i # numPages(n) - 1}

\* The incidents of a deleteRecord or updateRecord that succeeds.
AtChange(r) == {x \in {"unknown"} : r \notin given}

AtUpdate(m, r) == AtChange(r) \cup {x \in {"move"} : NoRoom(PinnedFor(m, r), r)}

\* The incident of a closeTable.
AtClose(m) ==
  {x \in {"cut"} : \E f, g \in Frames : /\ g <= f
                                       /\ m.frames[g].fix_cnt > 0
                                       /\ m.frames[f].dirty}

-----------------------------------------------------------------------------
(* The calls.  The client uses one table, opens it once at a time, and        *)
(* deletes it only when it is closed.                                         *)

Unharmed == incidents \subseteq Tolerated

Ready == mgmt.open /\ ~mgmt.broken /\ Unharmed

\* What a call returned, its code and the caller's Record, is not looked at by
\* the next call.
Kept(m) == [m EXCEPT !.rc = "RC_OK", !.record = None]

\* Bounds of the model.
Bounded(m) ==
  /\ numPages(m) <= MaxPages
  /\ \A i \in 1 .. numPages(m) :
       m.dir[i].freeSpace \in -MaxFreeSpace .. MaxFreeSpace
  /\ \A f \in Frames : m.frames[f].fix_cnt <= MaxPins

CreateTable ==
  /\ ~mgmt.open /\ mgmt.file = << >>
  /\ mgmt' = Closed(<<SchemaPage, DirectoryPage(<<NewEntry>>)>>)
  /\ UNCHANGED <<scans, history>>

\* The pool is new, the schema and the directory are read through it.
OpenTable ==
  /\ ~mgmt.open /\ mgmt.file # << >> /\ Unharmed
  /\ \E memory \in [Frames -> Fresh] :
       LET new == [Closed(mgmt.file) EXCEPT
                     !.open = TRUE, !.total = Len(mgmt.file),
                     !.frames = [f \in Frames |-> EmptyFrame(memory[f])]]
       IN  \E m \in {Unpinned(Pin(Unpinned(Pin(new, 0)), 1))} :
             mgmt' = [Kept(m) EXCEPT !.dir = Page(m).dir]
  /\ UNCHANGED <<scans, history>>

\* Slip: the pool is not flushed.
FileClosed_NoFlush(m) == FileFlushed(m)

\* The file closeTable leaves: forceFlushPool stops at the first pinned frame,
\* then fileHndl is closed.
FileClosed(m) ==
  FileFlushed([m EXCEPT !.file = WrittenBack(@, m.frames, FlushSet(m.frames))])

\* Scans are given up.
CloseTable ==
  /\ Ready
  /\ mgmt' = Closed(FileClosed(mgmt))
  /\ scans' = [s \in Scans |-> NoScan]
  /\ incidents' = incidents \cup AtClose(mgmt)
  /\ UNCHANGED <<table, given, altered>>

DeleteTable ==
  /\ ~mgmt.open /\ mgmt.file # << >>
  /\ mgmt' = Closed(<< >>)
  /\ table' = NoRecords
  /\ given' = {}
  /\ altered' = {}
  /\ incidents' = {}
  /\ UNCHANGED scans

InsertRecord(v) ==
  /\ Ready
  /\ \E m \in {Inserted(mgmt, v)} :
       LET r == [page |-> m.record.page, slot |-> m.record.slot] IN
       /\ Bounded(m)
       /\ mgmt' = Kept(m)
       /\ IF m.broken
          THEN UNCHANGED <<table, given>>
          ELSE table' = [table EXCEPT ![r] = v] /\ given' = given \cup {r}
  /\ incidents' = incidents \cup AtInsert(mgmt)
  /\ UNCHANGED <<scans, altered>>

\* The return codes of a deleteRecord or updateRecord that changed nothing.
Refusals == {"RC_RM_INVALID_RID", "RC_RM_RECORD_NOT_FOUND"}

DeleteRecord(r) ==
  /\ Ready
  /\ \E m \in {Erased(mgmt, r)} :
       /\ Bounded(m)
       /\ mgmt' = Kept(m)
       /\ IF m.rc \in Refusals
          THEN UNCHANGED <<table, altered, incidents>>
          ELSE /\ table' = [table EXCEPT ![r] = None]
               /\ altered' = altered \cup {r.page}
               /\ incidents' = incidents \cup AtChange(r)
  /\ UNCHANGED <<scans, given>>

UpdateRecord(r, v) ==
  /\ Ready
  /\ \E m \in {Replaced(mgmt, r, v)} :
       LET id == [page |-> m.record.page, slot |-> m.record.slot] IN
       /\ Bounded(m)
       /\ mgmt' = Kept(m)
       /\ IF m.rc \in Refusals
          THEN UNCHANGED history
          ELSE /\ IF m.broken
                  THEN UNCHANGED <<table, given>>
                  ELSE /\ table' = [table EXCEPT ![r] = None, ![id] = v]
                       /\ given' = given \cup {id}
               /\ altered' = altered \cup {r.page}
               /\ incidents' = incidents \cup AtUpdate(mgmt, r)
  /\ UNCHANGED scans

GetRecord(r) ==
  /\ Ready
  /\ \E m \in {Fetched(mgmt, r)} :
       /\ Bounded(m)
       /\ mgmt' = Kept(m)
  /\ UNCHANGED <<scans, history>>

\* The first data page is pinned, for no use of the scan's.
StartScan(s, condition) ==
  /\ Ready
  /\ ~scans[s].active
  /\ \E m \in {Pin(mgmt, 2)} :
       /\ Bounded(m)
       /\ mgmt' = Kept(m)
  /\ scans' = [scans EXCEPT ![s] = [active |-> TRUE, condition |-> condition,
                                    currentPage |-> 0, currentSlot |-> 0]]
  /\ UNCHANGED history

NextTuple(s) ==
  /\ Ready
  /\ scans[s].active
  /\ \E visit \in {Visit(mgmt, scans[s])} :
       /\ Bounded(visit.mgmt)
       /\ mgmt' = Kept(visit.mgmt)
       /\ scans' = [scans EXCEPT ![s] = visit.scan]
  /\ UNCHANGED history

\* Whatever page was pinned last is unpinned, unless the scan got past the last
\* page; when that page has no pin, the ScanInfo stays.
CloseScan(s) ==
  LET inside == scans[s].currentPage < numPages(mgmt)
      m      == IF inside THEN Unpinned(mgmt) ELSE [mgmt EXCEPT !.rc = "RC_OK"]
  IN  /\ Ready
      /\ scans[s].active
      /\ mgmt' = Kept(m)
      /\ scans' = IF m.rc = "RC_OK" THEN [scans EXCEPT ![s] = NoScan] ELSE scans
      /\ UNCHANGED history

Init ==
  /\ mgmt = Closed(<< >>)
  /\ scans = [s \in Scans |-> NoScan]
  /\ table = NoRecords
  /\ given = {} /\ altered = {} /\ incidents = {}

Next ==
  \/ CreateTable
  \/ OpenTable
  \/ CloseTable
  \/ DeleteTable
  \/ \E v \in Values : InsertRecord(v)
  \/ \E r \in RIDs : DeleteRecord(r)
  \/ \E r \in RIDs, v \in Values : UpdateRecord(r, v)
  \/ \E r \in RIDs : GetRecord(r)
  \/ \E s \in Scans, condition \in Conditions : StartScan(s, condition)
  \/ \E s \in Scans : NextTuple(s)
  \/ \E s \in Scans : CloseScan(s)

Spec == Init /\ [][Next]_vars

-----------------------------------------------------------------------------

TypeOK ==
  /\ mgmt \in [open : BOOLEAN, file : Seq(Block), total : Nat,
               pend : Seq([page : Nat, data : Block]),
               frames : [Frames -> Frame], page : Nat \cup {NO_PAGE},
               dir : Seq(PageDirectoryEntry), broken : BOOLEAN,
               rc : {"RC_OK"}, record : {None}]
  /\ scans \in [Scans -> [active : BOOLEAN, condition : SUBSET Values,
                          currentPage : 0 .. MaxPages, currentSlot : Slots]]
  /\ table \in [RIDs -> Values \cup {None}]
  /\ given \in SUBSET [page : 0 .. MaxPages - 1, slot : Slots]
  /\ altered \in SUBSET (0 .. MaxPages - 1)
  /\ incidents \in SUBSET Incidents

\* The records the pages of a table hold, by its directory.
Records(dir, BlockOf(_)) ==
  [r \in RIDs |->
     IF /\ r.page < Len(dir)
        /\ r.slot < dir[r.page + 1].recordCount
        /\ ~BlockOf(r.page + 2).slot[r.slot].isFree
     THEN Content(BlockOf(r.page + 2), r.slot)
     ELSE None]

BlockOnDisk(file, p) == IF p < Len(file) THEN file[p + 1] ELSE ZeroPage

RecordsOnDisk(file) ==
  Records(file[2].dir, LAMBDA p : BlockOnDisk(file, p))

\* What the pool has of a block, or else the disk.
Current(m, p) ==
  IF Pooled(m.frames, p) THEN m.frames[FrameOf(m, p)].memPage
  ELSE BlockOnDisk(m.file, p)

\* Every RID of the open table reads as the record it stands for.
Right == table = Records(mgmt.dir, LAMBDA p : Current(mgmt, p))

\* While a table without incidents is open, every RID reads as the record it
\* stands for, through evictions, the file handle's own writes and refused
\* writes: insertRecord, deleteRecord and updateRecord lose and mix up no record.
RecordsKept == mgmt.open /\ incidents = {} => Right

\* closeTable leaves every record in the file, and the directory that finds it,
\* although two writers with different block counts wrote that file.
RecordsOnDiskKept ==
  ~mgmt.open /\ mgmt.file # << >> /\ incidents = {} =>
    table = RecordsOnDisk(mgmt.file)

\* Without incidents, insertRecord and updateRecord store inside the page, clear
\* of its slots.
InPage == incidents = {} => ~mgmt.broken

\* The directory insertRecord chooses by: what it counts is what was inserted
\* into every page, the room is exact where nothing was updated or deleted, a
\* page has a free slot when there is room or a record was deleted and only
\* then, and only the last page has room, after any number of closes and opens.
DirectoryTrue ==
  mgmt.open /\ incidents = {} =>
    \A i \in 0 .. numPages(mgmt) - 1 :
      LET entry == mgmt.dir[i + 1]
          used  == {r \in given : r.page = i}
          room  == entry.recordCount < MaxRecords
      IN  /\ entry.recordCount = Cardinality(used)
          /\ i \notin altered =>
               entry.freeSpace = PAGE_SIZE - entry.recordCount * (RecordSize + SlotSize)
          /\ room => entry.hasFreeSlot
          /\ entry.hasFreeSlot => room \/ \E r \in used : table[r] = None
          /\ i < numPages(mgmt) - 1 => ~room

\* No call but startScan leaves a pin, whatever has happened to the table, unless
\* updateRecord has moved a record: every path of the other calls unpins what it
\* pinned, so only block 2, the first data page, stays pinned.
OnlyScansPin ==
  ~mgmt.broken /\ "move" \notin incidents =>
    \A f \in Frames : mgmt.frames[f].fix_cnt > 0 => mgmt.frames[f].pageNumber = 2

\* At any time next returns the first record behind the scan's position that
\* is there and satisfies the condition, and RC_RM_NO_MORE_TUPLES only when none
\* is left, whatever was updated or deleted since the last call.
ScanDelivers ==
  mgmt.open /\ incidents = {} =>
    \A s \in {q \in Scans : scans[q].active} :
      LET visit    == Visit(mgmt, scans[s]).mgmt
          at       == scans[s]
          order(r) == r.page * MaxRecords + r.slot
          Ahead    == {r \in RIDs :
                         /\ order(r) >= at.currentPage * MaxRecords + at.currentSlot
                         /\ table[r] \in at.condition}
      IN  IF visit.rc = "RC_RM_NO_MORE_TUPLES" THEN Ahead = {}
          ELSE \E r \in Ahead :
                 /\ visit.record = [page |-> r.page, slot |-> r.slot,
                                    data |-> table[r]]
                 /\ \A q \in Ahead : order(r) <= order(q)

-----------------------------------------------------------------------------

\* README.md:153, the record data is written to the page of the free slot that
\* was found: a record inserted into the slot of a deleted one leaves the others
\* as they are.
ReuseKeepsRecords == mgmt.open /\ incidents \subseteq {"reuse"} => Right

\* record_mgr.c:767, the new record fits in the existing page space or is
\* inserted anew: an update stores inside a page, clear of its slots.
MoveInPage == incidents \subseteq {"move"} => ~mgmt.broken

=============================================================================
