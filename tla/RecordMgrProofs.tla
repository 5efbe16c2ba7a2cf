--------------------------- MODULE RecordMgrProofs ---------------------------
(***************************************************************************)
(* What holds of a table whatever its client does, for every size of       *)
(* records, pool and table: the types of its state (TInv), and that no call*)
(* but startScan leaves a page pinned as long as updateRecord has moved no *)
(* record (Pins).                                                          *)
(***************************************************************************)
EXTENDS RecordMgrLemmas

-----------------------------------------------------------------------------
(* Types, whatever the client does.                                         *)

\* RM_managementData between two calls.
Table ==
  [open : BOOLEAN, file : Seq(Block), total : Nat,
   pend : Seq([page : Nat, data : Block]), frames : [Frames -> Frame],
   page : Nat \cup {NO_PAGE}, dir : Seq(PageDirectoryEntry),
   broken : BOOLEAN, rc : {"RC_OK"}, record : {None}]

\* A file that is there has the schema's block and the directory's.
TInv ==
  /\ TypeOK
  /\ mgmt.file # << >> => Len(mgmt.file) >= 2
  /\ mgmt.open => mgmt.file # << >>

\* Between two calls and in the middle of one.
LEMMA TableTypes ==
  /\ Table \subseteq Management
  /\ \A m \in Management : m.rc = "RC_OK" /\ m.record = None => m \in Table
  /\ \A m \in Management : Kept(m) \in Table
<1>1. ASSUME NEW m \in Table PROVE m \in Management
  BY DEF Table, Management, Codes, Results
<1>2. ASSUME NEW m \in Management, m.rc = "RC_OK", m.record = None
      PROVE  m \in Table
  BY <1>2 DEF Table, Management
<1>3. ASSUME NEW m \in Management PROVE Kept(m) \in Table
  BY <1>2, KeptState
<1> QED
  BY <1>1, <1>2, <1>3

\* A closed table is its file.
LEMMA ClosedType ==
  ASSUME NEW file \in Seq(Block)
  PROVE  /\ Closed(file) \in Table /\ Closed(file).file = file
         /\ ~Closed(file).open
<1> DEFINE W == [page : Nat, data : Block]
<1>1. EmptyFrame(ZeroPage) \in Frame
  BY BlockTypes DEF EmptyFrame, Frame
<1>2. << >> \in Seq(W) /\ << >> \in Seq(PageDirectoryEntry)
  OBVIOUS
<1> QED
  BY <1>1, <1>2 DEF Closed, Table

\* openTable: the pool it makes, and what it pins and unpins.
Opening(file, memory) ==
  [Closed(file) EXCEPT !.open = TRUE, !.total = Len(file),
                       !.frames = [f \in Frames |-> EmptyFrame(memory[f])]]

Opened(file, memory) == Unpinned(Pin(Unpinned(Pin(Opening(file, memory), 0)), 1))

\* The pool openTable starts with: empty frames over the file as it is.
LEMMA OpeningIs ==
  ASSUME NEW file \in Seq(Block), NEW memory \in [Frames -> Fresh]
  PROVE  LET n == Opening(file, memory) IN
         /\ n \in Management
         /\ n.open /\ n.file = file /\ n.total = Len(file) /\ n.pend = << >> /\ ~n.broken
         /\ \A f \in Frames :
              /\ n.frames[f].pageNumber = NO_PAGE /\ n.frames[f].memPage = memory[f]
              /\ ~n.frames[f].dirty /\ n.frames[f].fix_cnt = 0
<1> DEFINE fr == [f \in Frames |-> EmptyFrame(memory[f])]
           n  == Opening(file, memory)
<1>1. /\ fr \in [Frames -> Frame]
      /\ \A f \in Frames :
           /\ fr[f].pageNumber = NO_PAGE /\ fr[f].memPage = memory[f]
           /\ ~fr[f].dirty /\ fr[f].fix_cnt = 0
  <2>1. ASSUME NEW f \in Frames PROVE memory[f] \in Block
    BY FreshAssumption
  <2> QED
    BY <2>1 DEF EmptyFrame, Frame
<1>2. Len(file) \in Nat /\ TRUE \in BOOLEAN
  OBVIOUS
<1>3. /\ Closed(file) \in Management /\ Closed(file).file = file
      /\ Closed(file).pend = << >> /\ ~Closed(file).broken
  BY ClosedType, TableTypes DEF Closed
<1>4. n = [Closed(file) EXCEPT !.open = TRUE, !.total = Len(file), !.frames = fr]
  BY DEF Opening
<1> HIDE DEF fr
<1>5. /\ n \in Management /\ n.frames = fr
      /\ n.open /\ n.file = file /\ n.total = Len(file) /\ n.pend = << >> /\ ~n.broken
  BY <1>1, <1>2, <1>3, <1>4 DEF Management
<1> HIDE DEF n
<1> QED
  BY <1>1, <1>5 DEF n

\* openTable pins and unpins the schema's page, then the directory's.
LEMMA OpenedIs ==
  ASSUME NEW file \in Seq(Block), NEW memory \in [Frames -> Fresh]
  PROVE  LET n == Opening(file, memory)
             a == Pin(n, 0)
             b == Pin(Unpinned(a), 1)
             c == Unpinned(b)
         IN  /\ a \in Management /\ a.page = 0 /\ Pooled(a.frames, a.page)
             /\ Unpins(a, Unpinned(a)) /\ Unpinned(a) \in Management
             /\ b \in Management /\ b.page = 1 /\ Pooled(b.frames, b.page)
             /\ c \in Management /\ Unpins(b, c)
             /\ SameTable(n, c) /\ FileGrows(n, c)
             /\ Page(c).dir \in Seq(PageDirectoryEntry)
             /\ c = Opened(file, memory)
<1> DEFINE n == Opening(file, memory)
           a == Pin(n, 0)
           u == Unpinned(a)
           b == Pin(u, 1)
           c == Unpinned(b)
<1>1. n \in Management
  BY OpeningIs
<1>2. c = Opened(file, memory)
  BY DEF Opened
<1> HIDE DEF n
<1>3. /\ a \in Management /\ a.page = 0 /\ Pooled(a.frames, a.page)
      /\ SameTable(n, a) /\ FileGrows(n, a)
  BY <1>1, Pinned, PinGrows
<1> HIDE DEF a
<1>4. u \in Management /\ Unpins(a, u)
  BY <1>3, UnpinnedState
<1> HIDE DEF u
<1>5. /\ b \in Management /\ b.page = 1 /\ Pooled(b.frames, b.page)
      /\ SameTable(u, b) /\ FileGrows(u, b)
  BY <1>4, Pinned, PinGrows
<1> HIDE DEF b
<1>6. c \in Management /\ Unpins(b, c)
  BY <1>5, UnpinnedState
<1> HIDE DEF c
<1>7. SameTable(n, c)
  BY <1>3, <1>4, <1>5, <1>6 DEF SameTable, Unpins, SameContent
<1>8. FileGrows(n, c)
  <2>1. FileGrows(n, u)
    BY <1>1, <1>3, <1>4, UnpinKeepsFile
  <2>2. FileGrows(n, b)
    BY <1>1, <1>4, <1>5, <2>1, Growing
  <2> QED
    BY <1>1, <1>5, <1>6, <2>2, UnpinKeepsFile
<1>9. Page(c).dir \in Seq(PageDirectoryEntry)
  <2>1. \A g \in Frames : c.frames[g].pageNumber = b.frames[g].pageNumber
    BY <1>6 DEF Unpins, SameContent
  <2>2. c.page = b.page
    BY <1>6 DEF Unpins, SameContent
  <2>3. Pooled(c.frames, c.page)
    BY <1>5, <2>1, <2>2, SameFrames
  <2> QED
    BY <1>6, <2>3, PageBlock
<1> QED
  BY <1>2, <1>3, <1>4, <1>5, <1>6, <1>7, <1>8, <1>9 DEF c, b, u, a, n

\* The types of the history.
HistoryOK ==
  /\ table \in [RIDs -> Values \cup {None}]
  /\ given \in SUBSET [page : 0 .. MaxPages - 1, slot : Slots]
  /\ altered \in SUBSET (0 .. MaxPages - 1)
  /\ incidents \in SUBSET Incidents

\* TypeOK in the terms of these proofs.
LEMMA TypeParts ==
  TypeOK <=> /\ mgmt \in Table
             /\ scans \in [Scans -> ScanInfo]
             /\ HistoryOK
  BY DEF TypeOK, Table, ScanInfo, HistoryOK

\* A scan that is not open, and the number of pages a directory has room for.
LEMMA ScanTypes == NoScan \in ScanInfo /\ MaxPages \in Nat
<1>1. MaxPages \in Nat
  BY RecordMgrAssumption DEF maxEntriesInPD
<1> QED
  BY <1>1, Fitting DEF NoScan, ScanInfo, Slots

\* The types before the first call.
LEMMA TypeInit == Init => TInv
<1> SUFFICES ASSUME Init PROVE TInv
  OBVIOUS
<1>1. << >> \in Seq(Block)
  OBVIOUS
<1>2. mgmt \in Table /\ mgmt.file = << >> /\ ~mgmt.open
  BY <1>1, ClosedType DEF Init
<1>3. scans \in [Scans -> ScanInfo]
  BY ScanTypes DEF Init
<1>4. HistoryOK
  BY DEF Init, NoRecords, HistoryOK
<1> QED
  BY <1>2, <1>3, <1>4, TypeParts DEF TInv

\* A call without a record keeps the types of the history.
LEMMA SameHistory == TypeOK /\ UNCHANGED history => HistoryOK'
  BY DEF TypeOK, HistoryOK, history

\* A call that leaves the table m keeps its file a file.
LEMMA KeptFile ==
  ASSUME TInv, mgmt.open, NEW m \in Management, FileGrows(mgmt, m)
  PROVE  /\ Kept(m) \in Table
         /\ Kept(m).file # << >> /\ Len(Kept(m).file) >= 2
<1>1. Kept(m) \in Table /\ Kept(m).file = m.file
  BY TableTypes, KeptState DEF SameState
<1>2. m.file \in Seq(Block) /\ Len(m.file) >= 2
  <2>1. mgmt \in Management
    BY TypeParts, TableTypes DEF TInv
  <2>2. Len(mgmt.file) >= 2
    BY DEF TInv
  <2> QED
    BY <2>1, <2>2, FileLength DEF FileGrows
<1> QED
  BY <1>1, <1>2, EmptySeq

\* openTable keeps the types.
LEMMA TypeOpen ==
  ASSUME TInv, OpenTable PROVE TInv'
<1>1. PICK memory \in [Frames -> Fresh] :
        \E m \in {Opened(mgmt.file, memory)} : mgmt' = [Kept(m) EXCEPT !.dir = Page(m).dir]
  BY DEF OpenTable, Opened, Opening
<1> DEFINE n == Opening(mgmt.file, memory)
           c == Opened(mgmt.file, memory)
           d == Page(c).dir
<1>2. mgmt' = [Kept(c) EXCEPT !.dir = d]
  BY <1>1
<1>3. mgmt \in Table /\ mgmt.file \in Seq(Block) /\ Len(mgmt.file) >= 2
  BY TypeParts DEF TInv, OpenTable, Table
<1>4. c \in Management /\ FileGrows(n, c) /\ d \in Seq(PageDirectoryEntry)
  BY <1>3, OpenedIs
<1>5. n \in Management /\ n.file = mgmt.file
  BY <1>3, OpeningIs
<1> HIDE DEF c, n, d
<1>6. Kept(c) \in Table /\ Kept(c).file = c.file
  BY <1>4, TableTypes, KeptState DEF SameState
<1>7. mgmt' \in Table /\ mgmt'.file = c.file
  BY <1>2, <1>4, <1>6 DEF Table
<1>8. c.file # << >> /\ Len(c.file) >= 2
  <2>1. Len(c.file) >= 2 /\ c.file \in Seq(Block)
    BY <1>3, <1>4, <1>5, FileLength DEF FileGrows
  <2> QED
    BY <2>1, EmptySeq
<1>9. scans' \in [Scans -> ScanInfo] /\ HistoryOK'
  BY SameHistory, TypeParts DEF OpenTable, TInv
<1>10. TypeOK'
  BY <1>7, <1>9 DEF HistoryOK, TypeOK, Table, ScanInfo
<1> QED
  BY <1>7, <1>8, <1>10 DEF TInv

\* closeTable keeps the types.
LEMMA TypeClose ==
  ASSUME TInv, CloseTable PROVE TInv'
<1> DEFINE file == FileClosed(mgmt)
<1>1. mgmt \in Management /\ Len(mgmt.file) >= 2
  BY TypeParts, TableTypes DEF TInv, CloseTable, Ready
<1>2. file \in Seq(Block) /\ Len(file) >= 2
  BY <1>1, ClosedFile, FileLength
<1>3. mgmt' = Closed(file)
  BY DEF CloseTable
<1>4. HistoryOK'
  BY TypeParts DEF TInv, CloseTable, HistoryOK, AtClose, Incidents
<1>5. scans' \in [Scans -> ScanInfo]
  BY ScanTypes DEF CloseTable
<1> HIDE DEF file
<1>7. mgmt' \in Table /\ mgmt'.file = file /\ ~mgmt'.open
  BY <1>2, <1>3, ClosedType
<1>8. TypeOK'
  BY <1>4, <1>5, <1>7 DEF TypeOK, Table, ScanInfo, HistoryOK
<1> QED
  BY <1>2, <1>7, <1>8 DEF TInv

\* createTable and deleteTable keep the types.
LEMMA TypeCreate ==
  ASSUME TInv, CreateTable \/ DeleteTable PROVE TInv'
<1>1. CASE CreateTable
  <2> DEFINE file == <<SchemaPage, DirectoryPage(<<NewEntry>>)>>
  <2>1. NewEntry \in PageDirectoryEntry
    BY Fitting DEF NewEntry, PageDirectoryEntry, PAGE_SIZE
  <2>2. DirectoryPage(<<NewEntry>>) \in Block
    <3>1. <<NewEntry>> \in Seq(PageDirectoryEntry)
      BY <2>1
    <3> QED
      BY <3>1, BlockTypes
  <2>3. file \in Seq(Block) /\ Len(file) = 2
    BY <2>2, BlockTypes
  <2>4. mgmt' = Closed(file) /\ scans' \in [Scans -> ScanInfo] /\ HistoryOK'
    BY <1>1, SameHistory, TypeParts DEF CreateTable, TInv
  <2> HIDE DEF file
  <2>5. mgmt' \in Table /\ mgmt'.file = file /\ ~mgmt'.open
    BY <2>3, <2>4, ClosedType
  <2>6. TypeOK'
    BY <2>4, <2>5 DEF HistoryOK, TypeOK, Table, ScanInfo
  <2> QED
    BY <2>3, <2>5, <2>6 DEF TInv
<1>2. CASE DeleteTable
  <2>1. << >> \in Seq(Block)
    OBVIOUS
  <2>2. mgmt' \in Table /\ mgmt'.file = << >> /\ ~mgmt'.open
    BY <1>2, <2>1, ClosedType DEF DeleteTable
  <2>3. scans' \in [Scans -> ScanInfo]
    BY <1>2, TypeParts DEF TInv, DeleteTable
  <2>4. HistoryOK'
    BY <1>2 DEF DeleteTable, NoRecords, HistoryOK
  <2>5. TypeOK'
    BY <2>2, <2>3, <2>4 DEF TypeOK, Table, ScanInfo, HistoryOK
  <2> QED
    BY <2>2, <2>5 DEF TInv
<1> QED
  BY <1>1, <1>2

\* The calls of an open table that leave the scans alone.
LEMMA TypeCall ==
  ASSUME TInv, mgmt.open, NEW m \in Management, FileGrows(mgmt, m), mgmt' = Kept(m),
         scans' \in [Scans -> ScanInfo], HistoryOK'
  PROVE  TInv'
<1>1. mgmt' \in Table /\ mgmt'.file # << >> /\ Len(mgmt'.file) >= 2
  BY KeptFile
<1>2. TypeOK'
  BY <1>1 DEF TypeOK, Table, ScanInfo, HistoryOK
<1> QED
  BY <1>1, <1>2 DEF TInv

\* The Record of a call names an RID of a table within its bounds.
LEMMA IdPlace ==
  ASSUME NEW m \in Management, Located(m), Bounded(m)
  PROVE  [page |-> m.record.page, slot |-> m.record.slot]
           \in [page : 0 .. MaxPages - 1, slot : Slots]
<1>1. m.record.page \in 0 .. numPages(m) - 1 /\ m.record.slot \in Slots
  BY DEF Located
<1>2. numPages(m) \in Nat /\ numPages(m) <= MaxPages /\ MaxPages \in Nat
  BY DirEntries, ScanTypes DEF Bounded
<1> QED
  BY <1>1, <1>2

\* The incidents of a call are known ones.
LEMMA IncidentsKnown ==
  /\ \A m : AtInsert(m) \subseteq Incidents
  /\ \A r : AtChange(r) \subseteq Incidents
  /\ \A m, r : AtUpdate(m, r) \subseteq Incidents
  BY DEF AtInsert, AtSlot, AtChange, AtUpdate, Incidents

\* The calls on records keep the types.
LEMMA TypeRecords ==
  ASSUME TInv,
         \/ \E v \in Values : InsertRecord(v)
         \/ \E r \in RIDs : DeleteRecord(r)
         \/ \E r \in RIDs, v \in Values : UpdateRecord(r, v)
         \/ \E r \in RIDs : GetRecord(r)
  PROVE  TInv'
<1>1. /\ mgmt \in Management /\ scans \in [Scans -> ScanInfo]
      /\ HistoryOK
  BY TypeParts, TableTypes DEF TInv
<1>2. ASSUME NEW v \in Values, InsertRecord(v) PROVE TInv'
  <2> DEFINE m == Inserted(mgmt, v)
  <2>1. m \in Management /\ FileGrows(mgmt, m)
    BY <1>1, InsertedRecord
  <2>4. ~m.broken => Located(m)
    BY <1>1, InsertedRecord
  <2> DEFINE id == [page |-> m.record.page, slot |-> m.record.slot]
  <2>2. /\ mgmt.open /\ mgmt' = Kept(m) /\ UNCHANGED <<scans, altered>> /\ Bounded(m)
        /\ \/ UNCHANGED <<table, given>>
           \/ ~m.broken /\ table' = [table EXCEPT ![id] = v] /\ given' = given \cup {id}
        /\ incidents' = incidents \cup AtInsert(mgmt)
    BY <1>2 DEF InsertRecord, Ready
  <2>5. ~m.broken => id \in [page : 0 .. MaxPages - 1, slot : Slots]
    BY <2>1, <2>2, <2>4, IdPlace
  <2> HIDE DEF m, id
  <2>6. table' \in [RIDs -> Values \cup {None}]
    BY <1>1, <2>2 DEF HistoryOK
  <2>7. given' \in SUBSET [page : 0 .. MaxPages - 1, slot : Slots]
    BY <1>1, <2>2, <2>5 DEF HistoryOK
  <2>3. HistoryOK'
    BY <1>1, <2>2, <2>6, <2>7, IncidentsKnown DEF HistoryOK
  <2> QED
    BY <1>1, <2>1, <2>2, <2>3, TypeCall
<1>3. ASSUME NEW r \in RIDs, DeleteRecord(r) PROVE TInv'
  <2> DEFINE m == Erased(mgmt, r)
  <2>1. m \in Management /\ FileGrows(mgmt, m)
    BY <1>1, ErasedRecord
  <2>2. /\ mgmt.open /\ mgmt' = Kept(m) /\ scans' = scans
        /\ given' = given
        /\ \/ UNCHANGED <<table, altered, incidents>>
           \/ /\ table' = [table EXCEPT ![r] = None]
              /\ altered' = altered \cup {r.page}
              /\ incidents' = incidents \cup AtChange(r)
    BY <1>3 DEF DeleteRecord, Ready
  <2> HIDE DEF m
  <2>4. table' \in [RIDs -> Values \cup {None}]
    BY <1>1, <2>2 DEF HistoryOK
  <2>5. r.page \in 0 .. MaxPages - 1
    BY DEF RIDs
  <2>3. HistoryOK'
    BY <1>1, <2>2, <2>4, <2>5, IncidentsKnown DEF HistoryOK
  <2> QED
    BY <1>1, <2>1, <2>2, <2>3, TypeCall
<1>4. ASSUME NEW r \in RIDs, NEW v \in Values, UpdateRecord(r, v) PROVE TInv'
  <2> DEFINE m == Replaced(mgmt, r, v)
             id == [page |-> m.record.page, slot |-> m.record.slot]
  <2>1. m \in Management /\ FileGrows(mgmt, m) /\ Names(m)
    BY <1>1, ReplacedRecord
  <2>2. /\ mgmt.open /\ mgmt' = Kept(m) /\ scans' = scans
        /\ Bounded(m)
        /\ \/ UNCHANGED history
           \/ /\ m.rc \notin Refusals
              /\ \/ UNCHANGED <<table, given>>
                 \/ /\ ~m.broken /\ given' = given \cup {id}
                    /\ table' = [table EXCEPT ![r] = None, ![id] = v]
              /\ altered' = altered \cup {r.page}
              /\ incidents' = incidents \cup AtUpdate(mgmt, r)
    BY <1>4 DEF UpdateRecord, Ready
  <2>4. m.rc \notin Refusals /\ ~m.broken => id \in [page : 0 .. MaxPages - 1, slot : Slots]
    BY <2>1, <2>2, IdPlace DEF Names
  <2> HIDE DEF m, id
  <2>5. table' \in [RIDs -> Values \cup {None}]
    BY <1>1, <2>2 DEF HistoryOK, history
  <2>6. r.page \in 0 .. MaxPages - 1
    BY DEF RIDs
  <2>7. given' \in SUBSET [page : 0 .. MaxPages - 1, slot : Slots]
    BY <1>1, <2>2, <2>4 DEF HistoryOK, history
  <2>8. altered' \in SUBSET (0 .. MaxPages - 1)
    BY <1>1, <2>2, <2>6 DEF HistoryOK, history
  <2>3. HistoryOK'
    BY <1>1, <2>2, <2>5, <2>7, <2>8, IncidentsKnown DEF HistoryOK, history
  <2> QED
    BY <1>1, <2>1, <2>2, <2>3, TypeCall
<1>5. ASSUME NEW r \in RIDs, GetRecord(r) PROVE TInv'
  <2> DEFINE m == Fetched(mgmt, r)
  <2>1. m \in Management /\ FileGrows(mgmt, m)
    BY <1>1, FetchedRecord
  <2>2. mgmt.open /\ mgmt' = Kept(m) /\ UNCHANGED scans /\ HistoryOK'
    BY <1>5, SameHistory DEF GetRecord, Ready, TInv
  <2> HIDE DEF m
  <2> QED
    BY <1>1, <2>1, <2>2, TypeCall
<1> QED
  BY <1>2, <1>3, <1>4, <1>5

\* The calls on scans keep the types.
LEMMA TypeScans ==
  ASSUME TInv,
         \/ \E s \in Scans, condition \in Conditions : StartScan(s, condition)
         \/ \E s \in Scans : NextTuple(s)
         \/ \E s \in Scans : CloseScan(s)
  PROVE  TInv'
<1>1. /\ mgmt \in Management /\ scans \in [Scans -> ScanInfo]
      /\ HistoryOK
  BY TypeParts, TableTypes DEF TInv
<1>2. ASSUME NEW s \in Scans, NEW condition \in Conditions, StartScan(s, condition) PROVE TInv'
  <2> DEFINE m == Pin(mgmt, 2)
             new == [active |-> TRUE, condition |-> condition,
                     currentPage |-> 0, currentSlot |-> 0]
  <2>1. m \in Management /\ FileGrows(mgmt, m)
    BY <1>1, Pinned, PinGrows
  <2>2. /\ mgmt.open /\ mgmt' = Kept(m) /\ HistoryOK'
        /\ scans' = [scans EXCEPT ![s] = new]
    BY <1>2, SameHistory DEF StartScan, Ready, TInv
  <2>3. new \in ScanInfo
    BY RecordMgrAssumption, ScanTypes, Fitting DEF ScanInfo, Slots
  <2> HIDE DEF m, new
  <2>4. scans' \in [Scans -> ScanInfo]
    BY <1>1, <2>2, <2>3
  <2> QED
    BY <1>1, <2>1, <2>2, <2>4, TypeCall
<1>3. ASSUME NEW s \in Scans, NextTuple(s) PROVE TInv'
  <2> DEFINE visit == Visit(mgmt, scans[s])
             m == visit.mgmt
  <2>1. scans[s] \in ScanInfo
    BY <1>1
  <2>2. /\ m \in Management /\ FileGrows(mgmt, m)
        /\ \/ Ends(mgmt, scans[s], visit)
           \/ \E hit \in scans[s].currentPage .. numPages(mgmt) - 1,
                 slot \in 0 .. MaxRecords - 1 :
                Delivers(mgmt, scans[s], visit, hit, slot)
    BY <1>1, <2>1, VisitCases
  <2>3. /\ mgmt.open /\ Bounded(m) /\ mgmt' = Kept(m) /\ HistoryOK'
        /\ scans' = [scans EXCEPT ![s] = visit.scan]
    BY <1>3, SameHistory DEF NextTuple, Ready, TInv
  <2> HIDE DEF visit
  <2>4. numPages(mgmt) \in 0 .. MaxPages
    <3>1. m.dir = mgmt.dir
      <4>1. CASE Ends(mgmt, scans[s], visit)
        <5>1. CASE scans[s].currentPage >= numPages(mgmt)
          BY <4>1, <5>1 DEF Ends, SameState
        <5>2. CASE ~ (scans[s].currentPage >= numPages(mgmt))
          <6> DEFINE last == numPages(mgmt) - 1
                     At   == PinnedAlong(mgmt, scans[s].currentPage)
          <6>1. scans[s].currentPage \in Nat /\ last \in scans[s].currentPage .. last
            BY <1>1, <2>1, <5>2, DirEntries, ScanTypes DEF ScanInfo
          <6>2. SameTable(mgmt, At[last])
            BY <1>1, <6>1, AlongTable
          <6>3. Unpins(At[last], m)
            BY <4>1, <5>2 DEF Ends
          <6> QED
            BY <6>2, <6>3 DEF Unpins, SameContent, SameTable
        <5> QED
          BY <5>1, <5>2
      <4>2. ASSUME NEW hit \in scans[s].currentPage .. numPages(mgmt) - 1,
                   NEW slot \in 0 .. MaxRecords - 1,
                   Delivers(mgmt, scans[s], visit, hit, slot)
            PROVE  m.dir = mgmt.dir
        <5> DEFINE At == PinnedAlong(mgmt, scans[s].currentPage)
        <5>1. scans[s].currentPage \in Nat
          BY <2>1, ScanTypes DEF ScanInfo
        <5>2. SameTable(mgmt, At[hit])
          BY <1>1, <5>1, AlongTable
        <5>3. Unpins(At[hit], m)
          BY <4>2 DEF Delivers
        <5> QED
          BY <5>2, <5>3 DEF Unpins, SameContent, SameTable
      <4> QED
        BY <2>2, <4>1, <4>2
    <3> QED
      BY <1>1, <2>3, <3>1, DirEntries, ScanTypes DEF Bounded, numPages
  <2>5. visit.scan \in ScanInfo
    <3>1. CASE Ends(mgmt, scans[s], visit)
      <4> DEFINE k == numPages(mgmt)
      <4>1. visit.scan = scans[s] \/ visit.scan = [scans[s] EXCEPT !.currentPage = k, !.currentSlot = 0]
        BY <3>1 DEF Ends
      <4>2. k \in 0 .. MaxPages /\ 0 \in Slots
        BY <2>4, Fitting DEF Slots
      <4> HIDE DEF k
      <4> QED
        BY <2>1, <4>1, <4>2 DEF ScanInfo
    <3>2. ASSUME NEW hit \in scans[s].currentPage .. numPages(mgmt) - 1,
                 NEW slot \in 0 .. MaxRecords - 1,
                 Delivers(mgmt, scans[s], visit, hit, slot)
          PROVE  visit.scan \in ScanInfo
      <4>1. hit \in 0 .. MaxPages /\ slot + 1 \in Slots
        BY <2>1, <2>4, <3>2, Fitting, ScanTypes DEF ScanInfo, Slots
      <4>2. visit.scan = [scans[s] EXCEPT !.currentPage = hit, !.currentSlot = slot + 1]
        BY <3>2 DEF Delivers
      <4> QED
        BY <2>1, <4>1, <4>2 DEF ScanInfo
    <3> QED
      BY <2>2, <3>1, <3>2
  <2>6. scans' \in [Scans -> ScanInfo]
    BY <1>1, <2>3, <2>5
  <2> QED
    BY <1>1, <2>2, <2>3, <2>6, TypeCall
<1>4. ASSUME NEW s \in Scans, CloseScan(s) PROVE TInv'
  <2> DEFINE inside == scans[s].currentPage < numPages(mgmt)
             m == IF inside THEN Unpinned(mgmt) ELSE [mgmt EXCEPT !.rc = "RC_OK"]
  <2>1. m \in Management /\ m.file = mgmt.file
    <3>1. Unpinned(mgmt) \in Management /\ Unpinned(mgmt).file = mgmt.file
      BY <1>1, UnpinnedState DEF Unpins, SameContent, SameState
    <3>2. LET n == [mgmt EXCEPT !.rc = "RC_OK"] IN n \in Management /\ n.file = mgmt.file
      BY <1>1 DEF Management, Codes
    <3> QED
      BY <3>1, <3>2
  <2>2. /\ mgmt.open /\ mgmt' = Kept(m) /\ HistoryOK'
        /\ scans' = IF m.rc = "RC_OK" THEN [scans EXCEPT ![s] = NoScan] ELSE scans
    BY <1>4, SameHistory DEF CloseScan, Ready, TInv
  <2> HIDE DEF m
  <2>3. FileGrows(mgmt, m)
    BY <1>1, <2>1, NoGrowth
  <2>4. scans' \in [Scans -> ScanInfo]
    BY <1>1, <2>2, ScanTypes
  <2> QED
    BY <1>1, <2>1, <2>2, <2>3, <2>4, TypeCall
<1> QED
  BY <1>2, <1>3, <1>4

\* Every call keeps the types.
LEMMA TypeNext == TInv /\ [Next]_vars => TInv'
<1> SUFFICES ASSUME TInv, [Next]_vars PROVE TInv'
  OBVIOUS
<1>1. CASE Next
  BY <1>1, TypeCreate, TypeOpen, TypeClose, TypeRecords, TypeScans DEF Next
<1>2. CASE UNCHANGED vars
  BY <1>2 DEF vars, history, TInv, TypeOK
<1> QED
  BY <1>1, <1>2

\* Whatever the client does, whatever malloc returns and however small the
\* pool: RM_managementData, the scans and the records of the table are always
\* what their types say, and the file of an open table has its first two blocks.
THEOREM TypeCorrect == Spec => []TypeOK
<1>1. TInv => TypeOK
  BY DEF TInv
<1> QED
  BY <1>1, TypeInit, TypeNext, PTL DEF Spec

-----------------------------------------------------------------------------
(* Pins, whatever the client does.                                          *)

\* Between two calls, only the first data page has pins.
Pins(m) == \A f \in Frames : m.frames[f].fix_cnt > 0 => m.frames[f].pageNumber = 2

\* In a call, the page in hand has one pin more.
MorePins(m) ==
  \A f \in Frames :
    m.frames[f].fix_cnt > (IF f = FrameOf(m, m.page) THEN 1 ELSE 0)
      => m.frames[f].pageNumber = 2

\* In the middle of a call, the page pinned last is the one that may have more
\* than a scan's pins.
LEMMA PinnedPins ==
  ASSUME NEW m \in Management, Pins(m), NEW p \in Nat
  PROVE  MorePins(Pin(m, p))
<1> DEFINE n == Pin(m, p)
<1>1. /\ n \in Management /\ SameTable(m, n) /\ n.page = p
      /\ Hit(m, n, p) \/ \E f \in Frames : Read(m, n, p, f)
  BY PinCases
<1>2. \A f \in Frames : m.frames[f].fix_cnt \in Nat
  BY DEF Management, Frame
<1> HIDE DEF n
<1>3. CASE Hit(m, n, p)
  <2>1. \A g \in Frames : n.frames[g].pageNumber = m.frames[g].pageNumber
    BY <1>3 DEF Hit
  <2>2. FrameOf(n, p) = FrameOf(m, p)
    BY <2>1, SameFrames
  <2> QED
    BY <1>1, <1>2, <1>3, <2>2 DEF MorePins, Pins, Hit, n
<1>4. ASSUME NEW f \in Frames, Read(m, n, p, f) PROVE MorePins(n)
  <2>1. /\ n.frames[f].pageNumber = p /\ n.frames[f].fix_cnt = 1
        /\ \A g \in Frames \ {f} :
             /\ n.frames[g].pageNumber = m.frames[g].pageNumber
             /\ n.frames[g].fix_cnt = m.frames[g].fix_cnt
    BY <1>4 DEF Read, SameUse
  <2>2. f \in Holding(n.frames, p) /\ \A g \in Holding(n.frames, p) : g = f
    BY <1>4, <2>1 DEF Read, Pooled, Holding
  <2>3. FrameOf(n, p) = f
    BY <1>1, <2>2, FrameFound DEF Pooled
  <2> QED
    BY <1>1, <1>2, <2>1, <2>3 DEF MorePins, Pins
<1> QED
  BY <1>1, <1>3, <1>4 DEF n

\* The unpin at the end of a call takes it back.
LEMMA LessPins ==
  ASSUME NEW m \in Management, MorePins(m) \/ Pins(m), NEW n,
         \A g \in Frames : n.frames[g].pageNumber = m.frames[g].pageNumber,
         LessPin(m, n, FrameOf(m, m.page))
  PROVE  Pins(n)
<1>1. \A f \in Frames : m.frames[f].fix_cnt \in Nat
  BY DEF Management, Frame
<1> QED
  BY <1>1 DEF MorePins, Pins, LessPin

\* A call that ends like this leaves no pin of its own.
LEMMA UnpinnedPins ==
  ASSUME NEW m \in Management, MorePins(m) \/ Pins(m), NEW n, Unpins(m, n)
  PROVE  Pins(n)
  BY LessPins DEF Unpins, SameContent

\* Nor does a call that wrote the page it pinned.
LEMMA WrotePins ==
  ASSUME NEW m \in Management, MorePins(m), NEW n, NEW block, Wrote(m, n, block)
  PROVE  Pins(n)
  BY LessPins DEF Wrote

\* openTable.
LEMMA OpenPins ==
  ASSUME TInv, OpenTable PROVE Pins(mgmt)'
<1>1. PICK memory \in [Frames -> Fresh] :
        \E m \in {Opened(mgmt.file, memory)} : mgmt' = [Kept(m) EXCEPT !.dir = Page(m).dir]
  BY DEF OpenTable, Opened, Opening
<1> DEFINE n == Opening(mgmt.file, memory)
           a == Pin(n, 0)
           u == Unpinned(a)
           b == Pin(u, 1)
           c == Opened(mgmt.file, memory)
<1>2. mgmt.file \in Seq(Block)
  BY TypeParts DEF TInv, Table
<1>3. n \in Management /\ \A f \in Frames : n.frames[f].fix_cnt = 0
  BY <1>2, OpeningIs
<1>4. /\ a \in Management /\ u \in Management /\ b \in Management /\ c \in Management
      /\ Unpins(a, u) /\ Unpins(b, c)
      /\ Page(c).dir \in Seq(PageDirectoryEntry)
  BY <1>2, OpenedIs
<1>5. mgmt' = [Kept(c) EXCEPT !.dir = Page(c).dir]
  BY <1>1
<1> HIDE DEF n
<1>6. Pins(n) /\ MorePins(a)
  BY <1>3, PinnedPins DEF Pins
<1> HIDE DEF a
<1>7. Pins(u) /\ MorePins(b)
  BY <1>4, <1>6, UnpinnedPins, PinnedPins
<1> HIDE DEF b, c
<1>8. Pins(c)
  BY <1>4, <1>7, UnpinnedPins
<1>9. mgmt'.frames = c.frames
  BY <1>4, <1>5, KeptState DEF SameState, Management
<1> QED
  BY <1>8, <1>9 DEF Pins

\* A closed table has no pins.
LEMMA ClosedPins ==
  ASSUME NEW file PROVE Pins(Closed(file))
<1>1. \A f \in Frames : Closed(file).frames[f].fix_cnt = 0
  BY DEF Closed, EmptyFrame
<1> QED
  BY <1>1 DEF Pins

\* insertRecord, unless its record has no place.
LEMMA InsertPins ==
  ASSUME NEW m \in Management, Pins(m), NEW v \in Values, ~Inserted(m, v).broken
  PROVE  Pins(Inserted(m, v))
<1> DEFINE pages == IF Target(m) = numPages(m) THEN WithNewPage(m) ELSE m
           n     == PinnedForInsert(m)
           i     == Target(m)
           slot  == SlotFor(n, n.dir[i + 1].recordCount)
           x     == Inserted(m, v)
<1>1. /\ pages \in Management /\ n \in Management
      /\ n = Pin(pages, numPages(pages) + 1)
      /\ x \in Management /\ Inserts(n, x, i, slot, v)
  BY PinnedLast, InsertedRecord
<1>2. pages.frames = m.frames
  BY NewPageAdded DEF NewPage
<1> HIDE DEF pages
<1>3. numPages(pages) + 1 \in Nat
  BY <1>1, DirEntries
<1>4. MorePins(n)
  <2>1. Pins(pages)
    BY <1>2 DEF Pins
  <2> QED
    BY <1>1, <1>3, <2>1, PinnedPins
<1> HIDE DEF n, slot, x
<1>5. PICK y : /\ Fills(n, y, i, CountAt(n, i, slot), Placed(n, slot, CountAt(n, i, slot), v))
               /\ SameState(y, x)
  BY <1>1 DEF Inserts, x
<1>6. PICK u \in Management, w \in Management :
        /\ Wrote(n, u, Placed(n, slot, CountAt(n, i, slot), v))
        /\ w.frames = u.frames /\ y.frames = w.frames
  BY <1>5 DEF Fills, Writes
<1>7. Pins(u)
  BY <1>1, <1>4, <1>6, WrotePins
<1> QED
  BY <1>5, <1>6, <1>7 DEF Pins, SameState, x

\* deleteRecord.
LEMMA ErasePins ==
  ASSUME NEW m \in Management, Pins(m), NEW r \in RIDs
  PROVE  Pins(Erased(m, r))
<1> DEFINE n == PinnedFor(m, r)
           x == Erased(m, r)
<1>1. x \in Management /\ Erases(m, x, r)
  BY ErasedRecord
<1>2. Valid(m, r) => n \in Management /\ MorePins(n)
  BY PinnedRID, PinnedPins, RIDParts DEF PinnedFor
<1> HIDE DEF x
<1>3. CASE ~Valid(m, r)
  BY <1>1, <1>3 DEF Erases, SameState, Pins, x
<1>4. CASE Valid(m, r)
  <2>1. Unpins(n, x) \/ Frees(n, x, r)
    BY <1>1, <1>4 DEF Erases
  <2>2. Unpins(n, x) \/ Wrote(n, x, FreeBlock(n, r.slot))
    BY <2>1 DEF Frees
  <2> HIDE DEF n
  <2> QED
    BY <1>2, <1>4, <2>2, UnpinnedPins, WrotePins DEF x
<1> QED
  BY <1>3, <1>4

\* An update that ends with a broken table, or by deleting and inserting the
\* record, or else leaves no pin.
LEMMA ReplacePins ==
  ASSUME NEW m \in Management, Pins(m), ~m.broken, NEW r \in RIDs, NEW v \in Values,
         ~Replaced(m, r, v).broken
  PROVE  \/ Pins(Replaced(m, r, v))
         \/ Replaced(m, r, v).rc \notin Refusals /\ NoRoom(PinnedFor(m, r), r)
<1> DEFINE n == PinnedFor(m, r)
           x == Replaced(m, r, v)
<1>1. x \in Management /\ Alters(m, x, r, v)
  BY ReplacedRecord
<1>2. Valid(m, r) => n \in Management /\ MorePins(n) /\ n.broken = m.broken
  BY PinnedRID, PinnedPins, RIDParts DEF PinnedFor, SameTable
<1>3. CASE ~Valid(m, r)
  <2>1. SameState(m, x)
    BY <1>1, <1>3 DEF Alters
  <2> HIDE DEF x
  <2> QED
    BY <2>1 DEF SameState, Pins, x
<1>4. CASE Valid(m, r) /\ Slot(n, r.slot).isFree
  <2>1. Unpins(n, x)
    BY <1>1, <1>4 DEF Alters
  <2> HIDE DEF n, x
  <2> QED
    BY <1>2, <1>4, <2>1, UnpinnedPins DEF x
<1>5. CASE Valid(m, r) /\ ~Slot(n, r.slot).isFree /\ NoRoom(n, r)
  <2> DEFINE y == Inserted(Erased(n, r), v)
             d == Dirtied(y)
  <2>1. x = Finished(y)
    BY <1>5 DEF Replaced, ReplacedIn
  <2>2. y \in Management
    BY <1>2, <1>5, ErasedRecord, InsertedRecord
  <2> HIDE DEF y
  <2>3. x = Unpinned(d)
    <3>1. ~y.broken
      BY <2>1 DEF Finished
    <3> QED
      BY <2>1, <3>1 DEF Finished
  <2>4. d \in Management
    BY <2>2, DirtiedFrames
  <2> HIDE DEF d
  <2>5. Unpinned(d).rc \in {"RC_OK", "RC_BP_UNPIN_ERROR"}
    BY <2>4 DEF Unpinned, Management
  <2> QED
    BY <1>5, <2>3, <2>5 DEF Refusals
<1>6. CASE Valid(m, r) /\ ~Slot(n, r.slot).isFree /\ ~NoRoom(n, r)
  <2>1. Slot(n, r.slot).pos # 0
    <3>1. CASE Slot(n, r.slot).pos = 0
      <4>1. x = [n EXCEPT !.broken = TRUE]
        BY <1>6, <3>1 DEF Replaced, ReplacedIn
      <4>2. x.broken
        BY <1>2, <1>6, <4>1 DEF Management
      <4> QED
        BY <4>2
    <3> QED
      BY <3>1
  <2>2. Updates(n, x, r, v)
    BY <1>1, <1>2, <1>6, <2>1 DEF Alters
  <2>3. Wrote(n, x, NewBlock(n, r.slot, v))
    BY <2>2 DEF Updates
  <2> HIDE DEF n, x
  <2> QED
    BY <1>2, <1>6, <2>3, WrotePins DEF x
<1> QED
  BY <1>3, <1>4, <1>5, <1>6

\* getRecord.
LEMMA FetchPins ==
  ASSUME NEW m \in Management, Pins(m), NEW r \in RIDs
  PROVE  Pins(Fetched(m, r))
<1> DEFINE n == PinnedFor(m, r)
           x == Fetched(m, r)
<1>1. /\ x \in Management
      /\ Valid(m, r) => Unpins(n, x)
      /\ ~Valid(m, r) => SameState(m, x)
  BY FetchedRecord
<1>2. Valid(m, r) => n \in Management /\ MorePins(n)
  BY PinnedRID, PinnedPins, RIDParts DEF PinnedFor
<1> HIDE DEF n, x
<1> QED
  BY <1>1, <1>2, UnpinnedPins DEF SameState, Pins, x

\* The pages next goes through each have one pin while next looks at them.
LEMMA AlongPins ==
  ASSUME NEW m \in Management, Pins(m), NEW first \in Nat, NEW i \in first .. numPages(m) - 1
  PROVE  MorePins(PinnedAlong(m, first)[i])
<1> DEFINE At == PinnedAlong(m, first)
           last == numPages(m) - 1
           T == {j \in first .. last : ~MorePins(At[j])}
<1>1. last \in Int /\ last = numPages(m) - 1
  BY DirEntries
<1>2. \A j \in first .. last : At[j] = Pin(IF j = first THEN m ELSE Unpinned(At[j - 1]), j + 2)
  <2>1. At = [j \in first .. last |-> Pin(IF j = first THEN m ELSE Unpinned(At[j - 1]), j + 2)]
    BY <1>1, PinnedAlongIs
  <2> HIDE DEF At, last
  <2> QED
    BY <2>1
<1>3. \A j \in first .. last : At[j] \in Management /\ Pooled(At[j].frames, At[j].page)
  BY <1>1, AlongTable
<1> HIDE DEF At, last
<1>4. T = {}
  <2> SUFFICES ASSUME T # {} PROVE FALSE
    OBVIOUS
  <2>1. T \in SUBSET Nat
    BY <1>1
  <2>2. PICK j \in T : \A k \in T : j <= k
    BY <2>1, Smallest
  <2>3. j + 2 \in Nat
    BY <2>1
  <2>4. CASE j = first
    <3>1. At[j] = Pin(m, j + 2)
      BY <1>2, <2>2, <2>4
    <3> QED
      BY <2>2, <2>3, <3>1, PinnedPins
  <2>5. CASE j # first
    <3>1. j - 1 \in first .. last /\ j - 1 \notin T
      BY <1>1, <2>2, <2>5
    <3> DEFINE n == At[j - 1]
               a == Unpinned(n)
    <3>2. n \in Management /\ Pooled(n.frames, n.page) /\ MorePins(n)
      BY <1>3, <3>1
    <3> HIDE DEF n
    <3>3. a \in Management /\ Unpins(n, a)
      BY <3>2, UnpinnedState
    <3> HIDE DEF a
    <3>4. Pins(a)
      BY <3>2, <3>3, UnpinnedPins
    <3>5. At[j] = Pin(a, j + 2)
      BY <1>2, <2>2, <2>5 DEF a, n
    <3> QED
      BY <2>2, <2>3, <3>3, <3>4, <3>5, PinnedPins
  <2> QED
    BY <2>4, <2>5
<1> QED
  BY <1>4 DEF At, last

\* next gives back every pin on its way.
LEMMA NextPins ==
  ASSUME TInv, Pins(mgmt), NEW s \in Scans
  PROVE  Pins(Visit(mgmt, scans[s]).mgmt)
<1> DEFINE visit == Visit(mgmt, scans[s])
           m     == visit.mgmt
           first == scans[s].currentPage
           At    == PinnedAlong(mgmt, first)
<1>1. scans[s] \in ScanInfo /\ mgmt \in Management
  BY TypeParts, TableTypes DEF TInv
<1>2. first \in Nat /\ numPages(mgmt) \in Nat
  BY <1>1, ScanTypes, DirEntries DEF ScanInfo
<1>3. /\ m \in Management
      /\ \/ Ends(mgmt, scans[s], visit)
         \/ \E hit \in first .. numPages(mgmt) - 1, slot \in 0 .. MaxRecords - 1 :
              Delivers(mgmt, scans[s], visit, hit, slot)
  BY <1>1, VisitCases
<1>4. ASSUME NEW i \in first .. numPages(mgmt) - 1
      PROVE  At[i] \in Management /\ MorePins(At[i])
  BY <1>1, <1>2, AlongTable, AlongPins
<1> HIDE DEF visit, At
<1>5. SameState(mgmt, m) \/ \E i \in first .. numPages(mgmt) - 1 : Unpins(At[i], m)
  <2>1. CASE Ends(mgmt, scans[s], visit)
    <3>1. CASE first >= numPages(mgmt)
      BY <2>1, <3>1 DEF Ends
    <3>2. CASE ~ (first >= numPages(mgmt))
      <4>1. numPages(mgmt) - 1 \in first .. numPages(mgmt) - 1
        BY <1>2, <3>2
      <4>2. Unpins(At[numPages(mgmt) - 1], m)
        BY <2>1, <3>2 DEF Ends, At
      <4> QED
        BY <4>1, <4>2
    <3> QED
      BY <3>1, <3>2
  <2>2. CASE \E hit \in first .. numPages(mgmt) - 1, slot \in 0 .. MaxRecords - 1 :
               Delivers(mgmt, scans[s], visit, hit, slot)
    BY <2>2 DEF Delivers, At
  <2> QED
    BY <1>3, <2>1, <2>2
<1> HIDE DEF m
<1> QED
  BY <1>4, <1>5, UnpinnedPins DEF SameState, Pins, m, visit

\* startScan's own pin is one of the first data page.
LEMMA StartPins ==
  ASSUME NEW m \in Management, Pins(m) PROVE Pins(Pin(m, 2))
<1> DEFINE n == Pin(m, 2)
<1>1. n \in Management /\ n.page = 2 /\ Pooled(n.frames, n.page) /\ MorePins(n)
  BY Pinned, PinnedPins
<1> HIDE DEF n
<1>2. n.frames[FrameOf(n, n.page)].pageNumber = 2
  BY <1>1, FrameFound DEF Holding
<1> QED
  BY <1>1, <1>2 DEF MorePins, Pins, n

\* closeScan takes pins only.
LEMMA CloseScanPins ==
  ASSUME NEW m \in Management, Pins(m)
  PROVE  Pins(Unpinned(m)) /\ Pins([m EXCEPT !.rc = "RC_OK"])
<1>1. Unpins(m, Unpinned(m)) \/ SameState(m, Unpinned(m))
  BY UnpinnedState
<1>2. Pins(Unpinned(m))
  BY <1>1, UnpinnedPins DEF SameState, Pins
<1>3. [m EXCEPT !.rc = "RC_OK"].frames = m.frames
  BY DEF Management
<1> QED
  BY <1>2, <1>3 DEF Pins

\* What a call returned does not matter to the pins.
LEMMA KeptPins ==
  ASSUME NEW m \in Management, Pins(m) PROVE Pins(Kept(m))
  BY KeptState DEF SameState, Pins

\* Every call leaves no pin but startScan's.
LEMMA PinsNext == TInv /\ OnlyScansPin /\ [Next]_vars => OnlyScansPin'
<1> SUFFICES ASSUME TInv, OnlyScansPin, [Next]_vars,
                    ~mgmt'.broken, "move" \notin incidents'
             PROVE  Pins(mgmt)'
  BY DEF OnlyScansPin, Pins
<1>1. mgmt \in Management
  BY TypeParts, TableTypes DEF TInv
<1>2. ~mgmt.broken /\ "move" \notin incidents => Pins(mgmt)
  BY DEF OnlyScansPin, Pins
<1>3. ASSUME Ready, "move" \notin incidents PROVE Pins(mgmt)
  BY <1>2, <1>3 DEF Ready
<1>4. CASE CreateTable \/ CloseTable \/ DeleteTable
  <2>1. PICK file : mgmt' = Closed(file)
    BY <1>4 DEF CreateTable, CloseTable, DeleteTable
  <2> QED
    BY <2>1, ClosedPins DEF Pins
<1>5. CASE OpenTable
  BY <1>5, OpenPins
<1>6. ASSUME NEW v \in Values, InsertRecord(v) PROVE Pins(mgmt)'
  <2> DEFINE m == Inserted(mgmt, v)
  <2>1. Ready /\ mgmt' = Kept(m) /\ incidents \subseteq incidents'
    BY <1>6 DEF InsertRecord
  <2>2. m \in Management /\ m.broken = Kept(m).broken
    BY <1>1, InsertedRecord, KeptState DEF SameState
  <2>3. Pins(m)
    BY <1>1, <1>3, <2>1, <2>2, InsertPins
  <2> HIDE DEF m
  <2> QED
    BY <2>1, <2>2, <2>3, KeptPins DEF Pins
<1>7. ASSUME NEW r \in RIDs, DeleteRecord(r) PROVE Pins(mgmt)'
  <2> DEFINE m == Erased(mgmt, r)
  <2>1. Ready /\ mgmt' = Kept(m) /\ incidents \subseteq incidents'
    BY <1>7 DEF DeleteRecord
  <2>2. m \in Management
    BY <1>1, ErasedRecord
  <2>3. Pins(m)
    BY <1>1, <1>3, <2>1, ErasePins
  <2> HIDE DEF m
  <2> QED
    BY <2>1, <2>2, <2>3, KeptPins DEF Pins
<1>8. ASSUME NEW r \in RIDs, NEW v \in Values, UpdateRecord(r, v) PROVE Pins(mgmt)'
  <2> DEFINE m == Replaced(mgmt, r, v)
  <2>1. /\ Ready /\ mgmt' = Kept(m)
        /\ incidents' = incidents \/ incidents' = incidents \cup AtUpdate(mgmt, r)
        /\ m.rc \notin Refusals => incidents' = incidents \cup AtUpdate(mgmt, r)
    BY <1>8 DEF UpdateRecord, history
  <2>2. m \in Management /\ m.broken = Kept(m).broken
    BY <1>1, ReplacedRecord, KeptState DEF SameState
  <2>3. Pins(m)
    <3>1. \/ Pins(m)
          \/ m.rc \notin Refusals /\ NoRoom(PinnedFor(mgmt, r), r)
      <4>1. ~mgmt.broken /\ Pins(mgmt) /\ ~m.broken
        BY <1>3, <2>1, <2>2 DEF Ready
      <4> QED
        BY <1>1, <4>1, ReplacePins
    <3>2. NoRoom(PinnedFor(mgmt, r), r) => "move" \in AtUpdate(mgmt, r)
      BY DEF AtUpdate
    <3> QED
      BY <2>1, <3>1, <3>2
  <2> HIDE DEF m
  <2> QED
    BY <2>1, <2>2, <2>3, KeptPins DEF Pins
<1>9. ASSUME NEW r \in RIDs, GetRecord(r) PROVE Pins(mgmt)'
  <2> DEFINE m == Fetched(mgmt, r)
  <2>1. Ready /\ mgmt' = Kept(m) /\ incidents' = incidents
    BY <1>9 DEF GetRecord, history
  <2>2. m \in Management
    BY <1>1, FetchedRecord
  <2>3. Pins(m)
    BY <1>1, <1>3, <2>1, FetchPins
  <2> HIDE DEF m
  <2> QED
    BY <2>1, <2>2, <2>3, KeptPins DEF Pins
<1>10. ASSUME NEW s \in Scans, NEW condition \in Conditions, StartScan(s, condition)
       PROVE  Pins(mgmt)'
  <2> DEFINE m == Pin(mgmt, 2)
  <2>1. Ready /\ mgmt' = Kept(m) /\ incidents' = incidents
    BY <1>10 DEF StartScan, history
  <2>2. m \in Management
    BY <1>1, Pinned
  <2>3. Pins(m)
    BY <1>1, <1>3, <2>1, StartPins
  <2> HIDE DEF m
  <2> QED
    BY <2>1, <2>2, <2>3, KeptPins DEF Pins
<1>11. ASSUME NEW s \in Scans, NextTuple(s) PROVE Pins(mgmt)'
  <2> DEFINE m == Visit(mgmt, scans[s]).mgmt
  <2>1. Ready /\ mgmt' = Kept(m) /\ incidents' = incidents
    BY <1>11 DEF NextTuple, history
  <2>2. m \in Management
    <3>1. scans[s] \in ScanInfo
      BY TypeParts DEF TInv
    <3> QED
      BY <1>1, <3>1, VisitCases
  <2>3. Pins(m)
    BY <1>3, <2>1, NextPins
  <2> HIDE DEF m
  <2> QED
    BY <2>1, <2>2, <2>3, KeptPins DEF Pins
<1>12. ASSUME NEW s \in Scans, CloseScan(s) PROVE Pins(mgmt)'
  <2> DEFINE m == IF scans[s].currentPage < numPages(mgmt) THEN Unpinned(mgmt)
                  ELSE [mgmt EXCEPT !.rc = "RC_OK"]
  <2>1. Ready /\ mgmt' = Kept(m) /\ incidents' = incidents
    BY <1>12 DEF CloseScan, history
  <2>2. m \in Management
    <3>1. Unpinned(mgmt) \in Management
      BY <1>1, UnpinnedState
    <3>2. [mgmt EXCEPT !.rc = "RC_OK"] \in Management
      BY <1>1 DEF Management, Codes
    <3> QED
      BY <3>1, <3>2
  <2>3. Pins(m)
    BY <1>1, <1>3, <2>1, CloseScanPins
  <2> HIDE DEF m
  <2> QED
    BY <2>1, <2>2, <2>3, KeptPins DEF Pins
<1>13. CASE UNCHANGED vars
  BY <1>2, <1>13 DEF vars, history, Pins
<1> QED
  BY <1>4, <1>5, <1>6, <1>7, <1>8, <1>9, <1>10, <1>11, <1>12, <1>13 DEF Next

\* Whatever has been inserted, updated, deleted or scanned, and whatever malloc
\* returned: as long as no update has moved a record, and none was stored
\* outside its page, every call but startScan takes back the pin it took.
THEOREM NothingElsePinned == Spec => []OnlyScansPin
<1>1. Init => OnlyScansPin
  <2>1. Init => Pins(mgmt)
    BY ClosedPins DEF Init
  <2> QED
    BY <2>1 DEF OnlyScansPin, Pins
<1> QED
  BY <1>1, TypeInit, TypeNext, PinsNext, PTL DEF Spec

=============================================================================
