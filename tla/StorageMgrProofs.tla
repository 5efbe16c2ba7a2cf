-------------------------- MODULE StorageMgrProofs --------------------------
(***************************************************************************)
(* The storage manager's invariants for every number of handles and files, *)
(* every bound and every set of page contents.                             *)
(*                                                                         *)
(* CountBacked is not inductive by itself: a call changes the file under   *)
(* the other handles, so one needs that a file never shrinks while a       *)
(* stream has it open, that a stream's unwritten page lies within reach    *)
(* (NoGap), that what a stream fetched is part of its file (CacheBacked),  *)
(* and that a closed handle keeps nothing of its last file.  Backed says   *)
(* all of this of one open handle, in terms of the lengths only.           *)
(***************************************************************************)
EXTENDS StorageMgr, PageFileLemmas

\* The length of a file once a stream's unwritten page is in it.
Reach(file, pend) == IF pend.page < Len(file) THEN Len(file) ELSE pend.page + 1

Backed(file, r) ==
  /\ r.total <= Reach(file, r.pend)
  /\ r.pend.page <= Len(file)
  /\ Len(r.cache) <= Len(file)
  /\ r.pend.page >= 0 => r.cache = << >>

HandlesBacked ==
  \A h \in Handles :
    IF hnd[h].open THEN Backed(files[hnd[h].inode], hnd[h])
                   ELSE hnd[h] = Closed

IInv == TypeOK /\ HandlesBacked

-----------------------------------------------------------------------------

\* What a stream's next fseek or fclose leaves is a file of length Reach.
LEMMA StreamFile ==
  ASSUME NEW file \in Seq(Data),
         NEW pend \in [page : Nat \cup {-1}, data : Data]
  PROVE  LET flushed == IF pend.page >= 0 THEN Put(file, pend.page, pend.data)
                                          ELSE file
         IN  flushed \in Seq(Data) /\ Len(flushed) = Reach(file, pend)
<1>1. CASE pend.page >= 0
  <2>1. pend.page \in Nat /\ pend.data \in Data
    BY <1>1
  <2>2. /\ Put(file, pend.page, pend.data) \in Seq(Data)
        /\ Len(Put(file, pend.page, pend.data)) =
             IF pend.page < Len(file) THEN Len(file) ELSE pend.page + 1
    BY <2>1, PutFile
  <2> QED
    BY <1>1, <2>2 DEF Reach
<1>2. CASE ~(pend.page >= 0)
  BY <1>2 DEF Reach
<1> QED
  BY <1>1, <1>2

\* The file behind an open handle of the state.
LEMMA FlushedFile ==
  ASSUME TypeOK, NEW h \in Handles, hnd[h].open
  PROVE  /\ hnd[h].inode \in Inodes
         /\ files[hnd[h].inode] \in Seq(Data)
         /\ Flushed(h) \in Seq(Data)
         /\ Len(Flushed(h)) = Reach(files[hnd[h].inode], hnd[h].pend)
         /\ Len(files[hnd[h].inode]) <= Len(Flushed(h))
<1>1. /\ hnd[h].inode \in Inodes
      /\ files[hnd[h].inode] \in Seq(Data)
      /\ hnd[h].pend \in [page : Nat \cup {-1}, data : Data]
  BY DEF TypeOK, Handle
<1>2. /\ Flushed(h) \in Seq(Data)
      /\ Len(Flushed(h)) = Reach(files[hnd[h].inode], hnd[h].pend)
  BY <1>1, StreamFile DEF Flushed, Pending
<1>3. Len(files[hnd[h].inode]) <= Reach(files[hnd[h].inode], hnd[h].pend)
  BY <1>1 DEF Reach
<1> QED
  BY <1>1, <1>2, <1>3

\* An open handle stays backed when its file has not become shorter.
LEMMA BackedMonotone ==
  ASSUME NEW file \in Seq(Data), NEW longer \in Seq(Data),
         Len(file) <= Len(longer), NEW r \in Handle, Backed(file, r)
  PROVE  Backed(longer, r)
<1>1. r.total \in Nat /\ r.pend.page \in Nat \cup {-1} /\ r.cache \in Seq(Data)
  BY DEF Handle
<1>2. Reach(file, r.pend) <= Reach(longer, r.pend)
  BY <1>1 DEF Reach
<1> QED
  BY <1>1, <1>2 DEF Backed, Reach

\* The invariant says what the runs check.
LEMMA InvariantImplies ==
  IInv => CountBacked /\ NoGap /\ CacheBacked
<1> SUFFICES ASSUME IInv, NEW h \in Handles
             PROVE  /\ hnd[h].open => hnd[h].total <= Len(Flushed(h))
                    /\ Pending(h) => hnd[h].pend.page <= Len(files[hnd[h].inode])
                    /\ hnd[h].open => Len(hnd[h].cache) <= Len(files[hnd[h].inode])
                    /\ Pending(h) => hnd[h].cache = << >>
  BY DEF CountBacked, NoGap, CacheBacked
<1>1. CASE hnd[h].open
  BY <1>1, FlushedFile DEF IInv, HandlesBacked, Backed, Pending
<1>2. CASE ~hnd[h].open
  BY <1>2 DEF IInv, HandlesBacked, Closed, NoPend, Pending
<1> QED
  BY <1>1, <1>2

-----------------------------------------------------------------------------

\* A step that gives handle h the value r, and shortens no file that another
\* handle has open, keeps the handles backed if r is.
LEMMA OneHandle ==
  ASSUME IInv, NEW h \in Handles, NEW r \in Handle,
         hnd' = [hnd EXCEPT ![h] = r],
         files' \in [Inodes -> Seq(Data)],
         \A g \in Handles \ {h} :
           hnd[g].open => Len(files[hnd[g].inode]) <= Len(files'[hnd[g].inode]),
         IF r.open THEN r.inode \in Inodes /\ Backed(files'[r.inode], r)
                   ELSE r = Closed
  PROVE  /\ hnd' \in [Handles -> Handle]
         /\ \A g \in Handles : hnd'[g].open => hnd'[g].inode \in Inodes
         /\ HandlesBacked'
<1>1. hnd \in [Handles -> Handle]
  BY DEF IInv, TypeOK
<1>2. hnd' \in [Handles -> Handle]
  BY <1>1
<1>3. ASSUME NEW g \in Handles
      PROVE  /\ hnd'[g].open => hnd'[g].inode \in Inodes
             /\ IF hnd'[g].open THEN Backed(files'[hnd'[g].inode], hnd'[g])
                                ELSE hnd'[g] = Closed
  <2>1. CASE g = h
    BY <1>1, <2>1
  <2>2. CASE g # h
    <3>1. hnd'[g] = hnd[g] /\ hnd[g] \in Handle
      BY <1>1, <2>2
    <3>2. CASE hnd[g].open
      <4>1. /\ hnd[g].inode \in Inodes
            /\ files[hnd[g].inode] \in Seq(Data)
            /\ files'[hnd[g].inode] \in Seq(Data)
            /\ Backed(files[hnd[g].inode], hnd[g])
        BY <3>2 DEF IInv, TypeOK, HandlesBacked
      <4>2. Len(files[hnd[g].inode]) <= Len(files'[hnd[g].inode])
        BY <2>2, <3>2
      <4> QED
        BY <3>1, <3>2, <4>1, <4>2, BackedMonotone
    <3>3. CASE ~hnd[g].open
      BY <3>1, <3>3 DEF IInv, HandlesBacked
    <3> QED
      BY <3>2, <3>3
  <2> QED
    BY <2>1, <2>2
<1> QED
  BY <1>2, <1>3 DEF HandlesBacked

\* A step that replaces the file of one open handle by a file that is not
\* shorter shortens no file.
LEMMA NotShorter ==
  ASSUME TypeOK, NEW h \in Handles, hnd[h].open, NEW file \in Seq(Data),
         Len(files[hnd[h].inode]) <= Len(file),
         files' = [files EXCEPT ![hnd[h].inode] = file]
  PROVE  /\ files' \in [Inodes -> Seq(Data)]
         /\ files'[hnd[h].inode] = file
         /\ \A g \in Handles :
              hnd[g].open => Len(files[hnd[g].inode]) <= Len(files'[hnd[g].inode])
<1>1. files \in [Inodes -> Seq(Data)] /\ hnd[h].inode \in Inodes
  BY DEF TypeOK
<1>2. \A g \in Handles : hnd[g].open => hnd[g].inode \in Inodes
  BY DEF TypeOK
<1>3. \A i \in Inodes : files'[i] = IF i = hnd[h].inode THEN file ELSE files[i]
  BY <1>1
<1>4. \A i \in Inodes : Len(files[i]) \in Nat
  BY <1>1
<1>5. \A i \in Inodes : Len(files[i]) <= Len(files'[i])
  BY <1>1, <1>3, <1>4
<1> QED
  BY <1>1, <1>2, <1>3, <1>5

\* readBlock, from what the stream fetched or from the file.
LEMMA ReadAtStep ==
  ASSUME IInv, NEW h \in Handles, NEW p \in Int, ReadAt(h, p)
  PROVE  IInv'
<1>1. /\ hnd[h].open /\ hnd \in [Handles -> Handle] /\ hnd[h] \in Handle
      /\ memPage \in Data /\ TypeOK
      /\ Backed(files[hnd[h].inode], hnd[h])
  BY DEF IInv, TypeOK, ReadAt, HandlesBacked
<1>2. /\ hnd[h].inode \in Inodes
      /\ files[hnd[h].inode] \in Seq(Data)
      /\ Flushed(h) \in Seq(Data)
      /\ Len(Flushed(h)) = Reach(files[hnd[h].inode], hnd[h].pend)
      /\ Len(files[hnd[h].inode]) <= Len(Flushed(h))
  BY <1>1, FlushedFile
<1>3. CASE /\ InReach(hnd[h].total, p)
           /\ p < Len(hnd[h].cache)
           /\ memPage' = hnd[h].cache[p + 1]
           /\ hnd' = [hnd EXCEPT ![h] =
                        Stream(@.inode, @.total, p, @.pend, @.cache)]
           /\ Return("RC_OK")
           /\ UNCHANGED files
  <2> DEFINE r == Stream(hnd[h].inode, hnd[h].total, p, hnd[h].pend, hnd[h].cache)
  <2>p. p \in Nat
    BY <1>3 DEF InReach
  <2>r. /\ r \in Handle /\ r.open
        /\ r.inode = hnd[h].inode /\ r.total = hnd[h].total
        /\ r.pend = hnd[h].pend /\ r.cache = hnd[h].cache
    BY <1>1, <1>2, <2>p DEF Stream, Handle
  <2>1. r \in Handle /\ hnd' = [hnd EXCEPT ![h] = r]
    BY <1>3, <2>r
  <2> HIDE DEF r
  <2>2. memPage' \in Data
    BY <1>1, <1>3 DEF Handle, InReach
  <2>3. r.open /\ r.inode \in Inodes /\ Backed(files'[r.inode], r)
    BY <1>1, <1>2, <1>3, <2>r DEF Backed
  <2>4. /\ files' \in [Inodes -> Seq(Data)]
        /\ \A g \in Handles :
             hnd[g].open => Len(files[hnd[g].inode]) <= Len(files'[hnd[g].inode])
    BY <1>1, <1>3 DEF TypeOK
  <2>5. /\ hnd' \in [Handles -> Handle]
        /\ \A g \in Handles : hnd'[g].open => hnd'[g].inode \in Inodes
        /\ HandlesBacked'
    BY <2>1, <2>3, <2>4, OneHandle
  <2> QED
    BY <1>3, <2>2, <2>4, <2>5
    DEF IInv, TypeOK, ReadAt, Return, ReturnCodes
<1>4. CASE /\ InReach(hnd[h].total, p)
           /\ files' = [files EXCEPT ![hnd[h].inode] = Flushed(h)]
           /\ memPage' = Got(Flushed(h), p, memPage)
           /\ hnd' = [hnd EXCEPT ![h] =
                        Stream(@.inode, @.total, p, NoPend, Flushed(h))]
           /\ Return("RC_OK")
  <2> DEFINE r == Stream(hnd[h].inode, hnd[h].total, p, NoPend, Flushed(h))
  <2>1. /\ p \in Nat /\ hnd[h].total \in Nat
        /\ NoPend \in [page : Nat \cup {-1}, data : Data] /\ NoPend.page = -1
    BY <1>1, <1>4, DataAssumption DEF InReach, NoPend, Handle
  <2>r. /\ r \in Handle /\ r.open
        /\ r.inode = hnd[h].inode /\ r.total = hnd[h].total
        /\ r.pend = NoPend /\ r.cache = Flushed(h)
    BY <1>2, <2>1 DEF Stream, Handle
  <2>2. r \in Handle /\ hnd' = [hnd EXCEPT ![h] = r]
    BY <1>4, <2>r
  <2> HIDE DEF r
  <2>3. memPage' \in Data
    BY <1>1, <1>2, <1>4, <2>1, GotData
  <2>4. /\ files' \in [Inodes -> Seq(Data)]
        /\ files'[hnd[h].inode] = Flushed(h)
        /\ \A g \in Handles :
             hnd[g].open => Len(files[hnd[g].inode]) <= Len(files'[hnd[g].inode])
    BY <1>1, <1>2, <1>4, NotShorter
  <2>5. r.open /\ r.inode \in Inodes /\ Backed(files'[r.inode], r)
    <3>1. r.pend.page = -1
      BY <2>1, <2>r
    <3>2. Len(Flushed(h)) \in Nat /\ hnd[h].total \in Nat
      BY <1>1, <1>2 DEF Handle
    <3>3. hnd[h].total <= Len(Flushed(h))
      BY <1>1, <1>2 DEF Backed
    <3> QED
      BY <1>2, <2>r, <2>4, <3>1, <3>2, <3>3 DEF Backed, Reach
  <2>6. /\ hnd' \in [Handles -> Handle]
        /\ \A g \in Handles : hnd'[g].open => hnd'[g].inode \in Inodes
        /\ HandlesBacked'
    BY <2>2, <2>4, <2>5, OneHandle
  <2> QED
    BY <1>4, <2>3, <2>4, <2>6
    DEF IInv, TypeOK, ReadAt, Return, ReturnCodes
<1>5. CASE /\ Return("RC_READ_NON_EXISTING_PAGE")
           /\ UNCHANGED <<files, memPage, hnd>>
  BY <1>5 DEF IInv, TypeOK, HandlesBacked, ReadAt, Return, ReturnCodes
<1> QED
  BY <1>3, <1>4, <1>5 DEF ReadAt

\* writeBlock: the page it leaves in the stream is at most one past the file
\* that its fseek leaves.
LEMMA WriteBlockStep ==
  ASSUME IInv, NEW h \in Handles, NEW p \in Int, NEW d \in Data,
         WriteBlock(h, p, d)
  PROVE  IInv'
<1>1. /\ hnd[h].open /\ hnd \in [Handles -> Handle] /\ hnd[h] \in Handle
      /\ TypeOK
      /\ Backed(files[hnd[h].inode], hnd[h])
  BY DEF IInv, TypeOK, WriteBlock, HandlesBacked
<1>2. /\ hnd[h].inode \in Inodes
      /\ files[hnd[h].inode] \in Seq(Data)
      /\ Flushed(h) \in Seq(Data)
      /\ Len(Flushed(h)) = Reach(files[hnd[h].inode], hnd[h].pend)
      /\ Len(files[hnd[h].inode]) <= Len(Flushed(h))
  BY <1>1, FlushedFile
<1>3. CASE /\ InReach(hnd[h].total, p)
           /\ files' = [files EXCEPT ![hnd[h].inode] = Flushed(h)]
           /\ hnd' = [hnd EXCEPT ![h] =
                        Stream(@.inode, @.total, p,
                               [page |-> p, data |-> d], << >>)]
           /\ Return("RC_OK")
  <2> DEFINE pend == [page |-> p, data |-> d]
             r == Stream(hnd[h].inode, hnd[h].total, p, pend, << >>)
  <2>p. /\ p \in Nat /\ hnd[h].total \in Nat
        /\ pend \in [page : Nat \cup {-1}, data : Data] /\ pend.page = p
    BY <1>1, <1>3 DEF InReach, Handle
  <2>1. hnd' = [hnd EXCEPT ![h] = r]
    BY <1>3
  <2> HIDE DEF pend
  <2>e. << >> \in Seq(Data) /\ Len(<< >>) = 0
    OBVIOUS
  <2>r. /\ r \in Handle /\ r.open
        /\ r.inode = hnd[h].inode /\ r.total = hnd[h].total
        /\ r.pend = pend /\ r.cache = << >>
    BY <1>2, <2>p, <2>e DEF Stream, Handle
  <2> HIDE DEF r
  <2>2. /\ files' \in [Inodes -> Seq(Data)]
        /\ files'[hnd[h].inode] = Flushed(h)
        /\ \A g \in Handles :
             hnd[g].open => Len(files[hnd[g].inode]) <= Len(files'[hnd[g].inode])
    BY <1>1, <1>2, <1>3, NotShorter
  <2>3. r.open /\ r.inode \in Inodes /\ Backed(files'[r.inode], r)
    <3>1. r.pend.page = p /\ Len(r.cache) = 0
      BY <2>p, <2>e, <2>r
    <3>2. Len(Flushed(h)) \in Nat /\ hnd[h].total \in Nat
      BY <1>1, <1>2 DEF Handle
    <3>3. hnd[h].total <= Len(Flushed(h)) /\ p <= hnd[h].total
      BY <1>1, <1>2, <1>3 DEF Backed, InReach
    <3> QED
      BY <1>1, <1>2, <2>p, <2>r, <2>2, <3>1, <3>2, <3>3 DEF Backed, Reach
  <2>4. /\ hnd' \in [Handles -> Handle]
        /\ \A g \in Handles : hnd'[g].open => hnd'[g].inode \in Inodes
        /\ HandlesBacked'
    BY <2>r, <2>1, <2>2, <2>3, OneHandle
  <2> QED
    BY <1>3, <2>2, <2>4
    DEF IInv, TypeOK, WriteBlock, Return, ReturnCodes
<1>4. CASE /\ Return("RC_WRITE_FAILED")
           /\ UNCHANGED <<files, hnd>>
  BY <1>4 DEF IInv, TypeOK, HandlesBacked, WriteBlock, Return, ReturnCodes
<1> QED
  BY <1>3, <1>4 DEF WriteBlock

\* appendEmptyBlock, once or in ensureCapacity: the count grows with the file.
LEMMA AppendStep ==
  ASSUME IInv, NEW h \in Handles, NEW k \in Nat \ {0}, hnd[h].open,
         Append_k(h, k), Return("RC_OK"),
         UNCHANGED <<isInitialized, exiting, dir, memPage>>
  PROVE  IInv'
<1>1. /\ hnd[h].open /\ hnd \in [Handles -> Handle] /\ hnd[h] \in Handle
      /\ TypeOK
      /\ Backed(files[hnd[h].inode], hnd[h])
  BY DEF IInv, TypeOK, HandlesBacked
<1>2. /\ hnd[h].inode \in Inodes
      /\ files[hnd[h].inode] \in Seq(Data)
      /\ Flushed(h) \in Seq(Data)
      /\ Len(Flushed(h)) = Reach(files[hnd[h].inode], hnd[h].pend)
      /\ Len(files[hnd[h].inode]) <= Len(Flushed(h))
  BY <1>1, FlushedFile
<1> DEFINE n == Len(Flushed(h))
           file == Grown(Flushed(h), k - 1)
           pend == [page |-> n + k - 1, data |-> ZeroBlock]
           r == Stream(hnd[h].inode, hnd[h].total + k, hnd[h].total + k - 1,
                       pend, << >>)
<1>3. n \in Nat /\ hnd[h].total \in Nat /\ hnd[h].total <= n
  BY <1>1, <1>2 DEF Backed, Handle
<1>4. file \in Seq(Data) /\ Len(file) = n + k - 1
  <2>1. k - 1 \in Nat
    OBVIOUS
  <2> QED
    BY <1>2, <1>3, <2>1, GrownFile
<1>5. /\ files' = [files EXCEPT ![hnd[h].inode] = file]
      /\ hnd' = [hnd EXCEPT ![h] = r]
  BY DEF Append_k
<1>6. /\ n + k - 1 \in Nat /\ hnd[h].total + k - 1 \in Nat
      /\ hnd[h].total + k \in Nat
  BY <1>3
<1>7. /\ pend \in [page : Nat \cup {-1}, data : Data]
      /\ pend.page = n + k - 1
      /\ << >> \in Seq(Data) /\ Len(<< >>) = 0
  BY <1>6, DataAssumption
<1> HIDE DEF pend
<1>8. /\ r \in Handle /\ r.open
      /\ r.inode = hnd[h].inode /\ r.total = hnd[h].total + k
      /\ r.pend = pend /\ r.cache = << >>
  BY <1>2, <1>6, <1>7 DEF Stream, Handle
<1> HIDE DEF r
<1>9. Len(files[hnd[h].inode]) <= Len(file)
  BY <1>2, <1>3, <1>4
<1>10. /\ files' \in [Inodes -> Seq(Data)]
       /\ files'[hnd[h].inode] = file
       /\ \A g \in Handles :
            hnd[g].open => Len(files[hnd[g].inode]) <= Len(files'[hnd[g].inode])
  BY <1>1, <1>4, <1>5, <1>9, NotShorter
<1>11. r.open /\ r.inode \in Inodes /\ Backed(files'[r.inode], r)
  <2>1. r.pend.page = n + k - 1 /\ Len(r.cache) = 0
    BY <1>7, <1>8
  <2> HIDE DEF n, file
  <2> QED
    BY <1>2, <1>3, <1>4, <1>6, <1>8, <1>10, <2>1, SMTT(30) DEF Backed, Reach
<1>12. /\ hnd' \in [Handles -> Handle]
       /\ \A g \in Handles : hnd'[g].open => hnd'[g].inode \in Inodes
       /\ HandlesBacked'
  BY <1>5, <1>8, <1>10, <1>11, OneHandle
<1> QED
  BY <1>10, <1>12 DEF IInv, TypeOK, Return, ReturnCodes

\* fclose: the file may only vanish when no other stream has it open.
LEMMA FCloseStep ==
  ASSUME IInv, NEW h \in Handles, hnd[h].open, FClose(h), rc' \in ReturnCodes,
         UNCHANGED <<isInitialized, exiting, dir, memPage>>
  PROVE  IInv'
<1> DEFINE i == hnd[h].inode
           file == IF HeldBesides(h, i) THEN Flushed(h) ELSE << >>
<1>1. /\ hnd \in [Handles -> Handle] /\ TypeOK
      /\ files \in [Inodes -> Seq(Data)]
  BY DEF IInv, TypeOK
<1>2. /\ i \in Inodes
      /\ Flushed(h) \in Seq(Data)
      /\ Len(files[i]) <= Len(Flushed(h))
  BY <1>1, FlushedFile
<1>3. /\ files' = [files EXCEPT ![i] = file]
      /\ hnd' = [hnd EXCEPT ![h] = Closed]
  BY DEF FClose
<1>4. file \in Seq(Data)
  BY <1>2
<1>5. files' \in [Inodes -> Seq(Data)]
  BY <1>1, <1>2, <1>3, <1>4
<1>6. Closed \in Handle /\ ~Closed.open
  BY DataAssumption DEF Closed, Handle, NoPend, NoInode
<1>7. ASSUME NEW g \in Handles \ {h}, hnd[g].open
      PROVE  Len(files[hnd[g].inode]) <= Len(files'[hnd[g].inode])
  <2>1. hnd[g].inode \in Inodes
    BY <1>1, <1>7 DEF TypeOK
  <2>2. CASE hnd[g].inode = i
    <3>1. HeldBesides(h, i)
      BY <1>7, <2>2 DEF HeldBesides
    <3> QED
      BY <1>1, <1>2, <1>3, <2>2, <3>1
  <2>3. CASE hnd[g].inode # i
    <3>1. files'[hnd[g].inode] = files[hnd[g].inode]
      BY <1>1, <1>2, <1>3, <2>1, <2>3
    <3>2. Len(files[hnd[g].inode]) \in Nat
      BY <1>1, <2>1
    <3> QED
      BY <3>1, <3>2
  <2> QED
    BY <2>2, <2>3
<1>8. /\ hnd' \in [Handles -> Handle]
      /\ \A g \in Handles : hnd'[g].open => hnd'[g].inode \in Inodes
      /\ HandlesBacked'
  BY <1>3, <1>5, <1>6, <1>7, OneHandle
<1> QED
  BY <1>1, <1>5, <1>8 DEF IInv, TypeOK

-----------------------------------------------------------------------------

\* The program starts with every handle closed and no file.
LEMMA InitInvariant == Init => IInv
<1> SUFFICES ASSUME Init PROVE IInv
  OBVIOUS
<1>1. NoPend \in [page : Nat \cup {-1}, data : Data]
  BY DataAssumption DEF NoPend
<1>2. Closed \in Handle /\ ~Closed.open
  BY <1>1 DEF Closed, Handle, NoInode
<1>3. TypeOK
  <2>1. files \in [Inodes -> Seq(Data)]
    <3>1. << >> \in Seq(Data)
      OBVIOUS
    <3> QED
      BY <3>1 DEF Init
  <2>2. /\ hnd \in [Handles -> Handle]
        /\ \A h \in Handles : hnd[h].open => hnd[h].inode \in Inodes
    BY <1>2 DEF Init
  <2> QED
    BY <2>1, <2>2, DataAssumption DEF Init, TypeOK, ReturnCodes
<1>4. HandlesBacked
  BY <1>2 DEF Init, HandlesBacked
<1> QED
  BY <1>3, <1>4 DEF IInv

\* A call that changes neither files nor handles keeps the handles backed.
LEMMA SameFiles ==
  ASSUME HandlesBacked, UNCHANGED <<files, hnd>>
  PROVE  HandlesBacked'
  BY DEF HandlesBacked

\* The reads are readBlock at some position, or a refusal.
LEMMA ReadStep ==
  ASSUME IInv, NEW h \in Handles, NEW p \in PageNums,
         \/ ReadBlock(h, p) \/ ReadFirstBlock(h) \/ ReadPreviousBlock(h)
         \/ ReadCurrentBlock(h) \/ ReadNextBlock(h) \/ ReadLastBlock(h)
  PROVE  IInv'
<1>1. p \in Int
  BY StorageAssumption DEF PageNums
<1>2. hnd[h].pos \in Nat /\ hnd[h].total \in Nat
  BY DEF IInv, TypeOK, Handle
<1>3. ASSUME NEW q \in Int, ReadAt(h, q) PROVE IInv'
  BY <1>3, ReadAtStep
<1>4. ASSUME NEW code \in ReturnCodes, RefuseRead(h, code) PROVE IInv'
  BY <1>4, SameFiles DEF IInv, TypeOK, RefuseRead, Return
<1>5. CASE \E q \in Int : ReadAt(h, q)
  BY <1>3, <1>5
<1>6. CASE \E code \in ReturnCodes : RefuseRead(h, code)
  BY <1>4, <1>6
<1>7. CASE ReadBlock(h, p)
  BY <1>1, <1>5, <1>7 DEF ReadBlock
<1>8. CASE ReadFirstBlock(h)
  BY <1>5, <1>6, <1>8 DEF ReadFirstBlock, ReturnCodes
<1>9. CASE ReadPreviousBlock(h)
  BY <1>2, <1>5, <1>6, <1>9 DEF ReadPreviousBlock, ReturnCodes
<1>10. CASE ReadCurrentBlock(h)
  BY <1>2, <1>5, <1>10 DEF ReadCurrentBlock
<1>11. CASE ReadNextBlock(h)
  BY <1>2, <1>5, <1>6, <1>11 DEF ReadNextBlock, ReturnCodes
<1>12. CASE ReadLastBlock(h)
  BY <1>2, <1>5, <1>12 DEF ReadLastBlock
<1> QED
  BY <1>7, <1>8, <1>9, <1>10, <1>11, <1>12

\* The calls that name the file: none touches a file some stream has open.
LEMMA NameStep ==
  ASSUME IInv,
         \/ InitStorageManager \/ CreatePageFile \/ CreatePageFileExists
         \/ DestroyPageFile
  PROVE  IInv'
<1>1. /\ TypeOK /\ HandlesBacked
      /\ files \in [Inodes -> Seq(Data)]
      /\ hnd \in [Handles -> Handle]
      /\ \A h \in Handles : hnd[h].open => hnd[h].inode \in Inodes
  BY DEF IInv, TypeOK
<1>2. CASE InitStorageManager
  BY <1>1, <1>2, SameFiles DEF IInv, TypeOK, InitStorageManager
<1>3. CASE CreatePageFileExists
  BY <1>1, <1>3, SameFiles DEF IInv, TypeOK, CreatePageFileExists
<1>4. CASE CreatePageFile
  <2>1. PICK i \in Inodes :
          /\ \A h \in Handles : ~(hnd[h].open /\ hnd[h].inode = i)
          /\ dir' = i
          /\ files' = [files EXCEPT ![i] = <<ZeroBlock>>]
    BY <1>4 DEF CreatePageFile
  <2>2. files' \in [Inodes -> Seq(Data)]
    BY <1>1, <2>1, DataAssumption
  <2>3. \A h \in Handles :
          hnd[h].open => files'[hnd[h].inode] = files[hnd[h].inode]
    BY <1>1, <2>1
  <2>4. hnd' = hnd /\ HandlesBacked'
    BY <1>1, <1>4, <2>3 DEF CreatePageFile, HandlesBacked
  <2> QED
    BY <1>1, <1>4, <2>1, <2>2, <2>4
    DEF IInv, TypeOK, CreatePageFile, Return, ReturnCodes
<1>5. CASE DestroyPageFile
  <2>1. files' \in [Inodes -> Seq(Data)]
    <3>1. << >> \in Seq(Data)
      OBVIOUS
    <3>2. files' = files \/ files' = [files EXCEPT ![dir] = << >>]
      BY <1>5 DEF DestroyPageFile
    <3> QED
      BY <1>1, <3>1, <3>2
  <2>2. \A h \in Handles :
          hnd[h].open => files'[hnd[h].inode] = files[hnd[h].inode]
    BY <1>1, <1>5 DEF DestroyPageFile
  <2>3. hnd' = hnd /\ HandlesBacked'
    BY <1>1, <1>5, <2>2 DEF DestroyPageFile, HandlesBacked
  <2> QED
    BY <1>1, <1>5, <2>1, <2>3
    DEF IInv, TypeOK, DestroyPageFile, Return, ReturnCodes
<1> QED
  BY <1>2, <1>3, <1>4, <1>5

\* openPageFile: the count is the length of the file on disk.
LEMMA OpenStep ==
  ASSUME IInv, NEW h \in Handles, OpenPageFile(h)
  PROVE  IInv'
<1>1. /\ dir \in Inodes /\ files \in [Inodes -> Seq(Data)]
      /\ hnd \in [Handles -> Handle] /\ TypeOK
  BY DEF IInv, TypeOK, OpenPageFile
<1> DEFINE r == Stream(dir, Len(files[dir]), 0, NoPend, << >>)
<1>2. /\ files[dir] \in Seq(Data) /\ Len(files[dir]) \in Nat
      /\ NoPend \in [page : Nat \cup {-1}, data : Data] /\ NoPend.page = -1
      /\ << >> \in Seq(Data) /\ Len(<< >>) = 0
  BY <1>1, DataAssumption DEF NoPend
<1>3. /\ r \in Handle /\ r.open
      /\ r.inode = dir /\ r.total = Len(files[dir])
      /\ r.pend = NoPend /\ r.cache = << >>
  BY <1>1, <1>2 DEF Stream, Handle
<1>4. hnd' = [hnd EXCEPT ![h] = r] /\ files' = files
  BY DEF OpenPageFile
<1> HIDE DEF r
<1>5. Backed(files'[r.inode], r)
  BY <1>2, <1>3, <1>4 DEF Backed, Reach
<1>6. \A g \in Handles :
        hnd[g].open => Len(files[hnd[g].inode]) <= Len(files'[hnd[g].inode])
  <2>1. \A g \in Handles : hnd[g].open => Len(files[hnd[g].inode]) \in Nat
    BY <1>1 DEF TypeOK
  <2> QED
    BY <1>4, <2>1
<1>7. /\ hnd' \in [Handles -> Handle]
      /\ \A g \in Handles : hnd'[g].open => hnd'[g].inode \in Inodes
      /\ HandlesBacked'
  BY <1>1, <1>3, <1>4, <1>5, <1>6, OneHandle
<1> QED
  BY <1>1, <1>4, <1>7 DEF IInv, TypeOK, OpenPageFile, Return, ReturnCodes

\* closePageFile, and the calls that a closed handle or a missing file refuses.
LEMMA CloseStep ==
  ASSUME IInv, NEW h \in Handles,
         OpenPageFileMissing(h) \/ ClosePageFile(h) \/ ClosedHandle(h)
  PROVE  IInv'
<1>1. CASE /\ hnd[h].open /\ FClose(h) /\ Return("RC_OK")
           /\ UNCHANGED <<isInitialized, exiting, dir, memPage>>
  BY <1>1, FCloseStep DEF Return, ReturnCodes
<1>2. CASE /\ \E code \in ReturnCodes : Return(code)
           /\ UNCHANGED <<isInitialized, exiting, dir, files, hnd, memPage>>
  BY <1>2, SameFiles DEF IInv, TypeOK, Return
<1> QED
  BY <1>1, <1>2 DEF OpenPageFileMissing, ClosePageFile, ClosedHandle, ReturnCodes

\* appendEmptyBlock and ensureCapacity.
LEMMA CapacityStep ==
  ASSUME IInv, NEW h \in Handles, NEW n \in PageNums,
         AppendEmptyBlock(h) \/ EnsureCapacity(h, n)
  PROVE  IInv'
<1>1. CASE AppendEmptyBlock(h)
  BY <1>1, AppendStep DEF AppendEmptyBlock
<1>2. CASE EnsureCapacity(h, n)
  <2> DEFINE k == Shortfall(hnd[h].total, n)
  <2>1. k \in Nat
    <3>1. hnd[h].total \in Nat /\ n \in Int
      BY StorageAssumption DEF IInv, TypeOK, Handle, PageNums
    <3> QED
      BY <3>1 DEF Shortfall
  <2>2. CASE k > 0 /\ Append_k(h, k)
    <3>1. k \in Nat \ {0}
      BY <2>1, <2>2
    <3>2. /\ hnd[h].open /\ Return("RC_OK")
          /\ UNCHANGED <<isInitialized, exiting, dir, memPage>>
      BY <1>2 DEF EnsureCapacity
    <3> HIDE DEF k
    <3> QED
      BY <2>2, <3>1, <3>2, AppendStep
  <2>3. CASE UNCHANGED <<files, hnd>>
    BY <1>2, <2>3, SameFiles DEF IInv, TypeOK, EnsureCapacity, Return, ReturnCodes
  <2> QED
    BY <1>2, <2>2, <2>3 DEF EnsureCapacity
<1> QED
  BY <1>1, <1>2

\* exit() and the next process.
LEMMA ExitStep ==
  ASSUME IInv, NEW h \in Handles, ExitStream(h)
  PROVE  IInv'
  BY FCloseStep DEF IInv, TypeOK, ExitStream

\* A new process starts with closed handles on the files that are left.
LEMMA NewProcessStep ==
  ASSUME IInv, NewProcess
  PROVE  IInv'
<1>1. NoPend \in [page : Nat \cup {-1}, data : Data]
  BY DataAssumption DEF NoPend
<1>2. Closed \in Handle /\ ~Closed.open
  BY <1>1 DEF Closed, Handle, NoInode
<1>3. HandlesBacked'
  BY <1>2 DEF NewProcess, HandlesBacked
<1> QED
  BY <1>2, <1>3, DataAssumption DEF IInv, TypeOK, NewProcess, ReturnCodes

\* Every call, and every step of a process that ends, keeps the invariant.
LEMMA NextInvariant == IInv /\ [Next]_vars => IInv'
<1> SUFFICES ASSUME IInv, [Next]_vars PROVE IInv'
  OBVIOUS
<1>1. 0 \in PageNums
  BY StorageAssumption DEF PageNums
<1>2. CASE Call
  <2>1. CASE \/ InitStorageManager \/ CreatePageFile \/ CreatePageFileExists
             \/ DestroyPageFile
    BY <2>1, NameStep
  <2>2. CASE \E h \in Handles : OpenPageFile(h)
    BY <2>2, OpenStep
  <2>3. CASE \E h \in Handles :
               OpenPageFileMissing(h) \/ ClosePageFile(h) \/ ClosedHandle(h)
    BY <2>3, CloseStep
  <2>4. CASE \E h \in Handles :
               \/ ReadFirstBlock(h) \/ ReadPreviousBlock(h)
               \/ ReadCurrentBlock(h) \/ ReadNextBlock(h) \/ ReadLastBlock(h)
    BY <1>1, <2>4, ReadStep
  <2>5. CASE \E h \in Handles, p \in PageNums : ReadBlock(h, p)
    BY <2>5, ReadStep
  <2>6. CASE \E h \in Handles : AppendEmptyBlock(h)
    BY <1>1, <2>6, CapacityStep
  <2>7. CASE \E h \in Handles, p \in PageNums : EnsureCapacity(h, p)
    BY <2>7, CapacityStep
  <2>8. CASE \E h \in Handles, d \in Written : WriteCurrentBlock(h, d)
    <3>1. PICK h \in Handles, d \in Written : WriteCurrentBlock(h, d)
      BY <2>8
    <3>2. hnd[h].pos \in Int /\ d \in Data
      BY StorageAssumption DEF IInv, TypeOK, Handle
    <3> QED
      BY <3>1, <3>2, WriteBlockStep DEF WriteCurrentBlock
  <2>9. CASE \E h \in Handles, p \in PageNums, d \in Written : WriteBlock(h, p, d)
    BY <2>9, WriteBlockStep, StorageAssumption DEF PageNums
  <2> QED
    BY <1>2, <2>1, <2>2, <2>3, <2>4, <2>5, <2>6, <2>7, <2>8, <2>9 DEF Call
<1>3. CASE \E h \in Handles : ExitStream(h)
  BY <1>3, ExitStep
<1>4. CASE NewProcess
  BY <1>4, NewProcessStep
<1>5. CASE UNCHANGED vars
  BY <1>5, SameFiles DEF IInv, TypeOK, vars
<1> QED
  BY <1>2, <1>3, <1>4, <1>5 DEF Next

-----------------------------------------------------------------------------

\* The state stays of its type.
THEOREM TypeCorrect == Spec => []TypeOK
<1>1. IInv => TypeOK
  BY DEF IInv
<1> QED
  BY InitInvariant, NextInvariant, <1>1, PTL DEF Spec

\* No handle ever counts a block that its file lacks, whatever the other
\* handles do and however often the file is removed and created again.
THEOREM CountAlwaysBacked == Spec => []CountBacked
  BY InitInvariant, NextInvariant, InvariantImplies, PTL DEF Spec

\* No write leaves a gap in a file.
THEOREM NeverGap == Spec => []NoGap
  BY InitInvariant, NextInvariant, InvariantImplies, PTL DEF Spec

\* What a stream has fetched lies inside its file, and never hides a page the
\* stream has yet to write.
THEOREM CacheAlwaysBacked == Spec => []CacheBacked
  BY InitInvariant, NextInvariant, InvariantImplies, PTL DEF Spec

-----------------------------------------------------------------------------
(***************************************************************************)
(* What a call that returns RC_OK has delivered.  The reads relative to    *)
(* the cursor need a second invariant: the cursor never runs past the      *)
(* count, although readBlock and writeBlock may leave it at the count, one *)
(* page behind the last.                                                   *)
(***************************************************************************)

CursorInReach == \A h \in Handles : hnd[h].pos <= hnd[h].total

\* readBlock and writeBlock leave the cursor at a page in reach, an append at
\* the last page.
LEMMA CursorStep == IInv /\ CursorInReach /\ [Next]_vars => CursorInReach'
<1> SUFFICES ASSUME IInv, CursorInReach, [Next]_vars, NEW g \in Handles
             PROVE  (hnd[g].pos <= hnd[g].total)'
  BY DEF CursorInReach
<1>1. /\ hnd \in [Handles -> Handle]
      /\ \A h \in Handles : /\ hnd[h].total \in Nat /\ hnd[h].pos \in Nat
                            /\ hnd[h].pos <= hnd[h].total
  BY DEF IInv, TypeOK, Handle, CursorInReach
<1>2. ASSUME NEW h \in Handles, NEW r,
             hnd' = [hnd EXCEPT ![h] = r], r.pos <= r.total
      PROVE  hnd'[g].pos <= hnd'[g].total
  BY <1>1, <1>2
<1>3. ASSUME NEW h \in Handles, NEW q \in Int, ReadAt(h, q)
      PROVE  hnd'[g].pos <= hnd'[g].total
  <2>1. CASE hnd' = hnd
    BY <1>1, <2>1
  <2>2. CASE \E pend, cache :
               /\ InReach(hnd[h].total, q)
               /\ hnd' = [hnd EXCEPT ![h] =
                            Stream(hnd[h].inode, hnd[h].total, q, pend, cache)]
    BY <1>2, <2>2 DEF Stream, InReach
  <2> QED
    BY <1>3, <2>1, <2>2 DEF ReadAt
<1>4. ASSUME NEW h \in Handles, NEW q \in Int, NEW d, WriteBlock(h, q, d)
      PROVE  hnd'[g].pos <= hnd'[g].total
  <2>1. CASE hnd' = hnd
    BY <1>1, <2>1
  <2>2. CASE \E pend, cache :
               /\ InReach(hnd[h].total, q)
               /\ hnd' = [hnd EXCEPT ![h] =
                            Stream(hnd[h].inode, hnd[h].total, q, pend, cache)]
    BY <1>2, <2>2 DEF Stream, InReach
  <2> QED
    BY <1>4, <2>1, <2>2 DEF WriteBlock
<1>5. ASSUME NEW h \in Handles, NEW k \in Nat, Append_k(h, k)
      PROVE  hnd'[g].pos <= hnd'[g].total
  <2>1. PICK pend : hnd' = [hnd EXCEPT ![h] =
                      Stream(hnd[h].inode, hnd[h].total + k,
                             hnd[h].total + k - 1, pend, << >>)]
    BY <1>5 DEF Append_k
  <2> QED
    BY <1>1, <1>2, <2>1 DEF Stream
<1>6. ASSUME NEW h \in Handles, FClose(h)
      PROVE  hnd'[g].pos <= hnd'[g].total
  <2>1. Closed.pos <= Closed.total
    BY DEF Closed
  <2>2. hnd' = [hnd EXCEPT ![h] = Closed]
    BY <1>6 DEF FClose
  <2> QED
    BY <1>2, <2>1, <2>2
<1>7. CASE hnd' = hnd
  BY <1>1, <1>7
<1>8. CASE Call
  <2>1. CASE \/ InitStorageManager \/ CreatePageFile \/ CreatePageFileExists
             \/ DestroyPageFile
             \/ \E h \in Handles : OpenPageFileMissing(h) \/ ClosedHandle(h)
    BY <1>7, <2>1 DEF InitStorageManager, CreatePageFile, CreatePageFileExists,
                      DestroyPageFile, OpenPageFileMissing, ClosedHandle
  <2>2. CASE \E h \in Handles : OpenPageFile(h)
    <3>1. PICK h \in Handles : OpenPageFile(h)
      BY <2>2
    <3>2. files[dir] \in Seq(Data)
      BY <3>1 DEF OpenPageFile, IInv, TypeOK
    <3> DEFINE r == Stream(dir, Len(files[dir]), 0, NoPend, << >>)
    <3>3. r.pos <= r.total
      BY <3>2 DEF Stream
    <3>4. hnd' = [hnd EXCEPT ![h] = r]
      BY <3>1 DEF OpenPageFile
    <3> HIDE DEF r
    <3> QED
      BY <1>2, <3>3, <3>4
  <2>3. CASE \E h \in Handles : ClosePageFile(h)
    BY <1>6, <1>7, <2>3 DEF ClosePageFile
  <2>4. CASE \E h \in Handles :
               \/ ReadFirstBlock(h) \/ ReadPreviousBlock(h)
               \/ ReadCurrentBlock(h) \/ ReadNextBlock(h) \/ ReadLastBlock(h)
    BY <1>1, <1>3, <1>7, <2>4
    DEF ReadFirstBlock, ReadPreviousBlock, ReadCurrentBlock, ReadNextBlock,
        ReadLastBlock, RefuseRead
  <2>5. CASE \E h \in Handles, p \in PageNums :
               ReadBlock(h, p) \/ EnsureCapacity(h, p)
    <3>1. PICK h \in Handles, p \in PageNums :
            ReadBlock(h, p) \/ EnsureCapacity(h, p)
      BY <2>5
    <3>2. p \in Int
      BY StorageAssumption DEF PageNums
    <3>3. Shortfall(hnd[h].total, p) \in Nat
      BY <1>1, <3>2 DEF Shortfall
    <3> QED
      BY <1>3, <1>5, <1>7, <3>1, <3>2, <3>3 DEF ReadBlock, EnsureCapacity
  <2>6. CASE \E h \in Handles : AppendEmptyBlock(h)
    BY <1>5, <2>6 DEF AppendEmptyBlock
  <2>7. CASE \E h \in Handles, d \in Written : WriteCurrentBlock(h, d)
    BY <1>1, <1>4, <2>7 DEF WriteCurrentBlock
  <2>8. CASE \E h \in Handles, p \in PageNums, d \in Written : WriteBlock(h, p, d)
    BY <1>4, <2>8, StorageAssumption DEF PageNums
  <2> QED
    BY <1>8, <2>1, <2>2, <2>3, <2>4, <2>5, <2>6, <2>7, <2>8 DEF Call
<1>9. CASE \E h \in Handles : ExitStream(h)
  BY <1>6, <1>9 DEF ExitStream
<1>10. CASE NewProcess
  BY <1>10 DEF NewProcess, Closed
<1>11. CASE UNCHANGED vars
  BY <1>7, <1>11 DEF vars
<1> QED
  BY <1>8, <1>9, <1>10, <1>11 DEF Next

\* A program starts with every cursor at 0.
LEMMA CursorInit == Init => CursorInReach
  BY DEF Init, CursorInReach, Closed

\* readBlock of a page below the count fills the caller's page from the file,
\* or from a copy the stream has fetched.
LEMMA ReadAtDelivers ==
  ASSUME IInv, NEW h \in Handles, NEW q \in Int, ReadAt(h, q),
         rc' = "RC_OK", q < hnd[h].total
  PROVE  /\ hnd'[h].pos < Len(Flushed(h))
         /\ hnd[h].cache = << >> => memPage' = Flushed(h)[hnd'[h].pos + 1]
<1>1. /\ hnd[h].open /\ hnd \in [Handles -> Handle] /\ TypeOK
      /\ hnd[h].total \in Nat
      /\ Backed(files[hnd[h].inode], hnd[h])
  BY DEF IInv, TypeOK, ReadAt, HandlesBacked, Handle
<1>2. /\ Len(files[hnd[h].inode]) \in Nat /\ Len(Flushed(h)) \in Nat
      /\ Len(Flushed(h)) = Reach(files[hnd[h].inode], hnd[h].pend)
  BY <1>1, FlushedFile
<1>3. hnd[h].total <= Len(Flushed(h))
  BY <1>1, <1>2 DEF Backed
<1>4. CASE /\ InReach(hnd[h].total, q)
           /\ q < Len(hnd[h].cache)
           /\ hnd' = [hnd EXCEPT ![h] =
                        Stream(@.inode, @.total, q, @.pend, @.cache)]
  <2>1. hnd'[h].pos = q
    BY <1>1, <1>4 DEF Stream
  <2>2. hnd[h].cache # << >>
    BY <1>4 DEF InReach
  <2> QED
    BY <1>1, <1>2, <1>3, <2>1, <2>2
<1>5. CASE /\ InReach(hnd[h].total, q)
           /\ memPage' = Got(Flushed(h), q, memPage)
           /\ hnd' = [hnd EXCEPT ![h] =
                        Stream(@.inode, @.total, q, NoPend, Flushed(h))]
  <2>1. hnd'[h].pos = q
    BY <1>1, <1>5 DEF Stream
  <2>2. q < Len(Flushed(h))
    BY <1>1, <1>2, <1>3
  <2> QED
    BY <1>5, <2>1, <2>2 DEF Got
<1>6. CASE Return("RC_READ_NON_EXISTING_PAGE")
  BY <1>6 DEF Return
<1> QED
  BY <1>4, <1>5, <1>6 DEF ReadAt

\* The sequential reads are readBlock below the count, or a refusal.
LEMMA SequentialRead ==
  ASSUME IInv, CursorInReach, NEW h \in Handles,
         ReadNextBlock(h) \/ ReadPreviousBlock(h) \/ ReadLastBlock(h),
         rc' = "RC_OK"
  PROVE  /\ hnd'[h].pos < Len(Flushed(h))
         /\ hnd[h].cache = << >> => memPage' = Flushed(h)[hnd'[h].pos + 1]
<1>1. /\ hnd[h].pos \in Nat /\ hnd[h].total \in Nat
      /\ hnd[h].pos <= hnd[h].total
  BY DEF IInv, TypeOK, Handle, CursorInReach
<1>2. PICK q \in Int : ReadAt(h, q) /\ q < hnd[h].total
  BY <1>1 DEF ReadNextBlock, ReadPreviousBlock, ReadLastBlock, RefuseRead, Return
<1> QED
  BY <1>2, ReadAtDelivers

\* A next, previous or last read that returns RC_OK has filled the caller's page
\* from a block of the file, for any number of handles.
THEOREM SequentialReadsDeliver == Spec => SequentialReadDelivers
<1>1. IInv /\ CursorInReach =>
        [\A h \in Handles :
           /\ ReadNextBlock(h) \/ ReadPreviousBlock(h) \/ ReadLastBlock(h)
           /\ rc' = "RC_OK"
           => /\ hnd'[h].pos < Len(Flushed(h))
              /\ hnd[h].cache = << >>
                   => memPage' = Flushed(h)[hnd'[h].pos + 1]]_vars
  BY SequentialRead
<1> QED
  BY <1>1, InitInvariant, NextInvariant, CursorInit, CursorStep, PTL
  DEF Spec, SequentialReadDelivers

\* ensureCapacity leaves every count backed, its own in particular.
LEMMA CapacityCounts ==
  ASSUME IInv, NEW h \in Handles, NEW n \in PageNums, EnsureCapacity(h, n)
  PROVE  CountBacked'
<1>1. IInv'
  BY CapacityStep
<1>2. (IInv => CountBacked)'
  BY InvariantImplies, PTL
<1> QED
  BY <1>1, <1>2

\* After ensureCapacity(n) the file has n blocks as seen through the handle.
THEOREM CapacityDelivered == Spec => EnsureCapacityDelivers
<1>1. IInv =>
        [\A h \in Handles, n \in PageNums :
           EnsureCapacity(h, n) => Len(Flushed(h)') >= n]_vars
  <2> SUFFICES ASSUME IInv, NEW h \in Handles, NEW n \in PageNums,
                      EnsureCapacity(h, n)
               PROVE  Len(Flushed(h)') >= n
    OBVIOUS
  <2>1. /\ hnd[h].total \in Nat /\ n \in Int /\ hnd[h].open
        /\ hnd \in [Handles -> Handle]
    BY StorageAssumption DEF IInv, TypeOK, Handle, PageNums, EnsureCapacity
  <2>2. IInv'
    BY CapacityStep
  <2>3. hnd'[h].open /\ hnd'[h].total >= n
    <3>1. CASE Shortfall(hnd[h].total, n) > 0
      <4>1. hnd'[h].open /\ hnd'[h].total = hnd[h].total + Shortfall(hnd[h].total, n)
        BY <2>1, <3>1 DEF EnsureCapacity, Append_k, Stream
      <4> QED
        BY <2>1, <3>1, <4>1 DEF Shortfall
    <3>2. CASE Shortfall(hnd[h].total, n) = 0
      BY <2>1, <3>2 DEF EnsureCapacity, Shortfall
    <3> QED
      BY <2>1, <3>1, <3>2 DEF EnsureCapacity
  <2>4. hnd'[h].total <= Len(Flushed(h)')
    <3>1. CountBacked'
      BY CapacityCounts
    <3> QED
      BY <2>3, <3>1 DEF CountBacked
  <2>5. hnd'[h].total \in Int /\ Len(Flushed(h)') \in Int
    BY <2>2, <2>3, FlushedFile DEF IInv, TypeOK, Handle
  <2> QED
    BY <2>1, <2>3, <2>4, <2>5
<1> QED
  BY <1>1, InitInvariant, NextInvariant, PTL DEF Spec, EnsureCapacityDelivers

\* A handle reads back the page it has just written.
LEMMA ReadBack ==
  ASSUME IInv, CursorInReach, NEW h \in Handles,
         ReadCurrentBlock(h), Pending(h), hnd[h].pend.page = hnd[h].pos
  PROVE  rc' = "RC_OK" /\ memPage' = hnd[h].pend.data
<1> DEFINE p == hnd[h].pos
           d == hnd[h].pend.data
           f == files[hnd[h].inode]
<1>1. /\ hnd[h].open /\ TypeOK
      /\ p \in Nat /\ hnd[h].total \in Nat /\ p <= hnd[h].total
      /\ d \in Data
      /\ f \in Seq(Data)
      /\ hnd[h].cache = << >>
  BY DEF IInv, TypeOK, ReadCurrentBlock, ReadAt, HandlesBacked, Backed, Handle,
         CursorInReach, Pending
<1>2. Flushed(h) = Put(f, p, d)
  BY DEF Flushed
<1>3. InReach(hnd[h].total, p) /\ ~(p < Len(hnd[h].cache))
  BY <1>1 DEF InReach
<1>4. rc' = "RC_OK" /\ memPage' = Got(Put(f, p, d), p, memPage)
  BY <1>2, <1>3 DEF ReadCurrentBlock, ReadAt, Return
<1> HIDE DEF p, d, f
<1>5. p < Len(Put(f, p, d)) /\ Put(f, p, d)[p + 1] = d
  <2>1. Len(Put(f, p, d)) = IF p < Len(f) THEN Len(f) ELSE p + 1
    BY <1>1, PutFile
  <2>2. p + 1 \in 1 .. (IF p < Len(f) THEN Len(f) ELSE p + 1)
    BY <1>1
  <2> QED
    BY <1>1, <2>1, <2>2 DEF Put
<1> QED
  BY <1>4, <1>5 DEF Got, d

\* A handle reads back its own write, whatever other handles did to the file.
THEOREM OwnWritesReadBack == Spec => OwnWriteReadBack
<1>1. IInv /\ CursorInReach =>
        [\A h \in Handles :
           ReadCurrentBlock(h) /\ Pending(h) /\ hnd[h].pend.page = hnd[h].pos
             => rc' = "RC_OK" /\ memPage' = hnd[h].pend.data]_vars
  BY ReadBack
<1> QED
  BY <1>1, InitInvariant, NextInvariant, CursorInit, CursorStep, PTL
  DEF Spec, OwnWriteReadBack

=============================================================================
