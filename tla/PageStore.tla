----------------------------- MODULE PageStore -----------------------------
(***************************************************************************)
(* What the buffer manager promises its clients, without frames, fix       *)
(* counts or a replacement strategy: a page that is pinned shows what was  *)
(* last written to it, to every client that pins it; what was written may  *)
(* reach the disk at any moment; and when the pool is shut down with no    *)
(* page pinned, all of it has.                                             *)
(***************************************************************************)
CONSTANTS
  Clients,   \* the holders of pins
  Pages,     \* the page numbers
  Data,      \* the contents a page can have
  Zero,      \* the content of a page the file grows by
  Undef,     \* the content of a page nobody has written
  NoPage     \* the pin of a client that has none

VARIABLES
  up,     \* the pool is up
  cur,    \* what was last written to each page, or was on disk at the start
  disk,   \* what is on disk
  pin,    \* the page each client has pinned
  view    \* what each client's pinned page shows

storeVars == <<up, cur, disk, pin, view>>

Nothing == [c \in Clients |-> Undef]
NoPins  == [c \in Clients |-> NoPage]

Init ==
  /\ up = FALSE
  /\ cur \in [Pages -> Data \cup {Undef}]
  /\ disk = cur
  /\ pin = NoPins
  /\ view = Nothing

-----------------------------------------------------------------------------

\* A page on disk stays as it is or becomes what was last written, and one
\* the file ends before may also come into being empty; what is there of a
\* page nobody has written is not promised.
Persist(p) ==
  cur[p] # Undef => \/ disk'[p] \in {disk[p], cur[p]}
                    \/ disk[p] = Undef /\ disk'[p] = Zero

Durable(p) == cur[p] # Undef => disk'[p] = cur[p]

SomeSaved ==
  /\ disk' \in [Pages -> Data \cup {Undef}]
  /\ \A p \in Pages : Persist(p)

Start ==
  /\ ~up
  /\ up' = TRUE
  /\ UNCHANGED <<cur, disk, pin, view>>

\* Pins that are left are lost, and so is what was written under them unless
\* it is on disk.
Stop ==
  /\ up
  /\ up' = FALSE
  /\ SomeSaved
  /\ pin = NoPins => \A p \in Pages : Durable(p)
  /\ cur' = disk'
  /\ pin' = NoPins
  /\ view' = Nothing

\* The client sees what was last written, and what the page's other clients
\* see.
Pin(c, p) ==
  /\ up
  /\ pin[c] = NoPage
  /\ pin' = [pin EXCEPT ![c] = p]
  /\ \E d \in Data :
       /\ cur[p] # Undef => d = cur[p]
       /\ \A e \in Clients : pin[e] = p => view[e] = d
       /\ view' = [view EXCEPT ![c] = d]
  /\ SomeSaved
  /\ UNCHANGED <<up, cur>>

Unpin(c) ==
  /\ pin[c] # NoPage
  /\ pin' = [pin EXCEPT ![c] = NoPage]
  /\ view' = [view EXCEPT ![c] = Undef]
  /\ UNCHANGED <<up, cur, disk>>

\* Every client of the page sees what one of them writes.
Write(c, d) ==
  /\ pin[c] # NoPage
  /\ cur' = [cur EXCEPT ![pin[c]] = d]
  /\ view' = [e \in Clients |-> IF pin[e] = pin[c] THEN d ELSE view[e]]
  /\ UNCHANGED <<up, disk, pin>>

Save ==
  /\ UNCHANGED <<up, pin, cur, view>>
  /\ SomeSaved

Next ==
  \/ Start
  \/ Stop
  \/ Save
  \/ \E c \in Clients :
       \/ Unpin(c)
       \/ \E p \in Pages : Pin(c, p)
       \/ \E d \in Data : Write(c, d)

Spec == Init /\ [][Next]_storeVars

=============================================================================
