---------------------------- MODULE TransferPages ----------------------------
(***************************************************************************)
(* A client that walks the pages of the transfers list without a filter,   *)
(* handlers/transfer_list.go with applyTransfersPagination of              *)
(* data/pg/transfers.go: a page is cut off by the id of the last transfer  *)
(* of the page before it, whatever the transfers are sorted by.  A page is *)
(* read through the cache of data/cachedpg/transfers.go, which other       *)
(* readers of the list fill as well: its key is the whole selector, so     *)
(* that the pages of one sort and one limit differ by their cursor, and    *)
(* it does not expire.  A transfer that is inserted invalidates no page.   *)
(*                                                                         *)
(* A transfer is its id, so that a higher number was inserted later.  How  *)
(* transfers of the same time follow each other is left to the database.   *)
(***************************************************************************)
EXTENDS Naturals, Sequences, FiniteSets

CONSTANTS
    Times,              \* the times a transfer's transaction may have
    Limit,              \* page[limit]
    Readers,            \* other clients of the list, at any of its cursors
    None,               \* no page
    MaxTransfers        \* bound: transfers in the table

VARIABLES
    time,               \* rarimo_tx_timestamp of each transfer
    sort,               \* the column and the direction
    cache,              \* the page under the key of each cursor, or None
    reading,            \* the page each reader has to put into the cache, or None
    cursor,             \* page[cursor], 0 without one
    ended,              \* has the client received an empty page?
    seen,               \* history: transfers the client has seen
    again,              \* history: a transfer came twice
    begun,              \* history: number of transfers when the walk began
    known,              \* history: of its pages, the least number of transfers when one was read
    retimed             \* history: a transfer that was submitted again has another time

walkVars == <<cursor, ended, seen, again, begun, known>>
vars == <<time, sort, cache, reading, walkVars, retimed>>

Transfers == 1..Len(time)
Cursors == 0..MaxTransfers

Init ==
    /\ time = << >> /\ sort \in [by : {"id", "time"}, descending : BOOLEAN]
    /\ cache = [c \in Cursors |-> None] /\ reading = [r \in Readers |-> None]
    /\ cursor = 0 /\ ended = FALSE /\ seen = {} /\ again = FALSE
    /\ begun = 0 /\ known = 0 /\ retimed = FALSE

Insert ==
    /\ Len(time) < MaxTransfers
    /\ \E t \in Times : time' = Append(time, t)
    /\ UNCHANGED <<sort, cache, reading, walkVars, retimed>>

\* The other half of the upsert: the row of a transfer that is submitted again
\* keeps its id.
Resubmit ==
    /\ \E i \in Transfers : \E t \in Times \ {time[i]} : time' = [time EXCEPT ![i] = t]
    /\ retimed' = TRUE
    /\ UNCHANGED <<sort, cache, reading, walkVars>>

\* The index tag of a page's last transfer is the one that its others do not
\* overwrite.  When that transfer is upserted again or its status is set, which
\* may be at any time, the keys with the tag are deleted one by one.
Invalidate ==
    /\ \E c \in Cursors : cache[c] # None /\ cache' = [cache EXCEPT ![c] = None]
    /\ UNCHANGED <<time, sort, reading, walkVars, retimed>>

-----------------------------------------------------------------------------
\* Mutant: the direction is not asked.
AboveCursor(c) == {i \in Transfers : i > c}

AfterCursor(c) ==
    {i \in Transfers : c = 0 \/ IF sort.descending THEN i < c ELSE i > c}

Precedes(i, j) ==
    LET key(k) == IF sort.by = "id" THEN k ELSE time[k]
    IN  IF sort.descending THEN key(i) > key(j) ELSE key(i) < key(j)

\* The first transfers after the cursor, as many as fit on a page.
IsPage(rows, c) ==
    /\ Cardinality(rows) <= Limit
    /\ \A i \in AfterCursor(c) \ rows :
          Cardinality(rows) = Limit /\ \A j \in rows : ~Precedes(i, j)

\* The pages with a transfer the table may answer with: the transfers, the last
\* one, and how many there are in the table.
Selected(c) ==
    {page \in [rows : SUBSET AfterCursor(c), last : AfterCursor(c), of : {Len(time)}] :
        /\ IsPage(page.rows, c)
        /\ page.last \in page.rows /\ \A i \in page.rows : ~Precedes(page.last, i)}

\* Another client's request that finds nothing in the cache, or cannot read it,
\* reads the table, and puts the page into the cache unless that fails.
Select(r) ==
    /\ reading[r] = None
    /\ \E c \in Cursors : \E page \in Selected(c) :
          reading' = [reading EXCEPT ![r] = [at |-> c, page |-> page]]
    /\ UNCHANGED <<time, sort, cache, walkVars, retimed>>

Set(r) ==
    /\ reading[r] # None
    /\ cache' \in {cache, [cache EXCEPT ![reading[r].at] = reading[r].page]}
    /\ reading' = [reading EXCEPT ![r] = None]
    /\ UNCHANGED <<time, sort, walkVars, retimed>>

-----------------------------------------------------------------------------
Begin == begun' = IF cursor = 0 THEN Len(time) ELSE begun

Receive(page) ==
    /\ cursor' = page.last
    /\ seen' = seen \cup page.rows
    /\ again' = (again \/ page.rows \cap seen # {})
    /\ known' = IF cursor = 0 \/ page.of < known THEN page.of ELSE known
    /\ Begin
    /\ UNCHANGED <<time, sort, reading, ended, retimed>>

Hit ==
    /\ ~ended /\ cache[cursor] # None
    /\ Receive(cache[cursor])
    /\ UNCHANGED cache

\* The client does not ask for this page again: a page it is late to put into
\* the cache is a reader's.
Miss ==
    /\ ~ended
    /\ \E page \in Selected(cursor) :
          Receive(page) /\ cache' \in {cache, [cache EXCEPT ![cursor] = page]}

\* An empty page is not put into the cache.
End ==
    /\ ~ended /\ AfterCursor(cursor) = {}
    /\ ended' = TRUE /\ Begin
    /\ UNCHANGED <<time, sort, cache, reading, cursor, seen, again, known, retimed>>

TransferList == Hit \/ Miss \/ End

Next ==
    \/ Insert \/ Resubmit \/ Invalidate
    \/ \E r \in Readers : Select(r) \/ Set(r)
    \/ TransferList

Spec == Init /\ [][Next]_vars

-----------------------------------------------------------------------------
Page == [rows : SUBSET Transfers, last : Transfers, of : 0..Len(time)]

TypeOK ==
    /\ time \in Seq(Times) /\ Len(time) <= MaxTransfers
    /\ sort \in [by : {"id", "time"}, descending : BOOLEAN]
    /\ cache \in [Cursors -> Page \cup {None}]
    /\ reading \in [Readers -> [at : Cursors, page : Page] \cup {None}]
    /\ cursor \in 0..Len(time)
    /\ ended \in BOOLEAN /\ again \in BOOLEAN /\ retimed \in BOOLEAN
    /\ begun \in 0..Len(time) /\ known \in 0..Len(time)
    /\ seen \subseteq Transfers

\* Were the transfers inserted in the order of their times, each at a time of
\* its own?
InOrder == \A i, j \in Transfers : i < j => time[i] < time[j]

\* A client that has walked to the empty page has seen each transfer once, if it
\* sorted by id, or by time where the times follow the ids.  Upwards it has seen
\* all that were there when it began; downwards a cached page is as old as it
\* is, and all that were there when the oldest of its pages was read.
WalkSeesAllOnce ==
    ended /\ (sort.by = "id" \/ (InOrder /\ ~retimed)) =>
        ~again /\ 1..(IF sort.descending THEN known ELSE begun) \subseteq seen
=============================================================================
