--------------------------- MODULE CachedTransfers ---------------------------
(***************************************************************************)
(* The cached queries of public.transfers, cachedpg/transfers.go: the API  *)
(* reads rows and lists through Redis and fills it with what it read; the  *)
(* indexers write the table and then invalidate, by tag, what Redis holds  *)
(* of the rows they wrote.  UpsertBatchCtx commits by itself and           *)
(* invalidates afterwards.  SetStatusByIndexCtx is called by the evidence  *)
(* indexers inside a database transaction, so that its invalidation runs   *)
(* before the commit.  Cached entries never expire.                        *)
(*                                                                         *)
(* A row is its status, a selector the set of the statuses it lets pass.   *)
(* The entry by database id, which no reader asks for, is left out.        *)
(* TransferByIndexCtx panics when the row is missing (line 94); nothing is *)
(* cached then, and the model has no step for it.                          *)
(***************************************************************************)
EXTENDS Naturals

CONSTANTS
    Transfers,          \* the indices of the transfers
    Statuses,           \* the values of the status column
    Filters,            \* the selectors clients use, each a set of statuses
    Writers,            \* the indexers that write transfers
    Readers,            \* the requests the API serves
    None,               \* no row, no cached entry, nothing in progress
    MaxWrites           \* bound: batches written

ListKey(f) == <<"list", f>>
IndexKey(t) == <<"index", t>>
Keys == {ListKey(f) : f \in Filters} \cup {IndexKey(t) : t \in Transfers}

\* Some transfers and a status of each: what a batch writes or a query finds.
Rows == UNION {[ts -> Statuses] : ts \in SUBSET Transfers}

VARIABLES
    row,                \* the committed status of each transfer, None if missing
    writer,             \* what each writer has in hand
    reader,             \* what each reader found and has yet to cache
    cache,              \* the entry under each key
    tagged,             \* the keys of the set each transfer's index tag names
    outrun,             \* history: <<k, t>> if k's entry outlived a write of t
    writes              \* number of batches written

vars == <<row, writer, reader, cache, tagged, outrun, writes>>

IdleWriter == [phase |-> "idle", new |-> << >>, hits |-> {}]

Init ==
    /\ row = [t \in Transfers |-> None]
    /\ writer = [w \in Writers |-> IdleWriter]
    /\ reader = [r \in Readers |-> None]
    /\ cache = [k \in Keys |-> None]
    /\ tagged = [t \in Transfers |-> {}]
    /\ outrun = {}
    /\ writes = 0

Holds(k, t) == cache[k] # None /\ t \in DOMAIN cache[k].rows

\* The rows an open transaction has updated stay locked until it ends.
Locked(t) == \E w \in Writers : t \in writer[w].hits

\* A transaction has invalidated t and is about to change it.
Open(t) == \E w \in Writers : writer[w].phase = "invalidated" /\ t \in writer[w].hits

\* An upsert of t is committed and about to invalidate it.
Owed(t) ==
    \E w \in Writers : writer[w].phase = "written" /\ t \in DOMAIN writer[w].new

-----------------------------------------------------------------------------
(* The writers *)

Begin(w, new, phase, hits) ==
    /\ writes < MaxWrites
    /\ writer[w].phase = "idle"
    /\ \A t \in DOMAIN new : ~Locked(t)
    /\ writer' = [writer EXCEPT ![w] = [phase |-> phase, new |-> new, hits |-> hits]]
    /\ writes' = writes + 1

UpsertBatch(w, new) ==
    /\ Begin(w, new, "written", {})
    /\ row' = [t \in Transfers |-> IF t \in DOMAIN new THEN new[t] ELSE row[t]]
    /\ UNCHANGED <<reader, cache, tagged, outrun>>

\* The update is part of a transaction that has yet to commit; it hits the
\* rows there are.
SetStatusByIndex(w, new) ==
    /\ \A t, u \in DOMAIN new : new[t] = new[u]
    /\ Begin(w, new, "updated", {t \in DOMAIN new : row[t] # None})
    /\ UNCHANGED <<row, reader, cache, tagged, outrun>>

AfterInvalidation(w) ==
    IF writer[w].phase = "written"
    THEN [writer EXCEPT ![w] = IdleWriter]
    ELSE [writer EXCEPT ![w].phase = "invalidated"]

\* Mutant: transfers are tagged by id only.
TaggedById(w) == {}

\* The keys in the sets the writer's tags name.
TaggedByIndex(w) == UNION {tagged[t] : t \in DOMAIN writer[w].new}

Invalidate(w) ==
    LET gone == TaggedByIndex(w) IN
    /\ writer[w].phase \in {"written", "updated"}
    /\ cache' = [k \in Keys |-> IF k \in gone THEN None ELSE cache[k]]
    /\ tagged' = [t \in Transfers |->
                     IF t \in DOMAIN writer[w].new THEN {} ELSE tagged[t]]
    /\ outrun' = {p \in outrun : p[1] \notin gone}
    /\ writer' = AfterInvalidation(w)
    /\ UNCHANGED <<row, reader, writes>>

\* Redis fails, which is logged, or the process dies after the upsert.
InvalidateFails(w) ==
    /\ writer[w].phase \in {"written", "updated"}
    /\ outrun' = outrun \cup {p \in Keys \X DOMAIN writer[w].new : Holds(p[1], p[2])}
    /\ writer' = AfterInvalidation(w)
    /\ UNCHANGED <<row, reader, cache, tagged, writes>>

Commit(w) ==
    /\ writer[w].phase = "invalidated"
    /\ row' = [t \in Transfers |->
                  IF t \in writer[w].hits THEN writer[w].new[t] ELSE row[t]]
    /\ writer' = [writer EXCEPT ![w] = IdleWriter]
    /\ UNCHANGED <<reader, cache, tagged, outrun, writes>>

\* The statement that inserts the evidence fails, or the process dies.
Rollback(w) ==
    /\ writer[w].phase \in {"updated", "invalidated"}
    /\ writer' = [writer EXCEPT ![w] = IdleWriter]
    /\ UNCHANGED <<row, reader, cache, tagged, outrun, writes>>

-----------------------------------------------------------------------------
(* The readers.  A hit changes nothing.  The query is also made, whatever  *)
(* Redis holds, when reading Redis fails.                                  *)

Matching(f) == {t \in Transfers : row[t] \in f}

\* `last` is the last transfer in the order the client asked for.
Select(r, f, last) ==
    /\ reader[r] = None
    /\ last \in Matching(f)
    /\ reader' = [reader EXCEPT ![r] =
                     [key |-> ListKey(f), last |-> last, todo |-> Matching(f),
                      rows |-> [t \in Matching(f) |-> row[t]]]]
    /\ UNCHANGED <<row, writer, cache, tagged, outrun, writes>>

TransferByIndex(r, t) ==
    /\ reader[r] = None
    /\ row[t] # None
    /\ reader' = [reader EXCEPT ![r] = [key |-> None, last |-> t, todo |-> {t},
                                        rows |-> [u \in {t} |-> row[u]]]]
    /\ UNCHANGED <<row, writer, cache, tagged, outrun, writes>>

\* The tags transferTags makes of a list: each round of its loop overwrites
\* the index tag of the round before, so that only the last one stays.
IndexTags(last) == {last}

\* Rows that are outdated when they get there, or will be when a transaction
\* commits that has invalidated them already, stay there.
Put(k, rows, last) ==
    /\ cache' = [cache EXCEPT ![k] = [rows |-> rows, last |-> last]]
    /\ tagged' = [t \in Transfers |->
                     IF t \in IndexTags(last) THEN tagged[t] \cup {k} ELSE tagged[t]]
    /\ outrun' = {p \in outrun : p[1] # k}
                     \cup {<<k, t>> : t \in {u \in DOMAIN rows : rows[u] # row[u] \/ Open(u)}}

PutList(r) ==
    /\ reader[r] # None
    /\ reader[r].key # None
    /\ Put(reader[r].key, reader[r].rows, reader[r].last)
    /\ reader' = [reader EXCEPT ![r].key = None]
    /\ UNCHANGED <<row, writer, writes>>

CacheEveryTransfer(r, t) ==
    /\ reader[r] # None
    /\ reader[r].key = None
    /\ t \in reader[r].todo
    /\ Put(IndexKey(t), [u \in {t} |-> reader[r].rows[t]], t)
    /\ reader' = IF reader[r].todo = {t}
                 THEN [reader EXCEPT ![r] = None]
                 ELSE [reader EXCEPT ![r].todo = @ \ {t}]
    /\ UNCHANGED <<row, writer, writes>>

\* Setting an entry fails: the rest is not cached.
SetFails(r) ==
    /\ reader[r] # None
    /\ reader' = [reader EXCEPT ![r] = None]
    /\ UNCHANGED <<row, writer, cache, tagged, outrun, writes>>

Next ==
    \/ \E w \in Writers, new \in Rows \ {<< >>} :
           UpsertBatch(w, new) \/ SetStatusByIndex(w, new)
    \/ \E w \in Writers :
           Invalidate(w) \/ InvalidateFails(w) \/ Commit(w) \/ Rollback(w)
    \/ \E r \in Readers :
           \/ \E f \in Filters, last \in Transfers : Select(r, f, last)
           \/ \E t \in Transfers : TransferByIndex(r, t) \/ CacheEveryTransfer(r, t)
           \/ PutList(r)
           \/ SetFails(r)

Spec == Init /\ [][Next]_vars

-----------------------------------------------------------------------------
(* Properties *)

Entries == {e \in [rows : Rows, last : Transfers] : e.last \in DOMAIN e.rows}

Fills ==
    {x \in [key : {ListKey(f) : f \in Filters} \cup {None}, last : Transfers,
            todo : SUBSET Transfers, rows : Rows] :
        /\ x.todo # {}
        /\ x.todo \subseteq DOMAIN x.rows
        /\ x.last \in DOMAIN x.rows}

\* Every cached entry is a set of rows that holds the transfer it is tagged
\* with, and every reader caches only rows it found.
TypeOK ==
    /\ row \in [Transfers -> Statuses \cup {None}]
    /\ writer \in [Writers -> [phase : {"idle", "written", "updated", "invalidated"},
                               new : Rows, hits : SUBSET Transfers]]
    /\ \A w \in Writers : writer[w].hits \subseteq DOMAIN writer[w].new
    /\ reader \in [Readers -> Fills \cup {None}]
    /\ cache \in [Keys -> Entries \cup {None}]
    /\ tagged \in [Transfers -> SUBSET Keys]
    /\ outrun \subseteq Keys \X Transfers
    /\ writes \in 0..MaxWrites

\* An entry shows the committed status of the transfer it is tagged with,
\* unless an upsert of that transfer has its invalidation still ahead, or the
\* entry outlived a write in one of three ways: it was filled with rows read
\* before the write, it was filled between the invalidation of a transaction
\* and its commit, or the invalidation was lost.  The other transfers of a
\* list have no such guarantee: the tags of transferTags do not reach them.
FreshUnlessOutrun ==
    \A k \in Keys : cache[k] # None =>
        LET t == cache[k].last IN
        cache[k].rows[t] # row[t] => Owed(t) \/ <<k, t>> \in outrun
=============================================================================
