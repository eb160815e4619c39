--------------------------- MODULE CachedEvidence ---------------------------
(***************************************************************************)
(* The cached queries of the evidence tables, cachedpg/votes.go,           *)
(* confirmations.go, approvals.go and rejections.go: a list that is not    *)
(* empty is cached by transfer index and never invalidated.  The transfers *)
(* indexer reads the last three to derive a transfer's status.             *)
(*                                                                         *)
(* Rows are only ever added, so a list is given by its length.             *)
(***************************************************************************)
EXTENDS Naturals

CONSTANTS
    Kinds,              \* the evidence tables
    Unique,             \* those with a unique transfer_index
    Operations,         \* the transfer indices
    Requests,           \* readers that work at the same time
    None,               \* nothing cached, nothing in progress
    MaxRows             \* bound: rows of one transfer in one table

VARIABLES
    table,              \* number of rows of each transfer
    cached,             \* number of rows in the cached list, None without one
    request             \* the list each request has read and not yet cached

vars == <<table, cached, request>>

Init ==
    /\ table = [k \in Kinds |-> [o \in Operations |-> 0]]
    /\ cached = [k \in Kinds |-> [o \in Operations |-> None]]
    /\ request = [q \in Requests |-> None]

\* Transactions that fail or are rolled back add nothing.
InsertBatch(k, batch) ==
    /\ \A o \in batch : table[k][o] < IF k \in Unique THEN 1 ELSE MaxRows
    /\ table' = [table EXCEPT ![k] = [o \in Operations |->
                     IF o \in batch THEN @[o] + 1 ELSE @[o]]]
    /\ UNCHANGED <<cached, request>>

\* Mutant: an empty list is cached as well.
AlwaysCacheable(n) == TRUE

Cacheable(n) == n # 0

\* A miss, or a failure of Redis: the list is read from the table.
ByTransferIndex(q, k, o) ==
    /\ request[q] = None
    /\ Cacheable(table[k][o])
    /\ request' = [request EXCEPT ![q] = [kind |-> k, of |-> o, length |-> table[k][o]]]
    /\ UNCHANGED <<table, cached>>

\* The list is set under its key, over whatever is there by now.
SetList(q) ==
    /\ request[q] # None
    /\ cached' = [cached EXCEPT ![request[q].kind][request[q].of] = request[q].length]
    /\ request' = [request EXCEPT ![q] = None]
    /\ UNCHANGED table

SetListFails(q) ==
    /\ request[q] # None
    /\ request' = [request EXCEPT ![q] = None]
    /\ UNCHANGED <<table, cached>>

Next ==
    \/ \E k \in Kinds, batch \in (SUBSET Operations) \ {{}} : InsertBatch(k, batch)
    \/ \E q \in Requests :
           \/ \E k \in Kinds, o \in Operations : ByTransferIndex(q, k, o)
           \/ SetList(q)
           \/ SetListFails(q)

Spec == Init /\ [][Next]_vars

-----------------------------------------------------------------------------
TypeOK ==
    /\ table \in [Kinds -> [Operations -> 0..MaxRows]]
    /\ \A k \in Unique, o \in Operations : table[k][o] <= 1
    /\ cached \in [Kinds -> [Operations -> (0..MaxRows) \cup {None}]]
    /\ request \in [Requests ->
           [kind : Kinds, of : Operations, length : 0..MaxRows] \cup {None}]

\* A cached list is never empty and holds rows of the table only, so that
\* "there is evidence" is never a mistake, although the list is never
\* invalidated; where the table has one row per transfer it is the whole list.
CachedListSound ==
    \A k \in Kinds, o \in Operations : cached[k][o] # None =>
        /\ cached[k][o] \in 1..table[k][o]
        /\ k \in Unique => cached[k][o] = table[k][o]
=============================================================================
