----------------------------- MODULE MCBothEnds ------------------------------
(***************************************************************************)
(* The two ends of the way of a transfer for TLC: RarimoCoreOpProducer,    *)
(* which publishes the events that transfers are made of, and              *)
(* CachedTransfers, the queries that serve them.  The two have no state in *)
(* common: in a behaviour one of them moves, and the other stays in its    *)
(* initial state.                                                          *)
(***************************************************************************)
EXTENDS RarimoCoreOpProducer, TLC

CONSTANTS Transfers, Statuses, Filters, Writers, Readers, None, MaxWrites

ASSUME CacheAssumption ==
    /\ None \notin Statuses
    /\ Filters \subseteq SUBSET Statuses
    /\ MaxWrites \in Nat

VARIABLES moving, row, writer, reader, cache, tagged, outrun, writes

Queries == INSTANCE CachedTransfers

queryVars == <<row, writer, reader, cache, tagged, outrun, writes>>
allVars == <<moving, vars, queryVars>>

InitAll == moving \in {"producer", "queries"} /\ Init /\ Queries!Init

ProducerMoves == moving = "producer" /\ UNCHANGED <<moving, queryVars>>
QueriesMove == moving = "queries" /\ UNCHANGED <<moving, vars>>

NextAny ==
    \/ ProducerMoves /\ Next
    \/ QueriesMove /\ Queries!Next

SpecAll == InitAll /\ [][NextAny]_allVars

\* An entry of the cache shows the status of the transfer it is tagged with,
\* unless it is known to have outlived a write.
FreshUnlessOutrun == Queries!FreshUnlessOutrun

-----------------------------------------------------------------------------
CONSTANTS m1, m2, r1, r2

\* Two messages of two ranges, of two pages and of one.
TwoRanges == m1 :> r1 @@ m2 :> r2
TwoAndOne == r1 :> 2 @@ r2 :> 1

\* Two selectors that a change of status moves a transfer between.
MCFilters == {{"open"}, {"open", "closed"}}
MCStatuses == {"open", "closed"}
Symmetric == Permutations(Transfers) \cup Permutations(Writers)
=============================================================================
