----------------------------- MODULE ItemsIndexer -----------------------------
(***************************************************************************)
(* The items indexer, services/items_indexer.go, with the cached queries   *)
(* it makes, cachedpg/items.go and item_chain_mappings.go, and the request *)
(* of the API that shares the cache with it, handlers/chain_list.go.  One  *)
(* item, which may be removed and created again under a new id.            *)
(*                                                                         *)
(* The handlers look the chain's state up when they handle an event, not   *)
(* when it happened.  They find rows through the cache; the cache is       *)
(* invalidated before a row is written, for removals and seeds before the  *)
(* transaction commits.  Item ids and network ids are numbers and share    *)
(* their tags.  Metadata is the seed; json.Valid holds of every jsonb      *)
(* value.                                                                  *)
(***************************************************************************)
EXTENDS EventQueue

CONSTANTS
    Networks,           \* ids of the chains of the core
    Supported,          \* those that horizon knows
    Seeds,
    None,               \* no row, no entry, no seed
    MaxIds              \* bound: rows the item ever has

VARIABLES
    chain,              \* the item on the core chain
    collection,         \* is there a row of the item's collection?
    item,               \* the item's row
    mapped,             \* the networks of its rows in item_chain_mappings
    lastId,             \* the last id given to a row
    found,              \* the row the handler has in hand
    byIndex, byId,      \* the cached item under its index, and under each id
    list,               \* the cached mappings of each network
    request,            \* what chain_list read and has yet to cache
    outrun,             \* history: keys whose entry outlived a write
    misled              \* history: a handler took an outdated entry for the row

storeVars == <<collection, item, mapped, lastId, found>>
cacheVars == <<byIndex, byId, list>>
vars == <<queueVars, chain, storeVars, cacheVars, request, outrun, misled>>

Ids == 1..MaxIds
Row == [id : Ids, seed : Seeds \cup {None}]

ASSUME ItemsIndexerAssumption ==
    /\ MaxIds \in Nat
    /\ None \notin Seeds
    /\ None \notin Row

Init ==
    /\ QueueInit
    /\ chain = [exists |-> FALSE, seed |-> None, on |-> {}]
    /\ collection = FALSE
    /\ item = None /\ mapped = {} /\ lastId = 0 /\ found = None
    /\ byIndex = None
    /\ byId = [i \in Ids |-> None]
    /\ list = [n \in Networks |-> None]
    /\ request = None
    /\ outrun = {}
    /\ misled = FALSE

-----------------------------------------------------------------------------
(* The core chain *)

ChainStep(m, next) ==
    /\ Emit(m)
    /\ chain' = next
    /\ UNCHANGED <<storeVars, cacheVars, request, outrun, misled>>

\* The message made of an event of the item or its seed: arg is the network, or
\* the seed, where the event has one.
Event(type, arg) == [type |-> type, arg |-> arg]

ChainEvent ==
    \/ /\ ~chain.exists
       /\ ChainStep(Event("ItemCreated", None), [chain EXCEPT !.exists = TRUE])
    \/ /\ chain.exists
       /\ \/ ChainStep(Event("ItemRemoved", None),
                       [exists |-> FALSE, seed |-> None, on |-> {}])
          \/ \E n \in Networks \ chain.on :
                 ChainStep(Event("OnChainItemCreated", n), [chain EXCEPT !.on = @ \cup {n}])
          \/ \E n \in chain.on :
                 ChainStep(Event("OnChainItemRemoved", n), [chain EXCEPT !.on = @ \ {n}])
          \/ \E s \in Seeds : /\ chain.seed = None
                              /\ ChainStep(Event("SeedCreated", s), [chain EXCEPT !.seed = s])
          \/ /\ chain.seed # None
             /\ ChainStep(Event("SeedRemoved", chain.seed), [chain EXCEPT !.seed = None])

-----------------------------------------------------------------------------
(* The cached queries *)

ItemKeys(id) == {<<"index", 0>>, <<"id", id>>}

\* cacheItem sets the entries under both keys.  They outlive a write if the
\* row is outdated by now, or if a transaction that has invalidated it is
\* about to commit.
CacheItem(row) ==
    /\ byIndex' = row
    /\ byId' = [byId EXCEPT ![row.id] = row]
    /\ outrun' = IF row = item /\ pc \notin {"CommitRemoval", "CommitSeed"}
                 THEN outrun \ ItemKeys(row.id)
                 ELSE outrun \cup ItemKeys(row.id)

\* Mutant: the lists stay.
InvalidateNoLists(ids) == UNCHANGED <<list, outrun>>

\* The lists of the networks whose tag is one of ids.
InvalidateLists(ids) ==
    /\ list' = [n \in Networks |-> IF n \in ids THEN None ELSE list[n]]
    /\ outrun' = outrun \ {<<"list", n>> : n \in ids}

\* ItemByIndexCtx without a lock: from the cache, or from the table into the
\* cache.  Redis may fail to answer, and then the table is asked although
\* something is cached, and it may fail to take the row.
ItemByIndex(row) ==
    \/ byIndex # None /\ row = byIndex /\ UNCHANGED <<byIndex, byId, outrun>>
    \/ row = item /\ item # None /\ CacheItem(item)
    \/ row = item /\ UNCHANGED <<byIndex, byId, outrun>>

Outdated(row) == row # None /\ (item = None \/ row.id # item.id)
Misled(row) == misled' = (misled \/ Outdated(row))

\* Mutant: the cached item is not invalidated.
LockOnly ==
    /\ item # None
    /\ found' = item
    /\ UNCHANGED <<byIndex, byId, outrun>>

\* ItemByIndexCtx for update caches the row, UpdateCtx and DeleteCtx
\* invalidate it by its id; both happen inside the transaction.
LockAndInvalidate ==
    /\ item # None
    /\ found' = item
    /\ \/ /\ byIndex' = None
          /\ byId' = [byId EXCEPT ![item.id] = None]
          /\ outrun' = outrun \ ItemKeys(item.id)
       \/ /\ outrun' = outrun \cup ItemKeys(item.id)  \* Redis fails, which is logged
          /\ UNCHANGED <<byIndex, byId>>

-----------------------------------------------------------------------------
(* The handlers *)

Return == Advance /\ UNCHANGED <<storeVars, cacheVars, outrun, misled>>
Fail == FailHere /\ UNCHANGED <<storeVars, cacheVars, outrun, misled>>
Rest == UNCHANGED <<chain, request>>

\* handleItemCreated: an item that is gone reads as nil and panics.
HandleItemCreated ==
    /\ Handling("ItemCreated")
    /\ IF ~chain.exists THEN Fail
       ELSE /\ Goto("FindCollection")
            /\ found' = [id |-> 0, seed |-> chain.seed]
            /\ UNCHANGED <<collection, item, mapped, lastId, cacheVars, outrun, misled>>
    /\ Rest

\* SaveItem
FindCollection ==
    /\ pc = "FindCollection"
    /\ Goto(IF collection THEN "InsertItem" ELSE "SaveCollection")
    /\ UNCHANGED <<storeVars, cacheVars, outrun, misled>> /\ Rest

\* SaveCollection: the collections indexer may have been faster.
SaveCollection ==
    /\ pc = "SaveCollection"
    /\ IF collection THEN Fail
       ELSE /\ Goto("InsertItem")
            /\ collection' = TRUE
            /\ UNCHANGED <<item, mapped, lastId, found, cacheVars, outrun, misled>>
    /\ Rest

InsertItem ==
    /\ pc = "InsertItem"
    /\ lastId < MaxIds
    /\ IF item # None THEN Fail
       ELSE /\ Advance
            /\ lastId' = lastId + 1
            /\ item' = [id |-> lastId + 1, seed |-> found.seed]
            /\ found' = None
            /\ UNCHANGED <<collection, mapped, cacheVars, outrun, misled>>
    /\ Rest

\* handleItemRemoved: an unknown item panics.  DeleteByItemCtx invalidates by
\* the item's tag, which no list has, unless a network has the same number.
HandleItemRemoved ==
    /\ Handling("ItemRemoved")
    /\ \/ item = None /\ Fail
       \/ /\ LockAndInvalidate
          /\ list' = [n \in Networks |-> IF n = item.id THEN None ELSE list[n]]
          /\ Goto("CommitRemoval")
          /\ UNCHANGED <<collection, item, mapped, lastId, misled>>
    /\ Rest

CommitRemoval ==
    /\ pc = "CommitRemoval"
    /\ Advance
    /\ item' = None /\ mapped' = {} /\ found' = None
    /\ UNCHANGED <<collection, lastId, cacheVars, outrun, misled>> /\ Rest

\* handleOnChainItemCreated
HandleOnChainItemCreated ==
    /\ Handling("OnChainItemCreated")
    /\ \/ Message.arg \notin Supported /\ Return
       \/ /\ Message.arg \in Supported
          /\ \E row \in {byIndex, item} :
                /\ ItemByIndex(row)
                /\ Misled(row)
                /\ IF row = None \/ Message.arg \notin chain.on
                   THEN FailHere /\ UNCHANGED found
                   ELSE Goto("InvalidateMapping") /\ found' = row
          /\ UNCHANGED <<collection, item, mapped, lastId, list>>
    /\ Rest

\* ItemChainMappingQ.InsertCtx invalidates first: the mapping's own entry,
\* which no reader asks for, and the lists.
InvalidateMapping ==
    /\ pc = "InvalidateMapping"
    /\ Goto("InsertMapping")
    /\ \/ InvalidateLists({found.id, Message.arg})
       \/ /\ outrun' = outrun \cup {<<"list", Message.arg>>}
          /\ UNCHANGED list
    /\ UNCHANGED <<storeVars, byIndex, byId, misled>> /\ Rest

InsertMapping ==
    /\ pc = "InsertMapping"
    /\ IF item = None \/ found.id # item.id \/ Message.arg \in mapped THEN Fail
       ELSE /\ Advance
            /\ mapped' = mapped \cup {Message.arg}
            /\ found' = None
            /\ UNCHANGED <<collection, item, lastId, cacheVars, outrun, misled>>
    /\ Rest

\* handleOnChainItemRemoved: the row of the mapping is looked up by the id the
\* cache gave.  DeleteCtx does not invalidate the network's list.
HandleOnChainItemRemoved ==
    /\ Handling("OnChainItemRemoved")
    /\ \E row \in {byIndex, item} :
          /\ ItemByIndex(row)
          /\ Misled(row)
          /\ IF row = None THEN FailHere ELSE Advance
          /\ mapped' = IF row # None /\ item # None /\ row.id = item.id
                       THEN mapped \ {Message.arg} ELSE mapped
    /\ UNCHANGED <<collection, item, lastId, found, list>> /\ Rest

\* handleSeedCreated and handleSeedRemoved, which leaves another seed alone.
HandleSeed ==
    /\ Handling("SeedCreated") \/ Handling("SeedRemoved")
    /\ \/ item = None /\ Fail
       \/ /\ LockAndInvalidate
          /\ Goto("CommitSeed")
          /\ UNCHANGED <<collection, item, mapped, lastId, list, misled>>
    /\ Rest

SeedAfter(m, seed) ==
    IF m.type = "SeedCreated" THEN m.arg ELSE IF seed = m.arg THEN None ELSE seed

CommitSeed ==
    /\ pc = "CommitSeed"
    /\ Advance
    /\ item' = [item EXCEPT !.seed = SeedAfter(Message, found.seed)]
    /\ found' = None
    /\ UNCHANGED <<collection, mapped, lastId, cacheVars, outrun, misled>> /\ Rest

-----------------------------------------------------------------------------
(* The other writers and readers *)

\* The collections indexer saves the collection.
CollectionIndexed ==
    /\ ~collection
    /\ collection' = TRUE
    /\ UNCHANGED <<queueVars, chain, item, mapped, lastId, found, cacheVars, request,
                   outrun, misled>>

\* chain_list, after a miss: the mappings of a network, which are cached
\* unless there are none.
MappingsByNetwork(n) ==
    /\ request = None
    /\ n \in mapped
    /\ request' = [kind |-> "list", network |-> n, ids |-> {item.id}]
    /\ UNCHANGED <<queueVars, chain, storeVars, cacheVars, outrun, misled>>

\* chain_list, after a miss: an item on one of the lists.
ItemByID ==
    /\ request = None
    /\ item # None
    /\ request' = [kind |-> "item", row |-> item]
    /\ UNCHANGED <<queueVars, chain, storeVars, cacheVars, outrun, misled>>

\* A list outlives an insert if the insert happened after the list was read,
\* or is about to happen and has invalidated the lists already.
FillCache ==
    /\ request # None
    /\ request' = None
    /\ \/ /\ request.kind = "list"
          /\ list' = [list EXCEPT ![request.network] = request.ids]
          /\ outrun' = IF /\ request.network \in mapped => item.id \in request.ids
                          /\ pc # "InsertMapping"
                       THEN outrun \ {<<"list", request.network>>}
                       ELSE outrun \cup {<<"list", request.network>>}
          /\ UNCHANGED <<byIndex, byId>>
       \/ /\ request.kind = "item"
          /\ CacheItem(request.row)
          /\ UNCHANGED list
    /\ UNCHANGED <<queueVars, chain, storeVars, misled>>

\* The batch is over, or begins again.
Consuming ==
    /\ \/ \E n \in 1..BatchSize : TakeBatch(n) /\ UNCHANGED found
       \/ AckBatch /\ UNCHANGED found
       \/ CallFails /\ found' = None
       \/ Crash /\ found' = None
       \/ \E m \in emitted : Repeat(m) /\ UNCHANGED found
    /\ UNCHANGED <<chain, collection, item, mapped, lastId, cacheVars, request,
                   outrun, misled>>

Next ==
    \/ ChainEvent \/ Consuming
    \/ HandleItemCreated \/ FindCollection \/ SaveCollection \/ InsertItem
    \/ HandleItemRemoved \/ CommitRemoval
    \/ HandleOnChainItemCreated \/ InvalidateMapping \/ InsertMapping
    \/ HandleOnChainItemRemoved
    \/ HandleSeed \/ CommitSeed
    \/ CollectionIndexed
    \/ \E n \in Networks : MappingsByNetwork(n)
    \/ ItemByID \/ FillCache

Spec == Init /\ [][Next]_vars

-----------------------------------------------------------------------------
(* Properties *)

Messages ==
    [type : {"ItemCreated", "ItemRemoved"}, arg : {None}]
    \cup [type : {"OnChainItemCreated", "OnChainItemRemoved"}, arg : Networks]
    \cup [type : {"SeedCreated", "SeedRemoved"}, arg : Seeds]

Labels == {"FindCollection", "SaveCollection", "InsertItem", "CommitRemoval",
           "InvalidateMapping", "InsertMapping", "CommitSeed"}

TypeOK ==
    /\ QueueTypeOK(Messages, Labels)
    /\ chain \in [exists : BOOLEAN, seed : Seeds \cup {None}, on : SUBSET Networks]
    /\ collection \in BOOLEAN
    /\ item \in Row \cup {None}
    /\ mapped \subseteq Supported
    /\ mapped # {} => item # None
    /\ lastId \in 0..MaxIds
    /\ found \in [id : 0..MaxIds, seed : Seeds \cup {None}] \cup {None}
    /\ byIndex \in Row \cup {None}
    /\ byId \in [Ids -> Row \cup {None}]
    /\ list \in [Networks -> (SUBSET Ids) \cup {None}]
    /\ request \in [kind : {"list"}, network : Networks, ids : SUBSET Ids]
                   \cup [kind : {"item"}, row : Row] \cup {None}
    /\ outrun \subseteq ({"index"} \X {0}) \cup ({"id"} \X Ids) \cup ({"list"} \X Networks)
    /\ misled \in BOOLEAN

\* When every event has been handled and none was given up, repeated or taken
\* out of order, the tables show the item as it is on the chain, although the
\* handlers look up the chain's state at another time than the event's,
\* provided no handler took an outdated cached row for the item's.
QuietIsChain ==
    Quiet /\ ~lost /\ ~disturbed /\ ~misled =>
        /\ chain.exists <=> item # None
        /\ item # None => item.seed = chain.seed
        /\ mapped = chain.on \cap Supported

\* A cached item is the row of the table, unless it was cached from a row read
\* before a write, or between the invalidation and the commit, or the
\* invalidation was lost.
CachedItemFresh ==
    /\ byIndex \in {item, None} \/ <<"index", 0>> \in outrun
    /\ \A i \in Ids : byId[i] \in {None, item} \/ <<"id", i>> \in outrun

\* A cached list of a network's items lacks a mapping of the table only if it
\* was cached too late or between the invalidation and the insert.  The
\* opposite does not hold: nothing takes a removed mapping off the list.
CachedListComplete ==
    \A n \in mapped : list[n] # None => item.id \in list[n] \/ <<"list", n>> \in outrun
=============================================================================
