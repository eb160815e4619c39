-------------------------- MODULE CollectionsIndexer --------------------------
(***************************************************************************)
(* The collections indexer, services/collections_indexer.go, with the      *)
(* cached queries it makes, cachedpg/collections.go and                    *)
(* collection_chain_mappings.go, and SaveItem of                           *)
(* tokenmanager_saver.go, by which the items indexer finds or saves the    *)
(* collection of an item at the same time and through the same cache.  One *)
(* collection, which may be removed and created again under a new id.      *)
(*                                                                         *)
(* The mappings are read for update only, so what the cache holds of them  *)
(* is never used and left out.  As in ItemsIndexer the chain's state is    *)
(* looked up when an event is handled.                                     *)
(***************************************************************************)
EXTENDS EventQueue

CONSTANTS
    Networks,           \* the chains of the core
    Supported,          \* those that horizon knows
    Values,             \* the data of a collection on a network
    None,               \* no row, no entry, no data
    MaxItems,           \* bound: items saved by the items indexer
    MaxIds              \* bound: rows the collection ever has

VARIABLES
    chain,              \* the collection and its data on the core chain
    row,                \* the id of the collection's row
    mapping,            \* its rows in collection_chain_mappings
    lastId,             \* the last id given to a row
    cached,             \* the id in the cached collection
    found,              \* the id the handler has in hand
    value,              \* the data the handler got from the core
    saver,              \* the items indexer in SaveItem
    item,               \* is there an item of the collection?
    items,              \* number of items saved
    late,               \* history: SaveItem saved what was gone from the chain
    misled,             \* history: an outdated entry was taken for the row
    outrun              \* history: the entry outlived a removal

storeVars == <<row, mapping, lastId>>
handlerVars == <<found, value>>
saverVars == <<saver, item, items, late>>
vars == <<queueVars, chain, storeVars, cached, handlerVars, saverVars, misled, outrun>>

Ids == 1..MaxIds
NoData == [n \in Networks |-> None]

ASSUME CollectionsIndexerAssumption ==
    /\ MaxItems \in Nat
    /\ MaxIds \in Nat
    /\ None \notin Networks /\ None \notin Values /\ None \notin Ids

Init ==
    /\ QueueInit
    /\ chain = [exists |-> FALSE, data |-> NoData]
    /\ row = None /\ mapping = NoData /\ lastId = 0
    /\ cached = None
    /\ found = None /\ value = None
    /\ saver = [step |-> "idle", id |-> None] /\ item = FALSE /\ items = 0
    /\ late = FALSE
    /\ misled = FALSE /\ outrun = FALSE

-----------------------------------------------------------------------------
(* The core chain *)

ChainStep(m, next) ==
    /\ Emit(m)
    /\ chain' = next
    /\ UNCHANGED <<storeVars, cached, handlerVars, saverVars, misled, outrun>>

\* The message made of an event of the collection or of its data on a network.
Event(type, network) == [type |-> type, network |-> network]

ChainEvent ==
    \/ /\ ~chain.exists
       /\ ChainStep(Event("CollectionCreated", None), [chain EXCEPT !.exists = TRUE])
    \/ /\ chain.exists
       /\ ChainStep(Event("CollectionRemoved", None), [exists |-> FALSE, data |-> NoData])
    \/ /\ chain.exists
       /\ \E n \in Networks, v \in Values :
             /\ chain.data[n] # v
             /\ ChainStep(Event(IF chain.data[n] = None THEN "CollectionDataCreated"
                                ELSE "CollectionDataUpdated", n),
                          [chain EXCEPT !.data[n] = v])
    \/ \E n \in Networks :
          /\ chain.data[n] # None
          /\ ChainStep(Event("CollectionDataRemoved", n), [chain EXCEPT !.data[n] = None])

-----------------------------------------------------------------------------
(* The cached queries *)

\* CollectionByIndexCtx without a lock, by the handler: from the cache, or
\* from the table into the cache.  Redis may fail to answer, and then the table
\* is asked although something is cached, and it may fail to take the row.
CollectionByIndex(id) ==
    /\ \/ cached # None /\ id = cached /\ UNCHANGED <<cached, outrun>>
       \/ row # None /\ id = row /\ cached' = row /\ outrun' = FALSE
       \/ id = row /\ UNCHANGED <<cached, outrun>>
    /\ misled' = (misled \/ id \notin {row, None})

-----------------------------------------------------------------------------
(* The handlers *)

Rest == UNCHANGED <<chain, saverVars>>
Fail == FailHere /\ UNCHANGED <<storeVars, cached, handlerVars, misled, outrun>>

\* handleCollectionCreated: a collection that is gone reads as nil and panics.
HandleCreated ==
    /\ Handling("CollectionCreated")
    /\ IF ~chain.exists THEN Fail
       ELSE /\ Goto("InsertCollection")
            /\ UNCHANGED <<storeVars, cached, handlerVars, misled, outrun>>
    /\ Rest

\* SaveCollection: the items indexer may have been faster.
InsertCollection ==
    /\ pc = "InsertCollection"
    /\ lastId < MaxIds
    /\ IF row # None THEN Fail
       ELSE /\ Advance
            /\ lastId' = lastId + 1
            /\ row' = lastId + 1
            /\ UNCHANGED <<mapping, cached, handlerVars, misled, outrun>>
    /\ Rest

\* Mutant: the cached collection is not invalidated.
LockForRemoval ==
    /\ Handling("CollectionRemoved")
    /\ IF row = None THEN Fail
       ELSE /\ IF item THEN FailHere ELSE Goto("CommitRemoval")
            /\ UNCHANGED <<storeVars, cached, handlerVars, misled, outrun>>
    /\ Rest

\* handleCollectionRemoved: the row is locked, cached, and invalidated by its
\* id; Redis may refuse the invalidation, and to take the row as well.  An item
\* of the collection, which has a foreign key, makes the removal fail; an
\* unknown collection panics.
HandleRemoved ==
    /\ Handling("CollectionRemoved")
    /\ IF row = None THEN Fail
       ELSE /\ IF item THEN FailHere ELSE Goto("CommitRemoval")
            /\ \/ cached' = None /\ outrun' = FALSE
               \/ cached' = row /\ outrun' = TRUE
               \/ UNCHANGED cached /\ outrun' = (outrun \/ cached # None)
            /\ UNCHANGED <<storeVars, handlerVars, misled>>
    /\ Rest

\* Mutant: the data of the collection is left behind.
CommitRemovalOfRow ==
    /\ pc = "CommitRemoval"
    /\ Advance
    /\ row' = None
    /\ UNCHANGED <<mapping, lastId, cached, handlerVars, misled, outrun>> /\ Rest

CommitRemoval ==
    /\ pc = "CommitRemoval"
    /\ Advance
    /\ row' = None /\ mapping' = NoData
    /\ UNCHANGED <<lastId, cached, handlerVars, misled, outrun>> /\ Rest

\* handleCollectionDataCreated.  An unsupported network is an error here.
HandleDataCreated ==
    /\ Handling("CollectionDataCreated")
    /\ \/ Message.network \notin Supported /\ Fail
       \/ /\ Message.network \in Supported
          /\ \E id \in {cached, row} :
                /\ CollectionByIndex(id)
                /\ IF id = None \/ chain.data[Message.network] = None
                   THEN FailHere /\ UNCHANGED handlerVars
                   ELSE /\ Goto("InsertData")
                        /\ found' = id
                        /\ value' = chain.data[Message.network]
          /\ UNCHANGED storeVars
    /\ Rest

SetMapping(n, v) ==
    /\ mapping' = [mapping EXCEPT ![n] = v]
    /\ found' = None /\ value' = None
    /\ UNCHANGED <<row, lastId, cached, misled, outrun>>

InsertData ==
    /\ pc = "InsertData"
    /\ IF found # row \/ mapping[Message.network] # None
       THEN FailHere /\ found' = None /\ value' = None
            /\ UNCHANGED <<storeVars, cached, misled, outrun>>
       ELSE Advance /\ SetMapping(Message.network, value)
    /\ Rest

MappingOf(id, n) == IF id = row /\ id # None THEN mapping[n] ELSE None

\* handleCollectionDataUpdated: everything that is missing is an error, data
\* that is gone from the chain a panic.
HandleDataUpdated ==
    /\ Handling("CollectionDataUpdated")
    /\ \E id \in {cached, row} :
          /\ CollectionByIndex(id)
          /\ IF \/ Message.network \notin Supported
                \/ MappingOf(id, Message.network) = None
                \/ chain.data[Message.network] = None
             THEN FailHere /\ UNCHANGED handlerVars
             ELSE /\ Goto("UpsertData")
                  /\ found' = id
                  /\ value' = chain.data[Message.network]
    /\ UNCHANGED storeVars /\ Rest

\* Mutant: the data is inserted, not upserted.
InsertUpdate ==
    /\ pc = "UpsertData"
    /\ FailHere
    /\ found' = None /\ value' = None
    /\ UNCHANGED <<storeVars, cached, misled, outrun>>
    /\ Rest

UpsertData ==
    /\ pc = "UpsertData"
    /\ Advance
    /\ SetMapping(Message.network, value)
    /\ Rest

\* handleCollectionDataRemoved: a mapping that is missing is left at that.
HandleDataRemoved ==
    /\ Handling("CollectionDataRemoved")
    /\ \E id \in {cached, row} :
          /\ CollectionByIndex(id)
          /\ IF id = None \/ Message.network \notin Supported THEN FailHere ELSE Advance
          /\ mapping' = IF MappingOf(id, Message.network) = None THEN mapping
                        ELSE [mapping EXCEPT ![Message.network] = None]
    /\ UNCHANGED <<row, lastId, handlerVars>> /\ Rest

-----------------------------------------------------------------------------
(* SaveItem, in the items indexer, for an item of the collection *)

SaverAt(step) == saver.step = step
SaverGoto(step, id) == saver' = [step |-> step, id |-> id]
SaverRest == UNCHANGED <<queueVars, chain, mapping, handlerVars>>

\* The cached collection, or, when there is none or Redis fails to answer, the
\* row, which is then cached, or none.
SaverFinds ==
    /\ SaverAt("idle")
    /\ items < MaxItems
    /\ emitted # {}
    /\ items' = items + 1
    /\ \/ /\ cached # None /\ SaverGoto("insert", cached)
          /\ misled' = (misled \/ cached # row)
       \/ /\ IF row # None THEN SaverGoto("cache", row) ELSE SaverGoto("get", None)
          /\ UNCHANGED misled
    /\ UNCHANGED <<row, lastId, cached, item, late, outrun>> /\ SaverRest

SaverCaches ==
    /\ SaverAt("cache")
    /\ SaverGoto("insert", saver.id)
    /\ \/ cached' = saver.id /\ outrun' = (saver.id # row \/ pc = "CommitRemoval")
       \/ UNCHANGED <<cached, outrun>>          \* Redis fails
    /\ UNCHANGED <<row, lastId, item, items, late, misled>> /\ SaverRest

\* GetCollection: a collection that is gone reads as nil and panics.
SaverGets ==
    /\ SaverAt("get")
    /\ SaverGoto(IF chain.exists THEN "save" ELSE "idle", None)
    /\ UNCHANGED <<row, lastId, cached, item, items, late, misled, outrun>> /\ SaverRest

\* SaveCollection fails if the collections indexer was faster.
SaverSaves ==
    /\ SaverAt("save")
    /\ lastId < MaxIds
    /\ IF row # None
       THEN SaverGoto("idle", None) /\ UNCHANGED <<row, lastId, late>>
       ELSE /\ lastId' = lastId + 1
            /\ row' = lastId + 1
            /\ late' = (late \/ ~chain.exists)
            /\ SaverGoto("insert", lastId + 1)
    /\ UNCHANGED <<cached, item, items, misled, outrun>> /\ SaverRest

\* The item refers to the row, which must not be locked by its removal.
SaverInserts ==
    /\ SaverAt("insert")
    /\ pc # "CommitRemoval"
    /\ item' = (item \/ saver.id = row)
    /\ SaverGoto("idle", None)
    /\ UNCHANGED <<row, lastId, cached, items, late, misled, outrun>> /\ SaverRest

\* handleItemRemoved of the items indexer.
ItemRemoved ==
    /\ item
    /\ item' = FALSE
    /\ UNCHANGED <<queueVars, chain, storeVars, cached, handlerVars, saver, items,
                   late, misled, outrun>>

-----------------------------------------------------------------------------
Consuming ==
    /\ \/ \E n \in 1..BatchSize : TakeBatch(n) /\ UNCHANGED handlerVars
       \/ AckBatch /\ UNCHANGED handlerVars
       \/ CallFails /\ found' = None /\ value' = None
       \/ Crash /\ found' = None /\ value' = None
       \/ \E m \in emitted : Repeat(m) /\ UNCHANGED handlerVars
    /\ UNCHANGED <<chain, storeVars, cached, saverVars, misled, outrun>>

Next ==
    \/ ChainEvent \/ Consuming
    \/ HandleCreated \/ InsertCollection
    \/ HandleRemoved \/ CommitRemoval
    \/ HandleDataCreated \/ InsertData
    \/ HandleDataUpdated \/ UpsertData
    \/ HandleDataRemoved
    \/ SaverFinds \/ SaverCaches \/ SaverGets \/ SaverSaves \/ SaverInserts
    \/ ItemRemoved

Spec == Init /\ [][Next]_vars

-----------------------------------------------------------------------------
(* Properties *)

Messages ==
    [type : {"CollectionCreated", "CollectionRemoved"}, network : {None}]
    \cup [type : {"CollectionDataCreated", "CollectionDataUpdated", "CollectionDataRemoved"},
          network : Networks]

Labels == {"InsertCollection", "CommitRemoval", "InsertData", "UpsertData"}

TypeOK ==
    /\ QueueTypeOK(Messages, Labels)
    /\ chain \in [exists : BOOLEAN, data : [Networks -> Values \cup {None}]]
    /\ row \in Ids \cup {None} /\ lastId \in 0..MaxIds
    /\ mapping \in [Networks -> Values \cup {None}]
    /\ row = None => mapping = NoData /\ ~item
    /\ cached \in Ids \cup {None}
    /\ found \in Ids \cup {None} /\ value \in Values \cup {None}
    /\ saver \in [step : {"idle", "cache", "get", "save", "insert"}, id : Ids \cup {None}]
    /\ item \in BOOLEAN /\ items \in 0..MaxItems /\ late \in BOOLEAN
    /\ misled \in BOOLEAN /\ outrun \in BOOLEAN

Supports(data) == [n \in Networks |-> IF n \in Supported THEN data[n] ELSE None]

\* When every event has been handled and none was given up, repeated or taken
\* out of order, the tables show the collection and its data as they are on
\* the chain, unless a handler took an outdated cached row for the
\* collection's, or SaveItem saved a collection that was gone from the chain.
QuietIsChain ==
    Quiet /\ ~lost /\ ~disturbed /\ ~misled /\ ~late =>
        /\ chain.exists <=> row # None
        /\ mapping = Supports(chain.data)

\* The cached collection is the one of the table, unless it was cached from a
\* row that had been removed since, or between the invalidation and the commit
\* of its removal, or the invalidation was lost.
CachedCollectionFresh == cached \in {row, None} \/ outrun

\* Without a failing call, a crash or a repeated event, a batch is given up
\* only if the collection or its data went from the chain, if they are on a
\* network horizon does not know, or if SaveItem was faster in saving the
\* collection.
LostForAReason ==
    lost =>
        \/ faults > 0
        \/ items > 0
        \/ \E m \in emitted : \/ m.type \in {"CollectionRemoved", "CollectionDataRemoved"}
                              \/ m.network \in Networks \ Supported
=============================================================================
