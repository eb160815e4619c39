---------------------------- MODULE GenesisSaver ----------------------------
(***************************************************************************)
(* ParseAndSaveGenesis of services/tokenmanager_saver.go, which the items  *)
(* indexer, the collections indexer and the command that runs both call    *)
(* before anything else (cli/main.go:99,128,132), each in a process of its *)
(* own and on one database.  An error panics, so that the process ends and *)
(* has to be started again.                                                *)
(*                                                                         *)
(* The collections and items of the genesis file are numbered in its       *)
(* order.  The database refuses the on-chain data of some of them as a     *)
(* whole: a chain horizon does not know leaves a zero row in the batch,    *)
(* which refers to no collection or item, and an empty batch is no valid   *)
(* statement.  The `disabled` of the configuration is logged and nothing   *)
(* else.                                                                   *)
(***************************************************************************)
EXTENDS Naturals

CONSTANTS
    Savers,             \* the processes that load the genesis file
    NumCollections,     \* collections in the file
    NumItems,           \* items in the file
    MaxCrashes          \* bound: failed calls and crashes

ASSUME GenesisAssumption == NumCollections \in Nat /\ NumItems \in Nat

Collections == 1..NumCollections
Items == 1..NumItems

\* Is the file there, and what does the database refuse of it?
Files == [there : BOOLEAN, collections : SUBSET Collections, items : SUBSET Items]

VARIABLES
    file,               \* the file: is it there, what is refused of it
    parsed,             \* the value of the key is_genesis_parsed
    collections,        \* collections with a row
    data,               \* collections with their rows in collection_chain_mappings
    items,              \* items with a row
    mappings,           \* items with their rows in item_chain_mappings
    pc,                 \* where each saver stands
    at,                 \* the next collection or item of its loop
    remembered,         \* the items it inserted and has no mappings for yet
    left,               \* history: items remembered by a saver that ended
    crashes             \* number of failed calls and crashes

tables == <<collections, data, items, mappings>>
vars == <<file, parsed, tables, pc, at, remembered, left, crashes>>

Init ==
    /\ file \in Files
    /\ parsed = "unset"
    /\ collections = {} /\ data = {} /\ items = {} /\ mappings = {}
    /\ pc = [s \in Savers |-> "idle"]
    /\ at = [s \in Savers |-> 1]
    /\ remembered = [s \in Savers |-> {}]
    /\ left = {}
    /\ crashes = 0

-----------------------------------------------------------------------------
Goto(s, label) == pc' = [pc EXCEPT ![s] = label] /\ UNCHANGED <<file, crashes>>
Proceed(s) == at' = [at EXCEPT ![s] = @ + 1]

\* The process ends; an open transaction is rolled back.
End(s) ==
    /\ pc' = [pc EXCEPT ![s] = "dead"]
    /\ at' = [at EXCEPT ![s] = 1]
    /\ remembered' = [remembered EXCEPT ![s] = {}]
    /\ left' = left \cup remembered[s]
    /\ UNCHANGED <<file, parsed, tables>>

Panic(s) == End(s) /\ UNCHANGED crashes

\* getIsParsed: the key is set to false where it is missing, and never to true.
Start(s) ==
    /\ pc[s] = "idle"
    /\ IF parsed = "true" THEN Goto(s, "done") /\ UNCHANGED parsed
       ELSE /\ Goto(s, IF file.there THEN "collections" ELSE "nofile")
            /\ parsed' = "false"
    /\ UNCHANGED <<tables, at, remembered, left>>

\* GenesisState is nil.
NoFile(s) == pc[s] = "nofile" /\ Panic(s)

\* saveGenesisCollections: a collection that is there is passed over.
LookForCollection(s) ==
    /\ pc[s] = "collections"
    /\ at[s] <= NumCollections
    /\ IF at[s] \in collections THEN Proceed(s) /\ UNCHANGED <<pc, file, crashes>>
       ELSE Goto(s, "insertCollection") /\ UNCHANGED at
    /\ UNCHANGED <<parsed, tables, remembered, left>>

\* A transaction begins with the collection, which no other saver is inserting
\* at the moment: an insert of the same index waits for the end of the other
\* transaction.
InsertCollection(s) ==
    /\ pc[s] = "insertCollection"
    /\ \A r \in Savers : ~(pc[r] = "insertData" /\ at[r] = at[s])
    /\ IF at[s] \in collections THEN Panic(s)
       ELSE /\ Goto(s, "insertData")
            /\ UNCHANGED <<parsed, tables, at, remembered, left>>

\* saveCollectionData, and the commit.
InsertData(s) ==
    /\ pc[s] = "insertData"
    /\ IF at[s] \in file.collections THEN Panic(s)
       ELSE /\ Goto(s, "collections")
            /\ Proceed(s)
            /\ collections' = collections \cup {at[s]}
            /\ data' = data \cup {at[s]}
            /\ UNCHANGED <<parsed, items, mappings, remembered, left>>

\* Mutant: the second loop begins where the first one ended.
CollectionsDoneOnly(s) ==
    /\ pc[s] = "collections"
    /\ at[s] > NumCollections
    /\ Goto(s, "items")
    /\ UNCHANGED <<parsed, tables, at, remembered, left>>

CollectionsDone(s) ==
    /\ pc[s] = "collections"
    /\ at[s] > NumCollections
    /\ Goto(s, "items")
    /\ at' = [at EXCEPT ![s] = 1]
    /\ UNCHANGED <<parsed, tables, remembered, left>>

-----------------------------------------------------------------------------
\* Mutant: the loop goes one item too far.
LookBeyondItems(s) ==
    /\ pc[s] = "items"
    /\ at[s] <= NumItems + 1
    /\ IF at[s] \in items THEN Proceed(s) /\ UNCHANGED <<pc, file, crashes>>
       ELSE Goto(s, "insertItem") /\ UNCHANGED at
    /\ UNCHANGED <<parsed, tables, remembered, left>>

\* Mutant: whether the item is there is not asked.
LookForNoItem(s) ==
    /\ pc[s] = "items"
    /\ at[s] <= NumItems
    /\ Goto(s, "insertItem")
    /\ UNCHANGED <<parsed, tables, at, remembered, left>>

\* saveGenesisItems: an item that is there is passed over, with or without
\* its mappings.
LookForItem(s) ==
    /\ pc[s] = "items"
    /\ at[s] <= NumItems
    /\ IF at[s] \in items THEN Proceed(s) /\ UNCHANGED <<pc, file, crashes>>
       ELSE Goto(s, "insertItem") /\ UNCHANGED at
    /\ UNCHANGED <<parsed, tables, remembered, left>>

\* Mutant: the item is not remembered.
InsertAndForget(s) ==
    /\ pc[s] = "insertItem"
    /\ Goto(s, "items")
    /\ Proceed(s)
    /\ items' = items \cup {at[s]}
    /\ UNCHANGED <<parsed, collections, data, mappings, remembered, left>>

\* SaveItem, whose collection is there, without a transaction.
InsertItem(s) ==
    /\ pc[s] = "insertItem"
    /\ IF at[s] \in items THEN Panic(s)
       ELSE /\ Goto(s, "items")
            /\ Proceed(s)
            /\ items' = items \cup {at[s]}
            /\ remembered' = [remembered EXCEPT ![s] = @ \cup {at[s]}]
            /\ UNCHANGED <<parsed, collections, data, mappings, left>>

ItemsDone(s) ==
    /\ pc[s] = "items"
    /\ at[s] > NumItems
    /\ Goto(s, "mappings")
    /\ UNCHANGED <<parsed, tables, at, remembered, left>>

\* saveOnChainItems, in the order in which a Go map is walked.
InsertMappings(s) ==
    /\ pc[s] = "mappings"
    /\ \E i \in remembered[s] :
          IF i \in file.items THEN Panic(s)
          ELSE /\ mappings' = mappings \cup {i}
               /\ remembered' = [remembered EXCEPT ![s] = @ \ {i}]
               /\ UNCHANGED <<file, parsed, collections, data, items, pc, at, left, crashes>>

MappingsDone(s) ==
    /\ pc[s] = "mappings"
    /\ remembered[s] = {}
    /\ Goto(s, "done")
    /\ UNCHANGED <<parsed, tables, at, remembered, left>>

-----------------------------------------------------------------------------
\* A call fails, or the process is killed.
Crash(s) ==
    /\ pc[s] \notin {"done", "dead"}
    /\ crashes < MaxCrashes
    /\ crashes' = crashes + 1
    /\ End(s)

Restart(s) ==
    /\ pc[s] = "dead"
    /\ Goto(s, "idle")
    /\ UNCHANGED <<parsed, tables, at, remembered, left>>

Step(s) ==
    \/ Start(s) \/ NoFile(s)
    \/ LookForCollection(s) \/ InsertCollection(s) \/ InsertData(s) \/ CollectionsDone(s)
    \/ LookForItem(s) \/ InsertItem(s) \/ ItemsDone(s)
    \/ InsertMappings(s) \/ MappingsDone(s)
    \/ Restart(s)

Next == \E s \in Savers : Step(s) \/ Crash(s)

Fairness == \A s \in Savers : WF_vars(Step(s))

Spec == Init /\ [][Next]_vars /\ Fairness

-----------------------------------------------------------------------------
(* Properties *)

TypeOK ==
    /\ file \in Files
    /\ parsed \in {"unset", "false"}
    /\ data \subseteq Collections /\ items \subseteq Items /\ mappings \subseteq Items
    /\ pc \in [Savers -> {"idle", "nofile", "collections", "insertCollection",
                          "insertData", "items", "insertItem", "mappings", "done", "dead"}]
    /\ at \in [Savers -> 1..(NumCollections + NumItems + 1)]
    /\ \A s \in Savers :
          /\ pc[s] \in {"insertCollection", "insertData"} => at[s] \in Collections
          /\ pc[s] = "insertItem" => at[s] \in Items
    /\ remembered \in [Savers -> SUBSET Items]
    /\ left \subseteq Items
    /\ crashes \in Nat

\* Each item that was inserted has its mappings, or one saver still has them
\* to insert, or that saver ended before it came to them, which is then for
\* good: no saver ever looks at the mappings of an item that is there.
MissingMappingsAreLeft ==
    /\ \A i \in items : i \in mappings \/ i \in left \/ \E s \in Savers : i \in remembered[s]
    /\ mappings \cap left = {}
    /\ \A s \in Savers : remembered[s] \cap (mappings \cup left) = {}
    /\ \A s, r \in Savers : s # r => remembered[s] \cap remembered[r] = {}

\* A saver that has passed the collections leaves every one in the tables with
\* its data, however many savers there are and whatever becomes of them; a
\* saver that is done leaves every item there.
DoneIsSaved ==
    /\ collections = data
    /\ \A s \in Savers :
          /\ pc[s] \in {"items", "insertItem", "mappings", "done"} => collections = Collections
          /\ pc[s] \in {"mappings", "done"} => items = Items

\* Every saver is done at last: neither the others nor a refused item stop it
\* for good.  Only a missing file and a refused collection do.
SaversFinish ==
    (file.there /\ file.collections = {}) => \A s \in Savers : <>(pc[s] = "done")
=============================================================================
