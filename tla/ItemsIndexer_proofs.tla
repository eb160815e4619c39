------------------------- MODULE ItemsIndexer_proofs -------------------------
(***************************************************************************)
(* Proofs about ItemsIndexer, for any networks, seeds, batch sizes, events *)
(* and faults.                                                             *)
(*                                                                         *)
(* The entries of the cache are fresh because a write locks the row and    *)
(* drops its entries first, and who caches a row later knows whether it is *)
(* outdated (ItemEntries, ListEntries; AtHand ties what the handler has in *)
(* hand to the label it stands at).                                        *)
(*                                                                         *)
(* That the tables follow the chain once all is quiet is no invariant of   *)
(* their rows alone: a batch that starts again handles messages a second   *)
(* time, and in between the tables go back to what they were.  What stays  *)
(* true is that the last message about a subject, of those being handled   *)
(* or waiting, tells the chain's state, and that the tables tell it when   *)
(* there is none left (InOrder).                                           *)
(***************************************************************************)
EXTENDS ItemsIndexer, TLAPS, SequenceTheorems
-----------------------------------------------------------------------------
(* The inductive invariant *)

\* What the labels of the handlers say of the message and of the row in hand.
AtHand ==
    /\ pc = "idle" => batch = << >> /\ idx = 1
    /\ pc \in {"FindCollection", "SaveCollection", "InsertItem"} =>
           /\ Message.type = "ItemCreated"
           /\ found \in [id : {0}, seed : Seeds \cup {None}]
    /\ pc = "CommitRemoval" => Message.type = "ItemRemoved"
    /\ pc = "CommitSeed" => Message.type \in {"SeedCreated", "SeedRemoved"}
    /\ pc \in {"CommitRemoval", "CommitSeed"} => item # None /\ found = item
    /\ pc \in {"InvalidateMapping", "InsertMapping"} =>
           /\ Message.type = "OnChainItemCreated"
           /\ Message.arg \in Supported
           /\ found \in Row

\* Mappings are those of networks.
MappedTypes == mapped \subseteq Networks

\* An entry that no write outlived is the row, and there is none while a
\* transaction that has invalidated it is about to commit.
FreshUnder(entry, key) ==
    \/ key \in outrun
    \/ entry = None
    \/ entry = item /\ pc \notin {"CommitRemoval", "CommitSeed"}

ItemEntries ==
    /\ FreshUnder(byIndex, <<"index", 0>>)
    /\ \A i \in Ids : FreshUnder(byId[i], <<"id", i>>)
    /\ \A i \in Ids : byId[i] # None => byId[i].id = i

\* A list that misses a mapping, or the one that is about to be inserted, is
\* known to have outlived the write.
ListEntries ==
    \A n \in Networks :
        list[n] = None \/ <<"list", n>> \in outrun
        \/ /\ n \in mapped => item.id \in list[n]
           /\ ~ (pc = "InsertMapping" /\ Message.arg = n)

\* The messages that are being handled or wait, in their order.
Backlog == batch \o queue

ItemMessages == {m \in Messages : m.type \in {"ItemCreated", "ItemRemoved"}}
SeedMessages == {m \in Messages : m.type \in {"ItemCreated", "ItemRemoved",
                                              "SeedCreated", "SeedRemoved"}}
MappingMessages(n) ==
    {m \in Messages : \/ m.type = "ItemRemoved"
                      \/ /\ m.type \in {"OnChainItemCreated", "OnChainItemRemoved"}
                         /\ m.arg = n}

\* No element of R among s[i], ..., s[j].
NoneOf(R, s, i, j) == \A k \in i..j : s[k] \notin R

\* The last element of R in s is s[k].
LastOf(R, s, k) == k \in 1..Len(s) /\ s[k] \in R /\ NoneOf(R, s, k + 1, Len(s))

\* No message of R is left to handle.
Done(R) == NoneOf(R, Backlog, idx, Len(Backlog))

\* Without the item there is nothing of it.
ChainShape == ~chain.exists => chain.seed = None /\ chain.on = {}

\* The last message of the item says whether it exists; when there is none
\* left, the table says so.
ItemInOrder ==
    /\ \A k \in 1..Len(Backlog) :
           LastOf(ItemMessages, Backlog, k) =>
               (Backlog[k].type = "ItemCreated" <=> chain.exists)
    /\ Done(ItemMessages) => (item # None <=> chain.exists)

\* The last message of the seed tells the seed.
SeedTold(m) ==
    /\ m.type = "ItemRemoved" => ~chain.exists
    /\ m.type = "SeedCreated" => chain.seed = m.arg
    /\ m.type \in {"ItemCreated", "SeedRemoved"} => chain.seed = None

SeedInOrder ==
    /\ \A k \in 1..Len(Backlog) :
           LastOf(SeedMessages, Backlog, k) => SeedTold(Backlog[k])
    /\ Done(SeedMessages) => (item # None => item.seed = chain.seed)

\* The seed that is about to be saved is the chain's, unless a message of it
\* comes later.
SeedAtHand ==
    pc \in {"FindCollection", "SaveCollection", "InsertItem"} =>
        (NoneOf(SeedMessages, Backlog, idx + 1, Len(Backlog)) => found.seed = chain.seed)

\* The last message removes the seed that the one before it created, which
\* is the one in the table, or none, when it is handled.
SeedRemovals ==
    \A k \in 1..Len(Backlog) :
        LastOf(SeedMessages, Backlog, k) /\ Backlog[k].type = "SeedRemoved" =>
            /\ \A j \in 1..(k - 1) :
                   Backlog[j] \in SeedMessages /\ NoneOf(SeedMessages, Backlog, j + 1, k - 1) =>
                       Backlog[j].type = "SeedCreated" /\ Backlog[j].arg = Backlog[k].arg
            /\ idx <= k /\ NoneOf(SeedMessages, Backlog, idx, k - 1) =>
                   (item # None => item.seed \in {None, Backlog[k].arg})

\* The last message of a mapping says whether the item is on the network;
\* when there is none left, the table says so.
MappingsInOrder ==
    \A n \in Networks :
        /\ \A k \in 1..Len(Backlog) :
               LastOf(MappingMessages(n), Backlog, k) =>
                   (Backlog[k].type = "OnChainItemCreated" <=> n \in chain.on)
        /\ Done(MappingMessages(n)) /\ n \in Supported => (n \in mapped <=> n \in chain.on)

InOrder ==
    ~lost /\ ~disturbed /\ ~misled =>
        /\ ItemInOrder
        /\ SeedInOrder
        /\ SeedAtHand
        /\ SeedRemovals
        /\ MappingsInOrder

IInv ==
    /\ TypeOK
    /\ AtHand
    /\ MappedTypes
    /\ ItemEntries
    /\ ListEntries
    /\ ChainShape
    /\ InOrder
-----------------------------------------------------------------------------
(* The queue *)

\* A message is being handled.
AtMessage == pc # "idle" /\ idx <= Len(batch)

\* The steps of the queue: nothing, a step of a handler, an event, or a step
\* of the consumer.
LEMMA QueueSteps ==
    ASSUME TypeOK, [Next]_vars
    PROVE  \/ UNCHANGED queueVars
           \/ AtMessage /\ \E l \in Labels : Goto(l)
           \/ AtMessage /\ Advance
           \/ AtMessage /\ FailHere
           \/ \E m \in Messages : Emit(m)
           \/ Consuming
<1> USE DEF AtMessage, Rest
<1>1. CASE UNCHANGED vars
    BY <1>1 DEF vars
<1>2. CASE ChainEvent
  <2>1. \A m, c : ChainStep(m, c) => Emit(m)
      BY DEF ChainStep
  <2>2. Event("ItemCreated", None) \in Messages /\ Event("ItemRemoved", None) \in Messages
      BY DEF Event, Messages
  <2>3. \A n \in Networks : /\ Event("OnChainItemCreated", n) \in Messages
                            /\ Event("OnChainItemRemoved", n) \in Messages
      BY DEF Event, Messages
  <2>4. \A s \in Seeds : /\ Event("SeedCreated", s) \in Messages
                         /\ Event("SeedRemoved", s) \in Messages
      BY DEF Event, Messages
  <2>5. chain.seed \in Seeds \cup {None} /\ chain.on \subseteq Networks
      BY DEF TypeOK
  <2>6. \E m \in Messages : Emit(m)
      BY <1>2, <2>1, <2>2, <2>3, <2>4, <2>5 DEF ChainEvent
  <2> QED BY <2>6
<1>3. CASE Consuming
    BY <1>3
<1> DEFINE Begun == pc = "next" /\ idx <= Len(batch)
<1>4. Begun \/ pc \in Labels => AtMessage
    BY DEF TypeOK, QueueTypeOK, Labels
<1>5. CASE HandleItemCreated
    BY <1>5, <1>4 DEF HandleItemCreated, Handling, Fail, Labels
<1>6. CASE FindCollection
    BY <1>6, <1>4 DEF FindCollection, Labels
<1>7. CASE SaveCollection
    BY <1>7, <1>4 DEF SaveCollection, Fail, Labels
<1>8. CASE InsertItem
    BY <1>8, <1>4 DEF InsertItem, Fail, Labels
<1>9. CASE HandleItemRemoved
    BY <1>9, <1>4 DEF HandleItemRemoved, Handling, Fail, Labels
<1>10. CASE CommitRemoval
    BY <1>10, <1>4 DEF CommitRemoval, Labels
<1>11. CASE HandleOnChainItemCreated
    BY <1>11, <1>4 DEF HandleOnChainItemCreated, Handling, Return, Labels
<1>12. CASE InvalidateMapping
    BY <1>12, <1>4 DEF InvalidateMapping, Labels
<1>13. CASE InsertMapping
    BY <1>13, <1>4 DEF InsertMapping, Fail, Labels
<1>14. CASE HandleOnChainItemRemoved
    BY <1>14, <1>4 DEF HandleOnChainItemRemoved, Handling
<1>15. CASE HandleSeed
    BY <1>15, <1>4 DEF HandleSeed, Handling, Fail, Labels
<1>16. CASE CommitSeed
    BY <1>16, <1>4 DEF CommitSeed, Labels
<1>17. CASE CollectionIndexed \/ (\E n \in Networks : MappingsByNetwork(n))
              \/ ItemByID \/ FillCache
    BY <1>17 DEF CollectionIndexed, MappingsByNetwork, ItemByID, FillCache
<1> QED BY <1>1, <1>2, <1>3, <1>5, <1>6, <1>7, <1>8, <1>9, <1>10, <1>11, <1>12,
           <1>13, <1>14, <1>15, <1>16, <1>17 DEF Next

\* What the steps of the queue preserve.
LEMMA QueueTypes ==
    ASSUME TypeOK, AtHand, [Next]_vars
    PROVE  QueueTypeOK(Messages, Labels)'
<1> USE EventQueueAssumption
<1> DEFINE OK == QueueTypeOK(Messages, Labels)
<1>0. OK
    BY DEF TypeOK
<1>a. /\ queue \in Seq(Messages) /\ batch \in Seq(Messages)
      /\ Len(queue) \in Nat /\ Len(batch) \in Nat
    BY <1>0, LenProperties DEF QueueTypeOK
<1>b. << >> \in Seq(Messages) /\ Len(<< >>) = 0
    BY EmptySeq
<1>1. CASE UNCHANGED queueVars
    BY <1>0, <1>1 DEF QueueTypeOK, queueVars
<1>2. CASE AtMessage /\ \E l \in Labels : Goto(l)
    BY <1>0, <1>2 DEF QueueTypeOK, Goto, AtMessage, Labels
<1>3. CASE AtMessage /\ Advance
  <2>1. idx' \in 1..(Len(batch) + 1)
      BY <1>0, <1>a, <1>3 DEF QueueTypeOK, Advance, AtMessage
  <2> QED BY <1>0, <2>1, <1>3 DEF QueueTypeOK, Advance
<1>c. ASSUME LetGo
      PROVE  /\ batch' \in Seq(Messages) /\ Len(batch') <= BatchSize
             /\ idx' \in 1..(Len(batch') + 1) /\ attempt' \in 1..Attempts /\ pc' = "idle"
    BY <1>c, <1>b DEF LetGo
<1>d. ASSUME FailAttempt, faults' \in 0..MaxFaults
      PROVE  OK'
  <2>1. CASE attempt < Attempts
    <3>1. attempt' \in 1..Attempts /\ idx' \in 1..(Len(batch) + 1) /\ pc' = "next"
        BY <1>0, <1>a, <1>d, <2>1 DEF QueueTypeOK, FailAttempt
    <3> QED BY <1>0, <1>d, <2>1, <3>1 DEF QueueTypeOK, FailAttempt
  <2>2. CASE ~ (attempt < Attempts)
      BY <1>0, <1>c, <1>d, <2>2 DEF QueueTypeOK, FailAttempt
  <2> QED BY <2>1, <2>2
<1>4. CASE AtMessage /\ FailHere
    BY <1>0, <1>d, <1>4 DEF FailHere, QueueTypeOK
<1>5. CASE \E m \in Messages : Emit(m)
  <2>1. PICK m \in Messages : Emit(m)
      BY <1>5
  <2>2. queue' \in Seq(Messages)
      BY <1>a, <2>1, AppendProperties DEF Emit
  <2>3. emitted' \subseteq Messages /\ events' \in 0..MaxEvents
      BY <1>0, <2>1 DEF Emit, QueueTypeOK
  <2> QED BY <1>0, <2>1, <2>2, <2>3 DEF Emit, QueueTypeOK
<1>6. CASE Consuming
  <2>1. CASE \E n \in 1..BatchSize : TakeBatch(n)
    <3>1. PICK n \in 1..BatchSize : TakeBatch(n)
        BY <2>1
    <3>2. n \in Nat /\ n <= Len(queue) /\ \A i \in 1..Len(queue) : queue[i] \in Messages
        BY <3>1, <1>a, ElementOfSeq DEF TakeBatch
    <3>3. batch' \in Seq(Messages) /\ Len(batch') = n
        BY <3>1, <3>2, <1>a, SubSeqProperties DEF TakeBatch
    <3>4. queue' \in Seq(Messages)
        BY <3>1, <3>2, <1>a, SubSeqProperties DEF TakeBatch
    <3>5. pc' = "next" /\ idx' = idx /\ idx \in 1..(n + 1)
      <4>1. idx = 1
          BY <3>1 DEF TakeBatch, AtHand
      <4> QED BY <4>1, <3>1 DEF TakeBatch
    <3> QED BY <1>0, <3>1, <3>3, <3>4, <3>5 DEF TakeBatch, QueueTypeOK
  <2>2. CASE AckBatch
      BY <1>0, <1>c, <2>2 DEF AckBatch, QueueTypeOK
  <2>3. CASE CallFails
      BY <1>0, <1>d, <2>3 DEF CallFails, QueueTypeOK
  <2>4. CASE Crash
    <3>1. queue' \in Seq(Messages)
        BY <1>a, <2>4, ConcatProperties DEF Crash
    <3>2. faults' \in 0..MaxFaults
        BY <1>0, <2>4 DEF Crash, QueueTypeOK
    <3> QED BY <1>0, <1>c, <2>4, <3>1, <3>2 DEF Crash, QueueTypeOK
  <2>5. CASE \E m \in emitted : Repeat(m)
    <3>1. PICK m \in emitted : Repeat(m)
        BY <2>5
    <3>2. m \in Messages
        BY <1>0 DEF QueueTypeOK
    <3>3. queue' \in Seq(Messages)
        BY <1>a, <3>1, <3>2, AppendProperties DEF Repeat
    <3>4. faults' \in 0..MaxFaults
        BY <1>0, <3>1 DEF Repeat, QueueTypeOK
    <3> QED BY <1>0, <3>1, <3>3, <3>4 DEF Repeat, QueueTypeOK
  <2> QED BY <1>6, <2>1, <2>2, <2>3, <2>4, <2>5 DEF Consuming
<1> QED BY QueueSteps, <1>1, <1>2, <1>3, <1>4, <1>5, <1>6
-----------------------------------------------------------------------------
(* Types *)

LEMMA MessageType ==
    ASSUME TypeOK, AtMessage
    PROVE  /\ Message \in Messages
           /\ Message.type \in {"ItemCreated", "ItemRemoved"} => Message.arg = None
           /\ Message.type \in {"OnChainItemCreated", "OnChainItemRemoved"} =>
                  Message.arg \in Networks
           /\ Message.type \in {"SeedCreated", "SeedRemoved"} => Message.arg \in Seeds
<1>1. batch \in Seq(Messages) /\ idx \in 1..Len(batch)
    BY LenProperties DEF TypeOK, QueueTypeOK, AtMessage
<1>2. Message \in Messages
    BY <1>1, ElementOfSeq DEF Message
<1> QED BY <1>2 DEF Messages

\* The entries of an item: their keys, and what caching a row does to them.
LEMMA KeysTyped ==
    ASSUME NEW i \in Ids
    PROVE  ItemKeys(i) \subseteq ({"index"} \X {0}) \cup ({"id"} \X Ids)
BY DEF ItemKeys

CacheTypes ==
    /\ byIndex \in Row \cup {None}
    /\ byId \in [Ids -> Row \cup {None}]
    /\ outrun \subseteq ({"index"} \X {0}) \cup ({"id"} \X Ids) \cup ({"list"} \X Networks)

LEMMA CacheItemTypes ==
    ASSUME CacheTypes, NEW row \in Row, CacheItem(row)
    PROVE  CacheTypes'
<1>1. row.id \in Ids
    BY DEF Row
<1>2. byIndex' \in Row \cup {None} /\ byId' \in [Ids -> Row \cup {None}]
    BY <1>1 DEF CacheItem, CacheTypes
<1>3. outrun' = outrun \ ItemKeys(row.id) \/ outrun' = outrun \cup ItemKeys(row.id)
    BY DEF CacheItem
<1> QED BY <1>1, <1>2, <1>3, KeysTyped DEF CacheTypes

LEMMA LockTypes ==
    ASSUME CacheTypes, item \in Row \cup {None}, LockAndInvalidate
    PROVE  CacheTypes' /\ found' = item /\ item \in Row
<1>1. item \in Row /\ item.id \in Ids /\ found' = item
    BY DEF LockAndInvalidate, Row
<1>2. outrun' = outrun \ ItemKeys(item.id) \/ outrun' = outrun \cup ItemKeys(item.id)
    BY DEF LockAndInvalidate
<1>3. byIndex' \in Row \cup {None} /\ byId' \in [Ids -> Row \cup {None}]
    BY <1>1 DEF LockAndInvalidate, CacheTypes
<1> QED BY <1>1, <1>2, <1>3, KeysTyped DEF CacheTypes

LEMMA ItemByIndexTypes ==
    ASSUME CacheTypes, item \in Row \cup {None}, NEW row, ItemByIndex(row)
    PROVE  CacheTypes' /\ row \in Row \cup {None}
BY CacheItemTypes DEF ItemByIndex, CacheTypes

\* The variables that are not the queue's.
DataTypes ==
    /\ chain \in [exists : BOOLEAN, seed : Seeds \cup {None}, on : SUBSET Networks]
    /\ collection \in BOOLEAN
    /\ item \in Row \cup {None}
    /\ mapped \subseteq Supported
    /\ mapped # {} => item # None
    /\ lastId \in 0..MaxIds
    /\ found \in [id : 0..MaxIds, seed : Seeds \cup {None}] \cup {None}
    /\ CacheTypes
    /\ list \in [Networks -> (SUBSET Ids) \cup {None}]
    /\ request \in [kind : {"list"}, network : Networks, ids : SUBSET Ids]
                   \cup [kind : {"item"}, row : Row] \cup {None}
    /\ misled \in BOOLEAN

LEMMA TypesSplit == TypeOK <=> QueueTypeOK(Messages, Labels) /\ DataTypes
BY DEF TypeOK, DataTypes, CacheTypes

LEMMA NextDataTypes ==
    ASSUME TypeOK, AtHand, MappedTypes, [Next]_vars
    PROVE  DataTypes'
<1> USE DEF Rest
<1>0. DataTypes /\ MaxIds \in Nat
    BY TypesSplit, ItemsIndexerAssumption
<1>a. \A r \in Row : /\ r \in [id : 0..MaxIds, seed : Seeds \cup {None}]
                     /\ r.id \in Ids
    BY <1>0 DEF Row, Ids
<1>1. CASE UNCHANGED vars
    BY <1>0, <1>1 DEF vars, storeVars, cacheVars, DataTypes, CacheTypes
<1>2. CASE ChainEvent
  <2>1. UNCHANGED <<storeVars, cacheVars, request, outrun, misled>>
      BY <1>2 DEF ChainEvent, ChainStep
  <2> DEFINE Shapes == [exists : BOOLEAN, seed : Seeds \cup {None}, on : SUBSET Networks]
  <2>a. chain \in Shapes
      BY <1>0 DEF DataTypes
  <2>b. /\ [chain EXCEPT !.exists = TRUE] \in Shapes
        /\ [exists |-> FALSE, seed |-> None, on |-> {}] \in Shapes
        /\ [chain EXCEPT !.seed = None] \in Shapes
      BY <2>a
  <2>c. \A n \in Networks : /\ [chain EXCEPT !.on = @ \cup {n}] \in Shapes
                            /\ [chain EXCEPT !.on = @ \ {n}] \in Shapes
      BY <2>a
  <2>d. \A s \in Seeds : [chain EXCEPT !.seed = s] \in Shapes
      BY <2>a
  <2>e. chain.on \subseteq Networks
      BY <2>a
  <2>f. \A m, c : ChainStep(m, c) => chain' = c
      BY DEF ChainStep
  <2> HIDE DEF Shapes
  <2>2. chain' \in Shapes
      BY <1>2, <2>b, <2>c, <2>d, <2>e, <2>f DEF ChainEvent
  <2> USE DEF Shapes
  <2> QED BY <1>0, <2>1, <2>2 DEF storeVars, cacheVars, DataTypes, CacheTypes
<1>3. CASE Consuming
  <2>1. found' \in {found, None}
      BY <1>3 DEF Consuming
  <2>2. UNCHANGED <<chain, collection, item, mapped, lastId, cacheVars, request, outrun, misled>>
      BY <1>3 DEF Consuming
  <2> QED BY <1>0, <2>1, <2>2 DEF cacheVars, DataTypes, CacheTypes
<1>b. CASE /\ UNCHANGED <<chain, request>>
           /\ UNCHANGED <<storeVars, cacheVars, outrun, misled>>
    BY <1>0, <1>b DEF storeVars, cacheVars, DataTypes, CacheTypes
<1>4. CASE HandleItemCreated
  <2>1. CASE chain.exists
    <3>1. found' \in [id : 0..MaxIds, seed : Seeds \cup {None}]
        BY <1>0, <1>4, <2>1 DEF HandleItemCreated, DataTypes
    <3> QED BY <1>0, <1>4, <2>1, <3>1 DEF HandleItemCreated, cacheVars, DataTypes, CacheTypes
  <2> QED BY <1>b, <2>1, <1>4 DEF HandleItemCreated, Fail
<1>5. CASE FindCollection
    BY <1>b, <1>5 DEF FindCollection
<1>6. CASE SaveCollection
  <2>1. CASE ~collection
      BY <1>0, <1>6, <2>1 DEF SaveCollection, cacheVars, DataTypes, CacheTypes
  <2> QED BY <1>b, <2>1, <1>6 DEF SaveCollection, Fail
<1>7. CASE InsertItem
  <2>1. CASE item = None
    <3>1. found.seed \in Seeds \cup {None}
        BY <1>7 DEF InsertItem, AtHand
    <3>2. lastId' \in 0..MaxIds /\ lastId + 1 \in Ids
        BY <1>0, <1>7, <2>1 DEF InsertItem, DataTypes, Ids
    <3>3. item' \in Row
        BY <1>7, <2>1, <3>1, <3>2 DEF InsertItem, Row
    <3>4. mapped' = {}
        BY <1>0, <1>7, <2>1 DEF InsertItem, DataTypes
    <3>5. found' = None /\ UNCHANGED <<collection, cacheVars, outrun, misled, chain, request>>
        BY <1>7, <2>1 DEF InsertItem
    <3> QED BY <1>0, <3>2, <3>3, <3>4, <3>5 DEF cacheVars, DataTypes, CacheTypes
  <2> QED BY <1>b, <2>1, <1>7 DEF InsertItem, Fail
<1>8. CASE HandleItemRemoved
  <2>2. CASE Fail
      BY <1>b, <1>8, <2>2 DEF HandleItemRemoved, Fail
  <2>3. CASE LockAndInvalidate /\ ~Fail
    <3>1. CacheTypes' /\ found' = item /\ item \in Row
        BY <1>0, <2>3, LockTypes DEF DataTypes
    <3>2. UNCHANGED <<collection, item, mapped, lastId, misled, chain, request>>
        BY <1>8, <2>3 DEF HandleItemRemoved
    <3>3. list' \in [Networks -> (SUBSET Ids) \cup {None}]
        BY <1>0, <1>8, <2>3 DEF HandleItemRemoved, DataTypes
    <3> QED BY <1>0, <1>a, <3>1, <3>2, <3>3 DEF DataTypes
  <2> QED BY <1>8, <2>2, <2>3 DEF HandleItemRemoved
<1>9. CASE CommitRemoval
    BY <1>0, <1>9 DEF CommitRemoval, cacheVars, DataTypes, CacheTypes
<1>10. CASE HandleOnChainItemCreated
  <2>1. CASE Return
      BY <1>b, <1>10, <2>1 DEF HandleOnChainItemCreated, Return
  <2>2. CASE ~Return
    <3>1. PICK row \in {byIndex, item} :
              /\ ItemByIndex(row) /\ Misled(row)
              /\ found' = found \/ (row # None /\ found' = row)
        BY <1>10, <2>2 DEF HandleOnChainItemCreated
    <3>2. CacheTypes' /\ row \in Row \cup {None}
        BY <1>0, <3>1, ItemByIndexTypes DEF DataTypes
    <3>3. misled' \in BOOLEAN
        BY <1>0, <3>1 DEF Misled, DataTypes
    <3>4. UNCHANGED <<collection, item, mapped, lastId, list, chain, request>>
        BY <1>10, <2>2 DEF HandleOnChainItemCreated
    <3>5. found' \in [id : 0..MaxIds, seed : Seeds \cup {None}] \cup {None}
        BY <1>0, <1>a, <3>1, <3>2 DEF DataTypes
    <3> QED BY <1>0, <3>2, <3>3, <3>4, <3>5 DEF DataTypes
  <2> QED BY <2>1, <2>2
<1>11. CASE InvalidateMapping
  <2>1. AtMessage /\ Message.arg \in Networks
      BY <1>11, MessageType DEF InvalidateMapping, AtHand, AtMessage, TypeOK, QueueTypeOK
  <2>2. list' \in [Networks -> (SUBSET Ids) \cup {None}]
      BY <1>0, <1>11 DEF InvalidateMapping, InvalidateLists, DataTypes
  <2>3. outrun' \subseteq outrun \cup {<<"list", Message.arg>>}
      BY <1>11 DEF InvalidateMapping, InvalidateLists
  <2>4. CacheTypes'
      BY <1>0, <1>11, <2>1, <2>3 DEF InvalidateMapping, DataTypes, CacheTypes
  <2>5. UNCHANGED <<storeVars, misled, chain, request>>
      BY <1>11 DEF InvalidateMapping
  <2> QED BY <1>0, <2>2, <2>4, <2>5 DEF storeVars, DataTypes
<1>12. CASE InsertMapping
  <2>1. CASE Fail
      BY <1>b, <1>12, <2>1 DEF InsertMapping, Fail
  <2>2. CASE ~Fail
    <3>1. Message.arg \in Supported /\ item # None
        BY <1>12, <2>2 DEF InsertMapping, AtHand
    <3> QED BY <1>0, <1>12, <2>2, <3>1 DEF InsertMapping, cacheVars, DataTypes, CacheTypes
  <2> QED BY <2>1, <2>2
<1>13. CASE HandleOnChainItemRemoved
  <2>1. PICK row \in {byIndex, item} :
            /\ ItemByIndex(row) /\ Misled(row)
            /\ mapped' = IF row # None /\ item # None /\ row.id = item.id
                         THEN mapped \ {Message.arg} ELSE mapped
      BY <1>13 DEF HandleOnChainItemRemoved
  <2>2. CacheTypes'
      BY <1>0, <2>1, ItemByIndexTypes DEF DataTypes
  <2>3. misled' \in BOOLEAN
      BY <1>0, <2>1 DEF Misled, DataTypes
  <2>4. mapped' \subseteq mapped
      BY <2>1
  <2>5. UNCHANGED <<collection, item, lastId, found, list, chain, request>>
      BY <1>13 DEF HandleOnChainItemRemoved
  <2> QED BY <1>0, <2>2, <2>3, <2>4, <2>5 DEF DataTypes
<1>14. CASE HandleSeed
  <2>1. CASE Fail
      BY <1>b, <1>14, <2>1 DEF HandleSeed, Fail
  <2>2. CASE ~Fail
    <3>1. CacheTypes' /\ found' = item /\ item \in Row
        BY <1>0, <1>14, <2>2, LockTypes DEF HandleSeed, DataTypes
    <3>2. UNCHANGED <<collection, item, mapped, lastId, misled, list, chain, request>>
        BY <1>14, <2>2 DEF HandleSeed
    <3> QED BY <1>0, <1>a, <3>1, <3>2 DEF DataTypes
  <2> QED BY <2>1, <2>2
<1>15. CASE CommitSeed
  <2>1. AtMessage /\ Message.arg \in Seeds /\ item \in Row /\ found = item
      BY <1>0, <1>15, MessageType
      DEF CommitSeed, AtHand, AtMessage, TypeOK, QueueTypeOK, DataTypes
  <2>2. SeedAfter(Message, found.seed) \in Seeds \cup {None}
      BY <2>1 DEF SeedAfter, Row
  <2>3. item' \in Row
      BY <1>15, <2>1, <2>2 DEF CommitSeed, Row
  <2>4. item' # None
      BY <2>3, ItemsIndexerAssumption
  <2> QED BY <1>0, <1>15, <2>3, <2>4 DEF CommitSeed, cacheVars, DataTypes, CacheTypes
<1>16. CASE CollectionIndexed
    BY <1>0, <1>16 DEF CollectionIndexed, cacheVars, DataTypes, CacheTypes
<1>17. CASE \E n \in Networks : MappingsByNetwork(n)
  <2>1. PICK n \in Networks : MappingsByNetwork(n)
      BY <1>17
  <2>2. item \in Row
      BY <1>0, <2>1 DEF MappingsByNetwork, DataTypes
  <2>3. request' \in [kind : {"list"}, network : Networks, ids : SUBSET Ids]
      BY <1>a, <2>1, <2>2 DEF MappingsByNetwork
  <2> QED BY <1>0, <2>1, <2>3 DEF MappingsByNetwork, storeVars, cacheVars, DataTypes, CacheTypes
<1>18. CASE ItemByID
  <2>1. request' \in [kind : {"item"}, row : Row]
      BY <1>0, <1>18 DEF ItemByID, DataTypes
  <2> QED BY <1>0, <1>18, <2>1 DEF ItemByID, storeVars, cacheVars, DataTypes, CacheTypes
<1>19. CASE FillCache
  <2>1. UNCHANGED <<chain, storeVars, misled>> /\ request' = None
      BY <1>19 DEF FillCache
  <2>2. CASE request.kind = "list"
    <3>1. request.network \in Networks /\ request.ids \in SUBSET Ids
        BY <1>0, <1>19, <2>2 DEF FillCache, DataTypes
    <3>2. UNCHANGED <<byIndex, byId>> /\ list' = [list EXCEPT ![request.network] = request.ids]
        BY <1>19, <2>2 DEF FillCache
    <3>3. outrun' \subseteq outrun \cup {<<"list", request.network>>}
        BY <1>19, <2>2 DEF FillCache
    <3>4. list' \in [Networks -> (SUBSET Ids) \cup {None}]
        BY <1>0, <3>1, <3>2 DEF DataTypes
    <3>5. CacheTypes'
        BY <1>0, <3>1, <3>2, <3>3 DEF DataTypes, CacheTypes
    <3> QED BY <1>0, <2>1, <3>4, <3>5 DEF storeVars, DataTypes
  <2>3. CASE request.kind = "item"
    <3>1. request.row \in Row
        BY <1>0, <1>19, <2>3 DEF FillCache, DataTypes
    <3>2. CacheItem(request.row) /\ UNCHANGED list
        BY <1>19, <2>3 DEF FillCache
    <3>3. CacheTypes'
        BY <1>0, <3>1, <3>2, CacheItemTypes DEF DataTypes
    <3> QED BY <1>0, <2>1, <3>2, <3>3 DEF storeVars, DataTypes
  <2> QED BY <1>19, <2>2, <2>3 DEF FillCache
<1> QED BY <1>1, <1>2, <1>3, <1>4, <1>5, <1>6, <1>7, <1>8, <1>9, <1>10, <1>11, <1>12,
           <1>13, <1>14, <1>15, <1>16, <1>17, <1>18, <1>19 DEF Next
-----------------------------------------------------------------------------
(* The handler and its message *)

\* Where no handler stands in the middle of its work there is nothing to say.
LEMMA NothingAtHand ==
    ASSUME pc' = "next" \/ LetGo
    PROVE  AtHand'
BY DEF AtHand, LetGo

LEMMA NextAtHand ==
    ASSUME TypeOK, AtHand, [Next]_vars
    PROVE  AtHand'
<1> USE DEF Rest
<1>a. ASSUME FailAttempt
      PROVE  AtHand'
    BY <1>a, NothingAtHand DEF FailAttempt
<1>b. ASSUME Fail \/ Advance
      PROVE  AtHand'
    BY <1>b, <1>a, NothingAtHand DEF Fail, FailHere, Advance
<1>c. ASSUME UNCHANGED <<batch, idx, pc, item, found>>
      PROVE  AtHand'
    BY <1>c DEF AtHand, Message
<1>d. ASSUME NEW l, Goto(l)
      PROVE  pc' = l /\ Message' = Message /\ UNCHANGED <<batch, idx>>
    BY <1>d DEF Goto, Message
<1>e. item \in Row \cup {None}
    BY DEF TypeOK
<1>1. CASE UNCHANGED vars
    BY <1>1, <1>c DEF vars, queueVars, storeVars
<1>2. CASE ChainEvent
    BY <1>2, <1>c DEF ChainEvent, ChainStep, Emit, storeVars
<1>3. CASE Consuming
  <2>1. CASE \E n \in 1..BatchSize : TakeBatch(n)
      BY <2>1, NothingAtHand DEF TakeBatch
  <2>2. CASE AckBatch
      BY <2>2, NothingAtHand DEF AckBatch
  <2>3. CASE CallFails
      BY <2>3, <1>a DEF CallFails
  <2>4. CASE Crash
      BY <2>4, NothingAtHand DEF Crash
  <2>5. CASE (\E m \in emitted : Repeat(m)) /\ UNCHANGED <<item, found>>
      BY <2>5, <1>c DEF Repeat
  <2> QED BY <1>3, <2>1, <2>2, <2>3, <2>4, <2>5 DEF Consuming
<1>4. CASE HandleItemCreated
  <2>1. CASE chain.exists
    <3>1. chain.seed \in Seeds \cup {None}
        BY DEF TypeOK
    <3>2. Message.type = "ItemCreated"
        BY <1>4 DEF HandleItemCreated, Handling, Message
    <3>3. found' \in [id : {0}, seed : Seeds \cup {None}] /\ Goto("FindCollection")
        BY <1>4, <2>1, <3>1 DEF HandleItemCreated
    <3> QED BY <1>d, <3>2, <3>3 DEF AtHand
  <2> QED BY <1>4, <2>1, <1>b DEF HandleItemCreated
<1>5. CASE FindCollection
  <2>1. PICK l \in {"InsertItem", "SaveCollection"} : Goto(l)
      BY <1>5 DEF FindCollection
  <2>2. UNCHANGED <<item, found>> /\ pc = "FindCollection"
      BY <1>5 DEF FindCollection, storeVars
  <2> QED BY <1>d, <2>1, <2>2 DEF AtHand
<1>6. CASE SaveCollection
  <2>1. CASE Fail
      BY <2>1, <1>b
  <2>2. CASE Goto("InsertItem") /\ UNCHANGED <<item, found>>
      BY <1>6, <1>d, <2>2 DEF SaveCollection, AtHand
  <2> QED BY <1>6, <2>1, <2>2 DEF SaveCollection
<1>7. CASE InsertItem
    BY <1>7, <1>b DEF InsertItem
<1>8. CASE HandleItemRemoved
  <2>1. CASE Fail
      BY <2>1, <1>b
  <2>2. CASE LockAndInvalidate /\ Goto("CommitRemoval") /\ UNCHANGED item
    <3>1. Message.type = "ItemRemoved"
        BY <1>8 DEF HandleItemRemoved, Handling, Message
    <3>2. item # None /\ found' = item
        BY <2>2 DEF LockAndInvalidate
    <3> QED BY <1>d, <2>2, <3>1, <3>2 DEF AtHand
  <2> QED BY <1>8, <2>1, <2>2 DEF HandleItemRemoved
<1>9. CASE CommitRemoval
    BY <1>9, <1>b DEF CommitRemoval
<1>10. CASE HandleOnChainItemCreated
  <2>1. CASE Return \/ FailHere
      BY <2>1, <1>a, <1>b DEF Return, FailHere
  <2>2. CASE ~ (Return \/ FailHere)
    <3>1. PICK row \in {byIndex, item} : row # None /\ found' = row
        BY <1>10, <2>2 DEF HandleOnChainItemCreated
    <3>2. Goto("InvalidateMapping") /\ Message.arg \in Supported
        BY <1>10, <2>2 DEF HandleOnChainItemCreated
    <3>3. found' \in Row
        BY <3>1 DEF TypeOK
    <3>4. Message.type = "OnChainItemCreated"
        BY <1>10 DEF HandleOnChainItemCreated, Handling, Message
    <3> QED BY <1>d, <3>2, <3>3, <3>4 DEF AtHand
  <2> QED BY <2>1, <2>2
<1>11. CASE InvalidateMapping
  <2>1. Goto("InsertMapping") /\ UNCHANGED <<item, found>> /\ pc = "InvalidateMapping"
      BY <1>11 DEF InvalidateMapping, storeVars
  <2> QED BY <1>d, <2>1 DEF AtHand
<1>12. CASE InsertMapping
    BY <1>12, <1>b DEF InsertMapping
<1>13. CASE HandleOnChainItemRemoved
    BY <1>13, <1>a, <1>b DEF HandleOnChainItemRemoved, FailHere
<1>14. CASE HandleSeed
  <2>1. CASE Fail
      BY <2>1, <1>b
  <2>2. CASE LockAndInvalidate /\ Goto("CommitSeed") /\ UNCHANGED item
    <3>1. Message.type \in {"SeedCreated", "SeedRemoved"}
        BY <1>14 DEF HandleSeed, Handling, Message
    <3>2. item # None /\ found' = item
        BY <2>2 DEF LockAndInvalidate
    <3> QED BY <1>d, <2>2, <3>1, <3>2 DEF AtHand
  <2> QED BY <1>14, <2>1, <2>2 DEF HandleSeed
<1>15. CASE CommitSeed
    BY <1>15, <1>b DEF CommitSeed
<1>16. CASE CollectionIndexed \/ (\E n \in Networks : MappingsByNetwork(n))
              \/ ItemByID \/ FillCache
    BY <1>16, <1>c
    DEF CollectionIndexed, MappingsByNetwork, ItemByID, FillCache, queueVars, storeVars
<1> QED BY <1>1, <1>2, <1>3, <1>4, <1>5, <1>6, <1>7, <1>8, <1>9, <1>10, <1>11, <1>12,
           <1>13, <1>14, <1>15, <1>16 DEF Next

\* The steps that change the tables, and how.
LEMMA TableSteps ==
    ASSUME [Next]_vars
    PROVE  \/ UNCHANGED <<item, mapped>>
           \/ InsertItem /\ UNCHANGED mapped /\ item = None
           \/ CommitRemoval /\ item' = None /\ mapped' = {}
           \/ InsertMapping /\ item # None /\ mapped' = mapped \cup {Message.arg} /\ UNCHANGED item
           \/ HandleOnChainItemRemoved /\ mapped' \subseteq mapped /\ UNCHANGED item
           \/ CommitSeed /\ UNCHANGED mapped
BY DEF Next, vars, storeVars, Rest, Fail, Return, ChainEvent, ChainStep, Consuming,
       HandleItemCreated, FindCollection, SaveCollection, InsertItem, HandleItemRemoved,
       CommitRemoval, HandleOnChainItemCreated, InvalidateMapping, InsertMapping,
       HandleOnChainItemRemoved, HandleSeed, CommitSeed, CollectionIndexed,
       MappingsByNetwork, ItemByID, FillCache

LEMMA NextMappedTypes ==
    ASSUME TypeOK, AtHand, MappedTypes, [Next]_vars
    PROVE  MappedTypes'
<1>1. CASE InsertMapping /\ mapped' = mapped \cup {Message.arg}
  <2>1. AtMessage /\ Message.arg \in Networks
      BY <1>1, MessageType DEF InsertMapping, AtHand, AtMessage, TypeOK, QueueTypeOK
  <2> QED BY <1>1, <2>1 DEF MappedTypes
<1> QED BY <1>1, TableSteps DEF MappedTypes

LEMMA NextChainShape ==
    ASSUME TypeOK, ChainShape, [Next]_vars
    PROVE  ChainShape'
<1>1. CASE ChainEvent
  <2>1. PICK c : chain' = c /\ (c.exists \/ c = [exists |-> FALSE, seed |-> None, on |-> {}])
    <3>1. chain \in [exists : BOOLEAN, seed : Seeds \cup {None}, on : SUBSET Networks]
        BY DEF TypeOK
    <3> QED BY <1>1, <3>1 DEF ChainEvent, ChainStep
  <2> QED BY <2>1 DEF ChainShape
<1>2. CASE UNCHANGED chain
    BY <1>2 DEF ChainShape
<1> QED
  BY <1>1, <1>2
  DEF Next, vars, Rest, Consuming, HandleItemCreated, FindCollection, SaveCollection,
      InsertItem, HandleItemRemoved, CommitRemoval, HandleOnChainItemCreated,
      InvalidateMapping, InsertMapping, HandleOnChainItemRemoved, HandleSeed, CommitSeed,
      CollectionIndexed, MappingsByNetwork, ItemByID, FillCache
-----------------------------------------------------------------------------
(* The cache *)

\* Two items have no key in common but the index.
LEMMA KeysApart ==
    ASSUME NEW id
    PROVE  /\ <<"index", 0>> \in ItemKeys(id) /\ <<"id", id>> \in ItemKeys(id)
           /\ \A i : i # id => <<"id", i>> \notin ItemKeys(id)
           /\ \A n : <<"list", n>> \notin ItemKeys(id)
<1>1. ItemKeys(id) = {<<"index", 0>>, <<"id", id>>}
    BY DEF ItemKeys
<1>2. \A i : <<"id", i>>[1] = "id" /\ <<"id", i>>[2] = i
    OBVIOUS
<1>3. \A n : <<"list", n>>[1] = "list"
    OBVIOUS
<1> QED BY <1>1, <1>2, <1>3

Committing(label) == label \in {"CommitRemoval", "CommitSeed"}

\* Caching a row leaves the entries fresh, or known not to be.
LEMMA CacheItemFresh ==
    ASSUME CacheTypes, ItemEntries, NEW row \in Row, CacheItem(row),
           UNCHANGED item, UNCHANGED pc \/ ~Committing(pc')
    PROVE  ItemEntries'
<1>1. row.id \in Ids
    BY DEF Row
<1>2. byIndex' = row /\ byId'[row.id] = row /\ \A i \in Ids : i # row.id => byId'[i] = byId[i]
    BY <1>1 DEF CacheItem, CacheTypes
<1>3. \A i \in Ids : i # row.id => (<<"id", i>> \in outrun' <=> <<"id", i>> \in outrun)
    BY KeysApart DEF CacheItem
<1>4. Committing(pc') => Committing(pc)
    OBVIOUS
<1>5. \A i \in Ids : i # row.id => FreshUnder(byId[i], <<"id", i>>)'
  <2>1. TAKE i \in Ids
  <2>2. HAVE i # row.id
  <2>3. FreshUnder(byId[i], <<"id", i>>)
      BY DEF ItemEntries
  <2> QED BY <2>2, <2>3, <1>2, <1>3, <1>4 DEF FreshUnder, Committing
<1>6. FreshUnder(byIndex, <<"index", 0>>)' /\ FreshUnder(byId[row.id], <<"id", row.id>>)'
  <2>1. CASE row = item /\ ~Committing(pc)
      BY <1>2, <1>4, <2>1 DEF FreshUnder, Committing
  <2>2. CASE ~ (row = item /\ ~Committing(pc))
    <3>1. outrun' = outrun \cup ItemKeys(row.id)
        BY <2>2 DEF CacheItem, Committing
    <3> QED BY <3>1, KeysApart DEF FreshUnder
  <2> QED BY <2>1, <2>2
<1>7. \A i \in Ids : byId'[i] # None => byId'[i].id = i
    BY <1>2 DEF ItemEntries
<1>8. \A i \in Ids : FreshUnder(byId[i], <<"id", i>>)'
    BY <1>5, <1>6, <1>1
<1> QED BY <1>6, <1>7, <1>8 DEF ItemEntries

\* Invalidating an item leaves nothing of it, unless it is known that it did.
LEMMA LockFresh ==
    ASSUME CacheTypes, ItemEntries, item \in Row \cup {None}, LockAndInvalidate,
           UNCHANGED item
    PROVE  ItemEntries'
<1>1. item \in Row /\ item.id \in Ids /\ item # None
    BY DEF LockAndInvalidate, Row
<1>2. \A i \in Ids : i # item.id => byId'[i] = byId[i]
    BY <1>1 DEF LockAndInvalidate, CacheTypes
<1>3. \A i \in Ids : i # item.id => (<<"id", i>> \in outrun' <=> <<"id", i>> \in outrun)
    BY KeysApart DEF LockAndInvalidate
<1>4. \A i \in Ids : i # item.id => FreshUnder(byId[i], <<"id", i>>)'
  <2>1. TAKE i \in Ids
  <2>2. HAVE i # item.id
  <2>3. FreshUnder(byId[i], <<"id", i>>) /\ byId[i] # item
      BY <1>1, <2>2 DEF ItemEntries
  <2> QED BY <2>2, <2>3, <1>2, <1>3 DEF FreshUnder
<1>5. FreshUnder(byIndex, <<"index", 0>>)' /\ FreshUnder(byId[item.id], <<"id", item.id>>)'
  <2>1. CASE byIndex' = None /\ byId' = [byId EXCEPT ![item.id] = None]
    <3>1. byId'[item.id] = None
        BY <1>1, <2>1 DEF CacheTypes
    <3> QED BY <2>1, <3>1 DEF FreshUnder
  <2>2. CASE outrun' = outrun \cup ItemKeys(item.id)
      BY <2>2, KeysApart DEF FreshUnder
  <2> QED BY <2>1, <2>2 DEF LockAndInvalidate
<1>6. \A i \in Ids : byId'[i] # None => byId'[i].id = i
  <2>1. \A i \in Ids : byId'[i] = byId[i] \/ byId'[i] = None
      BY <1>1 DEF LockAndInvalidate, CacheTypes
  <2> QED BY <2>1 DEF ItemEntries
<1>7. \A i \in Ids : FreshUnder(byId[i], <<"id", i>>)'
    BY <1>1, <1>4, <1>5
<1> QED BY <1>5, <1>6, <1>7 DEF ItemEntries

\* The steps that leave the entries and the row alone.
LEMMA EntriesStay ==
    ASSUME ItemEntries, UNCHANGED <<item, byIndex, byId>>,
           UNCHANGED pc \/ ~Committing(pc'),
           <<"index", 0>> \in outrun => <<"index", 0>> \in outrun',
           \A i \in Ids : <<"id", i>> \in outrun => <<"id", i>> \in outrun'
    PROVE  ItemEntries'
<1>1. Committing(pc') => Committing(pc)
    OBVIOUS
<1>2. FreshUnder(byIndex, <<"index", 0>>)'
    BY <1>1 DEF FreshUnder, ItemEntries, Committing
<1>3. \A i \in Ids : FreshUnder(byId[i], <<"id", i>>)'
  <2>1. TAKE i \in Ids
  <2> QED BY <1>1 DEF FreshUnder, ItemEntries, Committing
<1> QED BY <1>2, <1>3 DEF ItemEntries

\* The steps that write the row.
LEMMA EntriesOutlast ==
    ASSUME ItemEntries, UNCHANGED <<byIndex, byId, outrun>>, Committing(pc) \/ item = None
    PROVE  ItemEntries'
<1>1. FreshUnder(byIndex, <<"index", 0>>)'
    BY DEF FreshUnder, ItemEntries, Committing
<1>2. \A i \in Ids : FreshUnder(byId[i], <<"id", i>>)'
  <2>1. TAKE i \in Ids
  <2> QED BY DEF FreshUnder, ItemEntries, Committing
<1> QED BY <1>1, <1>2 DEF ItemEntries

LEMMA NextItemEntries ==
    ASSUME TypeOK, AtHand, ItemEntries, [Next]_vars
    PROVE  ItemEntries'
<1> USE DEF Rest
<1>a. CacheTypes /\ item \in Row \cup {None}
    BY TypesSplit DEF DataTypes
<1>b. ASSUME UNCHANGED <<item, byIndex, byId, outrun>>, UNCHANGED pc \/ ~Committing(pc')
      PROVE  ItemEntries'
    BY <1>b, EntriesStay
<1>c. ASSUME Fail \/ Advance \/ FailAttempt \/ LetGo
      PROVE  ~Committing(pc')
    BY <1>c DEF Fail, FailHere, FailAttempt, LetGo, Advance, Committing
<1>d. ASSUME Fail \/ Return
      PROVE  UNCHANGED <<item, byIndex, byId, outrun>>
    BY <1>d DEF Fail, Return, storeVars, cacheVars
<1>e. ASSUME NEW row, ItemByIndex(row), UNCHANGED item, UNCHANGED pc \/ ~Committing(pc')
      PROVE  ItemEntries'
  <2>1. CASE CacheItem(item) /\ item # None
      BY <1>a, <1>e, <2>1, CacheItemFresh
  <2>2. CASE UNCHANGED <<byIndex, byId, outrun>>
      BY <1>b, <1>e, <2>2
  <2> QED BY <1>e, <2>1, <2>2 DEF ItemByIndex
<1>1. CASE UNCHANGED vars
    BY <1>1, <1>b DEF vars, queueVars, storeVars, cacheVars
<1>2. CASE ChainEvent
    BY <1>2, <1>b DEF ChainEvent, ChainStep, Emit, storeVars, cacheVars
<1>3. CASE Consuming
  <2>1. UNCHANGED pc \/ ~Committing(pc')
      BY <1>3, <1>c DEF Consuming, TakeBatch, AckBatch, CallFails, Crash, Repeat, Committing
  <2> QED BY <1>3, <1>b, <2>1 DEF Consuming, cacheVars
<1>4. CASE HandleItemCreated
    BY <1>4, <1>b, <1>c, <1>d DEF HandleItemCreated, Goto, Committing, cacheVars
<1>5. CASE FindCollection
    BY <1>5, <1>b DEF FindCollection, Goto, Committing, storeVars, cacheVars
<1>6. CASE SaveCollection
    BY <1>6, <1>b, <1>c, <1>d DEF SaveCollection, Goto, Committing, cacheVars
<1>7. CASE InsertItem
  <2>1. CASE item = None
      BY <1>7, <2>1, EntriesOutlast DEF InsertItem, cacheVars
  <2> QED BY <1>7, <2>1, <1>b, <1>c, <1>d DEF InsertItem
<1>8. CASE HandleItemRemoved
  <2>1. CASE LockAndInvalidate /\ UNCHANGED item
      BY <1>a, <2>1, LockFresh
  <2> QED BY <1>8, <2>1, <1>b, <1>c, <1>d DEF HandleItemRemoved
<1>9. CASE CommitRemoval
    BY <1>9, EntriesOutlast DEF CommitRemoval, Committing, cacheVars
<1>10. CASE HandleOnChainItemCreated
  <2>1. CASE Return
      BY <2>1, <1>b, <1>c, <1>d DEF Return
  <2>2. CASE \E row : ItemByIndex(row) /\ UNCHANGED item /\ (FailHere \/ Goto("InvalidateMapping"))
    <3>1. ~Committing(pc')
        BY <2>2, <1>c DEF FailHere, Goto, Committing
    <3> QED BY <2>2, <3>1, <1>e
  <2> QED BY <1>10, <2>1, <2>2 DEF HandleOnChainItemCreated
<1>11. CASE InvalidateMapping
  <2>1. UNCHANGED <<item, byIndex, byId>> /\ ~Committing(pc')
      BY <1>11 DEF InvalidateMapping, storeVars, Goto, Committing
  <2>2. \A key : key[1] # "list" /\ key \in outrun => key \in outrun'
    <3>1. \A n : <<"list", n>>[1] = "list"
        OBVIOUS
    <3> QED BY <1>11, <3>1 DEF InvalidateMapping, InvalidateLists
  <2>3. <<"index", 0>>[1] = "index" /\ \A i \in Ids : <<"id", i>>[1] = "id"
      OBVIOUS
  <2> QED BY <2>1, <2>2, <2>3, EntriesStay
<1>12. CASE InsertMapping
  <2>1. ~Committing(pc')
      BY <1>12, <1>c DEF InsertMapping
  <2>2. UNCHANGED <<item, byIndex, byId, outrun>>
      BY <1>12, <1>d DEF InsertMapping, cacheVars
  <2> QED BY <2>1, <2>2, <1>b
<1>13. CASE HandleOnChainItemRemoved
  <2>1. ~Committing(pc')
      BY <1>13, <1>c DEF HandleOnChainItemRemoved, FailHere
  <2> QED BY <1>13, <2>1, <1>e DEF HandleOnChainItemRemoved
<1>14. CASE HandleSeed
  <2>1. CASE LockAndInvalidate /\ UNCHANGED item
      BY <1>a, <2>1, LockFresh
  <2> QED BY <1>14, <2>1, <1>b, <1>c, <1>d DEF HandleSeed
<1>15. CASE CommitSeed
    BY <1>15, EntriesOutlast DEF CommitSeed, Committing, cacheVars
<1>16. CASE CollectionIndexed \/ (\E n \in Networks : MappingsByNetwork(n)) \/ ItemByID
    BY <1>16, <1>b
    DEF CollectionIndexed, MappingsByNetwork, ItemByID, queueVars, storeVars, cacheVars
<1>17. CASE FillCache
  <2>1. UNCHANGED <<item, pc>>
      BY <1>17 DEF FillCache, storeVars, queueVars
  <2>2. CASE request.kind = "item"
    <3>1. request.row \in Row
        BY <1>17, <2>2 DEF FillCache, TypeOK
    <3>2. CacheItem(request.row)
        BY <1>17, <2>2 DEF FillCache
    <3> QED BY <1>a, <2>1, <3>1, <3>2, CacheItemFresh
  <2>3. CASE request.kind = "list"
    <3>1. \A n : <<"list", n>>[1] = "list"
        OBVIOUS
    <3>2. \A key : key[1] # "list" /\ key \in outrun => key \in outrun'
        BY <1>17, <2>3, <3>1 DEF FillCache
    <3>3. <<"index", 0>>[1] = "index" /\ \A i \in Ids : <<"id", i>>[1] = "id"
        OBVIOUS
    <3>4. UNCHANGED <<byIndex, byId>>
        BY <1>17, <2>3 DEF FillCache
    <3> QED BY <2>1, <3>2, <3>3, <3>4, EntriesStay
  <2> QED BY <1>17, <2>2, <2>3 DEF FillCache
<1> QED BY <1>1, <1>2, <1>3, <1>4, <1>5, <1>6, <1>7, <1>8, <1>9, <1>10, <1>11, <1>12,
           <1>13, <1>14, <1>15, <1>16, <1>17 DEF Next
\* A list that misses a mapping, of one network.
ListFresh(n) ==
    \/ list[n] = None
    \/ <<"list", n>> \in outrun
    \/ /\ n \in mapped => item.id \in list[n]
       /\ ~ (pc = "InsertMapping" /\ Message.arg = n)

\* The steps that leave the lists alone.
LEMMA ListsStay ==
    ASSUME ListEntries, UNCHANGED list,
           mapped' = {} \/ (mapped' \subseteq mapped /\ item'.id = item.id),
           \A n \in Networks : <<"list", n>> \in outrun => <<"list", n>> \in outrun',
           UNCHANGED <<pc, Message>> \/ pc' # "InsertMapping"
    PROVE  ListEntries'
<1>1. ASSUME NEW n \in Networks
      PROVE  ListFresh(n)'
  <2>1. ListFresh(n)
      BY DEF ListEntries, ListFresh
  <2>2. pc' = "InsertMapping" /\ Message'.arg = n => pc = "InsertMapping" /\ Message.arg = n
      OBVIOUS
  <2>3. n \in mapped' => n \in mapped /\ item'.id = item.id
      OBVIOUS
  <2> QED BY <2>1, <2>2, <2>3 DEF ListFresh
<1> QED BY <1>1 DEF ListEntries, ListFresh

LEMMA ListKeysStay ==
    ASSUME \/ \E row : CacheItem(row) \/ ItemByIndex(row)
           \/ LockAndInvalidate
    PROVE  \A n \in Networks : <<"list", n>> \in outrun => <<"list", n>> \in outrun'
<1>1. \A row : CacheItem(row) => \A n \in Networks : <<"list", n>> \in outrun =>
                                                       <<"list", n>> \in outrun'
    BY KeysApart DEF CacheItem
<1>2. \A row : ItemByIndex(row) => CacheItem(item) \/ UNCHANGED outrun
    BY DEF ItemByIndex
<1>3. CASE LockAndInvalidate
    BY <1>3, KeysApart DEF LockAndInvalidate
<1> QED BY <1>1, <1>2, <1>3

LEMMA NextListEntries ==
    ASSUME TypeOK, AtHand, MappedTypes, ListEntries, [Next]_vars
    PROVE  ListEntries'
<1> USE DEF Rest
<1>b. ASSUME UNCHANGED <<list, outrun, mapped, item>>,
             UNCHANGED <<pc, batch, idx>> \/ pc' # "InsertMapping"
      PROVE  ListEntries'
    BY <1>b, ListsStay DEF Message
<1>c. ASSUME Fail \/ Advance \/ FailAttempt \/ LetGo
      PROVE  pc' # "InsertMapping"
    BY <1>c DEF Fail, FailHere, FailAttempt, LetGo, Advance
<1>d. ASSUME Fail \/ Return
      PROVE  UNCHANGED <<list, outrun, mapped, item>> /\ pc' # "InsertMapping"
    BY <1>d, <1>c DEF Fail, Return, storeVars, cacheVars
<1>e. item \in Row \cup {None} /\ (mapped # {} => item # None)
      /\ list \in [Networks -> (SUBSET Ids) \cup {None}] /\ mapped \subseteq Networks
    BY DEF TypeOK, MappedTypes
<1>1. CASE UNCHANGED vars
    BY <1>1, <1>b DEF vars, queueVars, storeVars, cacheVars
<1>2. CASE ChainEvent
    BY <1>2, <1>b DEF ChainEvent, ChainStep, Emit, storeVars, cacheVars
<1>3. CASE Consuming
  <2>1. UNCHANGED <<pc, batch, idx>> \/ pc' # "InsertMapping"
      BY <1>3, <1>c DEF Consuming, TakeBatch, AckBatch, CallFails, Crash, Repeat
  <2> QED BY <1>3, <1>b, <2>1 DEF Consuming, cacheVars
<1>4. CASE HandleItemCreated
    BY <1>4, <1>b, <1>d DEF HandleItemCreated, Goto, cacheVars
<1>5. CASE FindCollection
    BY <1>5, <1>b DEF FindCollection, Goto, storeVars, cacheVars
<1>6. CASE SaveCollection
    BY <1>6, <1>b, <1>d DEF SaveCollection, Goto, cacheVars
<1>7. CASE InsertItem
  <2>1. CASE item = None
    <3>1. mapped' = {} /\ UNCHANGED <<list, outrun>> /\ pc' # "InsertMapping"
        BY <1>7, <1>c, <1>e, <2>1 DEF InsertItem, cacheVars
    <3> QED BY <3>1, ListsStay
  <2> QED BY <1>7, <2>1, <1>b, <1>d DEF InsertItem
<1>8. CASE HandleItemRemoved
  <2>1. CASE Fail
      BY <2>1, <1>b, <1>d
  <2>2. CASE ~Fail
    <3>1. LockAndInvalidate /\ Goto("CommitRemoval") /\ UNCHANGED <<item, mapped>>
        BY <1>8, <2>2 DEF HandleItemRemoved
    <3>2. \A n \in Networks : list'[n] \in {None, list[n]}
        BY <1>8, <2>2 DEF HandleItemRemoved
    <3>3. \A n \in Networks : <<"list", n>> \in outrun => <<"list", n>> \in outrun'
        BY <3>1, ListKeysStay
    <3>4. ASSUME NEW n \in Networks
          PROVE  ListFresh(n)'
      <4>1. ListFresh(n) /\ list'[n] \in {None, list[n]}
          BY <3>2 DEF ListEntries, ListFresh
      <4> QED BY <3>1, <3>3, <4>1 DEF ListFresh, Goto
    <3> QED BY <3>4 DEF ListEntries, ListFresh
  <2> QED BY <2>1, <2>2
<1>9. CASE CommitRemoval
  <2>1. mapped' = {} /\ UNCHANGED <<list, outrun>> /\ pc' # "InsertMapping"
      BY <1>9, <1>c DEF CommitRemoval, cacheVars
  <2> QED BY <2>1, ListsStay
<1>10. CASE HandleOnChainItemCreated
  <2>1. CASE Return
      BY <2>1, <1>b, <1>d
  <2>2. CASE ~Return
    <3>1. (\E row : ItemByIndex(row)) /\ UNCHANGED <<item, mapped, list>>
        BY <1>10, <2>2 DEF HandleOnChainItemCreated
    <3>2. pc' # "InsertMapping"
        BY <1>10, <2>2, <1>c DEF HandleOnChainItemCreated, FailHere, Goto
    <3> QED BY <3>1, <3>2, ListKeysStay, ListsStay
  <2> QED BY <2>1, <2>2
<1>11. CASE InvalidateMapping
  <2>1. Message' = Message /\ UNCHANGED <<item, mapped>> /\ pc # "InsertMapping"
      BY <1>11 DEF InvalidateMapping, Goto, Message, storeVars
  <2>2. ASSUME NEW n \in Networks
        PROVE  ListFresh(n)'
    <3>1. ListFresh(n)
        BY DEF ListEntries, ListFresh
    <3>2. CASE InvalidateLists({found.id, Message.arg})
      <4>1. CASE n \in {found.id, Message.arg}
          BY <3>2, <4>1 DEF InvalidateLists, ListFresh
      <4>2. CASE n \notin {found.id, Message.arg}
        <5>1. list'[n] = list[n] /\ (<<"list", n>> \in outrun => <<"list", n>> \in outrun')
            BY <3>2, <4>2 DEF InvalidateLists
        <5> QED BY <2>1, <3>1, <4>2, <5>1 DEF ListFresh
      <4> QED BY <4>1, <4>2
    <3>3. CASE outrun' = outrun \cup {<<"list", Message.arg>>} /\ UNCHANGED list
      <4>1. CASE n = Message.arg
          BY <3>3, <4>1 DEF ListFresh
      <4>2. CASE n # Message.arg
          BY <2>1, <3>1, <3>3, <4>2 DEF ListFresh
      <4> QED BY <4>1, <4>2
    <3> QED BY <1>11, <3>2, <3>3 DEF InvalidateMapping
  <2> QED BY <2>2 DEF ListEntries, ListFresh
<1>12. CASE InsertMapping
  <2>1. CASE Fail
      BY <2>1, <1>b, <1>d
  <2>2. CASE ~Fail
    <3>1. /\ mapped' = mapped \cup {Message.arg}
          /\ UNCHANGED <<item, list, outrun>>
          /\ pc = "InsertMapping" /\ pc' # "InsertMapping"
        BY <1>12, <1>c, <2>2 DEF InsertMapping, cacheVars
    <3>2. ASSUME NEW n \in Networks
          PROVE  ListFresh(n)'
      <4>1. ListFresh(n)
          BY DEF ListEntries, ListFresh
      <4> QED BY <3>1, <4>1 DEF ListFresh
    <3> QED BY <3>2 DEF ListEntries, ListFresh
  <2> QED BY <2>1, <2>2
<1>13. CASE HandleOnChainItemRemoved
  <2>1. (\E row : ItemByIndex(row)) /\ UNCHANGED <<item, list>> /\ mapped' \subseteq mapped
      BY <1>13 DEF HandleOnChainItemRemoved
  <2>2. pc' # "InsertMapping"
      BY <1>13, <1>c DEF HandleOnChainItemRemoved, FailHere
  <2> QED BY <2>1, <2>2, ListKeysStay, ListsStay
<1>14. CASE HandleSeed
  <2>1. CASE Fail
      BY <2>1, <1>b, <1>d
  <2>2. CASE LockAndInvalidate /\ Goto("CommitSeed") /\ UNCHANGED <<item, mapped, list>>
    <3>1. pc' # "InsertMapping"
        BY <2>2 DEF Goto
    <3> QED BY <2>2, <3>1, ListKeysStay, ListsStay
  <2> QED BY <1>14, <2>1, <2>2 DEF HandleSeed
<1>15. CASE CommitSeed
  <2>1. item \in Row /\ item'.id = item.id
    <3>1. item \in Row
        BY <1>15, <1>e DEF CommitSeed, AtHand
    <3> QED BY <1>15, <3>1 DEF CommitSeed, Row
  <2>2. UNCHANGED <<mapped, list, outrun>> /\ pc' # "InsertMapping"
      BY <1>15, <1>c DEF CommitSeed, cacheVars
  <2> QED BY <2>1, <2>2, ListsStay
<1>16. CASE CollectionIndexed \/ (\E n \in Networks : MappingsByNetwork(n)) \/ ItemByID
    BY <1>16, <1>b
    DEF CollectionIndexed, MappingsByNetwork, ItemByID, queueVars, storeVars, cacheVars
<1>17. CASE FillCache
  <2>1. UNCHANGED <<item, mapped, pc, batch, idx>> /\ Message' = Message
      BY <1>17 DEF FillCache, storeVars, queueVars, Message
  <2>2. CASE request.kind = "item"
    <3>1. CacheItem(request.row) /\ UNCHANGED list
        BY <1>17, <2>2 DEF FillCache
    <3> QED BY <2>1, <3>1, ListKeysStay, ListsStay
  <2>3. CASE request.kind = "list"
    <3> DEFINE w == request.network
    <3>1. w \in Networks /\ list' = [list EXCEPT ![w] = request.ids]
        BY <1>17, <2>3 DEF FillCache, TypeOK
    <3>2. ASSUME NEW n \in Networks
          PROVE  ListFresh(n)'
      <4>1. CASE n = w
        <5>1. CASE (w \in mapped => item.id \in request.ids) /\ pc # "InsertMapping"
            BY <1>e, <2>1, <3>1, <4>1, <5>1 DEF ListFresh
        <5>2. CASE ~ ((w \in mapped => item.id \in request.ids) /\ pc # "InsertMapping")
          <6>1. <<"list", w>> \in outrun'
              BY <1>17, <2>3, <5>2 DEF FillCache
          <6> QED BY <4>1, <6>1 DEF ListFresh
        <5> QED BY <5>1, <5>2
      <4>2. CASE n # w
        <5>1. list'[n] = list[n] /\ (<<"list", n>> \in outrun => <<"list", n>> \in outrun')
            BY <1>e, <1>17, <2>3, <3>1, <4>2 DEF FillCache
        <5>2. ListFresh(n)
            BY DEF ListEntries, ListFresh
        <5> QED BY <2>1, <5>1, <5>2 DEF ListFresh
      <4> QED BY <4>1, <4>2
    <3> QED BY <3>2 DEF ListEntries, ListFresh
  <2> QED BY <1>17, <2>2, <2>3 DEF FillCache
<1> QED BY <1>1, <1>2, <1>3, <1>4, <1>5, <1>6, <1>7, <1>8, <1>9, <1>10, <1>11, <1>12,
           <1>13, <1>14, <1>15, <1>16, <1>17 DEF Next
-----------------------------------------------------------------------------
(* The messages that are left *)

LEMMA ConcatFacts ==
    ASSUME NEW b \in Seq(Messages), NEW q \in Seq(Messages)
    PROVE  /\ b \o q \in Seq(Messages)
           /\ Len(b) \in Nat /\ Len(q) \in Nat
           /\ Len(b \o q) = Len(b) + Len(q)
           /\ \A k \in 1..Len(b) : (b \o q)[k] = b[k]
           /\ \A k \in 1..Len(q) : (b \o q)[k + Len(b)] = q[k]
<1>1. Len(b) \in Nat /\ Len(q) \in Nat
    BY LenProperties
<1>2. /\ b \o q \in Seq(Messages) /\ Len(b \o q) = Len(b) + Len(q)
      /\ \A k \in 1..(Len(b) + Len(q)) :
             (b \o q)[k] = IF k <= Len(b) THEN b[k] ELSE q[k - Len(b)]
    BY ConcatProperties
<1>3. \A k \in 1..Len(b) : (b \o q)[k] = b[k]
    BY <1>1, <1>2
<1>4. \A k \in 1..Len(q) : (b \o q)[k + Len(b)] = q[k]
  <2>1. TAKE k \in 1..Len(q)
  <2>2. k + Len(b) \in 1..(Len(b) + Len(q)) /\ ~ (k + Len(b) <= Len(b))
        /\ (k + Len(b)) - Len(b) = k
      BY <1>1
  <2> QED BY <1>2, <2>2
<1> QED BY <1>1, <1>2, <1>3, <1>4

LEMMA BacklogTypes ==
    ASSUME TypeOK
    PROVE  /\ Backlog \in Seq(Messages) /\ Len(Backlog) \in Nat
           /\ Len(batch) \in Nat /\ Len(queue) \in Nat
           /\ Len(Backlog) = Len(batch) + Len(queue)
           /\ \A k \in 1..Len(batch) : Backlog[k] = batch[k]
           /\ \A k \in 1..Len(queue) : Backlog[k + Len(batch)] = queue[k]
           /\ \A k \in 1..Len(Backlog) : Backlog[k] \in Messages
           /\ idx \in 1..(Len(Backlog) + 1)
           /\ AtMessage => idx \in 1..Len(Backlog) /\ Backlog[idx] = Message
<1>1. /\ batch \in Seq(Messages) /\ queue \in Seq(Messages)
      /\ Len(batch) \in Nat /\ Len(queue) \in Nat /\ idx \in 1..(Len(batch) + 1)
    BY LenProperties DEF TypeOK, QueueTypeOK
<1>2. /\ Backlog \in Seq(Messages) /\ Len(Backlog) = Len(batch) + Len(queue)
      /\ \A k \in 1..Len(batch) : Backlog[k] = batch[k]
      /\ \A k \in 1..Len(queue) : Backlog[k + Len(batch)] = queue[k]
    BY <1>1, ConcatFacts DEF Backlog
<1>3. \A k \in 1..Len(Backlog) : Backlog[k] \in Messages
    BY <1>2, ElementOfSeq
<1> QED BY <1>1, <1>2, <1>3 DEF AtMessage, Message

\* t is what s is without its first d elements; t is s and one more, m.
Remainder(s, t, d) == Len(s) = Len(t) + d /\ \A k \in 1..Len(t) : t[k] = s[k + d]
Longer(s, t, m) ==
    Len(t) = Len(s) + 1 /\ t[Len(t)] = m /\ \A k \in 1..Len(s) : t[k] = s[k]

LEMMA RemainderFacts ==
    ASSUME NEW R, NEW s, NEW t, NEW d \in Nat, Len(s) \in Nat, Len(t) \in Nat,
           Remainder(s, t, d)
    PROVE  /\ \A k \in 1..Len(t) : LastOf(R, t, k) => LastOf(R, s, k + d) /\ s[k + d] = t[k]
           /\ \A i \in Nat \ {0}, j \in 0..Len(t) : NoneOf(R, t, i, j) => NoneOf(R, s, i + d, j + d)
<1>1. ASSUME NEW i \in Nat \ {0}, NEW j \in 0..Len(t), NoneOf(R, t, i, j)
      PROVE  NoneOf(R, s, i + d, j + d)
  <2>1. ASSUME NEW k \in (i + d)..(j + d)
        PROVE  s[k] \notin R
    <3>1. k - d \in i..j /\ k - d \in 1..Len(t) /\ (k - d) + d = k
        OBVIOUS
    <3>2. t[k - d] = s[(k - d) + d]
        BY <3>1 DEF Remainder
    <3> QED BY <1>1, <3>1, <3>2 DEF NoneOf
  <2> QED BY <2>1 DEF NoneOf
<1>2. ASSUME NEW k \in 1..Len(t), LastOf(R, t, k)
      PROVE  LastOf(R, s, k + d) /\ s[k + d] = t[k]
  <2>1. s[k + d] = t[k] /\ k + d \in 1..Len(s)
      BY DEF Remainder
  <2>2. NoneOf(R, s, (k + 1) + d, Len(t) + d)
      BY <1>1, <1>2 DEF LastOf
  <2>3. (k + 1) + d = (k + d) + 1 /\ Len(t) + d = Len(s)
      BY DEF Remainder
  <2>4. NoneOf(R, s, (k + d) + 1, Len(s))
      BY <2>2, <2>3
  <2> QED BY <1>2, <2>1, <2>4 DEF LastOf
<1> QED BY <1>1, <1>2

LEMMA LongerFacts ==
    ASSUME NEW R, NEW s, NEW t, NEW m, Len(s) \in Nat, Longer(s, t, m)
    PROVE  /\ m \in R => /\ \A k \in 1..Len(t) : LastOf(R, t, k) => k = Len(t) /\ t[k] = m
                         /\ \A i \in 1..Len(t) : ~ NoneOf(R, t, i, Len(t))
           /\ m \notin R =>
                  /\ \A k \in 1..Len(t) : LastOf(R, t, k) =>
                         k \in 1..Len(s) /\ LastOf(R, s, k) /\ s[k] = t[k]
                  /\ \A i \in Nat \ {0} : NoneOf(R, t, i, Len(t)) => NoneOf(R, s, i, Len(s))
           /\ \A i \in Nat \ {0}, j \in 0..Len(s) : NoneOf(R, t, i, j) => NoneOf(R, s, i, j)
<1>0. Len(t) = Len(s) + 1 /\ t[Len(t)] = m /\ Len(t) \in Nat /\ \A k \in 1..Len(s) : t[k] = s[k]
    BY DEF Longer
<1>1. \A i \in Nat \ {0}, j \in 0..Len(s) : NoneOf(R, t, i, j) => NoneOf(R, s, i, j)
    BY <1>0 DEF NoneOf
<1>2. \A i \in Nat \ {0} : NoneOf(R, t, i, Len(t)) => NoneOf(R, t, i, Len(s))
    BY <1>0 DEF NoneOf
<1>3. \A i \in 1..Len(t) : Len(t) \in i..Len(t)
    BY <1>0
<1>4. CASE m \in R
  <2>1. \A i \in 1..Len(t) : ~ NoneOf(R, t, i, Len(t))
      BY <1>0, <1>3, <1>4 DEF NoneOf
  <2>2. ASSUME NEW k \in 1..Len(t), LastOf(R, t, k)
        PROVE  k = Len(t) /\ t[k] = m
    <3>1. CASE k # Len(t)
      <4>1. k + 1 \in 1..Len(t)
          BY <1>0, <3>1
      <4> QED BY <2>1, <2>2, <4>1 DEF LastOf
    <3> QED BY <1>0, <3>1
  <2> QED BY <1>1, <1>4, <2>1, <2>2
<1>5. CASE m \notin R
  <2>1. ASSUME NEW k \in 1..Len(t), LastOf(R, t, k)
        PROVE  k \in 1..Len(s) /\ LastOf(R, s, k) /\ s[k] = t[k]
    <3>1. k # Len(t) /\ k \in 1..Len(s)
        BY <1>0, <1>5, <2>1 DEF LastOf
    <3>2. NoneOf(R, s, k + 1, Len(s))
        BY <1>0, <1>1, <1>2, <2>1 DEF LastOf
    <3> QED BY <1>0, <2>1, <3>1, <3>2 DEF LastOf
  <2>2. \A i \in Nat \ {0} : NoneOf(R, t, i, Len(t)) => NoneOf(R, s, i, Len(s))
      BY <1>0, <1>1, <1>2
  <2> QED BY <1>1, <1>5, <2>1, <2>2
<1> QED BY <1>4, <1>5

\* When nothing of R comes after s[i], it is the last of R or none of it.
LEMMA NextOrNone ==
    ASSUME NEW R, NEW s, Len(s) \in Nat, NEW i \in 1..Len(s), NoneOf(R, s, i + 1, Len(s))
    PROVE  IF s[i] \in R THEN LastOf(R, s, i) ELSE NoneOf(R, s, i, Len(s))
<1>1. \A k \in i..Len(s) : k = i \/ k \in (i + 1)..Len(s)
    OBVIOUS
<1> QED BY <1>1 DEF LastOf, NoneOf

-----------------------------------------------------------------------------
(* The steps of a run in which nothing was given up or disturbed *)

\* A handler goes on with its message, the batch begins again, or the queue
\* hands messages to the consumer or forgets those that are handled.
Stays ==
    /\ \E d \in Nat : Remainder(Backlog, Backlog', d) /\ idx' + d <= idx
    /\ UNCHANGED <<chain, item, mapped>>

\* The message is handled.
Handled ==
    /\ AtMessage /\ Advance
    /\ UNCHANGED chain
    /\ \/ InsertItem /\ item' # None /\ item'.seed = found.seed /\ UNCHANGED mapped
       \/ CommitRemoval /\ item' = None /\ mapped' = {}
       \/ /\ InsertMapping /\ item # None /\ UNCHANGED item
          /\ mapped' = mapped \cup {Message.arg}
       \/ /\ HandleOnChainItemRemoved /\ UNCHANGED item
          /\ misled' \/ mapped' = mapped \ {Message.arg}
       \/ /\ CommitSeed /\ item' # None /\ UNCHANGED mapped
          /\ item'.seed = SeedAfter(Message, item.seed)
       \/ /\ HandleOnChainItemCreated /\ Message.arg \notin Supported
          /\ UNCHANGED <<item, mapped>>

LEMMA StaysIfSame ==
    ASSUME TypeOK, UNCHANGED <<batch, queue, chain, item, mapped>>, idx' \in 1..idx
    PROVE  Stays
<1>1. Backlog' = Backlog
    BY DEF Backlog
<1>2. Len(Backlog) \in Nat /\ idx \in Nat
    BY BacklogTypes
<1>3. \A s : Len(s) \in Nat => Remainder(s, s, 0)
    BY DEF Remainder
<1>a. Remainder(Backlog, Backlog', 0)
    BY <1>1, <1>2, <1>3
<1>b. idx' + 0 <= idx
  <2>1. \A i, j \in Nat : i \in 1..j => i + 0 <= j
      OBVIOUS
  <2>2. idx' \in Nat
      BY <1>2
  <2> QED BY <1>2, <2>1, <2>2
<1>4. \E d \in Nat : Remainder(Backlog, Backlog', d) /\ idx' + d <= idx
    BY <1>a, <1>b
<1> QED BY <1>4 DEF Stays

LEMMA OrderSteps ==
    ASSUME TypeOK, TypeOK', AtHand, [Next]_vars, ~lost', ~disturbed'
    PROVE  Stays \/ Handled \/ ChainEvent
<1> USE DEF Rest
<1>0. idx \in 1..(Len(Backlog) + 1) /\ Len(Backlog) \in Nat /\ 1 \in 1..idx /\ idx \in 1..idx
    BY BacklogTypes
<1>a. ASSUME UNCHANGED <<chain, item, mapped>>, UNCHANGED queueVars \/ \E l : Goto(l)
      PROVE  Stays
    BY <1>0, <1>a, StaysIfSame DEF Goto, queueVars
<1>b. ASSUME UNCHANGED <<chain, item, mapped>>, FailAttempt
      PROVE  Stays
  <2>1. UNCHANGED <<batch, queue>> /\ idx' = 1
      BY <1>b DEF FailAttempt
  <2> QED BY <1>0, <1>b, <2>1, StaysIfSame
<1>c. ASSUME Fail, UNCHANGED chain
      PROVE  Stays
    BY <1>b, <1>c DEF Fail, FailHere, storeVars
<1>d. pc \in Labels => AtMessage
    BY DEF TypeOK, QueueTypeOK, AtMessage, Labels
<1>e. batch' \in Seq(Messages) /\ queue' \in Seq(Messages)
    BY DEF TypeOK, QueueTypeOK
<1>1. CASE UNCHANGED vars
    BY <1>1, <1>a DEF vars, storeVars
<1>2. CASE ChainEvent
    BY <1>2
<1>3. CASE Consuming
  <2>1. UNCHANGED <<chain, item, mapped>>
      BY <1>3 DEF Consuming
  <2>2. CASE \E n \in 1..BatchSize : TakeBatch(n)
    <3>1. PICK n \in 1..BatchSize : TakeBatch(n)
        BY <2>2
    <3>2. batch = << >> /\ idx = 1 /\ Len(batch) = 0
        BY <3>1, EmptySeq DEF TakeBatch, AtHand
    <3>3. queue \in Seq(Messages) /\ n \in Nat /\ n <= Len(queue) /\ Len(queue) \in Nat
          /\ \A i \in 1..Len(queue) : queue[i] \in Messages
        BY <3>1, BacklogTypes, ElementOfSeq, EventQueueAssumption DEF TakeBatch, TypeOK,
           QueueTypeOK
    <3>4. /\ Len(batch') = n
          /\ \A i \in 1..(n - 1 + 1) : batch'[i] = queue[1 + i - 1]
        BY <3>1, <3>3, SubSeqProperties DEF TakeBatch
    <3>5. /\ Len(queue') = IF n + 1 <= Len(queue) THEN Len(queue) - (n + 1) + 1 ELSE 0
          /\ \A i \in 1..(Len(queue) - (n + 1) + 1) : queue'[i] = queue[(n + 1) + i - 1]
        BY <3>1, <3>3, SubSeqProperties DEF TakeBatch
    <3>6. Len(queue') = Len(queue) - n
        BY <3>3, <3>5
    <3>7. /\ Len(Backlog') = Len(batch') + Len(queue')
          /\ \A k \in 1..Len(batch') : Backlog'[k] = batch'[k]
          /\ \A k \in 1..Len(queue') : Backlog'[k + Len(batch')] = queue'[k]
        BY <1>e, ConcatFacts DEF Backlog
    <3>8. Len(Backlog) = Len(queue) /\ \A k \in 1..Len(queue) : Backlog[k] = queue[k]
        BY <3>2, <3>3, BacklogTypes
    <3>9. ASSUME NEW k \in 1..Len(Backlog')
          PROVE  Backlog'[k] = Backlog[k + 0]
      <4>1. k \in 1..Len(queue) /\ k + 0 = k
          BY <3>3, <3>4, <3>6, <3>7
      <4>2. CASE k <= n
        <5>1. k \in 1..Len(batch') /\ k \in 1..(n - 1 + 1) /\ 1 + k - 1 = k
            BY <3>3, <3>4, <4>1, <4>2
        <5> QED BY <3>4, <3>7, <3>8, <4>1, <5>1
      <4>3. CASE ~ (k <= n)
        <5>1. k - n \in 1..Len(queue') /\ k - n \in 1..(Len(queue) - (n + 1) + 1)
              /\ (k - n) + n = k /\ (n + 1) + (k - n) - 1 = k
            BY <3>3, <3>6, <4>1, <4>3
        <5>2. queue'[k - n] = queue[(n + 1) + (k - n) - 1]
            BY <3>5, <5>1
        <5>3. Backlog'[(k - n) + Len(batch')] = queue'[k - n]
            BY <3>7, <5>1
        <5> QED BY <3>4, <3>8, <4>1, <5>1, <5>2, <5>3
      <4> QED BY <4>2, <4>3
    <3>10. Len(Backlog) = Len(Backlog') + 0
        BY <3>3, <3>4, <3>6, <3>7, <3>8
    <3>11. idx' + 0 <= idx
        BY <3>1, <3>2 DEF TakeBatch
    <3> QED BY <2>1, <3>9, <3>10, <3>11 DEF Stays, Remainder
  <2>3. CASE AckBatch
    <3> DEFINE d == Len(batch)
    <3>1. d \in Nat /\ d + 1 <= idx /\ Len(queue) \in Nat
        BY <2>3, BacklogTypes DEF AckBatch
    <3>2. batch' = << >> /\ Len(batch') = 0 /\ queue' = queue /\ idx' = 1
        BY <2>3, EmptySeq DEF AckBatch, LetGo
    <3>a. /\ Len(Backlog') = Len(batch') + Len(queue')
          /\ \A k \in 1..Len(queue') : Backlog'[k + Len(batch')] = queue'[k]
        BY <1>e, ConcatFacts DEF Backlog
    <3>3. Len(Backlog') = Len(queue) /\ \A k \in 1..Len(queue) : Backlog'[k] = queue[k]
        BY <3>1, <3>2, <3>a
    <3>4. Len(Backlog) = Len(Backlog') + d /\ \A k \in 1..Len(Backlog') : Backlog'[k] = Backlog[k + d]
        BY <3>1, <3>3, BacklogTypes
    <3>5. idx' + d <= idx
        BY <3>1, <3>2
    <3> QED BY <2>1, <3>1, <3>4, <3>5 DEF Stays, Remainder
  <2>4. CASE CallFails
      BY <2>1, <2>4, <1>b DEF CallFails
  <2>5. CASE Crash \/ \E m \in emitted : Repeat(m)
      BY <2>5 DEF Crash, Repeat
  <2> QED BY <1>3, <2>2, <2>3, <2>4, <2>5 DEF Consuming
<1>4. CASE HandleItemCreated
    BY <1>4, <1>a, <1>c DEF HandleItemCreated
<1>5. CASE FindCollection
    BY <1>5, <1>a DEF FindCollection, storeVars
<1>6. CASE SaveCollection
    BY <1>6, <1>a, <1>c DEF SaveCollection
<1>7. CASE InsertItem
  <2>1. CASE Fail
      BY <1>7, <2>1, <1>c DEF InsertItem
  <2>2. CASE ~Fail
    <3>1. Advance /\ item' = [id |-> lastId + 1, seed |-> found.seed] /\ UNCHANGED <<chain, mapped>>
        BY <1>7, <2>2 DEF InsertItem
    <3>2. item' \in Row
      <4>1. found.seed \in Seeds \cup {None}
          BY <1>7 DEF InsertItem, AtHand
      <4>2. lastId + 1 \in Ids
          BY <1>7, ItemsIndexerAssumption DEF InsertItem, TypeOK, Ids
      <4> QED BY <3>1, <4>1, <4>2 DEF Row
    <3>3. item' # None /\ item'.seed = found.seed
        BY <3>1, <3>2, ItemsIndexerAssumption
    <3> QED BY <1>7, <1>d, <3>1, <3>3 DEF Handled, InsertItem, Labels
  <2> QED BY <2>1, <2>2
<1>8. CASE HandleItemRemoved
    BY <1>8, <1>a, <1>c DEF HandleItemRemoved
<1>9. CASE CommitRemoval
    BY <1>9, <1>d DEF CommitRemoval, Handled, Labels
<1>10. CASE HandleOnChainItemCreated
  <2>1. CASE Return /\ Message.arg \notin Supported
    <3>1. AtMessage
        BY <1>10 DEF HandleOnChainItemCreated, Handling, AtMessage
    <3> QED BY <1>10, <2>1, <3>1 DEF HandleOnChainItemCreated, Return, Handled, storeVars
  <2>2. CASE UNCHANGED <<item, mapped>> /\ (FailHere \/ Goto("InvalidateMapping"))
    <3>1. UNCHANGED chain
        BY <1>10 DEF HandleOnChainItemCreated
    <3> QED BY <2>2, <3>1, <1>a, <1>b DEF FailHere
  <2> QED BY <1>10, <2>1, <2>2 DEF HandleOnChainItemCreated
<1>11. CASE InvalidateMapping
    BY <1>11, <1>a DEF InvalidateMapping, storeVars
<1>12. CASE InsertMapping
  <2>1. CASE Fail
      BY <1>12, <2>1, <1>c DEF InsertMapping
  <2>2. CASE ~Fail
      BY <1>12, <1>d, <2>2 DEF InsertMapping, Handled, Labels
  <2> QED BY <2>1, <2>2
<1>13. CASE HandleOnChainItemRemoved
  <2>1. PICK row : /\ Misled(row)
                   /\ IF row = None THEN FailHere ELSE Advance
                   /\ mapped' = IF row # None /\ item # None /\ row.id = item.id
                                THEN mapped \ {Message.arg} ELSE mapped
      BY <1>13 DEF HandleOnChainItemRemoved
  <2>2. UNCHANGED <<chain, item>> /\ AtMessage
      BY <1>13 DEF HandleOnChainItemRemoved, Handling, AtMessage
  <2>3. CASE row = None
      BY <2>1, <2>2, <2>3, <1>b DEF FailHere
  <2>4. CASE row # None
    <3>1. misled' \/ (item # None /\ row.id = item.id)
        BY <2>1, <2>4 DEF Misled, Outdated
    <3>2. misled' \/ mapped' = mapped \ {Message.arg}
        BY <2>1, <2>4, <3>1
    <3> QED BY <1>13, <2>1, <2>2, <2>4, <3>2 DEF Handled
  <2> QED BY <2>3, <2>4
<1>14. CASE HandleSeed
    BY <1>14, <1>a, <1>c DEF HandleSeed
<1>15. CASE CommitSeed
  <2>1. AtMessage /\ item \in Row /\ found = item /\ Message.arg \in Seeds
    <3>1. AtMessage
        BY <1>15, <1>d DEF CommitSeed, Labels
    <3>2. item \in Row /\ found = item
        BY <1>15 DEF CommitSeed, AtHand, TypeOK
    <3> QED BY <1>15, <3>1, <3>2, MessageType DEF CommitSeed, AtHand
  <2>2. item' = [item EXCEPT !.seed = SeedAfter(Message, item.seed)]
      BY <1>15, <2>1 DEF CommitSeed
  <2>3. SeedAfter(Message, item.seed) \in Seeds \cup {None}
      BY <2>1 DEF SeedAfter, Row
  <2>4. item' \in Row /\ item'.seed = SeedAfter(Message, item.seed)
      BY <2>1, <2>2, <2>3 DEF Row
  <2>5. item' # None
      BY <2>4, ItemsIndexerAssumption
  <2> QED BY <1>15, <2>1, <2>4, <2>5 DEF CommitSeed, Handled
<1>16. CASE CollectionIndexed \/ (\E n \in Networks : MappingsByNetwork(n))
              \/ ItemByID \/ FillCache
    BY <1>16, <1>a DEF CollectionIndexed, MappingsByNetwork, ItemByID, FillCache, storeVars
<1> QED BY <1>1, <1>2, <1>3, <1>4, <1>5, <1>6, <1>7, <1>8, <1>9, <1>10, <1>11, <1>12,
           <1>13, <1>14, <1>15, <1>16 DEF Next
\* The event m says what happens on the chain.
Tells(m) ==
    /\ Emit(m)
    /\ UNCHANGED <<item, mapped, found>>
    /\ m \in ItemMessages => (m.type = "ItemCreated" <=> chain'.exists)
    /\ m \notin ItemMessages => chain'.exists = chain.exists
    /\ m \in SeedMessages => SeedTold(m)'
    /\ m \notin SeedMessages => chain'.seed = chain.seed /\ chain'.exists = chain.exists
    /\ m.type = "SeedRemoved" => m.arg = chain.seed /\ chain.exists /\ chain.seed # None
    /\ \A n \in Networks :
           /\ m \in MappingMessages(n) => (m.type = "OnChainItemCreated" <=> n \in chain'.on)
           /\ m \notin MappingMessages(n) => (n \in chain'.on <=> n \in chain.on)

LEMMA ChainMoves ==
    ASSUME TypeOK, ChainShape, ChainEvent
    PROVE  \E m \in Messages : Tells(m)
<1>0. chain \in [exists : BOOLEAN, seed : Seeds \cup {None}, on : SUBSET Networks]
    BY DEF TypeOK
<1>a. ASSUME NEW m, NEW c, ChainStep(m, c)
      PROVE  Emit(m) /\ chain' = c /\ UNCHANGED <<item, mapped, found>>
    BY <1>a DEF ChainStep, storeVars
<1>b. \A type, arg : Event(type, arg).type = type /\ Event(type, arg).arg = arg
    BY DEF Event
<1>1. CASE ~chain.exists
  <2> DEFINE m == Event("ItemCreated", None)
  <2>1. /\ Emit(m) /\ chain' = [chain EXCEPT !.exists = TRUE]
        /\ UNCHANGED <<item, mapped, found>>
      BY <1>1, <1>a DEF ChainEvent
  <2>2. m \in Messages /\ m.type = "ItemCreated"
      BY DEF Event, Messages
  <2>3. chain'.exists = TRUE /\ chain'.seed = None /\ chain'.on = chain.on
      BY <1>0, <1>1, <2>1 DEF ChainShape
  <2>4. m \in ItemMessages /\ m \in SeedMessages /\ \A n : m \notin MappingMessages(n)
      BY <2>2 DEF ItemMessages, SeedMessages, MappingMessages
  <2> HIDE DEF m
  <2>5. SeedTold(m)'
      BY <2>2, <2>3 DEF SeedTold
  <2> QED BY <2>1, <2>2, <2>3, <2>4, <2>5 DEF Tells
<1>2. CASE chain.exists /\ ChainStep(Event("ItemRemoved", None),
                                     [exists |-> FALSE, seed |-> None, on |-> {}])
  <2> DEFINE m == Event("ItemRemoved", None)
  <2>1. /\ Emit(m) /\ chain' = [exists |-> FALSE, seed |-> None, on |-> {}]
        /\ UNCHANGED <<item, mapped, found>>
      BY <1>2, <1>a
  <2>2. m \in Messages /\ m.type = "ItemRemoved"
      BY DEF Event, Messages
  <2>3. chain'.exists = FALSE /\ chain'.seed = None /\ chain'.on = {}
      BY <2>1
  <2>4. m \in ItemMessages /\ m \in SeedMessages /\ \A n : m \in MappingMessages(n)
      BY <2>2 DEF ItemMessages, SeedMessages, MappingMessages
  <2> HIDE DEF m
  <2>5. SeedTold(m)'
      BY <2>2, <2>3 DEF SeedTold
  <2> QED BY <2>1, <2>2, <2>3, <2>4, <2>5 DEF Tells
<1>3. ASSUME NEW w \in Networks,
             chain.exists,
             \/ ChainStep(Event("OnChainItemCreated", w), [chain EXCEPT !.on = @ \cup {w}])
             \/ ChainStep(Event("OnChainItemRemoved", w), [chain EXCEPT !.on = @ \ {w}])
      PROVE  \E m \in Messages : Tells(m)
  <2>1. PICK type \in {"OnChainItemCreated", "OnChainItemRemoved"} :
            /\ Emit(Event(type, w)) /\ UNCHANGED <<item, mapped, found>>
            /\ chain' = [chain EXCEPT !.on = IF type = "OnChainItemCreated"
                                             THEN @ \cup {w} ELSE @ \ {w}]
      BY <1>3, <1>a
  <2> DEFINE m == Event(type, w)
  <2>2. m \in Messages /\ m.type = type /\ m.arg = w
      BY <1>b DEF Event, Messages
  <2>3. /\ chain'.exists = chain.exists /\ chain'.seed = chain.seed
        /\ \A n : n # w => (n \in chain'.on <=> n \in chain.on)
        /\ w \in chain'.on <=> type = "OnChainItemCreated"
      BY <1>0, <2>1
  <2>4. /\ m \notin ItemMessages /\ m \notin SeedMessages
        /\ \A n : m \in MappingMessages(n) <=> n = w
      BY <2>2 DEF ItemMessages, SeedMessages, MappingMessages
  <2>5. Emit(m)
      BY <2>1
  <2> HIDE DEF m
  <2> QED BY <2>1, <2>2, <2>3, <2>4, <2>5 DEF Tells
<1>4. ASSUME NEW s \in Seeds, chain.exists,
             ChainStep(Event("SeedCreated", s), [chain EXCEPT !.seed = s])
      PROVE  \E m \in Messages : Tells(m)
  <2> DEFINE m == Event("SeedCreated", s)
  <2>1. /\ Emit(m) /\ chain' = [chain EXCEPT !.seed = s] /\ UNCHANGED <<item, mapped, found>>
      BY <1>4, <1>a
  <2>2. m \in Messages /\ m.type = "SeedCreated" /\ m.arg = s
      BY DEF Event, Messages
  <2>3. chain'.exists = chain.exists /\ chain'.seed = s /\ chain'.on = chain.on
      BY <1>0, <2>1
  <2>4. m \notin ItemMessages /\ m \in SeedMessages /\ \A n : m \notin MappingMessages(n)
      BY <2>2 DEF ItemMessages, SeedMessages, MappingMessages
  <2> HIDE DEF m
  <2>5. SeedTold(m)'
      BY <2>2, <2>3 DEF SeedTold
  <2> QED BY <2>1, <2>2, <2>3, <2>4, <2>5 DEF Tells
<1>5. CASE chain.exists /\ chain.seed # None
           /\ ChainStep(Event("SeedRemoved", chain.seed), [chain EXCEPT !.seed = None])
  <2>0. PICK s \in Seeds : s = chain.seed
      BY <1>0, <1>5
  <2> DEFINE m == Event("SeedRemoved", s)
  <2>1. /\ Emit(m) /\ chain' = [chain EXCEPT !.seed = None] /\ UNCHANGED <<item, mapped, found>>
      BY <1>5, <1>a, <2>0
  <2>2. m \in Messages /\ m.type = "SeedRemoved" /\ m.arg = chain.seed
      BY <2>0 DEF Event, Messages
  <2>3. chain'.exists = chain.exists /\ chain'.seed = None /\ chain'.on = chain.on
      BY <1>0, <2>1
  <2>4. m \notin ItemMessages /\ m \in SeedMessages /\ \A n : m \notin MappingMessages(n)
      BY <2>2 DEF ItemMessages, SeedMessages, MappingMessages
  <2> HIDE DEF m
  <2>5. SeedTold(m)'
      BY <2>2, <2>3 DEF SeedTold
  <2> QED BY <1>5, <2>1, <2>2, <2>3, <2>4, <2>5 DEF Tells
<1> QED BY <1>0, <1>1, <1>2, <1>3, <1>4, <1>5 DEF ChainEvent

\* What the three kinds of steps do to the messages of R that are left.
LEMMA StaysFacts ==
    ASSUME TypeOK, TypeOK', Stays, NEW R
    PROVE  /\ NoneOf(R, Backlog', idx', Len(Backlog')) => Done(R)
           /\ \A k \in 1..Len(Backlog') : LastOf(R, Backlog', k) =>
                  \E j \in 1..Len(Backlog) : LastOf(R, Backlog, j) /\ Backlog[j] = Backlog'[k]
<1> DEFINE s == Backlog
           t == Backlog'
           i == idx
           j == idx'
<1>1. PICK d \in Nat : Remainder(s, t, d) /\ j + d <= i
    BY DEF Stays
<1>2. Len(s) \in Nat /\ i \in Nat
    BY BacklogTypes
<1>3. Len(t) \in Nat /\ j \in Nat \ {0}
  <2>1. batch' \in Seq(Messages) /\ queue' \in Seq(Messages)
      BY DEF TypeOK, QueueTypeOK
  <2>2. Len(batch') \in Nat /\ idx' \in 1..(Len(batch') + 1)
      BY <2>1, LenProperties DEF TypeOK, QueueTypeOK
  <2> QED BY <2>1, <2>2, ConcatFacts DEF Backlog
<1> HIDE DEF s, t, i, j
<1>a. /\ \A k \in 1..Len(t) : LastOf(R, t, k) => LastOf(R, s, k + d) /\ s[k + d] = t[k]
      /\ \A h \in Nat \ {0}, l \in 0..Len(t) : NoneOf(R, t, h, l) => NoneOf(R, s, h + d, l + d)
    BY <1>1, <1>2, <1>3, RemainderFacts
<1>4. ASSUME NoneOf(R, t, j, Len(t))
      PROVE  NoneOf(R, s, i, Len(s))
  <2>1. NoneOf(R, s, j + d, Len(t) + d)
      BY <1>a, <1>3, <1>4
  <2>2. Len(t) + d = Len(s)
      BY <1>1 DEF Remainder
  <2>3. \A k \in i..Len(s) : k \in (j + d)..Len(s)
      BY <1>1, <1>2, <1>3
  <2> QED BY <2>1, <2>2, <2>3 DEF NoneOf
<1>5. ASSUME NEW k \in 1..Len(t), LastOf(R, t, k)
      PROVE  \E l \in 1..Len(s) : LastOf(R, s, l) /\ s[l] = t[k]
  <2>1. LastOf(R, s, k + d) /\ s[k + d] = t[k]
      BY <1>a, <1>5
  <2> QED BY <2>1 DEF LastOf
<1> QED BY <1>4, <1>5 DEF s, t, i, j, Done

LEMMA EmitLonger ==
    ASSUME TypeOK, NEW m \in Messages, Emit(m)
    PROVE  /\ Longer(Backlog, Backlog', m)
           /\ Len(Backlog) \in Nat
           /\ Len(Backlog') = Len(Backlog) + 1
           /\ idx' = idx
           /\ idx \in 1..Len(Backlog')
<1>1. /\ batch \in Seq(Messages) /\ queue \in Seq(Messages) /\ idx \in 1..(Len(Backlog) + 1)
      /\ Len(Backlog) = Len(batch) + Len(queue) /\ Len(batch) \in Nat /\ Len(queue) \in Nat
      /\ \A k \in 1..Len(batch) : Backlog[k] = batch[k]
      /\ \A k \in 1..Len(queue) : Backlog[k + Len(batch)] = queue[k]
    BY BacklogTypes DEF TypeOK, QueueTypeOK
<1>2. batch' = batch /\ idx' = idx /\ queue' = Append(queue, m)
    BY DEF Emit
<1>3. /\ queue' \in Seq(Messages) /\ Len(queue') = Len(queue) + 1
      /\ \A k \in 1..Len(queue) : queue'[k] = queue[k]
      /\ queue'[Len(queue) + 1] = m
    BY <1>1, <1>2, AppendProperties
<1>4. /\ Len(Backlog') = Len(batch) + Len(queue')
      /\ \A k \in 1..Len(batch) : Backlog'[k] = batch[k]
      /\ \A k \in 1..Len(queue') : Backlog'[k + Len(batch)] = queue'[k]
    BY <1>1, <1>2, <1>3, ConcatFacts DEF Backlog
<1>5. Len(Backlog') = Len(Backlog) + 1 /\ Backlog'[Len(Backlog')] = m
  <2>1. Len(queue) + 1 \in 1..Len(queue')
      BY <1>1, <1>3
  <2>2. Backlog'[(Len(queue) + 1) + Len(batch)] = m
      BY <1>3, <1>4, <2>1
  <2>3. (Len(queue) + 1) + Len(batch) = Len(Backlog) + 1
      BY <1>1
  <2>4. Len(Backlog') = Len(Backlog) + 1
      BY <1>1, <1>3, <1>4
  <2> QED BY <2>2, <2>3, <2>4
<1>6. ASSUME NEW k \in 1..Len(Backlog)
      PROVE  Backlog'[k] = Backlog[k]
  <2>1. CASE k <= Len(batch)
      BY <1>1, <1>4, <2>1
  <2>2. CASE ~ (k <= Len(batch))
    <3> DEFINE j == k - Len(batch)
    <3>1. j \in 1..Len(queue) /\ j \in 1..Len(queue') /\ j + Len(batch) = k
        BY <1>1, <1>3, <2>2
    <3> HIDE DEF j
    <3>2. Backlog'[j + Len(batch)] = queue'[j] /\ Backlog[j + Len(batch)] = queue[j]
        BY <1>1, <1>4, <3>1
    <3> QED BY <1>3, <3>1, <3>2
  <2> QED BY <2>1, <2>2
<1> QED BY <1>1, <1>2, <1>5, <1>6 DEF Longer

LEMMA EmitFacts ==
    ASSUME TypeOK, NEW m \in Messages, Emit(m), NEW R
    PROVE  IF m \in R
           THEN /\ ~ NoneOf(R, Backlog', idx', Len(Backlog'))
                /\ \A k \in 1..Len(Backlog') : LastOf(R, Backlog', k) =>
                       k = Len(Backlog') /\ Backlog'[k] = m
           ELSE /\ NoneOf(R, Backlog', idx', Len(Backlog')) => Done(R)
                /\ \A k \in 1..Len(Backlog') : LastOf(R, Backlog', k) =>
                       k \in 1..Len(Backlog) /\ LastOf(R, Backlog, k) /\ Backlog[k] = Backlog'[k]
<1>1. Longer(Backlog, Backlog', m) /\ Len(Backlog) \in Nat /\ idx' = idx
      /\ idx' \in 1..Len(Backlog') /\ idx' \in Nat \ {0}
    BY EmitLonger
<1> QED BY <1>1, LongerFacts DEF Done

LEMMA HandledFacts ==
    ASSUME TypeOK, Handled, NEW R
    PROVE  /\ Backlog' = Backlog /\ Message \in Messages /\ Backlog[idx] = Message
           /\ idx \in 1..Len(Backlog) /\ idx' = idx + 1
           /\ NoneOf(R, Backlog', idx', Len(Backlog')) =>
                  IF Message \in R THEN LastOf(R, Backlog, idx) ELSE Done(R)
<1>1. /\ Len(Backlog) \in Nat /\ idx \in 1..Len(Backlog)
      /\ Backlog[idx] = Message /\ Message \in Messages
    BY BacklogTypes, MessageType DEF Handled
<1>2. Backlog' = Backlog /\ idx' = idx + 1
    BY DEF Handled, Advance, Backlog
<1> QED BY <1>1, <1>2, NextOrNone DEF Done
\* Which message is handled, and which of its subjects it has.
LEMMA HandledTypes ==
    ASSUME TypeOK, AtHand, Handled
    PROVE  /\ InsertItem => Message.type = "ItemCreated"
           /\ CommitRemoval => Message.type = "ItemRemoved"
           /\ InsertMapping => Message.type = "OnChainItemCreated"
           /\ HandleOnChainItemCreated => Message.type = "OnChainItemCreated"
           /\ HandleOnChainItemRemoved => Message.type = "OnChainItemRemoved"
           /\ CommitSeed => Message.type \in {"SeedCreated", "SeedRemoved"} /\ item # None
           /\ Message \in ItemMessages <=> Message.type \in {"ItemCreated", "ItemRemoved"}
           /\ Message \in SeedMessages <=>
                  Message.type \in {"ItemCreated", "ItemRemoved", "SeedCreated", "SeedRemoved"}
           /\ \A n : Message \in MappingMessages(n) <=>
                  \/ Message.type = "ItemRemoved"
                  \/ /\ Message.type \in {"OnChainItemCreated", "OnChainItemRemoved"}
                     /\ Message.arg = n
<1>1. Message \in Messages
    BY HandledFacts
<1>2. /\ InsertItem => Message.type = "ItemCreated"
      /\ CommitRemoval => Message.type = "ItemRemoved"
      /\ InsertMapping => Message.type = "OnChainItemCreated"
      /\ CommitSeed => Message.type \in {"SeedCreated", "SeedRemoved"} /\ item # None
    BY DEF AtHand, InsertItem, CommitRemoval, InsertMapping, CommitSeed
<1>3. /\ HandleOnChainItemCreated => Message.type = "OnChainItemCreated"
      /\ HandleOnChainItemRemoved => Message.type = "OnChainItemRemoved"
    BY DEF HandleOnChainItemCreated, HandleOnChainItemRemoved, Handling, Message
<1> QED BY <1>1, <1>2, <1>3 DEF ItemMessages, SeedMessages, MappingMessages

LEMMA NextItemInOrder ==
    ASSUME TypeOK, TypeOK', AtHand, ChainShape, ItemInOrder, Stays \/ Handled \/ ChainEvent
    PROVE  ItemInOrder'
<1>1. CASE Stays
    BY <1>1, StaysFacts DEF ItemInOrder, Done, Stays
<1>2. CASE Handled
  <2>1. /\ Backlog' = Backlog /\ Backlog[idx] = Message /\ idx \in 1..Len(Backlog)
        /\ NoneOf(ItemMessages, Backlog', idx', Len(Backlog')) =>
               IF Message \in ItemMessages THEN LastOf(ItemMessages, Backlog, idx)
                                           ELSE Done(ItemMessages)
        /\ chain' = chain
      BY <1>2, HandledFacts DEF Handled
  <2>2. CASE Message \in ItemMessages
    <3>1. item' # None <=> Message.type = "ItemCreated"
        BY <1>2, <2>2, HandledTypes DEF Handled
    <3> QED BY <2>1, <2>2, <3>1 DEF ItemInOrder, Done
  <2>3. CASE Message \notin ItemMessages
    <3>1. item' # None <=> item # None
        BY <1>2, <2>3, HandledTypes DEF Handled
    <3> QED BY <2>1, <2>3, <3>1 DEF ItemInOrder, Done
  <2> QED BY <2>2, <2>3
<1>3. CASE ChainEvent
  <2>1. PICK m \in Messages : Tells(m)
      BY <1>3, ChainMoves
  <2>2. Emit(m) /\ item' = item
      BY <2>1 DEF Tells
  <2>3. CASE m \in ItemMessages
      BY <2>1, <2>2, <2>3, EmitFacts DEF Tells, ItemInOrder, Done
  <2>4. CASE m \notin ItemMessages
      BY <2>1, <2>2, <2>4, EmitFacts DEF Tells, ItemInOrder, Done
  <2> QED BY <2>3, <2>4
<1> QED BY <1>1, <1>2, <1>3

LEMMA NextMappingsInOrder ==
    ASSUME TypeOK, TypeOK', AtHand, ChainShape, MappingsInOrder, ~misled',
           Stays \/ Handled \/ ChainEvent
    PROVE  MappingsInOrder'
<1>1. SUFFICES
        ASSUME NEW n \in Networks
        PROVE  /\ \A k \in 1..Len(Backlog') : LastOf(MappingMessages(n), Backlog', k) =>
                      (Backlog'[k].type = "OnChainItemCreated" <=> n \in chain'.on)
               /\ NoneOf(MappingMessages(n), Backlog', idx', Len(Backlog')) /\ n \in Supported =>
                      (n \in mapped' <=> n \in chain'.on)
    BY DEF MappingsInOrder, Done, MappingMessages
<1> DEFINE R == MappingMessages(n)
<1>2. /\ \A k \in 1..Len(Backlog) :
             LastOf(R, Backlog, k) => (Backlog[k].type = "OnChainItemCreated" <=> n \in chain.on)
      /\ Done(R) /\ n \in Supported => (n \in mapped <=> n \in chain.on)
    BY DEF MappingsInOrder
<1>3. CASE Stays
    BY <1>2, <1>3, StaysFacts DEF Stays
<1>4. CASE Handled
  <2>1. /\ Backlog' = Backlog /\ Backlog[idx] = Message /\ idx \in 1..Len(Backlog)
        /\ NoneOf(R, Backlog', idx', Len(Backlog')) =>
               IF Message \in R THEN LastOf(R, Backlog, idx) ELSE Done(R)
        /\ chain' = chain
      BY <1>4, HandledFacts DEF Handled
  <2>2. Message \in R <=> \/ Message.type = "ItemRemoved"
                          \/ /\ Message.type \in {"OnChainItemCreated", "OnChainItemRemoved"}
                             /\ Message.arg = n
      BY <1>4, HandledTypes
  <2>3. CASE Message \in R /\ n \in Supported
    <3>1. n \in mapped' <=> Message.type = "OnChainItemCreated"
      <4>1. CASE CommitRemoval /\ mapped' = {}
          BY <4>1, <1>4, HandledTypes
      <4>2. CASE InsertMapping /\ mapped' = mapped \cup {Message.arg}
          BY <2>2, <2>3, <4>2, <1>4, HandledTypes
      <4>3. CASE HandleOnChainItemRemoved /\ (misled' \/ mapped' = mapped \ {Message.arg})
          BY <2>2, <2>3, <4>3, <1>4, HandledTypes
      <4>4. CASE InsertItem \/ CommitSeed
          BY <2>2, <2>3, <4>4, <1>4, HandledTypes
      <4>5. CASE HandleOnChainItemCreated /\ Message.arg \notin Supported
          BY <2>2, <2>3, <4>5, <1>4, HandledTypes
      <4> QED BY <1>4, <4>1, <4>2, <4>3, <4>4, <4>5 DEF Handled
    <3> QED BY <1>2, <2>1, <2>3, <3>1
  <2>4. CASE Message \notin R
    <3>1. n \in mapped' <=> n \in mapped
      <4>1. CASE CommitRemoval
          BY <2>2, <2>4, <4>1, <1>4, HandledTypes
      <4>2. CASE InsertMapping /\ mapped' = mapped \cup {Message.arg}
          BY <2>2, <2>4, <4>2, <1>4, HandledTypes
      <4>3. CASE HandleOnChainItemRemoved /\ (misled' \/ mapped' = mapped \ {Message.arg})
          BY <2>2, <2>4, <4>3, <1>4, HandledTypes
      <4>4. CASE mapped' = mapped
          BY <4>4
      <4> QED BY <1>4, <4>1, <4>2, <4>3, <4>4 DEF Handled
    <3> QED BY <1>2, <2>1, <2>4, <3>1
  <2>5. CASE n \notin Supported
      BY <1>2, <2>1, <2>5
  <2> QED BY <2>3, <2>4, <2>5
<1>5. CASE ChainEvent
  <2>1. PICK m \in Messages : Tells(m)
      BY <1>5, ChainMoves
  <2>2. /\ Emit(m) /\ mapped' = mapped
        /\ m \in R => (m.type = "OnChainItemCreated" <=> n \in chain'.on)
        /\ m \notin R => (n \in chain'.on <=> n \in chain.on)
      BY <2>1 DEF Tells
  <2>3. CASE m \in R
      BY <2>2, <2>3, EmitFacts
  <2>4. CASE m \notin R
    <3>1. /\ NoneOf(R, Backlog', idx', Len(Backlog')) => Done(R)
          /\ \A k \in 1..Len(Backlog') : LastOf(R, Backlog', k) =>
                 k \in 1..Len(Backlog) /\ LastOf(R, Backlog, k) /\ Backlog[k] = Backlog'[k]
        BY <2>2, <2>4, EmitFacts
    <3> QED BY <1>2, <2>2, <2>4, <3>1
  <2> QED BY <2>3, <2>4
<1> QED BY <1>3, <1>4, <1>5
LEMMA NextSeedInOrder ==
    ASSUME TypeOK, TypeOK', AtHand, ChainShape, SeedInOrder, SeedAtHand, SeedRemovals,
           Stays \/ Handled \/ ChainEvent
    PROVE  SeedInOrder'
<1>0. \A m : UNCHANGED chain => (SeedTold(m) <=> SeedTold(m)')
    BY DEF SeedTold
<1>1. CASE Stays
  <2>1. UNCHANGED <<chain, item>>
      BY <1>1 DEF Stays
  <2>2. \A k \in 1..Len(Backlog') : LastOf(SeedMessages, Backlog', k) => SeedTold(Backlog'[k])
      BY <1>1, StaysFacts DEF SeedInOrder
  <2>3. NoneOf(SeedMessages, Backlog', idx', Len(Backlog')) => (item # None => item.seed = chain.seed)
      BY <1>1, StaysFacts DEF SeedInOrder
  <2> QED BY <2>1, <2>2, <2>3 DEF SeedInOrder, SeedTold, Done
<1>2. CASE Handled
  <2>1. /\ Backlog' = Backlog /\ Backlog[idx] = Message /\ idx \in 1..Len(Backlog)
        /\ NoneOf(SeedMessages, Backlog', idx', Len(Backlog')) =>
               IF Message \in SeedMessages THEN LastOf(SeedMessages, Backlog, idx)
                                           ELSE Done(SeedMessages)
        /\ chain' = chain
      BY <1>2, HandledFacts DEF Handled
  <2>2. \A k \in 1..Len(Backlog) : LastOf(SeedMessages, Backlog, k) => SeedTold(Backlog[k])
      BY DEF SeedInOrder
  <2>3. ASSUME NoneOf(SeedMessages, Backlog', idx', Len(Backlog')), item' # None
        PROVE  item'.seed = chain'.seed
    <3>1. CASE Message \notin SeedMessages
      <4>1. item' = item
          BY <1>2, <3>1, HandledTypes DEF Handled
      <4> QED BY <2>1, <2>3, <3>1, <4>1 DEF SeedInOrder
    <3>2. CASE Message \in SeedMessages
      <4>1. LastOf(SeedMessages, Backlog, idx) /\ SeedTold(Message)
          BY <2>1, <2>3, <3>2 DEF SeedInOrder
      <4>2. CASE InsertItem /\ item'.seed = found.seed
        <5>1. NoneOf(SeedMessages, Backlog, idx + 1, Len(Backlog))
            BY <4>1 DEF LastOf
        <5> QED BY <2>1, <4>2, <5>1 DEF InsertItem, SeedAtHand
      <4>3. CASE CommitSeed /\ item'.seed = SeedAfter(Message, item.seed)
        <5>1. item # None /\ Message.type \in {"SeedCreated", "SeedRemoved"}
            BY <1>2, <4>3, HandledTypes
        <5>2. CASE Message.type = "SeedCreated"
            BY <2>1, <4>1, <4>3, <5>2 DEF SeedTold, SeedAfter
        <5>3. CASE Message.type = "SeedRemoved"
          <6>1. chain.seed = None
              BY <4>1, <5>3 DEF SeedTold
          <6>2. idx <= idx /\ NoneOf(SeedMessages, Backlog, idx, idx - 1)
              BY <2>1 DEF NoneOf
          <6>3. item.seed \in {None, Message.arg}
              BY <2>1, <4>1, <5>1, <5>3, <6>2 DEF SeedRemovals
          <6>4. Message.type # "SeedCreated"
              BY <5>3
          <6> QED BY <2>1, <4>3, <6>1, <6>3, <6>4 DEF SeedAfter
        <5> QED BY <5>1, <5>2, <5>3
      <4> QED BY <1>2, <2>3, <3>2, <4>2, <4>3, HandledTypes DEF Handled
    <3> QED BY <3>1, <3>2
  <2> QED BY <2>1, <2>2, <2>3 DEF SeedInOrder, SeedTold, Done
<1>3. CASE ChainEvent
  <2>1. PICK m \in Messages : Tells(m)
      BY <1>3, ChainMoves
  <2>2. Emit(m) /\ item' = item
      BY <2>1 DEF Tells
  <2>3. CASE m \in SeedMessages
    <3>1. SeedTold(m)'
        BY <2>1, <2>3 DEF Tells
    <3>2. \A k \in 1..Len(Backlog') : LastOf(SeedMessages, Backlog', k) => Backlog'[k] = m
        BY <2>2, <2>3, EmitFacts
    <3>3. ~ NoneOf(SeedMessages, Backlog', idx', Len(Backlog'))
        BY <2>2, <2>3, EmitFacts
    <3> QED BY <3>1, <3>2, <3>3 DEF SeedInOrder, SeedTold, Done
  <2>4. CASE m \notin SeedMessages
    <3>1. chain'.seed = chain.seed /\ chain'.exists = chain.exists
        BY <2>1, <2>4 DEF Tells
    <3>2. /\ NoneOf(SeedMessages, Backlog', idx', Len(Backlog')) => Done(SeedMessages)
          /\ \A k \in 1..Len(Backlog') : LastOf(SeedMessages, Backlog', k) =>
                 k \in 1..Len(Backlog) /\ LastOf(SeedMessages, Backlog, k)
                 /\ Backlog[k] = Backlog'[k]
        BY <2>2, <2>4, EmitFacts
    <3>3. \A k \in 1..Len(Backlog') :
              LastOf(SeedMessages, Backlog', k) => SeedTold(Backlog'[k])
        BY <3>2 DEF SeedInOrder
    <3> QED BY <2>2, <3>1, <3>2, <3>3 DEF SeedInOrder, SeedTold, Done
  <2> QED BY <2>3, <2>4
<1> QED BY <1>1, <1>2, <1>3

LEMMA NextSeedAtHand ==
    ASSUME TypeOK, TypeOK', AtHand, ChainShape, SeedAtHand, ~disturbed', [Next]_vars
    PROVE  SeedAtHand'
<1> USE DEF Rest
<1> DEFINE Saving(label) == label \in {"FindCollection", "SaveCollection", "InsertItem"}
<1>1. SUFFICES ASSUME Saving(pc')
               PROVE  NoneOf(SeedMessages, Backlog', idx' + 1, Len(Backlog')) =>
                          found'.seed = chain'.seed
    BY DEF SeedAtHand
<1>a. ASSUME UNCHANGED <<batch, queue, idx, found, chain>>, Saving(pc)
      PROVE  NoneOf(SeedMessages, Backlog', idx' + 1, Len(Backlog')) => found'.seed = chain'.seed
    BY <1>a DEF SeedAtHand, Backlog
<1>b. ASSUME Fail \/ Advance \/ FailAttempt \/ LetGo
      PROVE  FALSE
    BY <1>1, <1>b DEF Fail, FailHere, FailAttempt, LetGo, Advance
<1>2. CASE UNCHANGED vars
    BY <1>1, <1>2, <1>a DEF vars, queueVars, storeVars
<1>3. CASE HandleItemCreated
  <2>1. CASE chain.exists
      BY <1>3, <2>1 DEF HandleItemCreated
  <2> QED BY <1>3, <2>1, <1>b DEF HandleItemCreated
<1>4. CASE FindCollection
    BY <1>4, <1>a DEF FindCollection, Goto, storeVars
<1>5. CASE SaveCollection
  <2>1. CASE ~collection
      BY <1>5, <2>1, <1>a DEF SaveCollection, Goto
  <2> QED BY <1>5, <2>1, <1>b DEF SaveCollection
<1>6. CASE ChainEvent
  <2>1. PICK m \in Messages : Tells(m)
      BY <1>6, ChainMoves
  <2>2. Emit(m) /\ UNCHANGED <<found, pc, idx>>
      BY <2>1 DEF Tells, Emit
  <2> DEFINE s == Backlog
             t == Backlog'
  <2>3. Longer(s, t, m) /\ Len(s) \in Nat /\ Len(t) = Len(s) + 1 /\ idx + 1 \in Nat \ {0}
        /\ idx + 1 \in 1..Len(t)
    <3>1. idx <= Len(batch) /\ AtMessage
        BY <1>1, <2>2 DEF TypeOK, QueueTypeOK, AtMessage
    <3>2. idx \in 1..Len(Backlog) /\ Longer(s, t, m) /\ Len(s) \in Nat /\ Len(t) = Len(s) + 1
        BY <2>2, <3>1, EmitLonger, BacklogTypes
    <3> QED BY <3>2
  <2> HIDE DEF s, t
  <2>4. CASE m \in SeedMessages
    <3>1. ~ NoneOf(SeedMessages, t, idx + 1, Len(t))
        BY <2>3, <2>4, LongerFacts
    <3> QED BY <2>2, <3>1 DEF t
  <2>5. CASE m \notin SeedMessages
    <3>1. NoneOf(SeedMessages, t, idx + 1, Len(t)) => NoneOf(SeedMessages, s, idx + 1, Len(s))
        BY <2>3, <2>5, LongerFacts
    <3>2. chain'.seed = chain.seed
        BY <2>1, <2>5 DEF Tells
    <3> QED BY <1>1, <2>2, <3>1, <3>2 DEF SeedAtHand, s, t
  <2> QED BY <2>4, <2>5
<1>7. CASE Consuming
    BY <1>1, <1>7, <1>b DEF Consuming, TakeBatch, AckBatch, CallFails, Crash, Repeat
<1>8. CASE InsertItem
    BY <1>8, <1>b DEF InsertItem
<1>9. CASE HandleItemRemoved
    BY <1>1, <1>9, <1>b DEF HandleItemRemoved, Goto
<1>10. CASE CommitRemoval
    BY <1>10, <1>b DEF CommitRemoval
<1>11. CASE HandleOnChainItemCreated
    BY <1>1, <1>11, <1>b DEF HandleOnChainItemCreated, Return, FailHere, Goto
<1>12. CASE InvalidateMapping
    BY <1>1, <1>12 DEF InvalidateMapping, Goto
<1>13. CASE InsertMapping
    BY <1>13, <1>b DEF InsertMapping
<1>14. CASE HandleOnChainItemRemoved
    BY <1>14, <1>b DEF HandleOnChainItemRemoved, FailHere
<1>15. CASE HandleSeed
    BY <1>1, <1>15, <1>b DEF HandleSeed, Goto
<1>16. CASE CommitSeed
    BY <1>16, <1>b DEF CommitSeed
<1>17. CASE CollectionIndexed \/ (\E n \in Networks : MappingsByNetwork(n))
              \/ ItemByID \/ FillCache
    BY <1>1, <1>17, <1>a
    DEF CollectionIndexed, MappingsByNetwork, ItemByID, FillCache, queueVars, storeVars
<1> QED BY <1>2, <1>3, <1>4, <1>5, <1>6, <1>7, <1>8, <1>9, <1>10, <1>11, <1>12,
           <1>13, <1>14, <1>15, <1>16, <1>17 DEF Next

LEMMA NextSeedRemovals ==
    ASSUME TypeOK, TypeOK', AtHand, ChainShape, SeedInOrder, SeedRemovals,
           Stays \/ Handled \/ ChainEvent
    PROVE  SeedRemovals'
<1> DEFINE R == SeedMessages
           s == Backlog
           t == Backlog'
           i == idx
           h == idx'
           Before(q, k) == \A j \in 1..(k - 1) :
                               q[j] \in R /\ NoneOf(R, q, j + 1, k - 1) =>
                                   q[j].type = "SeedCreated" /\ q[j].arg = q[k].arg
<1>0. /\ Len(s) \in Nat /\ i \in 1..(Len(s) + 1)
      /\ \A k \in 1..Len(s) : LastOf(R, s, k) /\ s[k].type = "SeedRemoved" =>
             /\ Before(s, k)
             /\ i <= k /\ NoneOf(R, s, i, k - 1) =>
                    (item # None => item.seed \in {None, s[k].arg})
    BY BacklogTypes DEF SeedRemovals
<1>1. SUFFICES
        ASSUME NEW k \in 1..Len(t), LastOf(R, t, k), t[k].type = "SeedRemoved"
        PROVE  /\ Before(t, k)
               /\ h <= k /\ NoneOf(R, t, h, k - 1) =>
                      (item' # None => item'.seed \in {None, t[k].arg})
    BY DEF SeedRemovals, SeedMessages
<1>2. Len(t) \in Nat /\ h \in Nat \ {0}
  <2>1. batch' \in Seq(Messages) /\ queue' \in Seq(Messages)
      BY DEF TypeOK, QueueTypeOK
  <2>2. Len(batch') \in Nat /\ idx' \in 1..(Len(batch') + 1)
      BY <2>1, LenProperties DEF TypeOK, QueueTypeOK
  <2> QED BY <2>1, <2>2, ConcatFacts DEF Backlog
<1>3. CASE Stays
  <2>1. PICK d \in Nat : Remainder(s, t, d) /\ h + d <= i
      BY <1>3 DEF Stays
  <2>2. UNCHANGED <<chain, item>>
      BY <1>3 DEF Stays
  <2>3. Done(R) => (item # None => item.seed = chain.seed)
      BY DEF SeedInOrder
  <2>4. \A l \in 1..Len(s) : LastOf(R, s, l) /\ s[l].type = "SeedRemoved" => chain.seed = None
      BY DEF SeedInOrder, SeedTold
  <2>5. Done(R) <=> NoneOf(R, s, i, Len(s))
      BY DEF Done
  <2> HIDE DEF s, t, i, h, R
  <2>6. /\ \A l \in 1..Len(t) : LastOf(R, t, l) => LastOf(R, s, l + d) /\ s[l + d] = t[l]
        /\ \A a \in Nat \ {0}, b \in 0..Len(t) : NoneOf(R, t, a, b) => NoneOf(R, s, a + d, b + d)
      BY <1>0, <1>2, <2>1, RemainderFacts
  <2>7. Len(s) = Len(t) + d /\ \A l \in 1..Len(t) : t[l] = s[l + d]
      BY <2>1 DEF Remainder
  <2>8. LastOf(R, s, k + d) /\ s[k + d] = t[k] /\ k + d \in 1..Len(s)
      BY <1>1, <1>2, <2>6, <2>7
  <2>9. Before(s, k + d)
      BY <1>0, <1>1, <2>8
  <2>10. ASSUME NEW j \in 1..(k - 1), t[j] \in R, NoneOf(R, t, j + 1, k - 1)
         PROVE  t[j].type = "SeedCreated" /\ t[j].arg = t[k].arg
    <3>1. j + 1 \in Nat \ {0} /\ k - 1 \in 0..Len(t) /\ j \in 1..Len(t)
        BY <1>1, <1>2
    <3>2. NoneOf(R, s, (j + 1) + d, (k - 1) + d)
        BY <2>6, <2>10, <3>1
    <3>3. (j + 1) + d = (j + d) + 1 /\ (k - 1) + d = (k + d) - 1 /\ j + d \in 1..((k + d) - 1)
        BY <3>1
    <3>4. NoneOf(R, s, (j + d) + 1, (k + d) - 1) /\ s[j + d] = t[j]
        BY <2>7, <3>1, <3>2, <3>3
    <3> QED BY <2>8, <2>9, <2>10, <3>3, <3>4
  <2>11. ASSUME h <= k, NoneOf(R, t, h, k - 1), item # None
         PROVE  item.seed \in {None, t[k].arg}
    <3>1. k - 1 \in 0..Len(t)
        BY <1>1, <1>2
    <3>2. NoneOf(R, s, h + d, (k - 1) + d)
        BY <1>2, <2>6, <2>11, <3>1
    <3>3. CASE i <= k + d
      <4>1. NoneOf(R, s, i, (k + d) - 1)
          BY <1>0, <1>2, <2>1, <3>2, <3>3 DEF NoneOf
      <4> QED BY <1>0, <1>1, <2>8, <2>11, <3>3, <4>1
    <3>4. CASE ~ (i <= k + d)
      <4>1. NoneOf(R, s, (k + d) + 1, Len(s))
          BY <2>8 DEF LastOf
      <4>2. \A l \in i..Len(s) : l \in ((k + d) + 1)..Len(s)
          BY <1>0, <3>4
      <4>3. NoneOf(R, s, i, Len(s))
          BY <4>1, <4>2 DEF NoneOf
      <4>4. item.seed = chain.seed /\ chain.seed = None
          BY <1>1, <2>3, <2>4, <2>5, <2>8, <2>11, <4>3
      <4> QED BY <4>4
    <3> QED BY <3>3, <3>4
  <2> QED BY <2>2, <2>10, <2>11
<1>4. CASE Handled
  <2>1. t = s /\ s[i] = Message /\ i \in 1..Len(s) /\ h = i + 1
      BY <1>4, HandledFacts
  <2>2. Before(s, k) /\ (i <= k /\ NoneOf(R, s, i, k - 1) =>
                             (item # None => item.seed \in {None, s[k].arg}))
      BY <1>0, <1>1, <2>1
  <2>3. ASSUME h <= k, NoneOf(R, t, h, k - 1), item' # None
        PROVE  item'.seed \in {None, t[k].arg}
    <3>1. CASE Message \notin R
      <4>1. item' = item
          BY <1>4, <3>1, HandledTypes DEF Handled
      <4>2. i <= k /\ NoneOf(R, s, i, k - 1)
        <5> HIDE DEF s, t, i, h, R
        <5>1. \A l \in i..(k - 1) : l = i \/ l \in (i + 1)..(k - 1)
            BY <1>1, <2>1
        <5> QED BY <1>1, <2>1, <2>3, <3>1, <5>1 DEF NoneOf
      <4> QED BY <2>1, <2>2, <2>3, <4>1, <4>2
    <3>2. CASE Message \in R
      <4>1. Message.type = "SeedCreated" /\ Message.arg = s[k].arg
        <5> HIDE DEF s, t, i, h, R
        <5>1. i \in 1..(k - 1) /\ NoneOf(R, s, i + 1, k - 1)
            BY <1>1, <1>2, <2>1, <2>3
        <5> QED BY <2>1, <2>2, <3>2, <5>1
      <4>2. item'.seed = SeedAfter(Message, item.seed)
          BY <1>4, <4>1, HandledTypes DEF Handled
      <4> QED BY <2>1, <4>1, <4>2 DEF SeedAfter
    <3> QED BY <3>1, <3>2
  <2> QED BY <2>1, <2>2, <2>3
<1>5. CASE ChainEvent
  <2>1. PICK m \in Messages : Tells(m)
      BY <1>5, ChainMoves
  <2>2. Emit(m) /\ item' = item
      BY <2>1 DEF Tells
  <2>3. Longer(s, t, m) /\ Len(t) = Len(s) + 1 /\ h = i
      BY <2>2, EmitLonger
  <2>4. \A a \in Nat \ {0}, b \in 0..Len(s) : NoneOf(R, t, a, b) => NoneOf(R, s, a, b)
      BY <1>0, <2>3, LongerFacts
  <2>5. \A l \in 1..Len(s) : t[l] = s[l]
      BY <2>3 DEF Longer
  <2>6. CASE m \in R
    <3>1. k = Len(t) /\ t[k] = m
        BY <1>1, <2>2, <2>6, EmitFacts
    <3>2. m.arg = chain.seed /\ chain.exists /\ chain.seed # None
        BY <1>1, <2>1, <3>1 DEF Tells
    <3>3. \A l \in 1..Len(s) : LastOf(R, s, l) => SeedTold(s[l])
        BY DEF SeedInOrder
    <3>4. NoneOf(R, s, i, Len(s)) => (item # None => item.seed = chain.seed)
        BY DEF SeedInOrder, Done
    <3>5. \A x \in R : x.type \in {"ItemCreated", "ItemRemoved", "SeedCreated", "SeedRemoved"}
        BY DEF SeedMessages
    <3> HIDE DEF s, t, i, h, R
    <3>6. k - 1 = Len(s)
        BY <1>0, <2>3, <3>1
    <3>7. ASSUME NEW j \in 1..(k - 1), t[j] \in R, NoneOf(R, t, j + 1, k - 1)
          PROVE  t[j].type = "SeedCreated" /\ t[j].arg = t[k].arg
      <4>1. j \in 1..Len(s) /\ j + 1 \in Nat \ {0} /\ Len(s) \in 0..Len(s)
          BY <1>0, <3>6, <3>7
      <4>2. NoneOf(R, s, j + 1, Len(s)) /\ s[j] \in R /\ s[j] = t[j]
          BY <2>4, <2>5, <3>6, <3>7, <4>1
      <4>3. SeedTold(s[j])
          BY <3>3, <4>1, <4>2 DEF LastOf
      <4> QED BY <3>1, <3>2, <3>5, <4>2, <4>3 DEF SeedTold
    <3>8. ASSUME NoneOf(R, t, h, k - 1), item # None
          PROVE  item.seed = t[k].arg
      <4>1. i \in Nat \ {0} /\ Len(s) \in 0..Len(s)
          BY <1>0
      <4>2. NoneOf(R, s, i, Len(s))
          BY <2>3, <2>4, <3>6, <3>8, <4>1
      <4> QED BY <3>1, <3>2, <3>4, <3>8, <4>2
    <3> QED BY <2>2, <3>7, <3>8
  <2>7. CASE m \notin R
    <3>1. k \in 1..Len(s) /\ LastOf(R, s, k) /\ s[k] = t[k]
        BY <1>1, <2>2, <2>7, EmitFacts
    <3> HIDE DEF s, t, i, h, R
    <3>2. Before(s, k) /\ (i <= k /\ NoneOf(R, s, i, k - 1) =>
                               (item # None => item.seed \in {None, s[k].arg}))
        BY <1>0, <1>1, <3>1
    <3>3. ASSUME NEW j \in 1..(k - 1), t[j] \in R, NoneOf(R, t, j + 1, k - 1)
          PROVE  t[j].type = "SeedCreated" /\ t[j].arg = t[k].arg
      <4>1. j \in 1..Len(s) /\ j + 1 \in Nat \ {0} /\ k - 1 \in 0..Len(s)
          BY <1>0, <3>1
      <4>2. NoneOf(R, s, j + 1, k - 1) /\ s[j] \in R /\ s[j] = t[j]
          BY <2>4, <2>5, <3>3, <4>1
      <4> QED BY <3>1, <3>2, <4>2
    <3>4. ASSUME h <= k, NoneOf(R, t, h, k - 1)
          PROVE  i <= k /\ NoneOf(R, s, i, k - 1)
      <4>1. i \in Nat \ {0} /\ k - 1 \in 0..Len(s)
          BY <1>0, <3>1
      <4> QED BY <2>3, <2>4, <3>4, <4>1
    <3> QED BY <2>2, <3>1, <3>2, <3>3, <3>4
  <2> QED BY <2>6, <2>7
<1> QED BY <1>3, <1>4, <1>5
-----------------------------------------------------------------------------
(* The invariant *)

LEMMA InitInvariant == Init => IInv
<1> SUFFICES ASSUME Init
             PROVE  IInv
    OBVIOUS
<1> USE EventQueueAssumption, ItemsIndexerAssumption DEF Init, QueueInit
<1>1. << >> \in Seq(Messages) /\ Len(<< >>) = 0
    BY EmptySeq
<1>2. QueueTypeOK(Messages, Labels)
  <2>1. queue \in Seq(Messages) /\ batch \in Seq(Messages) /\ Len(batch) = 0
      BY <1>1
  <2>2. Len(batch) <= BatchSize /\ idx \in 1..(Len(batch) + 1) /\ attempt \in 1..Attempts
      BY <2>1
  <2>3. events \in 0..MaxEvents /\ faults \in 0..MaxFaults
      OBVIOUS
  <2> QED BY <2>1, <2>2, <2>3 DEF QueueTypeOK
<1>3. DataTypes
  <2>1. /\ chain \in [exists : BOOLEAN, seed : Seeds \cup {None}, on : SUBSET Networks]
        /\ lastId \in 0..MaxIds
      OBVIOUS
  <2>2. byId \in [Ids -> Row \cup {None}] /\ list \in [Networks -> (SUBSET Ids) \cup {None}]
      OBVIOUS
  <2>3. CacheTypes
      BY <2>2 DEF CacheTypes
  <2> QED BY <2>1, <2>2, <2>3 DEF DataTypes
<1>4. TypeOK
    BY <1>2, <1>3, TypesSplit
<1>5. AtHand /\ MappedTypes /\ ChainShape
    BY DEF AtHand, MappedTypes, ChainShape
<1>6. ItemEntries /\ ListEntries
    BY DEF ItemEntries, ListEntries, FreshUnder
<1>7. Backlog = << >> \o << >> /\ Len(Backlog) = 0
    BY <1>1, ConcatFacts DEF Backlog
<1>8. InOrder
    BY <1>7 DEF InOrder, ItemInOrder, SeedInOrder, SeedAtHand, SeedRemovals, MappingsInOrder
<1> QED BY <1>4, <1>5, <1>6, <1>8 DEF IInv

\* Nothing makes up for what was lost, disturbed or misled.
LEMMA HistoryStays ==
    ASSUME TypeOK, [Next]_vars
    PROVE  (lost => lost') /\ (disturbed => disturbed') /\ (misled => misled')
<1>1. lost => lost'
    BY QueueSteps
    DEF queueVars, Goto, Advance, FailHere, FailAttempt, LetGo, Emit, Consuming, TakeBatch,
        AckBatch, CallFails, Crash, Repeat
<1>2. disturbed => disturbed'
    BY QueueSteps
    DEF queueVars, Goto, Advance, FailHere, FailAttempt, LetGo, Emit, Consuming, TakeBatch,
        AckBatch, CallFails, Crash, Repeat
<1>3. misled => misled'
  <2>1. CASE UNCHANGED misled
      BY <2>1
  <2>2. CASE \E row : Misled(row)
      BY <2>2 DEF Misled
  <2> QED
    BY <2>1, <2>2
    DEF Next, vars, Rest, Fail, Return, ChainEvent, ChainStep, Consuming,
        HandleItemCreated, FindCollection, SaveCollection, InsertItem, HandleItemRemoved,
        CommitRemoval, HandleOnChainItemCreated, InvalidateMapping, InsertMapping,
        HandleOnChainItemRemoved, HandleSeed, CommitSeed, CollectionIndexed,
        MappingsByNetwork, ItemByID, FillCache
<1> QED BY <1>1, <1>2, <1>3

LEMMA NextInvariant == IInv /\ [Next]_vars => IInv'
<1> SUFFICES ASSUME IInv, [Next]_vars
             PROVE  IInv'
    OBVIOUS
<1> USE DEF IInv
<1>1. TypeOK'
  <2>1. QueueTypeOK(Messages, Labels)'
      BY QueueTypes
  <2>2. DataTypes'
      BY NextDataTypes
  <2> QED BY <2>1, <2>2 DEF TypeOK, DataTypes, CacheTypes
<1>2. AtHand'
    BY NextAtHand
<1>3. MappedTypes'
    BY NextMappedTypes
<1>4. ItemEntries'
    BY NextItemEntries
<1>5. ListEntries'
    BY NextListEntries
<1>6. ChainShape'
    BY NextChainShape
<1>7. InOrder'
  <2>1. SUFFICES ASSUME ~lost', ~disturbed', ~misled'
                 PROVE  (ItemInOrder /\ SeedInOrder /\ SeedAtHand /\ SeedRemovals
                         /\ MappingsInOrder)'
      BY DEF InOrder
  <2>2. ItemInOrder /\ SeedInOrder /\ SeedAtHand /\ SeedRemovals /\ MappingsInOrder
      BY <2>1, HistoryStays DEF InOrder
  <2>3. Stays \/ Handled \/ ChainEvent
      BY <1>1, <2>1, OrderSteps
  <2>4. ItemInOrder'
      BY <1>1, <2>2, <2>3, NextItemInOrder
  <2>5. SeedInOrder'
      BY <1>1, <2>2, <2>3, NextSeedInOrder
  <2>6. SeedAtHand'
      BY <1>1, <2>1, <2>2, NextSeedAtHand
  <2>7. SeedRemovals'
      BY <1>1, <2>2, <2>3, NextSeedRemovals
  <2>8. MappingsInOrder'
      BY <1>1, <2>1, <2>2, <2>3, NextMappingsInOrder
  <2> QED BY <2>4, <2>5, <2>6, <2>7, <2>8
<1> QED BY <1>1, <1>2, <1>3, <1>4, <1>5, <1>6, <1>7

LEMMA Invariant == Spec => []IInv
BY InitInvariant, NextInvariant, PTL DEF Spec

-----------------------------------------------------------------------------
(* Theorems *)

\* The queue, the tables and the cache hold what they are meant to, for any
\* number of networks, events and faults.
THEOREM TypeCorrect == Spec => []TypeOK
<1>1. IInv => TypeOK
    BY DEF IInv
<1> QED BY <1>1, Invariant, PTL

\* A cached item is the row of the table, or is known to have outlived a
\* write: what cachedpg/items.go keeps under both of an item's keys.
THEOREM CacheHoldsTheRow == Spec => []CachedItemFresh
<1>1. IInv => CachedItemFresh
    BY DEF IInv, ItemEntries, FreshUnder, CachedItemFresh
<1> QED BY <1>1, Invariant, PTL

\* A cached list of the items of a network has the item that is mapped to
\* it, or is known to have outlived the insert: what chain_list answers with.
THEOREM ListsHaveTheMapped == Spec => []CachedListComplete
<1>1. IInv => CachedListComplete
    BY DEF IInv, ListEntries, MappedTypes, CachedListComplete
<1> QED BY <1>1, Invariant, PTL

\* When nothing waits and nothing was given up, repeated, taken out of order
\* or misled by the cache, the tables are what the chain is, although every
\* handler of services/items_indexer.go looked up the chain of a later time
\* and batches were begun again.
THEOREM QuietTablesAreTheChain == Spec => []QuietIsChain
<1>1. ASSUME IInv, Quiet, ~lost, ~disturbed, ~misled
      PROVE  /\ chain.exists <=> item # None
             /\ item # None => item.seed = chain.seed
             /\ mapped = chain.on \cap Supported
  <2> USE <1>1
  <2>1. queue = << >> /\ batch = << >> /\ idx = 1
      BY DEF IInv, AtHand, Quiet
  <2>2. Len(Backlog) = 0
      BY <2>1, EmptySeq, ConcatFacts DEF Backlog
  <2>3. \A R : Done(R)
      BY <2>1, <2>2 DEF Done, NoneOf
  <2>4. ItemInOrder /\ SeedInOrder /\ MappingsInOrder
      BY DEF IInv, InOrder
  <2>5. (chain.exists <=> item # None) /\ (item # None => item.seed = chain.seed)
      BY <2>3, <2>4 DEF ItemInOrder, SeedInOrder
  <2>6. \A n \in Networks : n \in Supported => (n \in mapped <=> n \in chain.on)
      BY <2>3, <2>4 DEF MappingsInOrder
  <2>7. mapped \subseteq Supported \cap Networks /\ chain.on \subseteq Networks
      BY DEF IInv, TypeOK, MappedTypes
  <2> QED BY <2>5, <2>6, <2>7
<1>2. IInv => QuietIsChain
    BY <1>1 DEF QuietIsChain
<1> QED BY <1>2, Invariant, PTL
=============================================================================
