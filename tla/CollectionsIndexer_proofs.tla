---------------------- MODULE CollectionsIndexer_proofs ----------------------
(***************************************************************************)
(* Proofs about CollectionsIndexer, for any networks, values, batch sizes, *)
(* events and faults.                                                      *)
(*                                                                         *)
(* A cached collection is its row because a removal drops the entry under  *)
(* the lock of the row, and who caches it afterwards, the indexer or       *)
(* SaveItem, knows whether it is outdated (CacheEntry; AtHand and          *)
(* SaverAtHand tie what is in hand to the label that is stood at).         *)
(*                                                                         *)
(* That the tables are the chain once all is quiet is carried, as in       *)
(* ItemsIndexer_proofs, by the messages that are left to handle: the last  *)
(* of a subject tells the chain's state, and the tables do when there is   *)
(* none (InOrder).                                                         *)
(*                                                                         *)
(* That no batch is given up without a reason needs more: as long as       *)
(* nothing went wrong (Calm), the messages left to handle are in the order *)
(* in which the chain can emit them, and exactly what they do not announce *)
(* is in the tables already (InLine), so that every look-up finds its row  *)
(* and every insertion its place free.                                     *)
(***************************************************************************)
EXTENDS CollectionsIndexer, TLAPS, SequenceTheorems
-----------------------------------------------------------------------------
(* The inductive invariant *)

\* What the labels of the handlers say of the message and of what is in hand.
AtHand ==
    /\ pc = "idle" => batch = << >> /\ idx = 1
    /\ pc = "InsertCollection" => Message.type = "CollectionCreated"
    /\ pc = "CommitRemoval" => Message.type = "CollectionRemoved" /\ row # None /\ ~item
    /\ pc = "InsertData" => Message.type = "CollectionDataCreated" /\ found # None
    /\ pc = "UpsertData" => Message.type = "CollectionDataUpdated" /\ row # None
    /\ pc \in {"InsertData", "UpsertData"} =>
           Message.network \in Supported /\ value \in Values

\* SaveItem has an id in hand when it caches or uses one.
SaverAtHand ==
    /\ saver.step \in {"cache", "insert"} => saver.id # None
    /\ items = 0 => saver.step = "idle"

\* Mappings are those of the networks that horizon knows.
MappedTypes == \A n \in Networks \ Supported : mapping[n] = None

\* An entry that no write outlived is the row, and there is none while the
\* removal that has invalidated it is about to commit.
CacheEntry == outrun \/ cached = None \/ (cached = row /\ pc # "CommitRemoval")

\* Without the collection there is nothing of it.
ChainShape == ~chain.exists => chain.data = NoData

\* The messages that are being handled or wait, in their order.
Backlog == batch \o queue

RowMessages == {m \in Messages : m.type \in {"CollectionCreated", "CollectionRemoved"}}
DataMessages(n) ==
    {m \in Messages : m.type = "CollectionRemoved" \/ m.network = n}

\* No element of R among s[i], ..., s[j].
NoneOf(R, s, i, j) == \A k \in i..j : s[k] \notin R

\* The last element of R in s is s[k].
LastOf(R, s, k) == k \in 1..Len(s) /\ s[k] \in R /\ NoneOf(R, s, k + 1, Len(s))

\* No message of R is left to handle.
Done(R) == NoneOf(R, Backlog, idx, Len(Backlog))

\* The last message of the collection says whether it exists; when there is
\* none left, the table says so.
RowInOrder ==
    /\ \A k \in 1..Len(Backlog) :
           LastOf(RowMessages, Backlog, k) =>
               (Backlog[k].type = "CollectionCreated" <=> chain.exists)
    /\ Done(RowMessages) => (row # None <=> chain.exists)

\* The last message of the data on a network says whether there is any; when
\* there is none left, the table has it.
Tells(m) == m.type \in {"CollectionDataCreated", "CollectionDataUpdated"}

DataInOrder ==
    \A n \in Networks :
        /\ \A k \in 1..Len(Backlog) :
               LastOf(DataMessages(n), Backlog, k) =>
                   (Tells(Backlog[k]) <=> chain.data[n] # None)
        /\ Done(DataMessages(n)) /\ n \in Supported => mapping[n] = chain.data[n]

\* The data that is about to be saved is the chain's, unless a message of it
\* comes later.
ValueAtHand ==
    pc \in {"InsertData", "UpsertData"} =>
        LET n == Message.network IN
        NoneOf(DataMessages(n), Backlog, idx + 1, Len(Backlog)) => value = chain.data[n]

InOrder ==
    ~lost /\ ~disturbed /\ ~misled /\ ~late =>
        RowInOrder /\ DataInOrder /\ ValueAtHand

\* Nothing has happened that may make a batch be given up.
Calm ==
    /\ faults = 0 /\ items = 0
    /\ \A m \in emitted : /\ m.type \notin {"CollectionRemoved", "CollectionDataRemoved"}
                          /\ m.network \notin Networks \ Supported

\* The message m is among s[i], s[i + 1], ...
Waits(m, s, i) == \E k \in i..Len(s) : s[k] = m

\* The collection is created once and first, the data on a network once and
\* before it is updated.
MayFollow(a, b) ==
    /\ b.type # "CollectionCreated"
    /\ b.type = "CollectionDataCreated" => a.network # b.network
Ordered(s, i) == \A k, l \in i..Len(s) : k < l => MayFollow(s[k], s[l])

\* The messages from s[i] on, the events ms there have been, the chain c, the row
\* r and the mappings f fit together: what was emitted is on the chain, and the
\* tables have it unless the message that says so is left to handle.
InLine(s, i, ms, c, r, f) ==
    /\ \A m \in ms : /\ c.exists
                     /\ m.network \in Networks => c.data[m.network] # None
    /\ \A k \in i..Len(s) : s[k] \in ms
    /\ Ordered(s, i)
    /\ r # None <=> c.exists /\ ~Waits(Event("CollectionCreated", None), s, i)
    /\ \A n \in Networks :
           f[n] # None <=>
               c.data[n] # None /\ ~Waits(Event("CollectionDataCreated", n), s, i)

\* Then a handler finds what it looks for.
Smooth ==
    /\ ~lost /\ cached \in {row, None}
    /\ pc = "InsertData" => found = row
    /\ InLine(Backlog, idx, emitted, chain, row, mapping)

CalmIsSmooth == Calm => Smooth

IInv ==
    /\ TypeOK
    /\ AtHand
    /\ SaverAtHand
    /\ MappedTypes
    /\ CacheEntry
    /\ ChainShape
    /\ InOrder
    /\ CalmIsSmooth
-----------------------------------------------------------------------------
(* The queue *)

\* A message is being handled.
AtMessage == pc # "idle" /\ idx <= Len(batch)

\* A step of SaveItem, or of the handler of removed items.
SaverStep ==
    SaverFinds \/ SaverCaches \/ SaverGets \/ SaverSaves \/ SaverInserts \/ ItemRemoved

\* SaveItem leaves the chain, the queue and the handler alone.
LEMMA SaverLeaves ==
    ASSUME SaverStep
    PROVE  UNCHANGED <<queueVars, chain, mapping, handlerVars>>
BY DEF SaverStep, SaverFinds, SaverCaches, SaverGets, SaverSaves, SaverInserts,
       ItemRemoved, SaverRest, storeVars

\* The steps of the queue: nothing, a step of a handler, an event, or a step
\* of the consumer.
LEMMA QueueSteps ==
    ASSUME TypeOK, [Next]_vars
    PROVE  \/ UNCHANGED queueVars
           \/ AtMessage /\ \E l \in Labels : Goto(l)
           \/ AtMessage /\ Advance
           \/ AtMessage /\ FailHere
           \/ \E m \in Messages : Emit(m)
           \/ Consuming
<1> USE DEF AtMessage, Rest
<1>1. CASE UNCHANGED vars
    BY <1>1 DEF vars
<1>2. CASE ChainEvent
  <2>1. \A m, c : ChainStep(m, c) => Emit(m)
      BY DEF ChainStep
  <2>2. /\ Event("CollectionCreated", None) \in Messages
        /\ Event("CollectionRemoved", None) \in Messages
      BY DEF Event, Messages
  <2>3. \A n \in Networks : /\ Event("CollectionDataCreated", n) \in Messages
                            /\ Event("CollectionDataUpdated", n) \in Messages
                            /\ Event("CollectionDataRemoved", n) \in Messages
      BY DEF Event, Messages
  <2>4. \E m \in Messages : Emit(m)
      BY <1>2, <2>1, <2>2, <2>3 DEF ChainEvent
  <2> QED BY <2>4
<1>3. CASE Consuming
    BY <1>3
<1> DEFINE Begun == pc = "next" /\ idx <= Len(batch)
<1>4. Begun \/ pc \in Labels => AtMessage
    BY DEF TypeOK, QueueTypeOK, Labels
<1>5. CASE HandleCreated
    BY <1>5, <1>4 DEF HandleCreated, Handling, Fail, Labels
<1>6. CASE InsertCollection
    BY <1>6, <1>4 DEF InsertCollection, Fail, Labels
<1>7. CASE HandleRemoved
    BY <1>7, <1>4 DEF HandleRemoved, Handling, Fail, Labels
<1>8. CASE CommitRemoval
    BY <1>8, <1>4 DEF CommitRemoval, Labels
<1>9. CASE HandleDataCreated
    BY <1>9, <1>4 DEF HandleDataCreated, Handling, Fail, Labels
<1>10. CASE InsertData
    BY <1>10, <1>4 DEF InsertData, Labels
<1>11. CASE HandleDataUpdated
    BY <1>11, <1>4 DEF HandleDataUpdated, Handling, Labels
<1>12. CASE UpsertData
    BY <1>12, <1>4 DEF UpsertData, Labels
<1>13. CASE HandleDataRemoved
    BY <1>13, <1>4 DEF HandleDataRemoved, Handling
<1>14. CASE SaverStep
    BY <1>14, SaverLeaves
<1> QED BY <1>1, <1>2, <1>3, <1>5, <1>6, <1>7, <1>8, <1>9, <1>10, <1>11, <1>12,
           <1>13, <1>14 DEF Next, SaverStep

\* What the steps of the queue preserve.
LEMMA QueueTypes ==
    ASSUME TypeOK, AtHand, [Next]_vars
    PROVE  QueueTypeOK(Messages, Labels)'
<1> USE EventQueueAssumption
<1> DEFINE OK == QueueTypeOK(Messages, Labels)
<1>0. OK
    BY DEF TypeOK
<1>a. /\ queue \in Seq(Messages) /\ batch \in Seq(Messages)
      /\ Len(queue) \in Nat /\ Len(batch) \in Nat
    BY <1>0, LenProperties DEF QueueTypeOK
<1>b. << >> \in Seq(Messages) /\ Len(<< >>) = 0
    BY EmptySeq
<1>1. CASE UNCHANGED queueVars
    BY <1>0, <1>1 DEF QueueTypeOK, queueVars
<1>2. CASE AtMessage /\ \E l \in Labels : Goto(l)
    BY <1>0, <1>2 DEF QueueTypeOK, Goto, AtMessage, Labels
<1>3. CASE AtMessage /\ Advance
  <2>1. idx' \in 1..(Len(batch) + 1)
      BY <1>0, <1>a, <1>3 DEF QueueTypeOK, Advance, AtMessage
  <2> QED BY <1>0, <2>1, <1>3 DEF QueueTypeOK, Advance
<1>c. ASSUME LetGo
      PROVE  /\ batch' \in Seq(Messages) /\ Len(batch') <= BatchSize
             /\ idx' \in 1..(Len(batch') + 1) /\ attempt' \in 1..Attempts /\ pc' = "idle"
    BY <1>c, <1>b DEF LetGo
<1>d. ASSUME FailAttempt, faults' \in 0..MaxFaults
      PROVE  OK'
  <2>1. CASE attempt < Attempts
    <3>1. attempt' \in 1..Attempts /\ idx' \in 1..(Len(batch) + 1) /\ pc' = "next"
        BY <1>0, <1>a, <1>d, <2>1 DEF QueueTypeOK, FailAttempt
    <3> QED BY <1>0, <1>d, <2>1, <3>1 DEF QueueTypeOK, FailAttempt
  <2>2. CASE ~ (attempt < Attempts)
      BY <1>0, <1>c, <1>d, <2>2 DEF QueueTypeOK, FailAttempt
  <2> QED BY <2>1, <2>2
<1>4. CASE AtMessage /\ FailHere
    BY <1>0, <1>d, <1>4 DEF FailHere, QueueTypeOK
<1>5. CASE \E m \in Messages : Emit(m)
  <2>1. PICK m \in Messages : Emit(m)
      BY <1>5
  <2>2. queue' \in Seq(Messages)
      BY <1>a, <2>1, AppendProperties DEF Emit
  <2>3. emitted' \subseteq Messages /\ events' \in 0..MaxEvents
      BY <1>0, <2>1 DEF Emit, QueueTypeOK
  <2> QED BY <1>0, <2>1, <2>2, <2>3 DEF Emit, QueueTypeOK
<1>6. CASE Consuming
  <2>1. CASE \E n \in 1..BatchSize : TakeBatch(n)
    <3>1. PICK n \in 1..BatchSize : TakeBatch(n)
        BY <2>1
    <3>2. n \in Nat /\ n <= Len(queue) /\ \A i \in 1..Len(queue) : queue[i] \in Messages
        BY <3>1, <1>a, ElementOfSeq DEF TakeBatch
    <3>3. batch' \in Seq(Messages) /\ Len(batch') = n
        BY <3>1, <3>2, <1>a, SubSeqProperties DEF TakeBatch
    <3>4. queue' \in Seq(Messages)
        BY <3>1, <3>2, <1>a, SubSeqProperties DEF TakeBatch
    <3>5. pc' = "next" /\ idx' = idx /\ idx \in 1..(n + 1)
      <4>1. idx = 1
          BY <3>1 DEF TakeBatch, AtHand
      <4> QED BY <4>1, <3>1 DEF TakeBatch
    <3> QED BY <1>0, <3>1, <3>3, <3>4, <3>5 DEF TakeBatch, QueueTypeOK
  <2>2. CASE AckBatch
      BY <1>0, <1>c, <2>2 DEF AckBatch, QueueTypeOK
  <2>3. CASE CallFails
      BY <1>0, <1>d, <2>3 DEF CallFails, QueueTypeOK
  <2>4. CASE Crash
    <3>1. queue' \in Seq(Messages)
        BY <1>a, <2>4, ConcatProperties DEF Crash
    <3>2. faults' \in 0..MaxFaults
        BY <1>0, <2>4 DEF Crash, QueueTypeOK
    <3> QED BY <1>0, <1>c, <2>4, <3>1, <3>2 DEF Crash, QueueTypeOK
  <2>5. CASE \E m \in emitted : Repeat(m)
    <3>1. PICK m \in emitted : Repeat(m)
        BY <2>5
    <3>2. m \in Messages
        BY <1>0 DEF QueueTypeOK
    <3>3. queue' \in Seq(Messages)
        BY <1>a, <3>1, <3>2, AppendProperties DEF Repeat
    <3>4. faults' \in 0..MaxFaults
        BY <1>0, <3>1 DEF Repeat, QueueTypeOK
    <3> QED BY <1>0, <3>1, <3>3, <3>4 DEF Repeat, QueueTypeOK
  <2> QED BY <1>6, <2>1, <2>2, <2>3, <2>4, <2>5 DEF Consuming
<1> QED BY QueueSteps, <1>1, <1>2, <1>3, <1>4, <1>5, <1>6
-----------------------------------------------------------------------------
(* Types *)

\* The message that is handled, by its type.
LEMMA MessageType ==
    ASSUME TypeOK, AtMessage
    PROVE  /\ Message \in Messages
           /\ Message.type \in {"CollectionCreated", "CollectionRemoved"} =>
                  Message = Event(Message.type, None)
           /\ Message.type \in {"CollectionDataCreated", "CollectionDataUpdated",
                                "CollectionDataRemoved"} =>
                  /\ Message.network \in Networks
                  /\ Message = Event(Message.type, Message.network)
<1>1. batch \in Seq(Messages) /\ idx \in 1..Len(batch)
    BY LenProperties DEF TypeOK, QueueTypeOK, AtMessage
<1>2. Message \in Messages
    BY <1>1, ElementOfSeq DEF Message
<1> QED BY <1>2 DEF Messages, Event

\* The variables that are not the queue's.
DataTypes ==
    /\ chain \in [exists : BOOLEAN, data : [Networks -> Values \cup {None}]]
    /\ row \in Ids \cup {None} /\ lastId \in 0..MaxIds
    /\ mapping \in [Networks -> Values \cup {None}]
    /\ row = None => mapping = NoData /\ ~item
    /\ cached \in Ids \cup {None}
    /\ found \in Ids \cup {None} /\ value \in Values \cup {None}
    /\ saver \in [step : {"idle", "cache", "get", "save", "insert"}, id : Ids \cup {None}]
    /\ item \in BOOLEAN /\ items \in 0..MaxItems /\ late \in BOOLEAN
    /\ misled \in BOOLEAN /\ outrun \in BOOLEAN

\* The types of the queue and those of the data are checked apart.
LEMMA TypesSplit == TypeOK <=> QueueTypeOK(Messages, Labels) /\ DataTypes
BY DEF TypeOK, DataTypes

\* Who looks the collection up has its id, the cached one or none.
LEMMA ByIndexTypes ==
    ASSUME DataTypes, NEW id \in {cached, row}, CollectionByIndex(id)
    PROVE  /\ cached' \in Ids \cup {None} /\ misled' \in BOOLEAN /\ outrun' \in BOOLEAN
           /\ id \in Ids \cup {None}
BY DEF DataTypes, CollectionByIndex

\* The types of data at all networks.
LEMMA MappingTypes ==
    ASSUME NEW f \in [Networks -> Values \cup {None}], NEW n, NEW v \in Values \cup {None}
    PROVE  [f EXCEPT ![n] = v] \in [Networks -> Values \cup {None}]
OBVIOUS

\* Every step keeps the types of the chain, the tables, the cache and what is in hand.
LEMMA NextDataTypes ==
    ASSUME TypeOK, AtHand, SaverAtHand, [Next]_vars
    PROVE  DataTypes'
<1> USE DEF Rest
<1>0. DataTypes /\ MaxIds \in Nat /\ MaxItems \in Nat /\ None \notin Ids
    BY TypesSplit, CollectionsIndexerAssumption
<1>a. lastId < MaxIds => lastId + 1 \in Ids /\ lastId + 1 \in 0..MaxIds /\ lastId + 1 # None
    BY <1>0 DEF DataTypes, Ids
<1>b. ASSUME UNCHANGED <<storeVars, cached, handlerVars, misled, outrun>>,
             UNCHANGED <<chain, saverVars>>
      PROVE  DataTypes'
    BY <1>0, <1>b DEF storeVars, handlerVars, saverVars, DataTypes, NoData
<1>1. CASE UNCHANGED vars
    BY <1>1, <1>b DEF vars
<1>2. CASE ChainEvent
  <2>1. UNCHANGED <<storeVars, cached, handlerVars, saverVars, misled, outrun>>
      BY <1>2 DEF ChainEvent, ChainStep
  <2> DEFINE Shapes == [exists : BOOLEAN, data : [Networks -> Values \cup {None}]]
  <2>a. chain \in Shapes
      BY <1>0 DEF DataTypes
  <2>b. /\ [chain EXCEPT !.exists = TRUE] \in Shapes
        /\ [exists |-> FALSE, data |-> NoData] \in Shapes
      BY <2>a DEF NoData
  <2>c. \A n \in Networks, v \in Values \cup {None} : [chain EXCEPT !.data[n] = v] \in Shapes
      BY <2>a
  <2>d. \A m, c : ChainStep(m, c) => chain' = c
      BY DEF ChainStep
  <2> HIDE DEF Shapes
  <2>2. chain' \in Shapes
    <3>1. CASE ~chain.exists /\ ChainStep(Event("CollectionCreated", None),
                                          [chain EXCEPT !.exists = TRUE])
        BY <2>b, <2>d, <3>1
    <3>2. CASE ChainStep(Event("CollectionRemoved", None), [exists |-> FALSE, data |-> NoData])
        BY <2>b, <2>d, <3>2
    <3>3. CASE \E m : \E n \in Networks, v \in Values : ChainStep(m, [chain EXCEPT !.data[n] = v])
        BY <2>c, <2>d, <3>3
    <3>4. CASE \E m : \E n \in Networks : ChainStep(m, [chain EXCEPT !.data[n] = None])
        BY <2>c, <2>d, <3>4
    <3> QED BY <1>2, <3>1, <3>2, <3>3, <3>4 DEF ChainEvent
  <2> USE DEF Shapes
  <2> QED BY <1>0, <2>1, <2>2 DEF storeVars, handlerVars, saverVars, DataTypes, NoData
<1>3. CASE Consuming
  <2>1. found' \in {found, None} /\ value' \in {value, None}
      BY <1>3 DEF Consuming, handlerVars
  <2>2. UNCHANGED <<chain, storeVars, cached, saverVars, misled, outrun>>
      BY <1>3 DEF Consuming
  <2> QED BY <1>0, <2>1, <2>2 DEF storeVars, saverVars, DataTypes, NoData
<1>4. CASE HandleCreated
    BY <1>4, <1>b DEF HandleCreated, Fail
<1>5. CASE InsertCollection
  <2>1. CASE row # None
      BY <1>5, <2>1, <1>b DEF InsertCollection, Fail
  <2>2. CASE row = None
    <3>1. /\ row' = lastId + 1 /\ lastId' = lastId + 1 /\ lastId < MaxIds
          /\ UNCHANGED <<mapping, cached, handlerVars, misled, outrun, chain, saverVars>>
        BY <1>5, <2>2 DEF InsertCollection
    <3> QED BY <1>0, <1>a, <3>1 DEF handlerVars, saverVars, DataTypes
  <2> QED BY <2>1, <2>2
<1>6. CASE HandleRemoved
  <2>1. CASE row = None
      BY <1>6, <2>1, <1>b DEF HandleRemoved, Fail
  <2>2. CASE row # None
    <3>1. /\ cached' \in {None, row, cached} /\ outrun' \in BOOLEAN
          /\ UNCHANGED <<storeVars, handlerVars, misled, chain, saverVars>>
        BY <1>0, <1>6, <2>2 DEF HandleRemoved, DataTypes
    <3> QED BY <1>0, <3>1 DEF storeVars, handlerVars, saverVars, DataTypes, NoData
  <2> QED BY <2>1, <2>2
<1>7. CASE CommitRemoval
  <2>1. /\ row' = None /\ mapping' = NoData
        /\ UNCHANGED <<lastId, cached, handlerVars, misled, outrun, chain, saverVars>>
      BY <1>7 DEF CommitRemoval
  <2>2. ~item
      BY <1>7 DEF CommitRemoval, AtHand
  <2> QED BY <1>0, <2>1, <2>2 DEF handlerVars, saverVars, DataTypes, NoData
<1>8. CASE HandleDataCreated
  <2>1. CASE Message.network \notin Supported /\ Fail
      BY <1>8, <2>1, <1>b DEF HandleDataCreated, Fail
  <2>2. CASE Message.network \in Supported
    <3>1. PICK id \in {cached, row} :
              /\ CollectionByIndex(id)
              /\ \/ UNCHANGED handlerVars
                 \/ found' = id /\ value' = chain.data[Message.network]
        BY <1>8, <2>2 DEF HandleDataCreated
    <3>2. AtMessage /\ Message.type = "CollectionDataCreated"
        BY <1>8 DEF HandleDataCreated, Handling, AtMessage, Message
    <3>3. chain.data[Message.network] \in Values \cup {None}
        BY <1>0, <3>2, MessageType DEF DataTypes
    <3>4. found' \in Ids \cup {None} /\ value' \in Values \cup {None}
        BY <1>0, <3>1, <3>3, ByIndexTypes DEF handlerVars, DataTypes
    <3>5. UNCHANGED <<storeVars, chain, saverVars>>
        BY <1>8, <2>2 DEF HandleDataCreated, Fail
    <3> QED BY <1>0, <3>1, <3>4, <3>5, ByIndexTypes
            DEF storeVars, saverVars, DataTypes, NoData
  <2> QED BY <1>8, <2>1, <2>2 DEF HandleDataCreated
<1>c. ASSUME NEW n, NEW v \in Values \cup {None}, SetMapping(n, v), row # None,
             UNCHANGED <<chain, saverVars>>
      PROVE  DataTypes'
    BY <1>0, <1>c, MappingTypes DEF SetMapping, saverVars, DataTypes
<1>d. ASSUME UNCHANGED <<storeVars, cached, misled, outrun>>, found' = None, value' = None,
             UNCHANGED <<chain, saverVars>>
      PROVE  DataTypes'
    BY <1>0, <1>d DEF storeVars, saverVars, DataTypes, NoData
<1>9. CASE InsertData
  <2>1. CASE found # row \/ mapping[Message.network] # None
      BY <1>9, <2>1, <1>d DEF InsertData
  <2>2. CASE ~ (found # row \/ mapping[Message.network] # None)
    <3>1. row # None /\ value \in Values
        BY <1>9, <2>2 DEF InsertData, AtHand
    <3> QED BY <1>9, <2>2, <3>1, <1>c DEF InsertData
  <2> QED BY <2>1, <2>2
<1>10. CASE HandleDataUpdated
  <2>1. PICK id \in {cached, row} :
            /\ CollectionByIndex(id)
            /\ \/ UNCHANGED handlerVars
               \/ found' = id /\ value' = chain.data[Message.network]
      BY <1>10 DEF HandleDataUpdated
  <2>2. AtMessage /\ Message.type = "CollectionDataUpdated"
      BY <1>10 DEF HandleDataUpdated, Handling, AtMessage, Message
  <2>3. chain.data[Message.network] \in Values \cup {None}
      BY <1>0, <2>2, MessageType DEF DataTypes
  <2>4. found' \in Ids \cup {None} /\ value' \in Values \cup {None}
      BY <1>0, <2>1, <2>3, ByIndexTypes DEF handlerVars, DataTypes
  <2>5. UNCHANGED <<storeVars, chain, saverVars>>
      BY <1>10 DEF HandleDataUpdated
  <2> QED BY <1>0, <2>1, <2>4, <2>5, ByIndexTypes
          DEF storeVars, saverVars, DataTypes, NoData
<1>11. CASE UpsertData
  <2>1. row # None /\ value \in Values
      BY <1>11 DEF UpsertData, AtHand
  <2> QED BY <1>11, <2>1, <1>c DEF UpsertData
<1>12. CASE HandleDataRemoved
  <2>1. PICK id \in {cached, row} :
            /\ CollectionByIndex(id)
            /\ mapping' = IF MappingOf(id, Message.network) = None THEN mapping
                          ELSE [mapping EXCEPT ![Message.network] = None]
      BY <1>12 DEF HandleDataRemoved
  <2>2. mapping' \in [Networks -> Values \cup {None}]
      BY <1>0, <2>1, MappingTypes DEF DataTypes
  <2>3. row = None => mapping' = mapping
      BY <2>1 DEF MappingOf
  <2>4. UNCHANGED <<row, lastId, handlerVars, chain, saverVars>>
      BY <1>12 DEF HandleDataRemoved
  <2> QED BY <1>0, <2>1, <2>2, <2>3, <2>4, ByIndexTypes
          DEF handlerVars, saverVars, DataTypes, NoData
<1>13. CASE SaverStep
  <2>1. UNCHANGED <<chain, mapping, handlerVars>>
      BY <1>13, SaverLeaves
  <2>2. \A step, id : SaverGoto(step, id) => saver' = [step |-> step, id |-> id]
      BY DEF SaverGoto
  <2>3. CASE SaverFinds
    <3>1. saver' \in [step : {"idle", "cache", "get", "save", "insert"}, id : Ids \cup {None}]
      <4>1. saver' \in {[step |-> "insert", id |-> cached], [step |-> "cache", id |-> row],
                        [step |-> "get", id |-> None]}
          BY <2>2, <2>3 DEF SaverFinds
      <4>2. cached \in Ids \cup {None} /\ row \in Ids \cup {None}
          BY <1>0 DEF DataTypes
      <4> QED BY <4>1, <4>2
    <3>2. items' \in 0..MaxItems /\ misled' \in BOOLEAN
      <4>1. items \in 0..MaxItems /\ items < MaxItems /\ items' = items + 1
          BY <1>0, <2>3 DEF SaverFinds, DataTypes
      <4>2. misled' = (misled \/ cached # row) \/ misled' = misled
          BY <2>3 DEF SaverFinds
      <4>3. misled \in BOOLEAN
          BY <1>0 DEF DataTypes
      <4>4. misled' \in BOOLEAN
          BY <4>2, <4>3
      <4>5. items' \in 0..MaxItems
          BY <1>0, <4>1
      <4> QED BY <4>4, <4>5
    <3>3. UNCHANGED <<row, lastId, cached, item, late, outrun>>
        BY <2>3 DEF SaverFinds
    <3> QED BY <1>0, <2>1, <3>1, <3>2, <3>3 DEF handlerVars, DataTypes, NoData
  <2>4. CASE SaverCaches
    <3>1. /\ saver' \in [step : {"idle", "cache", "get", "save", "insert"}, id : Ids \cup {None}]
          /\ cached' \in Ids \cup {None} /\ outrun' \in BOOLEAN
      <4>1. saver.id \in Ids \cup {None} /\ cached \in Ids \cup {None} /\ outrun \in BOOLEAN
          BY <1>0 DEF DataTypes
      <4>2. saver' = [step |-> "insert", id |-> saver.id]
          BY <2>2, <2>4 DEF SaverCaches
      <4>3. \/ cached' = saver.id /\ outrun' = (saver.id # row \/ pc = "CommitRemoval")
            \/ UNCHANGED <<cached, outrun>>
          BY <2>4 DEF SaverCaches
      <4> QED BY <4>1, <4>2, <4>3
    <3>2. UNCHANGED <<row, lastId, item, items, late, misled>>
        BY <2>4 DEF SaverCaches
    <3> QED BY <1>0, <2>1, <3>1, <3>2 DEF handlerVars, DataTypes, NoData
  <2>5. CASE SaverGets
    <3>1. saver' \in [step : {"idle", "cache", "get", "save", "insert"}, id : Ids \cup {None}]
        BY <1>0, <2>2, <2>5 DEF SaverGets, DataTypes
    <3>2. UNCHANGED <<row, lastId, cached, item, items, late, misled, outrun>>
        BY <2>5 DEF SaverGets
    <3> QED BY <1>0, <2>1, <3>1, <3>2 DEF handlerVars, DataTypes, NoData
  <2>6. CASE SaverSaves
    <3>1. UNCHANGED <<cached, item, items, misled, outrun>>
        BY <2>6 DEF SaverSaves
    <3>2. CASE row # None
      <4>1. saver' \in [step : {"idle", "cache", "get", "save", "insert"}, id : Ids \cup {None}]
            /\ UNCHANGED <<row, lastId, late>>
          BY <1>0, <2>2, <2>6, <3>2 DEF SaverSaves, DataTypes
      <4> QED BY <1>0, <2>1, <3>1, <4>1 DEF handlerVars, DataTypes, NoData
    <3>3. CASE row = None
      <4>1. /\ saver' \in [step : {"idle", "cache", "get", "save", "insert"},
                           id : Ids \cup {None}]
            /\ row' = lastId + 1 /\ lastId' = lastId + 1 /\ lastId < MaxIds
            /\ late' \in BOOLEAN
          BY <1>0, <1>a, <2>2, <2>6, <3>3 DEF SaverSaves, DataTypes
      <4> QED BY <1>0, <1>a, <2>1, <3>1, <4>1 DEF handlerVars, DataTypes, NoData
    <3> QED BY <3>2, <3>3
  <2>7. CASE SaverInserts
    <3>1. /\ saver' \in [step : {"idle", "cache", "get", "save", "insert"}, id : Ids \cup {None}]
          /\ item' \in BOOLEAN
        BY <1>0, <2>2, <2>7 DEF SaverInserts, DataTypes
    <3>2. row = None => ~item'
        BY <1>0, <2>7 DEF SaverInserts, SaverAt, SaverAtHand, DataTypes
    <3>3. UNCHANGED <<row, lastId, cached, items, late, misled, outrun>>
        BY <2>7 DEF SaverInserts
    <3> QED BY <1>0, <2>1, <3>1, <3>2, <3>3 DEF handlerVars, DataTypes, NoData
  <2>8. CASE ItemRemoved
      BY <1>0, <2>1, <2>8 DEF ItemRemoved, storeVars, handlerVars, DataTypes, NoData
  <2> QED BY <1>13, <2>3, <2>4, <2>5, <2>6, <2>7, <2>8 DEF SaverStep
<1> QED BY <1>1, <1>2, <1>3, <1>4, <1>5, <1>6, <1>7, <1>8, <1>9, <1>10, <1>11, <1>12,
           <1>13 DEF Next, SaverStep
-----------------------------------------------------------------------------
(* The handlers and SaveItem *)

\* Where no handler stands in the middle of its work there is nothing to say.
LEMMA NothingAtHand ==
    ASSUME pc' = "next" \/ LetGo
    PROVE  AtHand'
BY DEF AtHand, LetGo

\* Every handler leaves in hand what the next label says.
LEMMA NextAtHand ==
    ASSUME TypeOK, AtHand, SaverAtHand, [Next]_vars
    PROVE  AtHand'
<1> USE DEF Rest
<1>a. ASSUME FailAttempt
      PROVE  AtHand'
    BY <1>a, NothingAtHand DEF FailAttempt
<1>b. ASSUME Fail \/ Advance \/ FailHere
      PROVE  AtHand'
    BY <1>b, <1>a, NothingAtHand DEF Fail, FailHere, Advance
<1>c. ASSUME UNCHANGED <<batch, idx, pc, found, value>>,
             row # None => row' = row,
             item' => item \/ pc # "CommitRemoval"
      PROVE  AtHand'
    BY <1>c DEF AtHand, Message
<1>d. ASSUME NEW l, Goto(l)
      PROVE  pc' = l /\ Message' = Message /\ UNCHANGED <<batch, idx>>
    BY <1>d DEF Goto, Message
<1>1. CASE UNCHANGED vars
    BY <1>1, <1>c DEF vars, queueVars, storeVars, handlerVars, saverVars
<1>2. CASE ChainEvent
    BY <1>2, <1>c DEF ChainEvent, ChainStep, Emit, storeVars, handlerVars, saverVars
<1>3. CASE Consuming
  <2>1. CASE \E n \in 1..BatchSize : TakeBatch(n)
      BY <2>1, NothingAtHand DEF TakeBatch
  <2>2. CASE AckBatch
      BY <2>2, NothingAtHand DEF AckBatch
  <2>3. CASE CallFails
      BY <2>3, <1>a DEF CallFails
  <2>4. CASE Crash
      BY <2>4, NothingAtHand DEF Crash
  <2>5. CASE (\E m \in emitted : Repeat(m)) /\ UNCHANGED handlerVars
      BY <1>3, <2>5, <1>c DEF Consuming, Repeat, storeVars, handlerVars, saverVars
  <2> QED BY <1>3, <2>1, <2>2, <2>3, <2>4, <2>5 DEF Consuming
<1>4. CASE HandleCreated
  <2>1. CASE Goto("InsertCollection")
    <3>1. Message.type = "CollectionCreated"
        BY <1>4 DEF HandleCreated, Handling, Message
    <3> QED BY <1>d, <2>1, <3>1 DEF AtHand
  <2> QED BY <1>4, <2>1, <1>b DEF HandleCreated
<1>5. CASE InsertCollection
    BY <1>5, <1>b DEF InsertCollection
<1>6. CASE HandleRemoved
  <2>1. CASE row # None /\ ~item /\ Goto("CommitRemoval") /\ UNCHANGED <<row, item>>
    <3>1. Message.type = "CollectionRemoved"
        BY <1>6 DEF HandleRemoved, Handling, Message
    <3> QED BY <1>d, <2>1, <3>1 DEF AtHand
  <2> QED BY <1>6, <2>1, <1>b DEF HandleRemoved, storeVars, saverVars
<1>7. CASE CommitRemoval
    BY <1>7, <1>b DEF CommitRemoval
<1>8. CASE HandleDataCreated
  <2>1. CASE Fail \/ FailHere
      BY <2>1, <1>b
  <2>2. CASE ~ (Fail \/ FailHere)
    <3>1. PICK id \in {cached, row} :
              /\ id # None /\ chain.data[Message.network] # None
              /\ Goto("InsertData") /\ found' = id /\ value' = chain.data[Message.network]
        BY <1>8, <2>2 DEF HandleDataCreated
    <3>2. AtMessage /\ Message.type = "CollectionDataCreated" /\ Message.network \in Supported
        BY <1>8, <2>2 DEF HandleDataCreated, Handling, AtMessage, Message
    <3>3. chain.data[Message.network] \in Values
        BY <3>1, <3>2, MessageType DEF TypeOK
    <3> QED BY <1>d, <3>1, <3>2, <3>3 DEF AtHand
  <2> QED BY <2>1, <2>2
<1>9. CASE InsertData
    BY <1>9, <1>b DEF InsertData
<1>10. CASE HandleDataUpdated
  <2>1. CASE FailHere
      BY <2>1, <1>b
  <2>2. CASE ~FailHere
    <3>1. PICK id \in {cached, row} :
              /\ Message.network \in Supported
              /\ MappingOf(id, Message.network) # None
              /\ chain.data[Message.network] # None
              /\ Goto("UpsertData") /\ value' = chain.data[Message.network]
        BY <1>10, <2>2 DEF HandleDataUpdated
    <3>2. AtMessage /\ Message.type = "CollectionDataUpdated" /\ row' = row
        BY <1>10 DEF HandleDataUpdated, Handling, AtMessage, Message, storeVars
    <3>3. chain.data[Message.network] \in Values
        BY <3>1, <3>2, MessageType DEF TypeOK
    <3>4. row # None
        BY <3>1 DEF MappingOf
    <3> QED BY <1>d, <3>1, <3>2, <3>3, <3>4 DEF AtHand
  <2> QED BY <2>1, <2>2
<1>11. CASE UpsertData
    BY <1>11, <1>b DEF UpsertData
<1>12. CASE HandleDataRemoved
    BY <1>12, <1>b DEF HandleDataRemoved
<1>13. CASE SaverStep
  <2>1. UNCHANGED <<batch, idx, pc, found, value>>
      BY <1>13, SaverLeaves DEF queueVars, handlerVars
  <2>2. row # None => row' = row
      BY <1>13 DEF SaverStep, SaverFinds, SaverCaches, SaverGets, SaverSaves,
         SaverInserts, ItemRemoved, storeVars
  <2>3. item' => item \/ pc # "CommitRemoval"
      BY <1>13 DEF SaverStep, SaverFinds, SaverCaches, SaverGets, SaverSaves,
         SaverInserts, ItemRemoved, storeVars
  <2> QED BY <1>c, <2>1, <2>2, <2>3
<1> QED BY <1>1, <1>2, <1>3, <1>4, <1>5, <1>6, <1>7, <1>8, <1>9, <1>10, <1>11, <1>12,
           <1>13 DEF Next, SaverStep

\* All but SaveItem leave its variables alone.
LEMMA OthersLeaveSaver ==
    ASSUME [Next]_vars, ~SaverStep
    PROVE  UNCHANGED saverVars
BY DEF Next, SaverStep, vars, Rest, ChainEvent, ChainStep, Consuming, HandleCreated,
       InsertCollection, HandleRemoved, CommitRemoval, HandleDataCreated, InsertData,
       HandleDataUpdated, UpsertData, HandleDataRemoved

\* SaveItem has an id before it caches or inserts.
LEMMA NextSaverAtHand ==
    ASSUME TypeOK, SaverAtHand, [Next]_vars
    PROVE  SaverAtHand'
<1>0. /\ items \in Nat /\ None \notin Ids /\ lastId \in 0..MaxIds /\ MaxIds \in Nat
    BY CollectionsIndexerAssumption DEF TypeOK
<1>a. lastId < MaxIds => lastId + 1 # None
    BY <1>0 DEF Ids
<1> USE DEF SaverGoto, SaverAt
<1>1. CASE ~SaverStep
    BY <1>1, OthersLeaveSaver DEF SaverAtHand, saverVars
<1>2. CASE SaverFinds
    BY <1>0, <1>2 DEF SaverFinds, SaverAtHand
<1>3. CASE SaverCaches
    BY <1>3 DEF SaverCaches, SaverAtHand
<1>4. CASE SaverGets
    BY <1>4 DEF SaverGets, SaverAtHand
<1>5. CASE SaverSaves
    BY <1>a, <1>5 DEF SaverSaves, SaverAtHand
<1>6. CASE SaverInserts
    BY <1>6 DEF SaverInserts, SaverAtHand
<1>7. CASE ItemRemoved
    BY <1>7 DEF ItemRemoved, SaverAtHand
<1> QED BY <1>1, <1>2, <1>3, <1>4, <1>5, <1>6, <1>7 DEF SaverStep

\* Only data on known networks is mapped.
LEMMA NextMappedTypes ==
    ASSUME TypeOK, AtHand, MappedTypes, [Next]_vars
    PROVE  MappedTypes'
<1>a. mapping \in [Networks -> Values \cup {None}]
    BY DEF TypeOK
<1>1. CASE UNCHANGED mapping
    BY <1>1 DEF MappedTypes
<1>2. CASE mapping' = NoData
    BY <1>2 DEF MappedTypes, NoData
<1>3. CASE (InsertData \/ UpsertData) /\ SetMapping(Message.network, value)
  <2>1. Message.network \in Supported
      BY <1>3 DEF InsertData, UpsertData, AtHand
  <2> QED BY <1>a, <1>3, <2>1 DEF MappedTypes, SetMapping
<1>4. CASE mapping' = [mapping EXCEPT ![Message.network] = None]
    BY <1>a, <1>4 DEF MappedTypes
<1> QED
  BY <1>1, <1>2, <1>3, <1>4, SaverLeaves
  DEF Next, SaverStep, vars, storeVars, Rest, Fail, ChainEvent, ChainStep, Consuming,
      HandleCreated, InsertCollection, HandleRemoved, CommitRemoval, HandleDataCreated,
      InsertData, HandleDataUpdated, UpsertData, HandleDataRemoved

\* Only an event changes the chain.
LEMMA ChainStays ==
    ASSUME [Next]_vars, ~ChainEvent
    PROVE  UNCHANGED chain
BY SaverLeaves
DEF Next, SaverStep, vars, Rest, Consuming, HandleCreated, InsertCollection, HandleRemoved,
    CommitRemoval, HandleDataCreated, InsertData, HandleDataUpdated, UpsertData,
    HandleDataRemoved

\* A collection that is removed on the chain takes its data with it.
LEMMA NextChainShape ==
    ASSUME TypeOK, ChainShape, [Next]_vars
    PROVE  ChainShape'
<1>1. CASE ChainEvent
  <2>0. chain \in [exists : BOOLEAN, data : [Networks -> Values \cup {None}]]
      BY DEF TypeOK
  <2>1. \A m, c : ChainStep(m, c) => chain' = c
      BY DEF ChainStep
  <2>2. CASE \E m : ChainStep(m, [chain EXCEPT !.exists = TRUE])
      BY <2>0, <2>1, <2>2 DEF ChainShape
  <2>3. CASE \E m : ChainStep(m, [exists |-> FALSE, data |-> NoData])
      BY <2>1, <2>3 DEF ChainShape
  <2>4. CASE chain.exists /\ \E m, n, v : ChainStep(m, [chain EXCEPT !.data[n] = v])
      BY <2>0, <2>1, <2>4 DEF ChainShape
  <2>5. CASE \E m : \E n \in Networks :
                chain.data[n] # None /\ ChainStep(m, [chain EXCEPT !.data[n] = None])
      BY <2>0, <2>1, <2>5 DEF ChainShape, NoData
  <2> QED BY <1>1, <2>2, <2>3, <2>4, <2>5 DEF ChainEvent
<1>2. CASE ~ChainEvent
    BY <1>2, ChainStays DEF ChainShape
<1> QED BY <1>1, <1>2
-----------------------------------------------------------------------------
(* The cache *)

\* No step leaves an outdated entry that is not known to be outrun.
LEMMA NextCacheEntry ==
    ASSUME TypeOK, AtHand, CacheEntry, [Next]_vars
    PROVE  CacheEntry'
<1> USE DEF Rest
<1>a. ASSUME UNCHANGED <<cached, outrun>>, row # None => row' = row,
             pc' = "CommitRemoval" => pc = "CommitRemoval"
      PROVE  CacheEntry'
    BY <1>a DEF CacheEntry
<1>b. FailHere \/ Advance \/ FailAttempt => pc' # "CommitRemoval"
    BY DEF FailHere, FailAttempt, LetGo, Advance
<1>c. \A l : Goto(l) => pc' = l
    BY DEF Goto
<1>d. ASSUME NEW id, CollectionByIndex(id), row' = row, pc' # "CommitRemoval"
      PROVE  CacheEntry'
    BY <1>d DEF CollectionByIndex, CacheEntry
<1>1. CASE UNCHANGED vars
    BY <1>1, <1>a DEF vars, queueVars, storeVars
<1>2. CASE ChainEvent
    BY <1>2, <1>a DEF ChainEvent, ChainStep, Emit, storeVars
<1>3. CASE Consuming
    BY <1>3, <1>a DEF Consuming, TakeBatch, AckBatch, CallFails, Crash, Repeat, FailAttempt,
       LetGo, storeVars
<1>4. CASE HandleCreated
    BY <1>4, <1>a, <1>b, <1>c DEF HandleCreated, Fail, storeVars
<1>5. CASE InsertCollection
    BY <1>5, <1>a, <1>b DEF InsertCollection, Fail, storeVars
<1>6. CASE HandleRemoved
  <2>1. CASE row = None
      BY <1>6, <2>1, <1>a, <1>b DEF HandleRemoved, Fail, storeVars
  <2>2. CASE row # None
      BY <1>6, <2>2 DEF HandleRemoved, CacheEntry
  <2> QED BY <2>1, <2>2
<1>7. CASE CommitRemoval
    BY <1>7, <1>b DEF CommitRemoval, CacheEntry
<1>8. CASE HandleDataCreated
    BY <1>8, <1>a, <1>b, <1>c, <1>d DEF HandleDataCreated, Fail, storeVars
<1>9. CASE InsertData
    BY <1>9, <1>a, <1>b DEF InsertData, SetMapping, storeVars
<1>10. CASE HandleDataUpdated
    BY <1>10, <1>b, <1>c, <1>d DEF HandleDataUpdated, storeVars
<1>11. CASE UpsertData
    BY <1>11, <1>a, <1>b DEF UpsertData, SetMapping
<1>12. CASE HandleDataRemoved
    BY <1>12, <1>b, <1>d DEF HandleDataRemoved
<1>13. CASE SaverCaches
  <2>1. UNCHANGED <<row, pc>>
      BY <1>13, SaverLeaves DEF SaverStep, SaverCaches, queueVars
  <2>2. CASE cached' = saver.id /\ outrun' = (saver.id # row \/ pc = "CommitRemoval")
      BY <2>1, <2>2 DEF CacheEntry
  <2>3. CASE UNCHANGED <<cached, outrun>>
      BY <2>1, <2>3, <1>a
  <2> QED BY <1>13, <2>2, <2>3 DEF SaverCaches
<1>14. CASE SaverStep /\ ~SaverCaches
  <2>1. pc' = pc
      BY <1>14, SaverLeaves DEF queueVars
  <2>2. UNCHANGED <<cached, outrun>> /\ (row # None => row' = row)
      BY <1>14 DEF SaverStep, SaverFinds, SaverGets, SaverSaves, SaverInserts, ItemRemoved,
         storeVars
  <2> QED BY <2>1, <2>2, <1>a
<1> QED BY <1>1, <1>2, <1>3, <1>4, <1>5, <1>6, <1>7, <1>8, <1>9, <1>10, <1>11, <1>12,
           <1>13, <1>14 DEF Next, SaverStep
-----------------------------------------------------------------------------
(* The messages that are left *)

\* The elements of a concatenation.
LEMMA ConcatFacts ==
    ASSUME NEW b \in Seq(Messages), NEW q \in Seq(Messages)
    PROVE  /\ b \o q \in Seq(Messages)
           /\ Len(b) \in Nat /\ Len(q) \in Nat
           /\ Len(b \o q) = Len(b) + Len(q)
           /\ \A k \in 1..Len(b) : (b \o q)[k] = b[k]
           /\ \A k \in 1..Len(q) : (b \o q)[k + Len(b)] = q[k]
<1>1. Len(b) \in Nat /\ Len(q) \in Nat
    BY LenProperties
<1>2. /\ b \o q \in Seq(Messages) /\ Len(b \o q) = Len(b) + Len(q)
      /\ \A k \in 1..(Len(b) + Len(q)) :
             (b \o q)[k] = IF k <= Len(b) THEN b[k] ELSE q[k - Len(b)]
    BY ConcatProperties
<1>3. \A k \in 1..Len(b) : (b \o q)[k] = b[k]
    BY <1>1, <1>2
<1>4. \A k \in 1..Len(q) : (b \o q)[k + Len(b)] = q[k]
  <2>1. TAKE k \in 1..Len(q)
  <2>2. k + Len(b) \in 1..(Len(b) + Len(q)) /\ ~ (k + Len(b) <= Len(b))
        /\ (k + Len(b)) - Len(b) = k
      BY <1>1
  <2> QED BY <1>2, <2>2
<1> QED BY <1>1, <1>2, <1>3, <1>4

\* The backlog is a sequence of messages, and idx points into it or at its end.
LEMMA BacklogTypes ==
    ASSUME TypeOK
    PROVE  /\ Backlog \in Seq(Messages) /\ Len(Backlog) \in Nat
           /\ Len(batch) \in Nat /\ Len(queue) \in Nat
           /\ Len(Backlog) = Len(batch) + Len(queue)
           /\ \A k \in 1..Len(batch) : Backlog[k] = batch[k]
           /\ \A k \in 1..Len(queue) : Backlog[k + Len(batch)] = queue[k]
           /\ \A k \in 1..Len(Backlog) : Backlog[k] \in Messages
           /\ idx \in 1..(Len(Backlog) + 1)
           /\ AtMessage => idx \in 1..Len(Backlog) /\ Backlog[idx] = Message
<1>1. /\ batch \in Seq(Messages) /\ queue \in Seq(Messages)
      /\ Len(batch) \in Nat /\ Len(queue) \in Nat /\ idx \in 1..(Len(batch) + 1)
    BY LenProperties DEF TypeOK, QueueTypeOK
<1>2. /\ Backlog \in Seq(Messages) /\ Len(Backlog) = Len(batch) + Len(queue)
      /\ \A k \in 1..Len(batch) : Backlog[k] = batch[k]
      /\ \A k \in 1..Len(queue) : Backlog[k + Len(batch)] = queue[k]
    BY <1>1, ConcatFacts DEF Backlog
<1>3. \A k \in 1..Len(Backlog) : Backlog[k] \in Messages
    BY <1>2, ElementOfSeq
<1> QED BY <1>1, <1>2, <1>3 DEF AtMessage, Message

\* t is what s is without its first d elements; t is s and one more, m.
Remainder(s, t, d) == Len(s) = Len(t) + d /\ \A k \in 1..Len(t) : t[k] = s[k + d]
Longer(s, t, m) ==
    Len(t) = Len(s) + 1 /\ t[Len(t)] = m /\ \A k \in 1..Len(s) : t[k] = s[k]

\* What is in the rest of a sequence is in the sequence, further on.
LEMMA RemainderFacts ==
    ASSUME NEW R, NEW s, NEW t, NEW d \in Nat, Len(s) \in Nat, Len(t) \in Nat,
           Remainder(s, t, d)
    PROVE  /\ \A k \in 1..Len(t) : LastOf(R, t, k) => LastOf(R, s, k + d) /\ s[k + d] = t[k]
           /\ \A i \in Nat \ {0}, j \in 0..Len(t) : NoneOf(R, t, i, j) => NoneOf(R, s, i + d, j + d)
<1>1. ASSUME NEW i \in Nat \ {0}, NEW j \in 0..Len(t), NoneOf(R, t, i, j)
      PROVE  NoneOf(R, s, i + d, j + d)
  <2>1. ASSUME NEW k \in (i + d)..(j + d)
        PROVE  s[k] \notin R
    <3>1. k - d \in i..j /\ k - d \in 1..Len(t) /\ (k - d) + d = k
        OBVIOUS
    <3>2. t[k - d] = s[(k - d) + d]
        BY <3>1 DEF Remainder
    <3> QED BY <1>1, <3>1, <3>2 DEF NoneOf
  <2> QED BY <2>1 DEF NoneOf
<1>2. ASSUME NEW k \in 1..Len(t), LastOf(R, t, k)
      PROVE  LastOf(R, s, k + d) /\ s[k + d] = t[k]
  <2>1. s[k + d] = t[k] /\ k + d \in 1..Len(s)
      BY DEF Remainder
  <2>2. NoneOf(R, s, (k + 1) + d, Len(t) + d)
      BY <1>1, <1>2 DEF LastOf
  <2>3. (k + 1) + d = (k + d) + 1 /\ Len(t) + d = Len(s)
      BY DEF Remainder
  <2>4. NoneOf(R, s, (k + d) + 1, Len(s))
      BY <2>2, <2>3
  <2> QED BY <1>2, <2>1, <2>4 DEF LastOf
<1> QED BY <1>1, <1>2

\* What is among the elements of a sequence is so when one is appended.
LEMMA LongerFacts ==
    ASSUME NEW R, NEW s, NEW t, NEW m, Len(s) \in Nat, Longer(s, t, m)
    PROVE  /\ m \in R => /\ \A k \in 1..Len(t) : LastOf(R, t, k) => k = Len(t) /\ t[k] = m
                         /\ \A i \in 1..Len(t) : ~ NoneOf(R, t, i, Len(t))
           /\ m \notin R =>
                  /\ \A k \in 1..Len(t) : LastOf(R, t, k) =>
                         k \in 1..Len(s) /\ LastOf(R, s, k) /\ s[k] = t[k]
                  /\ \A i \in Nat \ {0} : NoneOf(R, t, i, Len(t)) => NoneOf(R, s, i, Len(s))
           /\ \A i \in Nat \ {0}, j \in 0..Len(s) : NoneOf(R, t, i, j) => NoneOf(R, s, i, j)
<1>0. Len(t) = Len(s) + 1 /\ t[Len(t)] = m /\ Len(t) \in Nat /\ \A k \in 1..Len(s) : t[k] = s[k]
    BY DEF Longer
<1>1. \A i \in Nat \ {0}, j \in 0..Len(s) : NoneOf(R, t, i, j) => NoneOf(R, s, i, j)
    BY <1>0 DEF NoneOf
<1>2. \A i \in Nat \ {0} : NoneOf(R, t, i, Len(t)) => NoneOf(R, t, i, Len(s))
    BY <1>0 DEF NoneOf
<1>3. \A i \in 1..Len(t) : Len(t) \in i..Len(t)
    BY <1>0
<1>4. CASE m \in R
  <2>1. \A i \in 1..Len(t) : ~ NoneOf(R, t, i, Len(t))
      BY <1>0, <1>3, <1>4 DEF NoneOf
  <2>2. ASSUME NEW k \in 1..Len(t), LastOf(R, t, k)
        PROVE  k = Len(t) /\ t[k] = m
    <3>1. CASE k # Len(t)
      <4>1. k + 1 \in 1..Len(t)
          BY <1>0, <3>1
      <4> QED BY <2>1, <2>2, <4>1 DEF LastOf
    <3> QED BY <1>0, <3>1
  <2> QED BY <1>1, <1>4, <2>1, <2>2
<1>5. CASE m \notin R
  <2>1. ASSUME NEW k \in 1..Len(t), LastOf(R, t, k)
        PROVE  k \in 1..Len(s) /\ LastOf(R, s, k) /\ s[k] = t[k]
    <3>1. k # Len(t) /\ k \in 1..Len(s)
        BY <1>0, <1>5, <2>1 DEF LastOf
    <3>2. NoneOf(R, s, k + 1, Len(s))
        BY <1>0, <1>1, <1>2, <2>1 DEF LastOf
    <3> QED BY <1>0, <2>1, <3>1, <3>2 DEF LastOf
  <2>2. \A i \in Nat \ {0} : NoneOf(R, t, i, Len(t)) => NoneOf(R, s, i, Len(s))
      BY <1>0, <1>1, <1>2
  <2> QED BY <1>1, <1>5, <2>1, <2>2
<1> QED BY <1>4, <1>5

\* When nothing of R comes after s[i], it is the last of R or none of it.
LEMMA NextOrNone ==
    ASSUME NEW R, NEW s, Len(s) \in Nat, NEW i \in 1..Len(s), NoneOf(R, s, i + 1, Len(s))
    PROVE  IF s[i] \in R THEN LastOf(R, s, i) ELSE NoneOf(R, s, i, Len(s))
<1>1. \A k \in i..Len(s) : k = i \/ k \in (i + 1)..Len(s)
    OBVIOUS
<1> QED BY <1>1 DEF LastOf, NoneOf

-----------------------------------------------------------------------------
(* The steps of a run in which nothing was given up or disturbed *)

\* The consumer takes messages from the queue or forgets those it has handled.
LEMMA QueueMoves ==
    ASSUME TypeOK, TypeOK', AtHand, (\E n \in 1..BatchSize : TakeBatch(n)) \/ AckBatch
    PROVE  \E d \in Nat : Remainder(Backlog, Backlog', d) /\ idx' + d = idx
<1>e. batch' \in Seq(Messages) /\ queue' \in Seq(Messages)
    BY DEF TypeOK, QueueTypeOK
<1>2. CASE \E n \in 1..BatchSize : TakeBatch(n)
    <3>1. PICK n \in 1..BatchSize : TakeBatch(n)
        BY <1>2
    <3>2. batch = << >> /\ idx = 1 /\ Len(batch) = 0
        BY <3>1, EmptySeq DEF TakeBatch, AtHand
    <3>3. queue \in Seq(Messages) /\ n \in Nat /\ n <= Len(queue) /\ Len(queue) \in Nat
          /\ \A i \in 1..Len(queue) : queue[i] \in Messages
        BY <3>1, BacklogTypes, ElementOfSeq, EventQueueAssumption DEF TakeBatch, TypeOK,
           QueueTypeOK
    <3>4. /\ Len(batch') = n
          /\ \A i \in 1..(n - 1 + 1) : batch'[i] = queue[1 + i - 1]
        BY <3>1, <3>3, SubSeqProperties DEF TakeBatch
    <3>5. /\ Len(queue') = IF n + 1 <= Len(queue) THEN Len(queue) - (n + 1) + 1 ELSE 0
          /\ \A i \in 1..(Len(queue) - (n + 1) + 1) : queue'[i] = queue[(n + 1) + i - 1]
        BY <3>1, <3>3, SubSeqProperties DEF TakeBatch
    <3>6. Len(queue') = Len(queue) - n
        BY <3>3, <3>5
    <3>7. /\ Len(Backlog') = Len(batch') + Len(queue')
          /\ \A k \in 1..Len(batch') : Backlog'[k] = batch'[k]
          /\ \A k \in 1..Len(queue') : Backlog'[k + Len(batch')] = queue'[k]
        BY <1>e, ConcatFacts DEF Backlog
    <3>8. Len(Backlog) = Len(queue) /\ \A k \in 1..Len(queue) : Backlog[k] = queue[k]
        BY <3>2, <3>3, BacklogTypes
    <3>9. ASSUME NEW k \in 1..Len(Backlog')
          PROVE  Backlog'[k] = Backlog[k + 0]
      <4>1. k \in 1..Len(queue) /\ k + 0 = k
          BY <3>3, <3>4, <3>6, <3>7
      <4>2. CASE k <= n
        <5>1. k \in 1..Len(batch') /\ k \in 1..(n - 1 + 1) /\ 1 + k - 1 = k
            BY <3>3, <3>4, <4>1, <4>2
        <5> QED BY <3>4, <3>7, <3>8, <4>1, <5>1
      <4>3. CASE ~ (k <= n)
        <5>1. k - n \in 1..Len(queue') /\ k - n \in 1..(Len(queue) - (n + 1) + 1)
              /\ (k - n) + n = k /\ (n + 1) + (k - n) - 1 = k
            BY <3>3, <3>6, <4>1, <4>3
        <5>2. queue'[k - n] = queue[(n + 1) + (k - n) - 1]
            BY <3>5, <5>1
        <5>3. Backlog'[(k - n) + Len(batch')] = queue'[k - n]
            BY <3>7, <5>1
        <5> QED BY <3>4, <3>8, <4>1, <5>1, <5>2, <5>3
      <4> QED BY <4>2, <4>3
    <3>10. Len(Backlog) = Len(Backlog') + 0
        BY <3>3, <3>4, <3>6, <3>7, <3>8
    <3>11. idx' + 0 = idx
        BY <3>1, <3>2 DEF TakeBatch
    <3> QED BY <3>9, <3>10, <3>11 DEF Remainder
<1>3. CASE AckBatch
    <3> DEFINE d == Len(batch)
    <3>1. d \in Nat /\ idx = d + 1 /\ Len(queue) \in Nat
      <4>1. idx \in 1..(Len(batch) + 1) /\ Len(batch) \in Nat /\ Len(queue) \in Nat
          BY BacklogTypes DEF TypeOK, QueueTypeOK
      <4> QED BY <1>3, <4>1 DEF AckBatch
    <3>2. batch' = << >> /\ Len(batch') = 0 /\ queue' = queue /\ idx' = 1
        BY <1>3, EmptySeq DEF AckBatch, LetGo
    <3>a. /\ Len(Backlog') = Len(batch') + Len(queue')
          /\ \A k \in 1..Len(queue') : Backlog'[k + Len(batch')] = queue'[k]
        BY <1>e, ConcatFacts DEF Backlog
    <3>3. Len(Backlog') = Len(queue) /\ \A k \in 1..Len(queue) : Backlog'[k] = queue[k]
        BY <3>1, <3>2, <3>a
    <3>4. Len(Backlog) = Len(Backlog') + d /\ \A k \in 1..Len(Backlog') : Backlog'[k] = Backlog[k + d]
        BY <3>1, <3>3, BacklogTypes
    <3>5. idx' + d = idx
        BY <3>1, <3>2
    <3> QED BY <3>1, <3>4, <3>5 DEF Remainder
<1> QED BY <1>2, <1>3

\* Nothing moves.
LEMMA QueueRests ==
    ASSUME TypeOK, UNCHANGED <<batch, queue>>
    PROVE  Backlog' = Backlog /\ Remainder(Backlog, Backlog', 0)
<1>1. Backlog' = Backlog
    BY DEF Backlog
<1>2. Len(Backlog) \in Nat
    BY BacklogTypes
<1>3. \A s : Len(s) \in Nat => Remainder(s, s, 0)
    BY DEF Remainder
<1> QED BY <1>1, <1>2, <1>3

\* A handler goes on with its message, the batch begins again, or the queue
\* moves; SaveItem may save the collection meanwhile.
Stays ==
    /\ \E d \in Nat : Remainder(Backlog, Backlog', d) /\ idx' + d <= idx
    /\ UNCHANGED <<chain, mapping>>
    /\ row' = row \/ (row = None /\ chain.exists)

\* The message is handled.
Handled ==
    /\ AtMessage /\ Advance
    /\ UNCHANGED chain
    /\ \/ InsertCollection /\ row' # None /\ UNCHANGED mapping
       \/ CommitRemoval /\ row' = None /\ mapping' = NoData
       \/ /\ InsertData \/ UpsertData
          /\ UNCHANGED row
          /\ mapping' = [mapping EXCEPT ![Message.network] = value]
       \/ /\ HandleDataRemoved
          /\ UNCHANGED row
          /\ \A n \in Networks :
                 mapping'[n] = IF n = Message.network THEN None ELSE mapping[n]

\* A step that moves neither messages, tables nor chain keeps their order.
LEMMA StaysIfSame ==
    ASSUME TypeOK, UNCHANGED <<batch, queue, chain, mapping>>, idx' \in 1..idx,
           row' = row \/ (row = None /\ chain.exists)
    PROVE  Stays
<1>1. Remainder(Backlog, Backlog', 0)
    BY QueueRests
<1>2. idx \in Nat
    BY BacklogTypes
<1>3. idx' + 0 <= idx
  <2>1. \A i, j \in Nat : i \in 1..j => i + 0 <= j
      OBVIOUS
  <2>2. idx' \in Nat
      BY <1>2
  <2> QED BY <1>2, <2>1, <2>2
<1> QED BY <1>1, <1>3 DEF Stays

\* Unless something goes wrong for good, a step keeps the order, handles a message or
\* is an event.
LEMMA OrderSteps ==
    ASSUME TypeOK, TypeOK', AtHand, MappedTypes, [Next]_vars,
           ~lost', ~disturbed', ~misled', ~late'
    PROVE  Stays \/ Handled \/ ChainEvent
<1> USE DEF Rest
<1>0. idx \in 1..(Len(Backlog) + 1) /\ Len(Backlog) \in Nat /\ 1 \in 1..idx /\ idx \in 1..idx
    BY BacklogTypes
<1>a. ASSUME UNCHANGED <<chain, mapping>>, row' = row \/ (row = None /\ chain.exists),
             UNCHANGED queueVars \/ \E l : Goto(l)
      PROVE  Stays
    BY <1>0, <1>a, StaysIfSame DEF Goto, queueVars
<1>b. ASSUME UNCHANGED <<chain, row, mapping>>, FailAttempt
      PROVE  Stays
  <2>1. UNCHANGED <<batch, queue>> /\ idx' = 1
      BY <1>b DEF FailAttempt
  <2> QED BY <1>0, <1>b, <2>1, StaysIfSame
<1>c. ASSUME FailHere, UNCHANGED <<chain, storeVars>>
      PROVE  Stays
    BY <1>b, <1>c DEF FailHere, storeVars
<1>d. pc \in Labels => AtMessage
    BY DEF TypeOK, QueueTypeOK, AtMessage, Labels
<1>1. CASE UNCHANGED vars
    BY <1>1, <1>a DEF vars, storeVars
<1>2. CASE ChainEvent
    BY <1>2
<1>3. CASE Consuming
  <2>1. UNCHANGED <<chain, row, mapping>>
      BY <1>3 DEF Consuming, storeVars
  <2>2. CASE (\E n \in 1..BatchSize : TakeBatch(n)) \/ AckBatch
    <3>1. PICK d \in Nat : Remainder(Backlog, Backlog', d) /\ idx' + d = idx
        BY <2>2, QueueMoves
    <3>2. idx' + d <= idx
        BY <1>0, <3>1
    <3> QED BY <2>1, <3>1, <3>2 DEF Stays
  <2>3. CASE CallFails
      BY <2>1, <2>3, <1>b DEF CallFails
  <2>4. CASE Crash \/ \E m \in emitted : Repeat(m)
      BY <2>4 DEF Crash, Repeat
  <2> QED BY <1>3, <2>2, <2>3, <2>4 DEF Consuming
<1>4. CASE HandleCreated
    BY <1>4, <1>a, <1>c DEF HandleCreated, Fail, storeVars
<1>5. CASE InsertCollection
  <2>1. CASE row # None
      BY <1>5, <2>1, <1>c DEF InsertCollection, Fail
  <2>2. CASE row = None
    <3>1. Advance /\ row' = lastId + 1 /\ UNCHANGED <<chain, mapping>> /\ lastId < MaxIds
        BY <1>5, <2>2 DEF InsertCollection
    <3>2. row' # None
        BY <3>1, CollectionsIndexerAssumption DEF TypeOK, Ids
    <3>3. AtMessage
        BY <1>5, <1>d DEF InsertCollection, Labels
    <3> QED BY <1>5, <3>1, <3>2, <3>3 DEF Handled
  <2> QED BY <2>1, <2>2
<1>6. CASE HandleRemoved
    BY <1>6, <1>a, <1>c DEF HandleRemoved, Fail, storeVars
<1>7. CASE CommitRemoval
    BY <1>7, <1>d DEF CommitRemoval, Handled, Labels
<1>8. CASE HandleDataCreated
    BY <1>8, <1>a, <1>c DEF HandleDataCreated, Fail, storeVars
<1>9. CASE InsertData
  <2>1. CASE found # row \/ mapping[Message.network] # None
      BY <1>9, <2>1, <1>c DEF InsertData
  <2>2. CASE ~ (found # row \/ mapping[Message.network] # None)
    <3>1. Advance /\ SetMapping(Message.network, value) /\ UNCHANGED chain /\ AtMessage
        BY <1>9, <1>d, <2>2 DEF InsertData, Labels
    <3> QED BY <1>9, <3>1 DEF Handled, SetMapping
  <2> QED BY <2>1, <2>2
<1>10. CASE HandleDataUpdated
    BY <1>10, <1>a, <1>c DEF HandleDataUpdated, storeVars
<1>11. CASE UpsertData
  <2>1. Advance /\ SetMapping(Message.network, value) /\ UNCHANGED chain /\ AtMessage
      BY <1>11, <1>d DEF UpsertData, Labels
  <2> QED BY <1>11, <2>1 DEF Handled, SetMapping
<1>12. CASE HandleDataRemoved
  <2>1. PICK id \in {cached, row} :
            /\ CollectionByIndex(id)
            /\ IF id = None \/ Message.network \notin Supported THEN FailHere ELSE Advance
            /\ mapping' = IF MappingOf(id, Message.network) = None THEN mapping
                          ELSE [mapping EXCEPT ![Message.network] = None]
      BY <1>12 DEF HandleDataRemoved
  <2>2. UNCHANGED <<row, chain>> /\ AtMessage /\ Message.type = "CollectionDataRemoved"
      BY <1>12 DEF HandleDataRemoved, Handling, AtMessage, Message
  <2>3. Message.network \in Networks /\ mapping \in [Networks -> Values \cup {None}]
      BY <2>2, MessageType DEF TypeOK
  <2>4. id \in {row, None}
      BY <2>1 DEF CollectionByIndex
  <2>5. CASE id = None \/ Message.network \notin Supported
    <3>1. MappingOf(id, Message.network) = None
        BY <2>3, <2>5 DEF MappingOf, MappedTypes
    <3> QED BY <1>b, <2>1, <2>2, <2>5, <3>1 DEF FailHere
  <2>6. CASE ~ (id = None \/ Message.network \notin Supported)
    <3>1. MappingOf(id, Message.network) = mapping[Message.network]
        BY <2>4, <2>6 DEF MappingOf
    <3>2. \A n \in Networks : mapping'[n] = IF n = Message.network THEN None ELSE mapping[n]
        BY <2>1, <2>3, <3>1
    <3> QED BY <1>12, <2>1, <2>2, <2>6, <3>2 DEF Handled
  <2> QED BY <2>5, <2>6
<1>13. CASE SaverStep
  <2>1. UNCHANGED <<chain, mapping>> /\ UNCHANGED queueVars
      BY <1>13, SaverLeaves
  <2>2. row' = row \/ (row = None /\ chain.exists)
      BY <1>13 DEF SaverStep, SaverFinds, SaverCaches, SaverGets, SaverSaves,
         SaverInserts, ItemRemoved, storeVars
  <2> QED BY <1>a, <2>1, <2>2
<1> QED BY <1>1, <1>2, <1>3, <1>4, <1>5, <1>6, <1>7, <1>8, <1>9, <1>10, <1>11, <1>12,
           <1>13 DEF Next, SaverStep

\* What the event m says of the chain.
Reports(m) ==
    /\ Emit(m)
    /\ UNCHANGED <<storeVars, cached, handlerVars, saverVars>>
    /\ m.type \in {"CollectionCreated", "CollectionRemoved"} =>
           (m.type = "CollectionCreated" <=> chain'.exists)
    /\ m.type \notin {"CollectionCreated", "CollectionRemoved"} =>
           chain.exists /\ chain'.exists
    /\ m.type = "CollectionCreated" => ~chain.exists /\ chain'.data = chain.data
    /\ m.type = "CollectionRemoved" => \A n \in Networks : chain'.data[n] = None
    /\ m.type = "CollectionDataCreated" => chain.data[m.network] = None
    /\ m.type = "CollectionDataUpdated" => chain.data[m.network] # None
    /\ m.network \in Networks => (Tells(m) <=> chain'.data[m.network] # None)
    /\ m.type # "CollectionRemoved" =>
           \A n \in Networks : n # m.network => chain'.data[n] = chain.data[n]

\* An event is emitted with the change of the chain that it tells of.
LEMMA ChainMoves ==
    ASSUME TypeOK, ChainShape, ChainEvent
    PROVE  \E m \in Messages : Reports(m)
<1>0. /\ chain \in [exists : BOOLEAN, data : [Networks -> Values \cup {None}]]
      /\ None \notin Networks /\ None \notin Values
    BY CollectionsIndexerAssumption DEF TypeOK
<1>a. ASSUME NEW m, NEW c, ChainStep(m, c)
      PROVE  /\ Emit(m) /\ chain' = c
             /\ UNCHANGED <<storeVars, cached, handlerVars, saverVars>>
    BY <1>a DEF ChainStep
<1>1. CASE ~chain.exists /\ ChainStep(Event("CollectionCreated", None),
                                      [chain EXCEPT !.exists = TRUE])
  <2> DEFINE m == Event("CollectionCreated", None)
  <2>1. /\ Emit(m) /\ chain' = [chain EXCEPT !.exists = TRUE]
        /\ UNCHANGED <<storeVars, cached, handlerVars, saverVars>>
      BY <1>1, <1>a
  <2>2. m \in Messages /\ m.type = "CollectionCreated" /\ m.network = None
      BY DEF Event, Messages
  <2>3. chain'.exists = TRUE /\ chain'.data = chain.data
      BY <1>0, <2>1
  <2> HIDE DEF m
  <2> QED BY <1>0, <1>1, <2>1, <2>2, <2>3 DEF Reports
<1>2. CASE ChainStep(Event("CollectionRemoved", None), [exists |-> FALSE, data |-> NoData])
  <2> DEFINE m == Event("CollectionRemoved", None)
  <2>1. /\ Emit(m) /\ chain' = [exists |-> FALSE, data |-> NoData]
        /\ UNCHANGED <<storeVars, cached, handlerVars, saverVars>>
      BY <1>2, <1>a
  <2>2. m \in Messages /\ m.type = "CollectionRemoved" /\ m.network = None
      BY DEF Event, Messages
  <2>3. chain'.exists = FALSE /\ \A n \in Networks : chain'.data[n] = None
      BY <2>1 DEF NoData
  <2> HIDE DEF m
  <2> QED BY <1>0, <2>1, <2>2, <2>3 DEF Reports
<1>3. ASSUME NEW n \in Networks, NEW v \in Values \cup {None}, NEW type,
             chain.exists,
             \/ type = "CollectionDataCreated" /\ chain.data[n] = None /\ v # None
             \/ type = "CollectionDataUpdated" /\ chain.data[n] # None /\ v # None
             \/ type = "CollectionDataRemoved" /\ v = None,
             ChainStep(Event(type, n), [chain EXCEPT !.data[n] = v])
      PROVE  \E m \in Messages : Reports(m)
  <2> DEFINE m == Event(type, n)
  <2>1. /\ Emit(m) /\ chain' = [chain EXCEPT !.data[n] = v]
        /\ UNCHANGED <<storeVars, cached, handlerVars, saverVars>>
      BY <1>3, <1>a
  <2>2. m \in Messages /\ m.type = type /\ m.network = n
      BY <1>3 DEF Event, Messages
  <2>3. /\ chain'.exists = chain.exists /\ chain'.data[n] = v
        /\ \A o \in Networks : o # n => chain'.data[o] = chain.data[o]
      BY <1>0, <2>1
  <2> HIDE DEF m
  <2> QED BY <1>0, <1>3, <2>1, <2>2, <2>3 DEF Reports, Tells
<1>4. ASSUME NEW n \in Networks, NEW v \in Values, chain.exists,
             ChainStep(Event(IF chain.data[n] = None THEN "CollectionDataCreated"
                             ELSE "CollectionDataUpdated", n), [chain EXCEPT !.data[n] = v])
      PROVE  \E m \in Messages : Reports(m)
  <2>1. v # None /\ v \in Values \cup {None}
      BY <1>0
  <2>2. CASE chain.data[n] = None
      BY <1>3, <1>4, <2>1, <2>2
  <2>3. CASE chain.data[n] # None
      BY <1>3, <1>4, <2>1, <2>3
  <2> QED BY <2>2, <2>3
<1>5. ASSUME NEW n \in Networks, chain.data[n] # None,
             ChainStep(Event("CollectionDataRemoved", n), [chain EXCEPT !.data[n] = None])
      PROVE  \E m \in Messages : Reports(m)
  <2>1. chain.exists
      BY <1>5 DEF ChainShape, NoData
  <2> QED BY <1>3, <1>5, <2>1
<1> QED BY <1>1, <1>2, <1>4, <1>5 DEF ChainEvent
\* What the three kinds of steps do to the messages of R that are left.
LEMMA StaysFacts ==
    ASSUME TypeOK, TypeOK', Stays, NEW R
    PROVE  /\ NoneOf(R, Backlog', idx', Len(Backlog')) => Done(R)
           /\ \A k \in 1..Len(Backlog') : LastOf(R, Backlog', k) =>
                  \E j \in 1..Len(Backlog) : LastOf(R, Backlog, j) /\ Backlog[j] = Backlog'[k]
<1> DEFINE s == Backlog
           t == Backlog'
           i == idx
           j == idx'
<1>1. PICK d \in Nat : Remainder(s, t, d) /\ j + d <= i
    BY DEF Stays
<1>2. Len(s) \in Nat /\ i \in Nat
    BY BacklogTypes
<1>3. Len(t) \in Nat /\ j \in Nat \ {0}
  <2>1. batch' \in Seq(Messages) /\ queue' \in Seq(Messages)
      BY DEF TypeOK, QueueTypeOK
  <2>2. Len(batch') \in Nat /\ idx' \in 1..(Len(batch') + 1)
      BY <2>1, LenProperties DEF TypeOK, QueueTypeOK
  <2> QED BY <2>1, <2>2, ConcatFacts DEF Backlog
<1> HIDE DEF s, t, i, j
<1>a. /\ \A k \in 1..Len(t) : LastOf(R, t, k) => LastOf(R, s, k + d) /\ s[k + d] = t[k]
      /\ \A h \in Nat \ {0}, l \in 0..Len(t) : NoneOf(R, t, h, l) => NoneOf(R, s, h + d, l + d)
    BY <1>1, <1>2, <1>3, RemainderFacts
<1>4. ASSUME NoneOf(R, t, j, Len(t))
      PROVE  NoneOf(R, s, i, Len(s))
  <2>1. NoneOf(R, s, j + d, Len(t) + d)
      BY <1>a, <1>3, <1>4
  <2>2. Len(t) + d = Len(s)
      BY <1>1 DEF Remainder
  <2>3. \A k \in i..Len(s) : k \in (j + d)..Len(s)
      BY <1>1, <1>2, <1>3
  <2> QED BY <2>1, <2>2, <2>3 DEF NoneOf
<1>5. ASSUME NEW k \in 1..Len(t), LastOf(R, t, k)
      PROVE  \E l \in 1..Len(s) : LastOf(R, s, l) /\ s[l] = t[k]
  <2>1. LastOf(R, s, k + d) /\ s[k + d] = t[k]
      BY <1>a, <1>5
  <2> QED BY <2>1 DEF LastOf
<1> QED BY <1>4, <1>5 DEF s, t, i, j, Done

\* An emitted event is the last of the backlog.
LEMMA EmitLonger ==
    ASSUME TypeOK, NEW m \in Messages, Emit(m)
    PROVE  /\ Longer(Backlog, Backlog', m)
           /\ Len(Backlog) \in Nat
           /\ Len(Backlog') = Len(Backlog) + 1
           /\ idx' = idx
           /\ idx \in 1..Len(Backlog')
<1>1. /\ batch \in Seq(Messages) /\ queue \in Seq(Messages) /\ idx \in 1..(Len(Backlog) + 1)
      /\ Len(Backlog) = Len(batch) + Len(queue) /\ Len(batch) \in Nat /\ Len(queue) \in Nat
      /\ \A k \in 1..Len(batch) : Backlog[k] = batch[k]
      /\ \A k \in 1..Len(queue) : Backlog[k + Len(batch)] = queue[k]
    BY BacklogTypes DEF TypeOK, QueueTypeOK
<1>2. batch' = batch /\ idx' = idx /\ queue' = Append(queue, m)
    BY DEF Emit
<1>3. /\ queue' \in Seq(Messages) /\ Len(queue') = Len(queue) + 1
      /\ \A k \in 1..Len(queue) : queue'[k] = queue[k]
      /\ queue'[Len(queue) + 1] = m
    BY <1>1, <1>2, AppendProperties
<1>4. /\ Len(Backlog') = Len(batch) + Len(queue')
      /\ \A k \in 1..Len(batch) : Backlog'[k] = batch[k]
      /\ \A k \in 1..Len(queue') : Backlog'[k + Len(batch)] = queue'[k]
    BY <1>1, <1>2, <1>3, ConcatFacts DEF Backlog
<1>5. Len(Backlog') = Len(Backlog) + 1 /\ Backlog'[Len(Backlog')] = m
  <2>1. Len(queue) + 1 \in 1..Len(queue')
      BY <1>1, <1>3
  <2>2. Backlog'[(Len(queue) + 1) + Len(batch)] = m
      BY <1>3, <1>4, <2>1
  <2>3. (Len(queue) + 1) + Len(batch) = Len(Backlog) + 1
      BY <1>1
  <2>4. Len(Backlog') = Len(Backlog) + 1
      BY <1>1, <1>3, <1>4
  <2> QED BY <2>2, <2>3, <2>4
<1>6. ASSUME NEW k \in 1..Len(Backlog)
      PROVE  Backlog'[k] = Backlog[k]
  <2>1. CASE k <= Len(batch)
      BY <1>1, <1>4, <2>1
  <2>2. CASE ~ (k <= Len(batch))
    <3> DEFINE j == k - Len(batch)
    <3>1. j \in 1..Len(queue) /\ j \in 1..Len(queue') /\ j + Len(batch) = k
        BY <1>1, <1>3, <2>2
    <3> HIDE DEF j
    <3>2. Backlog'[j + Len(batch)] = queue'[j] /\ Backlog[j + Len(batch)] = queue[j]
        BY <1>1, <1>4, <3>1
    <3> QED BY <1>3, <3>1, <3>2
  <2> QED BY <2>1, <2>2
<1> QED BY <1>1, <1>2, <1>5, <1>6 DEF Longer

\* The messages of R that are left after an event.
LEMMA EmitFacts ==
    ASSUME TypeOK, NEW m \in Messages, Emit(m), NEW R
    PROVE  IF m \in R
           THEN /\ ~ NoneOf(R, Backlog', idx', Len(Backlog'))
                /\ \A k \in 1..Len(Backlog') : LastOf(R, Backlog', k) =>
                       k = Len(Backlog') /\ Backlog'[k] = m
           ELSE /\ NoneOf(R, Backlog', idx', Len(Backlog')) => Done(R)
                /\ \A k \in 1..Len(Backlog') : LastOf(R, Backlog', k) =>
                       k \in 1..Len(Backlog) /\ LastOf(R, Backlog, k) /\ Backlog[k] = Backlog'[k]
<1>1. Longer(Backlog, Backlog', m) /\ Len(Backlog) \in Nat /\ idx' = idx
      /\ idx' \in 1..Len(Backlog') /\ idx' \in Nat \ {0}
    BY EmitLonger
<1> QED BY <1>1, LongerFacts DEF Done

\* The messages of R that are left after one is handled.
LEMMA HandledFacts ==
    ASSUME TypeOK, Handled, NEW R
    PROVE  /\ Backlog' = Backlog /\ Message \in Messages /\ Backlog[idx] = Message
           /\ idx \in 1..Len(Backlog) /\ idx' = idx + 1
           /\ NoneOf(R, Backlog', idx', Len(Backlog')) =>
                  IF Message \in R THEN LastOf(R, Backlog, idx) ELSE Done(R)
<1>1. /\ Len(Backlog) \in Nat /\ idx \in 1..Len(Backlog)
      /\ Backlog[idx] = Message /\ Message \in Messages
    BY BacklogTypes, MessageType DEF Handled
<1>2. Backlog' = Backlog /\ idx' = idx + 1
    BY DEF Handled, Advance, Backlog
<1> QED BY <1>1, <1>2, NextOrNone DEF Done

\* Which message is handled, and what it is a message of.
LEMMA HandledTypes ==
    ASSUME TypeOK, AtHand, Handled
    PROVE  /\ InsertCollection => Message.type = "CollectionCreated"
           /\ CommitRemoval => Message.type = "CollectionRemoved"
           /\ InsertData => Message.type = "CollectionDataCreated"
           /\ UpsertData => Message.type = "CollectionDataUpdated"
           /\ HandleDataRemoved => Message.type = "CollectionDataRemoved"
           /\ Message \in RowMessages <=>
                  Message.type \in {"CollectionCreated", "CollectionRemoved"}
           /\ \A n : Message \in DataMessages(n) <=>
                  Message.type = "CollectionRemoved" \/ Message.network = n
           /\ Message.type = "CollectionCreated" => Message.network = None
<1>1. Message \in Messages
    BY HandledFacts
<1>2. /\ InsertCollection => Message.type = "CollectionCreated"
      /\ CommitRemoval => Message.type = "CollectionRemoved"
      /\ InsertData => Message.type = "CollectionDataCreated"
      /\ UpsertData => Message.type = "CollectionDataUpdated"
    BY DEF AtHand, InsertCollection, CommitRemoval, InsertData, UpsertData
<1>3. HandleDataRemoved => Message.type = "CollectionDataRemoved"
    BY DEF HandleDataRemoved, Handling, Message
<1>4. Message.type = "CollectionCreated" => Message.network = None
    BY <1>1 DEF Messages
<1> QED BY <1>1, <1>2, <1>3, <1>4 DEF RowMessages, DataMessages

\* The last message of the collection keeps telling whether it exists.
LEMMA NextRowInOrder ==
    ASSUME TypeOK, TypeOK', AtHand, ChainShape, RowInOrder, Stays \/ Handled \/ ChainEvent
    PROVE  RowInOrder'
<1>1. CASE Stays
    BY <1>1, StaysFacts DEF RowInOrder, Done, Stays
<1>2. CASE Handled
  <2>1. /\ Backlog' = Backlog /\ Backlog[idx] = Message /\ idx \in 1..Len(Backlog)
        /\ NoneOf(RowMessages, Backlog', idx', Len(Backlog')) =>
               IF Message \in RowMessages THEN LastOf(RowMessages, Backlog, idx)
                                          ELSE Done(RowMessages)
        /\ chain' = chain
      BY <1>2, HandledFacts DEF Handled
  <2>2. CASE Message \in RowMessages
    <3>1. row' # None <=> Message.type = "CollectionCreated"
        BY <1>2, <2>2, HandledTypes DEF Handled
    <3> QED BY <2>1, <2>2, <3>1 DEF RowInOrder, Done
  <2>3. CASE Message \notin RowMessages
    <3>1. row' = row
        BY <1>2, <2>3, HandledTypes DEF Handled
    <3> QED BY <2>1, <2>3, <3>1 DEF RowInOrder, Done
  <2> QED BY <2>2, <2>3
<1>3. CASE ChainEvent
  <2>1. PICK m \in Messages : Reports(m)
      BY <1>3, ChainMoves
  <2>2. Emit(m) /\ row' = row
      BY <2>1 DEF Reports, storeVars
  <2>3. CASE m \in RowMessages
    <3>1. m.type = "CollectionCreated" <=> chain'.exists
        BY <2>1, <2>3 DEF Reports, RowMessages
    <3> QED BY <2>2, <2>3, <3>1, EmitFacts DEF RowInOrder, Done
  <2>4. CASE m \notin RowMessages
    <3>1. chain'.exists = chain.exists
      <4>1. m.type \notin {"CollectionCreated", "CollectionRemoved"}
          BY <2>4 DEF RowMessages
      <4> QED BY <2>1, <4>1 DEF Reports, TypeOK
    <3> QED BY <2>2, <2>4, <3>1, EmitFacts DEF RowInOrder, Done
  <2> QED BY <2>3, <2>4
<1> QED BY <1>1, <1>2, <1>3

\* The last message of the data on a network keeps telling whether there is any.
LEMMA NextDataInOrder ==
    ASSUME TypeOK, TypeOK', AtHand, ChainShape, DataInOrder, ValueAtHand,
           Stays \/ Handled \/ ChainEvent
    PROVE  DataInOrder'
<1>1. SUFFICES
        ASSUME NEW n \in Networks
        PROVE  /\ \A k \in 1..Len(Backlog') : LastOf(DataMessages(n), Backlog', k) =>
                      (Tells(Backlog'[k]) <=> chain'.data[n] # None)
               /\ NoneOf(DataMessages(n), Backlog', idx', Len(Backlog')) /\ n \in Supported =>
                      mapping'[n] = chain'.data[n]
    BY DEF DataInOrder, Done, DataMessages, Tells
<1> DEFINE R == DataMessages(n)
<1>2. /\ \A k \in 1..Len(Backlog) :
             LastOf(R, Backlog, k) => (Tells(Backlog[k]) <=> chain.data[n] # None)
      /\ Done(R) /\ n \in Supported => mapping[n] = chain.data[n]
    BY DEF DataInOrder
<1>3. CASE Stays
    BY <1>2, <1>3, StaysFacts DEF Stays
<1>4. CASE Handled
  <2>1. /\ Backlog' = Backlog /\ Backlog[idx] = Message /\ idx \in 1..Len(Backlog)
        /\ NoneOf(R, Backlog', idx', Len(Backlog')) =>
               IF Message \in R THEN LastOf(R, Backlog, idx) ELSE Done(R)
        /\ chain' = chain
      BY <1>4, HandledFacts DEF Handled
  <2>2. /\ Message \in R <=> Message.type = "CollectionRemoved" \/ Message.network = n
        /\ mapping \in [Networks -> Values \cup {None}]
      BY <1>4, HandledTypes DEF TypeOK
  <2>3. CASE Message \in R
    <3>1. ASSUME LastOf(R, Backlog, idx), n \in Supported
          PROVE  mapping'[n] = chain.data[n]
      <4>1. Tells(Message) <=> chain.data[n] # None
          BY <1>2, <2>1, <3>1
      <4>2. NoneOf(R, Backlog, idx + 1, Len(Backlog))
          BY <3>1 DEF LastOf
      <4>3. CASE InsertCollection
        <5>1. Message.type = "CollectionCreated" /\ Message.network = None
            BY <1>4, <4>3, HandledTypes
        <5> QED BY <2>2, <2>3, <5>1, CollectionsIndexerAssumption
      <4>4. CASE CommitRemoval /\ mapping' = NoData
        <5>1. ~Tells(Message)
            BY <1>4, <4>4, HandledTypes DEF Tells
        <5> QED BY <4>1, <4>4, <5>1 DEF NoData
      <4>5. CASE /\ InsertData \/ UpsertData
                 /\ mapping' = [mapping EXCEPT ![Message.network] = value]
        <5>1. Message.network = n
            BY <1>4, <2>2, <2>3, <4>5, HandledTypes
        <5>2. value = chain.data[n]
            BY <4>2, <4>5, <5>1 DEF ValueAtHand, InsertData, UpsertData
        <5> QED BY <2>2, <4>5, <5>1, <5>2
      <4>6. CASE /\ HandleDataRemoved
                 /\ \A o \in Networks :
                        mapping'[o] = IF o = Message.network THEN None ELSE mapping[o]
        <5>1. Message.type = "CollectionDataRemoved"
            BY <1>4, <4>6, HandledTypes
        <5>2. Message.network = n /\ ~Tells(Message)
            BY <2>2, <2>3, <5>1 DEF Tells
        <5> QED BY <4>1, <4>6, <5>2
      <4> QED BY <1>4, <4>3, <4>4, <4>5, <4>6 DEF Handled
    <3> QED BY <1>2, <2>1, <2>3, <3>1
  <2>4. CASE Message \notin R
    <3>1. mapping'[n] = mapping[n]
      <4>1. CASE CommitRemoval
          BY <2>2, <2>4, <4>1, <1>4, HandledTypes
      <4>2. CASE ~CommitRemoval
          BY <2>2, <2>4, <4>2, <1>4 DEF Handled
      <4> QED BY <4>1, <4>2
    <3> QED BY <1>2, <2>1, <2>4, <3>1
  <2> QED BY <2>3, <2>4
<1>5. CASE ChainEvent
  <2>1. PICK m \in Messages : Reports(m)
      BY <1>5, ChainMoves
  <2>2. Emit(m) /\ mapping' = mapping
      BY <2>1 DEF Reports, storeVars
  <2>3. CASE m \in R
    <3>1. Tells(m) <=> chain'.data[n] # None
        BY <2>1, <2>3 DEF Reports, DataMessages, Tells
    <3> QED BY <2>2, <2>3, <3>1, EmitFacts
  <2>4. CASE m \notin R
    <3>1. chain'.data[n] = chain.data[n]
        BY <2>1, <2>4 DEF Reports, DataMessages
    <3>2. /\ NoneOf(R, Backlog', idx', Len(Backlog')) => Done(R)
          /\ \A k \in 1..Len(Backlog') : LastOf(R, Backlog', k) =>
                 k \in 1..Len(Backlog) /\ LastOf(R, Backlog, k) /\ Backlog[k] = Backlog'[k]
        BY <2>2, <2>4, EmitFacts
    <3> QED BY <1>2, <2>2, <2>4, <3>1, <3>2
  <2> QED BY <2>3, <2>4
<1> QED BY <1>3, <1>4, <1>5

\* The data about to be saved stays that of the chain unless a message of it follows.
LEMMA NextValueAtHand ==
    ASSUME TypeOK, TypeOK', AtHand, ChainShape, ValueAtHand, ~disturbed', [Next]_vars
    PROVE  ValueAtHand'
<1> USE DEF Rest
<1> DEFINE Saving(label) == label \in {"InsertData", "UpsertData"}
           n == Message.network
           s == Backlog
           t == Backlog'
<1>1. SUFFICES ASSUME Saving(pc')
               PROVE  LET o == Message'.network IN
                      NoneOf(DataMessages(o), t, idx' + 1, Len(t)) => value' = chain'.data[o]
    BY DEF ValueAtHand, DataMessages
<1>a. ASSUME UNCHANGED <<batch, queue, idx, value, chain>>, Saving(pc)
      PROVE  LET o == Message'.network IN
             NoneOf(DataMessages(o), t, idx' + 1, Len(t)) => value' = chain'.data[o]
    BY <1>a DEF ValueAtHand, Backlog, Message
<1>b. ASSUME Fail \/ FailHere \/ Advance \/ FailAttempt \/ LetGo
      PROVE  FALSE
    BY <1>1, <1>b DEF Fail, FailHere, FailAttempt, LetGo, Advance
<1>c. ASSUME NEW l, Goto(l), value' = chain.data[n], UNCHANGED chain
      PROVE  LET o == Message'.network IN value' = chain'.data[o]
    BY <1>c DEF Goto, Message
<1>2. CASE UNCHANGED vars
    BY <1>1, <1>2, <1>a DEF vars, queueVars, handlerVars
<1>3. CASE ChainEvent
  <2>1. PICK m \in Messages : Reports(m)
      BY <1>3, ChainMoves
  <2>2. Emit(m) /\ UNCHANGED <<value, pc, idx, batch>> /\ Message' = Message
      BY <2>1 DEF Reports, Emit, handlerVars, Message
  <2>a. PICK q : q = n
      OBVIOUS
  <2>b. AtMessage /\ Message.type # "CollectionCreated" /\ Message.type # "CollectionRemoved"
      BY <1>1, <2>2 DEF AtHand, TypeOK, QueueTypeOK, AtMessage
  <2>c. q \in Networks
      BY <2>a, <2>b, MessageType DEF Messages
  <2> DEFINE R == DataMessages(q)
  <2>3. Longer(s, t, m) /\ Len(s) \in Nat /\ Len(t) = Len(s) + 1 /\ idx + 1 \in Nat \ {0}
        /\ idx + 1 \in 1..Len(t)
    <3>1. idx \in 1..Len(Backlog) /\ Longer(s, t, m) /\ Len(s) \in Nat /\ Len(t) = Len(s) + 1
        BY <2>2, <2>b, EmitLonger, BacklogTypes
    <3> QED BY <3>1
  <2>d. NoneOf(R, s, idx + 1, Len(s)) => value = chain.data[q]
      BY <1>1, <2>2, <2>a DEF ValueAtHand
  <2>e. m \notin R => chain'.data[q] = chain.data[q]
      BY <2>1, <2>c DEF Reports, DataMessages
  <2> HIDE DEF s, t, R
  <2>4. CASE m \in R
    <3>1. ~ NoneOf(R, t, idx + 1, Len(t))
        BY <2>3, <2>4, LongerFacts
    <3> QED BY <2>2, <2>a, <3>1 DEF R
  <2>5. CASE m \notin R
    <3>1. NoneOf(R, t, idx + 1, Len(t)) => NoneOf(R, s, idx + 1, Len(s))
        BY <2>3, <2>5, LongerFacts
    <3>2. NoneOf(R, t, idx + 1, Len(t)) => value = chain'.data[q]
        BY <2>5, <2>d, <2>e, <3>1
    <3> QED BY <2>2, <2>a, <3>2 DEF R
  <2> QED BY <2>4, <2>5
<1>4. CASE Consuming
  <2>1. CASE (\E m \in emitted : Repeat(m)) \/ Crash \/ \E k \in 1..BatchSize : TakeBatch(k)
      BY <1>1, <2>1 DEF Repeat, Crash, TakeBatch
  <2>2. CASE AckBatch \/ CallFails
      BY <2>2, <1>b DEF AckBatch, CallFails
  <2> QED BY <1>4, <2>1, <2>2 DEF Consuming
<1>5. CASE HandleCreated
    BY <1>1, <1>5, <1>b DEF HandleCreated, Goto
<1>6. CASE InsertCollection
    BY <1>6, <1>b DEF InsertCollection
<1>7. CASE HandleRemoved
    BY <1>1, <1>7, <1>b DEF HandleRemoved, Goto
<1>8. CASE CommitRemoval
    BY <1>8, <1>b DEF CommitRemoval
<1>9. CASE HandleDataCreated
    BY <1>9, <1>b, <1>c DEF HandleDataCreated
<1>10. CASE InsertData
    BY <1>10, <1>b DEF InsertData
<1>11. CASE HandleDataUpdated
    BY <1>11, <1>b, <1>c DEF HandleDataUpdated
<1>12. CASE UpsertData
    BY <1>12, <1>b DEF UpsertData
<1>13. CASE HandleDataRemoved
    BY <1>13, <1>b DEF HandleDataRemoved
<1>14. CASE SaverStep
    BY <1>1, <1>14, <1>a, SaverLeaves DEF queueVars, handlerVars
<1> QED BY <1>2, <1>3, <1>4, <1>5, <1>6, <1>7, <1>8, <1>9, <1>10, <1>11, <1>12,
           <1>13, <1>14 DEF Next, SaverStep
-----------------------------------------------------------------------------
(* The steps of a run in which nothing is given up *)

\* What was calm after a step was so before it.
LEMMA CalmBefore ==
    ASSUME TypeOK, SaverAtHand, [Next]_vars, Calm'
    PROVE  /\ Calm
           /\ ~ (CallFails \/ Crash \/ \E m \in emitted : Repeat(m))
           /\ SaverStep => ItemRemoved
<1>0. faults \in Nat /\ items \in Nat
    BY EventQueueAssumption, CollectionsIndexerAssumption DEF TypeOK, QueueTypeOK
<1>1. faults' = faults \/ faults' = faults + 1
    BY QueueSteps
    DEF queueVars, Goto, Advance, FailHere, FailAttempt, LetGo, Emit, Consuming, TakeBatch,
        AckBatch, CallFails, Crash, Repeat
<1>2. items' = items \/ items' = items + 1
  <2>1. CASE SaverStep
      BY <2>1 DEF SaverStep, SaverFinds, SaverCaches, SaverGets, SaverSaves,
         SaverInserts, ItemRemoved
  <2> QED BY <2>1, OthersLeaveSaver DEF saverVars
<1>3. emitted \subseteq emitted'
    BY QueueSteps
    DEF queueVars, Goto, Advance, FailHere, FailAttempt, LetGo, Emit, Consuming, TakeBatch,
        AckBatch, CallFails, Crash, Repeat
<1>4. faults' = 0 /\ items' = 0
    BY DEF Calm
<1>5. UNCHANGED <<faults, items>>
    BY <1>0, <1>1, <1>2, <1>4
<1>6. Calm
    BY <1>3, <1>5 DEF Calm
<1>7. ~ (CallFails \/ Crash \/ \E m \in emitted : Repeat(m))
    BY <1>0, <1>4 DEF CallFails, Crash, Repeat
<1>8. ~SaverFinds
    BY <1>0, <1>4 DEF SaverFinds
<1>9. SaverStep => ItemRemoved
  <2>1. saver.step = "idle"
      BY <1>4, <1>5 DEF SaverAtHand
  <2> QED BY <1>8, <2>1 DEF SaverStep, SaverCaches, SaverGets, SaverSaves, SaverInserts, SaverAt
<1> QED BY <1>6, <1>7, <1>9

\* Three things that happen to the line: it moves up, a message joins it, and
\* the first is handled.
LEMMA LineMovesUp ==
    ASSUME NEW s, NEW t, NEW d \in Nat, NEW i \in Nat \ {0}, NEW j \in Nat \ {0},
           Len(s) \in Nat, Len(t) \in Nat, Remainder(s, t, d), j + d = i,
           NEW ms, NEW c, NEW r, NEW f, InLine(s, i, ms, c, r, f)
    PROVE  InLine(t, j, ms, c, r, f)
<1>1. \A k \in j..Len(t) : k + d \in i..Len(s) /\ t[k] = s[k + d]
    BY DEF Remainder
<1>2. \A k \in i..Len(s) : k - d \in j..Len(t) /\ (k - d) + d = k
    BY DEF Remainder
<1>3. \A m : Waits(m, t, j) <=> Waits(m, s, i)
    BY <1>1, <1>2 DEF Waits
<1>4. Ordered(t, j)
  <2>1. \A k, l \in j..Len(t) : k < l => k + d < l + d
      OBVIOUS
  <2> QED BY <1>1, <2>1 DEF Ordered, InLine
<1>5. \A k \in j..Len(t) : t[k] \in ms
    BY <1>1 DEF InLine
<1> QED BY <1>3, <1>4, <1>5 DEF InLine

\* An event at the end of the line may follow all that wait.
LEMMA LineGrows ==
    ASSUME NEW s, NEW t, NEW m, NEW i \in 1..(Len(s) + 1), Len(s) \in Nat, Longer(s, t, m)
    PROVE  /\ \A x : Waits(x, t, i) <=> Waits(x, s, i) \/ x = m
           /\ Ordered(s, i) /\ (\A k \in i..Len(s) : MayFollow(s[k], m)) => Ordered(t, i)
           /\ \A ms : (\A k \in i..Len(s) : s[k] \in ms) =>
                          \A k \in i..Len(t) : t[k] \in ms \cup {m}
<1>1. Len(t) = Len(s) + 1 /\ t[Len(t)] = m /\ \A k \in i..Len(s) : t[k] = s[k] /\ k \in i..Len(t)
    BY DEF Longer
<1>2. Len(t) \in i..Len(t) /\ \A k \in i..Len(t) : k = Len(t) \/ k \in i..Len(s)
    BY <1>1
<1>3. \A x : Waits(x, t, i) <=> Waits(x, s, i) \/ x = m
    BY <1>1, <1>2 DEF Waits
<1>4. ASSUME Ordered(s, i), \A k \in i..Len(s) : MayFollow(s[k], m)
      PROVE  Ordered(t, i)
  <2>1. ASSUME NEW k \in i..Len(t), NEW l \in i..Len(t), k < l
        PROVE  MayFollow(t[k], t[l])
    <3>1. k \in i..Len(s)
        BY <1>1, <2>1
    <3> QED BY <1>1, <1>2, <1>4, <2>1, <3>1 DEF Ordered
  <2> QED BY <2>1 DEF Ordered
<1>5. \A ms : (\A k \in i..Len(s) : s[k] \in ms) => \A k \in i..Len(t) : t[k] \in ms \cup {m}
    BY <1>1, <1>2
<1> QED BY <1>3, <1>4, <1>5

\* The message that is handled leaves the line.
LEMMA LineAdvances ==
    ASSUME NEW s, Len(s) \in Nat, NEW i \in 1..Len(s), Ordered(s, i)
    PROVE  /\ \A x : Waits(x, s, i) <=> Waits(x, s, i + 1) \/ x = s[i]
           /\ \A x : Waits(x, s, i + 1) => MayFollow(s[i], x)
           /\ Ordered(s, i + 1)
           /\ \A ms : (\A k \in i..Len(s) : s[k] \in ms) =>
                          s[i] \in ms /\ \A k \in (i + 1)..Len(s) : s[k] \in ms
<1>1. i \in i..Len(s) /\ \A k \in (i + 1)..Len(s) : k \in i..Len(s) /\ i < k
    OBVIOUS
<1>2. \A k \in i..Len(s) : k = i \/ k \in (i + 1)..Len(s)
    OBVIOUS
<1>3. \A x : Waits(x, s, i) <=> Waits(x, s, i + 1) \/ x = s[i]
    BY <1>1, <1>2 DEF Waits
<1>4. \A x : Waits(x, s, i + 1) => MayFollow(s[i], x)
    BY <1>1 DEF Waits, Ordered
<1>5. Ordered(s, i + 1)
    BY <1>1 DEF Ordered
<1> QED BY <1>1, <1>3, <1>4, <1>5

\* What a handler finds.
LEMMA InHand ==
    ASSUME TypeOK, Calm, Smooth, AtMessage
    PROVE  /\ Message \in emitted /\ chain.exists
           /\ Message.type \notin {"CollectionRemoved", "CollectionDataRemoved"}
           /\ Message.network \in Networks =>
                  chain.data[Message.network] # None /\ Message.network \in Supported
           /\ Message.type # "CollectionCreated" => row # None
           /\ Message = Event("CollectionCreated", None) => row = None
           /\ Message.type = "CollectionDataCreated" => mapping[Message.network] = None
           /\ Message.type = "CollectionDataUpdated" => mapping[Message.network] # None
           /\ \A id \in {cached, row} :
                  CollectionByIndex(id) => id = row /\ cached' \in {row, None}
<1>1. /\ idx \in 1..Len(Backlog) /\ Len(Backlog) \in Nat /\ Backlog[idx] = Message
      /\ Ordered(Backlog, idx) /\ \A k \in idx..Len(Backlog) : Backlog[k] \in emitted
    BY BacklogTypes DEF Smooth, InLine
<1>2. /\ \A x : Waits(x, Backlog, idx) => MayFollow(Message, x) \/ x = Message
      /\ Waits(Message, Backlog, idx)
      /\ Message \in emitted
    BY <1>1, LineAdvances
<1>3. /\ chain.exists /\ Message \in Messages
      /\ Message.type \notin {"CollectionRemoved", "CollectionDataRemoved"}
      /\ Message.network \in Networks =>
             chain.data[Message.network] # None /\ Message.network \in Supported
    BY <1>2, MessageType DEF Smooth, InLine, Calm
<1>4. row # None <=> chain.exists /\ ~Waits(Event("CollectionCreated", None), Backlog, idx)
    BY DEF Smooth, InLine
<1>5. \A n \in Networks :
          mapping[n] # None <=>
              chain.data[n] # None /\ ~Waits(Event("CollectionDataCreated", n), Backlog, idx)
    BY DEF Smooth, InLine
<1>6. Message.type # "CollectionCreated" => row # None
    BY <1>2, <1>3, <1>4 DEF MayFollow, Event
<1>7. Message = Event("CollectionCreated", None) => row = None
    BY <1>2, <1>4
<1>8. Message.type = "CollectionDataCreated" => mapping[Message.network] = None
  <2>1. SUFFICES ASSUME Message.type = "CollectionDataCreated"
                 PROVE  mapping[Message.network] = None
      OBVIOUS
  <2>2. Message.network \in Networks /\ Message = Event("CollectionDataCreated", Message.network)
      BY <2>1, MessageType
  <2> QED BY <1>2, <1>5, <2>2
<1>9. Message.type = "CollectionDataUpdated" => mapping[Message.network] # None
  <2>1. SUFFICES ASSUME Message.type = "CollectionDataUpdated"
                 PROVE  mapping[Message.network] # None
      OBVIOUS
  <2>2. Message.network \in Networks
      BY <2>1, MessageType
  <2>3. ~Waits(Event("CollectionDataCreated", Message.network), Backlog, idx)
      BY <1>2, <2>1 DEF MayFollow, Event
  <2> QED BY <1>3, <1>5, <2>2, <2>3
<1>10. \A id \in {cached, row} : CollectionByIndex(id) => id = row /\ cached' \in {row, None}
    BY DEF CollectionByIndex, Smooth
<1> QED BY <1>2, <1>3, <1>6, <1>7, <1>8, <1>9, <1>10

\* An event that is calm joins the line.
LEMMA EventJoins ==
    ASSUME TypeOK, ChainShape, Smooth, Calm', ChainEvent
    PROVE  InLine(Backlog', idx', emitted', chain', row', mapping')
<1>1. PICK m \in Messages : Reports(m)
    BY ChainMoves
<1>2. /\ Emit(m) /\ emitted' = emitted \cup {m} /\ row' = row /\ mapping' = mapping
    BY <1>1 DEF Reports, Emit, storeVars
<1>3. m.type \notin {"CollectionRemoved", "CollectionDataRemoved"}
    BY <1>2 DEF Calm
<1>4. /\ m.type = "CollectionCreated" =>
             m = Event("CollectionCreated", None) /\ m.network = None
      /\ m.type # "CollectionCreated" =>
             m.network \in Networks /\ m.type \in {"CollectionDataCreated", "CollectionDataUpdated"}
      /\ None \notin Networks
    BY <1>3, CollectionsIndexerAssumption DEF Messages, Event
<1> DEFINE s == Backlog
           t == Backlog'
           i == idx
           j == idx'
           created(n) == Event("CollectionDataCreated", n)
<1>5. /\ Len(s) \in Nat /\ Longer(s, t, m) /\ j = i /\ i \in 1..(Len(s) + 1)
    BY <1>2, EmitLonger
<1>6. /\ \A x \in emitted : chain.exists
      /\ \A x \in emitted : x.network \in Networks => chain.data[x.network] # None
      /\ \A k \in i..Len(s) : s[k] \in emitted
      /\ Ordered(s, i)
      /\ row # None <=> chain.exists /\ ~Waits(Event("CollectionCreated", None), s, i)
      /\ \A n \in Networks :
             mapping[n] # None <=> chain.data[n] # None /\ ~Waits(created(n), s, i)
    BY DEF Smooth, InLine
<1>7. /\ m.type = "CollectionCreated" => ~chain.exists /\ chain'.data = chain.data
      /\ m.type = "CollectionCreated" => chain'.exists
      /\ m.type # "CollectionCreated" => chain.exists /\ chain'.exists
      /\ m.type = "CollectionDataCreated" => chain.data[m.network] = None
      /\ m.type = "CollectionDataUpdated" => chain.data[m.network] # None
      /\ m.network \in Networks => chain'.data[m.network] # None
      /\ \A n \in Networks : n # m.network => chain'.data[n] = chain.data[n]
    BY <1>1, <1>3, <1>4 DEF Reports, Tells
<1>8. \A n \in Networks : /\ created(n).type = "CollectionDataCreated"
                          /\ created(n).network = n
    BY DEF Event
<1>9. m.type = "CollectionDataCreated" => m = created(m.network)
    BY <1>4 DEF Messages, Event
<1>10. m.type # "CollectionCreated" => m # Event("CollectionCreated", None)
    BY DEF Event
<1> HIDE DEF s, t, i, j, created
<1>11. /\ \A x : Waits(x, t, i) <=> Waits(x, s, i) \/ x = m
       /\ Ordered(s, i) /\ (\A k \in i..Len(s) : MayFollow(s[k], m)) => Ordered(t, i)
       /\ \A k \in i..Len(t) : t[k] \in emitted \cup {m}
    BY <1>5, <1>6, LineGrows
<1>12. \A x \in emitted' : /\ chain'.exists
                           /\ x.network \in Networks => chain'.data[x.network] # None
    BY <1>2, <1>6, <1>7
<1>13. Ordered(t, j)
  <2>1. ASSUME NEW x \in emitted
        PROVE  MayFollow(x, m)
    <3>1. m.type # "CollectionCreated"
        BY <1>6, <1>7
    <3>2. m.type = "CollectionDataCreated" => x.network # m.network
        BY <1>4, <1>6, <1>7
    <3> QED BY <3>1, <3>2 DEF MayFollow
  <2> QED BY <1>5, <1>6, <1>11, <2>1
<1>14. row' # None <=> chain'.exists /\ ~Waits(Event("CollectionCreated", None), t, j)
  <2>1. CASE m.type = "CollectionCreated"
      BY <1>2, <1>4, <1>5, <1>6, <1>7, <1>11, <2>1
  <2>2. CASE m.type # "CollectionCreated"
      BY <1>2, <1>5, <1>6, <1>7, <1>10, <1>11, <2>2
  <2> QED BY <2>1, <2>2
<1>15. ASSUME NEW n \in Networks
       PROVE  mapping'[n] # None <=> chain'.data[n] # None /\ ~Waits(created(n), t, j)
  <2>1. mapping[n] # None <=> chain.data[n] # None /\ ~Waits(created(n), s, i)
      BY <1>6
  <2>2. CASE m = created(n)
    <3>1. m.type = "CollectionDataCreated" /\ m.network = n
        BY <1>8, <2>2
    <3>2. Waits(created(n), t, j) /\ chain.data[n] = None
        BY <1>5, <1>7, <1>11, <2>2, <3>1
    <3> QED BY <1>2, <2>1, <3>2
  <2>3. CASE m # created(n)
    <3>1. Waits(created(n), t, j) <=> Waits(created(n), s, i)
        BY <1>5, <1>11, <2>3
    <3>2. chain'.data[n] # None <=> chain.data[n] # None
        BY <1>3, <1>4, <1>7, <1>9, <2>3
    <3> QED BY <1>2, <2>1, <3>1, <3>2
  <2> QED BY <2>2, <2>3
<1>16. \A k \in j..Len(t) : t[k] \in emitted'
    BY <1>2, <1>5, <1>11
<1> QED BY <1>12, <1>13, <1>14, <1>15, <1>16 DEF InLine, s, t, i, j, created

\* The message at hand is handled.
LEMMA MessageLeaves ==
    ASSUME TypeOK, AtHand, Calm, Smooth, AtMessage, Advance, UNCHANGED chain,
           \/ InsertCollection /\ row' # None /\ UNCHANGED mapping
           \/ /\ InsertData \/ UpsertData
              /\ UNCHANGED row
              /\ mapping' = [mapping EXCEPT ![Message.network] = value]
    PROVE  InLine(Backlog', idx', emitted', chain', row', mapping')
<1> DEFINE s == Backlog
           i == idx
           m == Message
           created(n) == Event("CollectionDataCreated", n)
<1>1. Backlog' = s /\ idx' = i + 1 /\ emitted' = emitted
    BY DEF Advance, Backlog
<1>2. i \in 1..Len(s) /\ Len(s) \in Nat /\ s[i] = m /\ m \in Messages
    BY BacklogTypes, MessageType
<1>3. /\ \A x \in emitted : /\ chain.exists
                            /\ x.network \in Networks => chain.data[x.network] # None
      /\ \A k \in i..Len(s) : s[k] \in emitted
      /\ Ordered(s, i)
      /\ row # None <=> chain.exists /\ ~Waits(Event("CollectionCreated", None), s, i)
      /\ \A n \in Networks :
             mapping[n] # None <=> chain.data[n] # None /\ ~Waits(created(n), s, i)
    BY DEF Smooth, InLine
<1>4. chain.exists /\ (m.network \in Networks => chain.data[m.network] # None)
    BY InHand
<1>5. \A n \in Networks : /\ created(n).type = "CollectionDataCreated"
                          /\ created(n).network = n
    BY DEF Event
<1>6. /\ m.type = "CollectionCreated" => m = Event("CollectionCreated", None)
      /\ m.type \in {"CollectionDataCreated", "CollectionDataUpdated"} => m.network \in Networks
    BY MessageType
<1>7. /\ Event("CollectionCreated", None).type = "CollectionCreated"
      /\ mapping \in [Networks -> Values \cup {None}] /\ None \notin Values
    BY CollectionsIndexerAssumption DEF Event, TypeOK
<1>8. /\ InsertCollection => m.type = "CollectionCreated"
      /\ InsertData => m.type = "CollectionDataCreated" /\ value \in Values
      /\ UpsertData => m.type = "CollectionDataUpdated" /\ value \in Values
    BY DEF AtHand, InsertCollection, InsertData, UpsertData
<1>9. m.type = "CollectionDataUpdated" => mapping[m.network] # None
    BY InHand
<1> HIDE DEF s, i, m, created
<1>10. /\ \A x : Waits(x, s, i) <=> Waits(x, s, i + 1) \/ x = m
       /\ \A x : Waits(x, s, i + 1) => MayFollow(m, x)
       /\ Ordered(s, i + 1)
       /\ \A k \in (i + 1)..Len(s) : s[k] \in emitted
    BY <1>2, <1>3, LineAdvances
<1>11. row' # None <=> ~Waits(Event("CollectionCreated", None), s, i + 1)
  <2>1. ~Waits(Event("CollectionCreated", None), s, i + 1)
      BY <1>7, <1>10 DEF MayFollow
  <2>2. CASE InsertCollection /\ row' # None
      BY <2>1, <2>2
  <2>3. CASE (InsertData \/ UpsertData) /\ row' = row
    <3>1. m # Event("CollectionCreated", None)
        BY <1>7, <1>8, <2>3
    <3> QED BY <1>3, <1>4, <1>10, <2>1, <2>3, <3>1
  <2> QED BY <2>2, <2>3
<1>12. ASSUME NEW n \in Networks
       PROVE  mapping'[n] # None <=> chain.data[n] # None /\ ~Waits(created(n), s, i + 1)
  <2>1. mapping[n] # None <=> chain.data[n] # None /\ ~Waits(created(n), s, i)
      BY <1>3
  <2>2. CASE InsertCollection /\ mapping' = mapping
    <3>1. m # created(n)
        BY <1>5, <1>8, <2>2
    <3> QED BY <1>10, <2>1, <2>2, <3>1
  <2>3. CASE (InsertData \/ UpsertData) /\ mapping' = [mapping EXCEPT ![m.network] = value]
    <3>1. CASE n = m.network
      <4>1. mapping'[n] # None
          BY <1>7, <1>8, <2>3, <3>1
      <4>2. chain.data[n] # None
          BY <1>4, <3>1
      <4>3. CASE InsertData
          BY <1>5, <1>8, <1>10, <3>1, <4>1, <4>2, <4>3 DEF MayFollow
      <4>4. CASE UpsertData
          BY <1>8, <1>9, <1>10, <2>1, <3>1, <4>1, <4>2, <4>4
      <4> QED BY <2>3, <4>3, <4>4
    <3>2. CASE n # m.network
      <4>1. mapping'[n] = mapping[n]
          BY <1>7, <2>3, <3>2
      <4>2. m # created(n)
          BY <1>5, <3>2
      <4> QED BY <1>10, <2>1, <4>1, <4>2
    <3> QED BY <3>1, <3>2
  <2> QED BY <2>2, <2>3 DEF m
<1>13. InLine(s, i + 1, emitted, chain, row', mapping')
    BY <1>3, <1>4, <1>10, <1>11, <1>12 DEF InLine, created
<1> QED BY <1>1, <1>13

\* As long as all is calm the messages, the chain and the tables fit together.
LEMMA NextSmooth ==
    ASSUME TypeOK, TypeOK', AtHand, SaverAtHand, ChainShape, Calm => Smooth, Calm',
           [Next]_vars
    PROVE  Smooth'
<1> USE DEF Rest
<1>0. Calm /\ Smooth
    BY CalmBefore
<1>a. ASSUME UNCHANGED <<batch, queue, idx, emitted, chain, row, mapping>>
      PROVE  InLine(Backlog', idx', emitted', chain', row', mapping')
    BY <1>0, <1>a DEF Smooth, Backlog
<1>b. ASSUME UNCHANGED <<batch, queue, idx, emitted, chain, row, mapping, lost>>,
             cached' \in {row, None}, pc' = "InsertData" => found' = row
      PROVE  Smooth'
    BY <1>0, <1>a, <1>b DEF Smooth
<1>c. \A l : Goto(l) => pc' = l /\ UNCHANGED <<batch, queue, idx, emitted, lost>>
    BY DEF Goto
<1>d. Advance => pc' = "next" /\ lost' = lost
    BY DEF Advance
<1>e. pc \in Labels => AtMessage
    BY DEF TypeOK, QueueTypeOK, AtMessage, Labels
<1>f. cached \in {row, None} /\ (pc = "InsertData" => found = row) /\ ~lost
    BY <1>0 DEF Smooth
<1>1. CASE UNCHANGED vars
    BY <1>1, <1>b, <1>f DEF vars, queueVars, storeVars, handlerVars
<1>2. CASE ChainEvent
  <2>1. InLine(Backlog', idx', emitted', chain', row', mapping')
      BY <1>0, <1>2, EventJoins
  <2>2. UNCHANGED <<lost, pc, cached, row, found>>
      BY <1>2 DEF ChainEvent, ChainStep, Emit, storeVars, handlerVars
  <2> QED BY <1>f, <2>1, <2>2 DEF Smooth
<1>3. CASE Consuming
  <2>1. (\E n \in 1..BatchSize : TakeBatch(n)) \/ AckBatch
      BY <1>3, CalmBefore DEF Consuming
  <2>2. UNCHANGED <<chain, row, mapping, cached, emitted, lost>> /\ pc' # "InsertData"
      BY <1>3, <2>1 DEF Consuming, TakeBatch, AckBatch, LetGo, storeVars
  <2>3. PICK d \in Nat : Remainder(Backlog, Backlog', d) /\ idx' + d = idx
      BY <2>1, QueueMoves
  <2> DEFINE s == Backlog
             t == Backlog'
             i == idx
             j == idx'
  <2>4. Len(s) \in Nat /\ i \in Nat \ {0}
      BY BacklogTypes
  <2>5. Len(t) \in Nat /\ j \in Nat \ {0}
    <3>1. batch' \in Seq(Messages) /\ queue' \in Seq(Messages)
        BY DEF TypeOK, QueueTypeOK
    <3>2. Len(batch') \in Nat /\ idx' \in 1..(Len(batch') + 1)
        BY <3>1, LenProperties DEF TypeOK, QueueTypeOK
    <3> QED BY <3>1, <3>2, ConcatFacts DEF Backlog
  <2>6. InLine(s, i, emitted, chain, row, mapping)
      BY <1>0 DEF Smooth
  <2> HIDE DEF s, t, i, j
  <2>7. InLine(t, j, emitted, chain, row, mapping)
      BY <2>3, <2>4, <2>5, <2>6, LineMovesUp DEF s, t, i, j
  <2> QED BY <1>f, <2>2, <2>7 DEF Smooth, t, j
<1>4. CASE HandleCreated
  <2>1. AtMessage
      BY <1>4 DEF HandleCreated, Handling, AtMessage
  <2>2. Goto("InsertCollection") /\ UNCHANGED <<chain, storeVars, cached>>
      BY <1>0, <1>4, <2>1, InHand DEF HandleCreated
  <2> QED BY <1>b, <1>c, <1>f, <2>2 DEF storeVars
<1>5. CASE InsertCollection
  <2>1. AtMessage /\ Message.type = "CollectionCreated"
      BY <1>5, <1>e DEF InsertCollection, AtHand, Labels
  <2>2. row = None
      BY <1>0, <2>1, InHand, MessageType
  <2>3. /\ Advance /\ row' = lastId + 1 /\ lastId < MaxIds
        /\ UNCHANGED <<chain, mapping, cached>>
      BY <1>5, <2>2 DEF InsertCollection
  <2>4. row' # None
      BY <2>3, CollectionsIndexerAssumption DEF TypeOK, Ids
  <2>5. InLine(Backlog', idx', emitted', chain', row', mapping')
      BY <1>0, <1>5, <2>1, <2>3, <2>4, MessageLeaves
  <2> QED BY <1>d, <1>f, <2>2, <2>3, <2>5 DEF Smooth
<1>6. CASE HandleRemoved
  <2>1. AtMessage /\ Message.type = "CollectionRemoved"
      BY <1>6 DEF HandleRemoved, Handling, AtMessage, Message
  <2> QED BY <1>0, <2>1, InHand
<1>7. CASE CommitRemoval
  <2>1. AtMessage /\ Message.type = "CollectionRemoved"
      BY <1>7, <1>e DEF CommitRemoval, AtHand, Labels
  <2> QED BY <1>0, <2>1, InHand
<1>8. CASE HandleDataCreated
  <2>1. AtMessage /\ Message.type = "CollectionDataCreated"
      BY <1>8 DEF HandleDataCreated, Handling, AtMessage, Message
  <2>2. /\ Message.network \in Supported /\ chain.data[Message.network] # None
        /\ row # None
      BY <1>0, <2>1, InHand, MessageType
  <2>3. PICK id \in {cached, row} :
            /\ CollectionByIndex(id)
            /\ IF id = None \/ chain.data[Message.network] = None
               THEN FailHere /\ UNCHANGED handlerVars
               ELSE /\ Goto("InsertData")
                    /\ found' = id
                    /\ value' = chain.data[Message.network]
      BY <1>8, <2>2 DEF HandleDataCreated
  <2>4. id = row /\ cached' \in {row, None}
      BY <1>0, <2>1, <2>3, InHand
  <2>5. UNCHANGED <<storeVars, chain>>
      BY <1>8, <2>2 DEF HandleDataCreated
  <2> QED BY <1>b, <1>c, <2>2, <2>3, <2>4, <2>5 DEF storeVars
<1>9. CASE InsertData
  <2>1. AtMessage /\ Message.type = "CollectionDataCreated"
      BY <1>9, <1>e DEF InsertData, AtHand, Labels
  <2>2. mapping[Message.network] = None /\ found = row
      BY <1>0, <1>9, <1>f, <2>1, InHand DEF InsertData
  <2>3. /\ Advance /\ UNCHANGED <<chain, row, cached>>
        /\ mapping' = [mapping EXCEPT ![Message.network] = value]
      BY <1>9, <2>2 DEF InsertData, SetMapping
  <2>4. InLine(Backlog', idx', emitted', chain', row', mapping')
      BY <1>0, <1>9, <2>1, <2>3, MessageLeaves
  <2> QED BY <1>d, <1>f, <2>3, <2>4 DEF Smooth
<1>10. CASE HandleDataUpdated
  <2>1. AtMessage /\ Message.type = "CollectionDataUpdated"
      BY <1>10 DEF HandleDataUpdated, Handling, AtMessage, Message
  <2>2. /\ Message.network \in Supported /\ chain.data[Message.network] # None
        /\ row # None /\ mapping[Message.network] # None
      BY <1>0, <2>1, InHand, MessageType
  <2>3. PICK id \in {cached, row} :
            /\ CollectionByIndex(id)
            /\ IF \/ Message.network \notin Supported
                  \/ MappingOf(id, Message.network) = None
                  \/ chain.data[Message.network] = None
               THEN FailHere /\ UNCHANGED handlerVars
               ELSE /\ Goto("UpsertData")
                    /\ found' = id
                    /\ value' = chain.data[Message.network]
      BY <1>10 DEF HandleDataUpdated
  <2>4. id = row /\ cached' \in {row, None}
      BY <1>0, <2>1, <2>3, InHand
  <2>5. MappingOf(id, Message.network) # None
      BY <2>2, <2>4 DEF MappingOf
  <2>6. UNCHANGED <<storeVars, chain>> /\ Goto("UpsertData")
      BY <1>10, <2>2, <2>3, <2>5 DEF HandleDataUpdated
  <2> QED BY <1>b, <1>c, <2>4, <2>6 DEF storeVars
<1>11. CASE UpsertData
  <2>1. AtMessage
      BY <1>11, <1>e DEF UpsertData, Labels
  <2>2. /\ Advance /\ UNCHANGED <<chain, row, cached>>
        /\ mapping' = [mapping EXCEPT ![Message.network] = value]
      BY <1>11 DEF UpsertData, SetMapping
  <2>3. InLine(Backlog', idx', emitted', chain', row', mapping')
      BY <1>0, <1>11, <2>1, <2>2, MessageLeaves
  <2> QED BY <1>d, <1>f, <2>2, <2>3 DEF Smooth
<1>12. CASE HandleDataRemoved
  <2>1. AtMessage /\ Message.type = "CollectionDataRemoved"
      BY <1>12 DEF HandleDataRemoved, Handling, AtMessage, Message
  <2> QED BY <1>0, <2>1, InHand
<1>13. CASE SaverStep
  <2>1. ItemRemoved
      BY <1>13, CalmBefore
  <2> QED BY <1>b, <1>f, <2>1 DEF ItemRemoved, queueVars, storeVars, handlerVars
<1> QED BY <1>1, <1>2, <1>3, <1>4, <1>5, <1>6, <1>7, <1>8, <1>9, <1>10, <1>11, <1>12,
           <1>13 DEF Next, SaverStep
-----------------------------------------------------------------------------
(* The invariant *)

\* Nothing exists and nothing waits at the start.
LEMMA InitInvariant == Init => IInv
<1> SUFFICES ASSUME Init
             PROVE  IInv
    OBVIOUS
<1> USE EventQueueAssumption, CollectionsIndexerAssumption DEF Init, QueueInit
<1>1. << >> \in Seq(Messages) /\ Len(<< >>) = 0
    BY EmptySeq
<1>2. QueueTypeOK(Messages, Labels)
  <2>1. queue \in Seq(Messages) /\ batch \in Seq(Messages) /\ Len(batch) = 0
      BY <1>1
  <2>2. Len(batch) <= BatchSize /\ idx \in 1..(Len(batch) + 1) /\ attempt \in 1..Attempts
      BY <2>1
  <2>3. events \in 0..MaxEvents /\ faults \in 0..MaxFaults
      OBVIOUS
  <2> QED BY <2>1, <2>2, <2>3 DEF QueueTypeOK
<1>3. DataTypes
  <2>1. NoData \in [Networks -> Values \cup {None}]
      BY DEF NoData
  <2>2. /\ chain \in [exists : BOOLEAN, data : [Networks -> Values \cup {None}]]
        /\ mapping \in [Networks -> Values \cup {None}] /\ mapping = NoData
      BY <2>1
  <2>3. /\ lastId \in 0..MaxIds /\ items \in 0..MaxItems
        /\ saver \in [step : {"idle", "cache", "get", "save", "insert"}, id : Ids \cup {None}]
      OBVIOUS
  <2> QED BY <2>2, <2>3 DEF DataTypes
<1>4. TypeOK
    BY <1>2, <1>3, TypesSplit
<1>5. AtHand /\ SaverAtHand /\ MappedTypes /\ ChainShape /\ CacheEntry
    BY DEF AtHand, SaverAtHand, MappedTypes, ChainShape, CacheEntry, NoData
<1>6. Backlog = << >> \o << >> /\ Len(Backlog) = 0
    BY <1>1, ConcatFacts DEF Backlog
<1>7. InOrder
    BY <1>6 DEF InOrder, RowInOrder, DataInOrder, ValueAtHand, NoData
<1>8. CalmIsSmooth
  <2>1. Ordered(Backlog, idx) /\ \A m : ~Waits(m, Backlog, idx)
      BY <1>6 DEF Ordered, Waits
  <2> QED BY <1>6, <2>1 DEF CalmIsSmooth, Smooth, InLine, NoData
<1> QED BY <1>4, <1>5, <1>7, <1>8 DEF IInv

\* Nothing makes up for what was lost, disturbed, misled or late.
LEMMA HistoryStays ==
    ASSUME TypeOK, [Next]_vars
    PROVE  /\ lost => lost'
           /\ disturbed => disturbed'
           /\ misled => misled'
           /\ late => late'
<1>1. lost => lost'
    BY QueueSteps
    DEF queueVars, Goto, Advance, FailHere, FailAttempt, LetGo, Emit, Consuming, TakeBatch,
        AckBatch, CallFails, Crash, Repeat
<1>2. disturbed => disturbed'
    BY QueueSteps
    DEF queueVars, Goto, Advance, FailHere, FailAttempt, LetGo, Emit, Consuming, TakeBatch,
        AckBatch, CallFails, Crash, Repeat
<1>3. misled => misled'
    BY DEF Next, vars, Rest, Fail, ChainEvent, ChainStep, Consuming, CollectionByIndex,
           HandleCreated, InsertCollection, HandleRemoved, CommitRemoval, HandleDataCreated,
           SetMapping, InsertData, HandleDataUpdated, UpsertData, HandleDataRemoved,
           SaverFinds, SaverCaches, SaverGets, SaverSaves, SaverInserts, ItemRemoved
<1>4. late => late'
  <2>1. CASE SaverStep
      BY <2>1 DEF SaverStep, SaverFinds, SaverCaches, SaverGets, SaverSaves,
         SaverInserts, ItemRemoved
  <2> QED BY <2>1, OthersLeaveSaver DEF saverVars
<1> QED BY <1>1, <1>2, <1>3, <1>4

\* Every step preserves each part of the invariant.
LEMMA NextInvariant == IInv /\ [Next]_vars => IInv'
<1> SUFFICES ASSUME IInv, [Next]_vars
             PROVE  IInv'
    OBVIOUS
<1> USE DEF IInv
<1>1. TypeOK'
  <2>1. QueueTypeOK(Messages, Labels)'
      BY QueueTypes
  <2>2. DataTypes'
      BY NextDataTypes
  <2> QED BY <2>1, <2>2 DEF TypeOK, DataTypes
<1>2. AtHand'
    BY NextAtHand
<1>3. SaverAtHand'
    BY NextSaverAtHand
<1>4. MappedTypes'
    BY NextMappedTypes
<1>5. CacheEntry'
    BY NextCacheEntry
<1>6. ChainShape'
    BY NextChainShape
<1>7. InOrder'
  <2>1. SUFFICES ASSUME ~lost', ~disturbed', ~misled', ~late'
                 PROVE  (RowInOrder /\ DataInOrder /\ ValueAtHand)'
      BY DEF InOrder
  <2>2. RowInOrder /\ DataInOrder /\ ValueAtHand
      BY <2>1, HistoryStays DEF InOrder
  <2>3. Stays \/ Handled \/ ChainEvent
      BY <1>1, <2>1, OrderSteps
  <2>4. RowInOrder'
      BY <1>1, <2>2, <2>3, NextRowInOrder
  <2>5. DataInOrder'
      BY <1>1, <2>2, <2>3, NextDataInOrder
  <2>6. ValueAtHand'
      BY <1>1, <2>1, <2>2, NextValueAtHand
  <2> QED BY <2>4, <2>5, <2>6
<1>8. CalmIsSmooth'
    BY <1>1, NextSmooth DEF CalmIsSmooth
<1> QED BY <1>1, <1>2, <1>3, <1>4, <1>5, <1>6, <1>7, <1>8

\* The inductive invariant holds throughout.
LEMMA Invariant == Spec => []IInv
BY InitInvariant, NextInvariant, PTL DEF Spec

-----------------------------------------------------------------------------
(* Theorems *)

\* The queue, the tables, the cache and SaveItem hold what they are meant to,
\* for any number of networks, events and faults; with the row of a collection
\* go its mappings, as the foreign keys of the schema have it.
THEOREM TypeCorrect == Spec => []TypeOK
<1>1. IInv => TypeOK
    BY DEF IInv
<1> QED BY <1>1, Invariant, PTL

\* A cached collection is the row of the table, or is known to have outlived a
\* removal: what cachedpg/collections.go keeps, whoever fills it.
THEOREM CacheHoldsTheCollection == Spec => []CachedCollectionFresh
<1>1. IInv => CachedCollectionFresh
    BY DEF IInv, CacheEntry, CachedCollectionFresh
<1> QED BY <1>1, Invariant, PTL

\* When collections_indexer.go has handled every event, in order and once, the
\* tables show the collection and its data as they are on the chain.
THEOREM QuietTablesAreTheChain == Spec => []QuietIsChain
<1>1. IInv => QuietIsChain
  <2> SUFFICES ASSUME IInv, Quiet, ~lost, ~disturbed, ~misled, ~late
               PROVE  /\ chain.exists <=> row # None
                      /\ mapping = Supports(chain.data)
      BY DEF QuietIsChain
  <2>1. TypeOK /\ MappedTypes /\ RowInOrder /\ DataInOrder
      BY DEF IInv, InOrder
  <2>2. batch = << >> /\ queue = << >> /\ idx = 1 /\ Len(batch) = 0 /\ Len(queue) = 0
      BY EmptySeq DEF IInv, AtHand, Quiet
  <2>3. Len(Backlog) = 0
      BY <2>1, <2>2, BacklogTypes
  <2>4. \A R : Done(R)
      BY <2>2, <2>3 DEF Done, NoneOf
  <2>5. \A n \in Networks :
            mapping[n] = IF n \in Supported THEN chain.data[n] ELSE None
      BY <2>1, <2>4 DEF DataInOrder, MappedTypes
  <2>6. mapping \in [Networks -> Values \cup {None}]
      BY <2>1 DEF TypeOK
  <2>7. mapping = Supports(chain.data)
      BY <2>5, <2>6 DEF Supports
  <2> QED BY <2>1, <2>4, <2>7 DEF RowInOrder
<1> QED BY <1>1, Invariant, PTL

\* collections_indexer.go gives up a batch only for what may well be missing:
\* as long as no call fails, nothing comes again and nothing is removed, it
\* finds what every message needs.
THEOREM GivenUpForAReason == Spec => []LostForAReason
<1>1. IInv => LostForAReason
  <2> SUFFICES ASSUME IInv, lost, ~ (faults > 0), ~ (items > 0)
               PROVE  \E m \in emitted :
                          \/ m.type \in {"CollectionRemoved", "CollectionDataRemoved"}
                          \/ m.network \in Networks \ Supported
      BY DEF LostForAReason
  <2>1. faults = 0 /\ items = 0
      BY EventQueueAssumption, CollectionsIndexerAssumption DEF IInv, TypeOK, QueueTypeOK
  <2>2. ~Calm
      BY DEF IInv, CalmIsSmooth, Smooth
  <2> QED BY <2>1, <2>2 DEF Calm
<1> QED BY <1>1, Invariant, PTL
=============================================================================
