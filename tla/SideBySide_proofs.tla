-------------------------- MODULE SideBySide_proofs --------------------------
(***************************************************************************)
(* Proofs about the seven components of MCSideBySide, each from an         *)
(* inductive invariant of its own, for every value of the constants: any   *)
(* number of savers, blocks, withdrawals, transfers, requests, failures.   *)
(***************************************************************************)
EXTENDS MCSideBySide, TLAPS, WellFoundedInduction, FiniteSetTheorems, SequenceTheorems

\* A set of numbers that is not empty has a least one.
LEMMA Least ==
    ASSUME NEW T \in SUBSET Nat, T # {}
    PROVE  \E x \in T : \A y \in T : x <= y
<1>1. PICK x \in T : \A y \in T : ~(<<y, x>> \in OpToRel(<, Nat))
  BY NatLessThanWellFounded, WFMin, Zenon
<1>2. \A y \in T : ~(y < x)
  BY <1>1 DEF OpToRel
<1>3. QED
  BY <1>2

\* A step of one component is a step of it and a stutter of the others.
LEMMA OneMoves ==
    [NextAny]_allVars =>
        /\ [Next]_vars
        /\ [Bridge!Next]_bridgeVars
        /\ [Evidence!Next]_evidenceVars
        /\ [Pages!Next]_pageVars
        /\ [Builder!Next]_builderVars
        /\ [Item!Next]_itemVars
        /\ [Stream!Next]_streamVars
BY DEF NextAny, allVars, indexVars, apiVars, GenesisMoves, BridgeMoves, EvidenceMoves,
   PagesMove, BuilderMoves, ItemMoves, StreamMoves

-----------------------------------------------------------------------------
(* GenesisSaver *)

\* What is remembered, mapped or left is an item with a row.
OfItems ==
    /\ mappings \subseteq items
    /\ left \subseteq items
    /\ \A s \in Savers : remembered[s] \subseteq items

\* A loop begins at the beginning, and what it has passed is in its table.
Passed ==
    \A s \in Savers :
        /\ pc[s] \in {"idle", "nofile", "dead"} => at[s] = 1
        /\ pc[s] \in {"collections", "insertCollection", "insertData"} =>
               \A c \in Collections : c < at[s] => c \in collections
        /\ pc[s] \in {"items", "insertItem"} =>
               \A i \in Items : i < at[s] => i \in items

GenesisIInv == TypeOK /\ MissingMappingsAreLeft /\ DoneIsSaved /\ OfItems /\ Passed

USE GenesisAssumption

LEMMA GenesisInit == Init => GenesisIInv
BY DEF Init, GenesisIInv, TypeOK, MissingMappingsAreLeft, DoneIsSaved, OfItems, Passed,
   Collections, Items

\* The end of a process keeps the invariant.
LEMMA GenesisEnds ==
    ASSUME GenesisIInv, NEW s \in Savers, End(s), crashes' \in Nat
    PROVE  GenesisIInv'
<1> USE DEF GenesisIInv, End, tables
<1>1. TypeOK'
  BY DEF TypeOK
<1>2. MissingMappingsAreLeft'
  BY DEF TypeOK, MissingMappingsAreLeft
<1>3. DoneIsSaved'
  BY DEF TypeOK, DoneIsSaved, Collections, Items
<1>4. OfItems'
  BY DEF TypeOK, OfItems
<1>5. Passed'
  BY DEF TypeOK, Passed
<1>6. QED
  BY <1>1, <1>2, <1>3, <1>4, <1>5

\* A step that leaves the tables and what is remembered as they are keeps the
\* invariant if it keeps the types and what depends on where the savers stand.
LEMMA GenesisControl ==
    ASSUME GenesisIInv, UNCHANGED <<tables, remembered, left>>, TypeOK', DoneIsSaved', Passed'
    PROVE  GenesisIInv'
BY DEF GenesisIInv, tables, MissingMappingsAreLeft, OfItems

LEMMA GenesisStep ==
    ASSUME GenesisIInv, NEW s \in Savers, Step(s) \/ Crash(s)
    PROVE  GenesisIInv'
<1> USE DEF Goto, Proceed, Panic
<1> TypeOK /\ MissingMappingsAreLeft /\ DoneIsSaved /\ OfItems /\ Passed
  BY DEF GenesisIInv
<1>crashes. crashes \in Nat
  BY DEF TypeOK
<1>1. CASE Start(s)
  <2>1. TypeOK'
    BY <1>1 DEF Start, tables, TypeOK
  <2>2. DoneIsSaved' /\ Passed'
    BY <1>1 DEF Start, tables, TypeOK, DoneIsSaved, Passed, Collections
  <2>3. QED
    BY <1>1, <2>1, <2>2, GenesisControl DEF Start
<1>2. CASE NoFile(s)
  BY <1>2, <1>crashes, GenesisEnds DEF NoFile
<1>3. CASE LookForCollection(s)
  <2>1. at[s] \in Collections
    BY <1>3 DEF LookForCollection, TypeOK, Collections
  <2>2. at[s] + 1 \in 1..(NumCollections + NumItems + 1)
    BY <2>1 DEF Collections
  <2>3. TypeOK'
    BY <1>3, <2>1, <2>2 DEF LookForCollection, tables, TypeOK
  <2>4. DoneIsSaved'
    BY <1>3 DEF LookForCollection, tables, TypeOK, DoneIsSaved
  <2>5. Passed'
    BY <1>3 DEF LookForCollection, tables, TypeOK, Passed, Collections, Items
  <2>6. QED
    BY <1>3, <2>3, <2>4, <2>5, GenesisControl DEF LookForCollection
<1>4. CASE InsertCollection(s)
  <2>1. CASE at[s] \in collections
    BY <1>4, <2>1, <1>crashes, GenesisEnds DEF InsertCollection
  <2>2. CASE at[s] \notin collections
    BY <1>4, <2>2, GenesisControl DEF InsertCollection, tables, TypeOK, DoneIsSaved,
       Passed, Collections, Items
  <2>3. QED
    BY <2>1, <2>2
<1>5. CASE InsertData(s)
  <2>1. CASE at[s] \in file.collections
    BY <1>5, <2>1, <1>crashes, GenesisEnds DEF InsertData
  <2>2. CASE at[s] \notin file.collections
    <3> USE <1>5, <2>2 DEF InsertData
    <3>0. at[s] \in Collections /\ at[s] + 1 \in 1..(NumCollections + NumItems + 1)
      BY DEF TypeOK, Collections
    <3>1. TypeOK'
      BY <3>0 DEF TypeOK
    <3>2. MissingMappingsAreLeft' /\ OfItems'
      BY DEF MissingMappingsAreLeft, OfItems
    <3>3. DoneIsSaved'
      BY DEF TypeOK, DoneIsSaved, Collections, Items
    <3>4. Passed'
      BY DEF TypeOK, Passed, Collections, Items
    <3>5. QED
      BY <3>1, <3>2, <3>3, <3>4 DEF GenesisIInv
  <2>3. QED
    BY <2>1, <2>2
<1>6. CASE CollectionsDone(s)
  <2>1. TypeOK'
    BY <1>6 DEF CollectionsDone, tables, TypeOK
  <2>2. DoneIsSaved'
    <3>1. \A c \in Collections : c < at[s]
      BY <1>6 DEF CollectionsDone, TypeOK, Collections
    <3>2. QED
      BY <1>6, <3>1 DEF CollectionsDone, tables, TypeOK, DoneIsSaved, Passed
  <2>3. Passed'
    BY <1>6 DEF CollectionsDone, tables, TypeOK, Passed, Collections, Items
  <2>4. QED
    BY <1>6, <2>1, <2>2, <2>3, GenesisControl DEF CollectionsDone, tables
<1>7. CASE LookForItem(s)
  <2>1. at[s] \in Items
    BY <1>7 DEF LookForItem, TypeOK, Items
  <2>2. at[s] + 1 \in 1..(NumCollections + NumItems + 1)
    BY <2>1 DEF Items
  <2>3. TypeOK'
    BY <1>7, <2>1, <2>2 DEF LookForItem, tables, TypeOK
  <2>4. DoneIsSaved'
    BY <1>7 DEF LookForItem, tables, TypeOK, DoneIsSaved
  <2>5. Passed'
    BY <1>7 DEF LookForItem, tables, TypeOK, Passed, Collections, Items
  <2>6. QED
    BY <1>7, <2>3, <2>4, <2>5, GenesisControl DEF LookForItem
<1>8. CASE InsertItem(s)
  <2>1. CASE at[s] \in items
    BY <1>8, <2>1, <1>crashes, GenesisEnds DEF InsertItem
  <2>2. CASE at[s] \notin items
    <3> USE <1>8, <2>2 DEF InsertItem
    <3>0. at[s] \in Items /\ at[s] + 1 \in 1..(NumCollections + NumItems + 1)
      BY DEF TypeOK, Items
    <3>1. TypeOK'
      BY <3>0 DEF TypeOK
    <3>2. MissingMappingsAreLeft'
      BY DEF TypeOK, MissingMappingsAreLeft, OfItems
    <3>3. OfItems'
      BY DEF TypeOK, OfItems
    <3>4. DoneIsSaved'
      BY DEF TypeOK, DoneIsSaved, Items
    <3>5. Passed'
      BY DEF TypeOK, Passed, Collections, Items
    <3>6. QED
      BY <3>1, <3>2, <3>3, <3>4, <3>5 DEF GenesisIInv
  <2>3. QED
    BY <2>1, <2>2
<1>9. CASE ItemsDone(s)
  <2>1. TypeOK'
    BY <1>9 DEF ItemsDone, tables, TypeOK
  <2>2. DoneIsSaved'
    <3>1. \A i \in Items : i < at[s]
      BY <1>9 DEF ItemsDone, TypeOK, Items
    <3>2. QED
      BY <1>9, <3>1 DEF ItemsDone, tables, TypeOK, DoneIsSaved, Passed
  <2>3. Passed'
    BY <1>9 DEF ItemsDone, tables, TypeOK, Passed
  <2>4. QED
    BY <1>9, <2>1, <2>2, <2>3, GenesisControl DEF ItemsDone, tables
<1>10. CASE InsertMappings(s)
  <2>1. PICK i \in remembered[s] :
           IF i \in file.items THEN Panic(s)
           ELSE /\ mappings' = mappings \cup {i}
                /\ remembered' = [remembered EXCEPT ![s] = @ \ {i}]
                /\ UNCHANGED <<file, parsed, collections, data, items, pc, at, left, crashes>>
    BY <1>10 DEF InsertMappings
  <2>2. CASE i \in file.items
    BY <2>1, <2>2, <1>crashes, GenesisEnds
  <2>3. CASE i \notin file.items
    <3> USE <2>1, <2>3
    <3>1. TypeOK'
      BY DEF TypeOK
    <3>2. MissingMappingsAreLeft'
      BY DEF TypeOK, MissingMappingsAreLeft, OfItems
    <3>3. OfItems'
      BY DEF TypeOK, OfItems
    <3>4. DoneIsSaved' /\ Passed'
      BY DEF DoneIsSaved, Passed
    <3>5. QED
      BY <3>1, <3>2, <3>3, <3>4 DEF GenesisIInv
  <2>4. QED
    BY <2>2, <2>3
<1>11. CASE MappingsDone(s)
  BY <1>11, GenesisControl DEF MappingsDone, tables, TypeOK, DoneIsSaved, Passed,
     Collections, Items
<1>12. CASE Restart(s)
  BY <1>12, GenesisControl DEF Restart, tables, TypeOK, DoneIsSaved, Passed, Collections,
     Items
<1>13. CASE Crash(s)
  BY <1>13, <1>crashes, GenesisEnds DEF Crash
<1>14. QED
  BY <1>1, <1>2, <1>3, <1>4, <1>5, <1>6, <1>7, <1>8, <1>9, <1>10, <1>11, <1>12, <1>13
     DEF Step

LEMMA GenesisNext == GenesisIInv /\ [Next]_vars => GenesisIInv'
<1> SUFFICES ASSUME GenesisIInv, [Next]_vars PROVE GenesisIInv'
  OBVIOUS
<1>1. CASE Next
  BY <1>1, GenesisStep DEF Next
<1>2. CASE UNCHANGED vars
  BY <1>2 DEF vars, tables, GenesisIInv, TypeOK, MissingMappingsAreLeft, DoneIsSaved,
     OfItems, Passed
<1>3. QED
  BY <1>1, <1>2

LEMMA GenesisAlways == Spec => []GenesisIInv
BY GenesisInit, GenesisNext, PTL DEF Spec

\* Every state of the savers is well typed; is_genesis_parsed is never set to
\* true, so that every start walks the whole file again.
THEOREM TypeCorrect == Spec => []TypeOK
<1>1. GenesisIInv => TypeOK
  BY DEF GenesisIInv
<1>2. QED
  BY <1>1, GenesisAlways, PTL

\* An item misses its mappings only while one saver still has them in hand, or
\* for good after that saver ended.
THEOREM OnlyLeftItemsMissMappings == Spec => []MissingMappingsAreLeft
<1>1. GenesisIInv => MissingMappingsAreLeft
  BY DEF GenesisIInv
<1>2. QED
  BY <1>1, GenesisAlways, PTL

\* A collection is never there without its data, and a saver that is done has
\* left every collection and item of the file in the tables.
THEOREM DoneSaversSaved == Spec => []DoneIsSaved
<1>1. GenesisIInv => DoneIsSaved
  BY DEF GenesisIInv
<1>2. QED
  BY <1>1, GenesisAlways, PTL

HIDE GenesisAssumption

-----------------------------------------------------------------------------
(* BridgeProducer *)

Places == Bridge!Withdrawals \cup {0}
Cursors == IF kind = "solana" THEN 0..Len(chain) ELSE 1..(height + 1)
Steps == [publish : SUBSET Bridge!Withdrawals, save : Cursors \cup {None}]

\* What a cursor leaves behind; for Solana what lies between it and t.
Behind(c, t) ==
    {w \in Bridge!Withdrawals :
        IF kind = "solana" THEN c <= w /\ w <= t ELSE chain[w] < c}

\* The newest transaction of the pages that are or will be ended.
Reach == Bridge!Larger(top, newest)

\* The withdrawals the first steps of a plan publish.
PublishedBy(p, i) == UNION {p[j].publish : j \in 1..i}

\* A cursor that is, or may become, the one of a run leaves nothing behind.
StartCovered ==
    /\ start # None /\ (kind = "solana" => start # 0) =>
          Behind(start, top) \subseteq published \cup passed
    /\ cursor = None => top = 0 /\ (kind # "solana" => Behind(initial, 0) \subseteq passed)
    /\ kind = "solana" => passed = {}

\* A plan whose saves leave nothing behind, seen from where it is made.
GoodPlan(p, reach) ==
    /\ p \in Seq(Steps)
    /\ \A i \in 1..Len(p) : p[i].save # None =>
          Behind(p[i].save, reach) \subseteq
              published \cup passed \cup PublishedBy(p, i)
    /\ p # << >> => p[Len(p)].save # None

\* So is the plan of a run; a step is published before it is saved, and Solana
\* looks before the cursor it stands at.
PlanCovered ==
    /\ GoodPlan(plan, Reach)
    /\ runAt = "save" => plan[1].save # None /\ plan[1].publish \subseteq published
    /\ kind = "solana" /\ plan # << >> /\ start # 0 => newest < start

ChainTypes ==
    /\ kind \in Bridge!Kinds /\ skip \in BOOLEAN
    /\ height \in 1..MaxHeight
    /\ chain \in Seq(1..height) /\ Len(chain) <= MaxWithdrawals
    /\ \A v, w \in Bridge!Withdrawals : v < w => chain[v] <= chain[w]

RunTypes ==
    /\ start \in Cursors \cup {None}
    /\ runAt \in {"idle", "fetch", "publish", "save"}
    /\ runAt = "idle" <=> start = None
    /\ runAt \in {"publish", "save"} <=> plan # << >>

HistoryTypes ==
    /\ initial \in Cursors /\ cursor \in Cursors \cup {None}
    /\ queue \subseteq published /\ withdrawals \subseteq published
    /\ published \subseteq Bridge!Withdrawals
    /\ faults \in 0..MaxFaults
    /\ lost \subseteq Bridge!Withdrawals /\ passed \subseteq Bridge!Withdrawals
    /\ newest \in Places /\ top \in Places

BridgeIInv ==
    /\ ChainTypes /\ RunTypes /\ HistoryTypes
    /\ Bridge!CursorCovered /\ StartCovered /\ PlanCovered

USE BridgeAssumption

LEMMA Cut ==
    ASSUME ChainTypes, NEW from \in Int
    PROVE  LET n == Bridge!Cardinality({w \in Bridge!Withdrawals : chain[w] < from})
           IN  /\ n \in 0..Len(chain)
               /\ \A w \in Bridge!Withdrawals : chain[w] < from <=> w <= n
<1> DEFINE B == {w \in Bridge!Withdrawals : chain[w] < from}
           L == Len(chain)
           Rest == (1..(L + 1)) \ B
<1>1. /\ L \in Nat /\ Bridge!Withdrawals = 1..L
      /\ \A w \in 1..L : chain[w] \in Int
      /\ \A v, w \in 1..L : v < w => chain[v] <= chain[w]
  <2>1. chain \in Seq(1..height)
    BY DEF ChainTypes
  <2>2. L \in Nat /\ \A w \in 1..L : chain[w] \in 1..height
    BY <2>1, LenProperties, ElementOfSeq
  <2>3. \A v, w \in 1..L : v < w => chain[v] <= chain[w]
    BY DEF ChainTypes, Bridge!Withdrawals
  <2>4. QED
    BY <2>2, <2>3 DEF Bridge!Withdrawals
<1>2. L + 1 \in Rest /\ Rest \in SUBSET Nat
  BY <1>1
<1>3. PICK m \in Rest : \A y \in Rest : m <= y
  <2> HIDE DEF Rest
  <2>1. QED
    BY <1>2, Least
<1>4. m - 1 \in 0..L
  BY <1>1, <1>2, <1>3
<1>5. \A w \in 1..L : w < m => w \in B
  BY <1>1, <1>2, <1>3
<1>6. \A w \in 1..L : w >= m => w \notin B
  <2>1. ASSUME NEW w \in 1..L, w >= m, w \in B PROVE FALSE
    <3>1. m \in 1..L
      BY <1>1, <1>2, <2>1
    <3>2. chain[m] <= chain[w] /\ chain[w] < from /\ chain[m] \in Int /\ chain[w] \in Int
      BY <1>1, <2>1, <3>1
    <3>3. chain[m] < from
      BY <3>2
    <3>4. QED
      BY <1>1, <3>1, <3>3
  <2>2. QED
    BY <2>1
<1>7. B = 1..(m - 1)
  BY <1>1, <1>4, <1>5, <1>6
<1>8. Bridge!Cardinality(B) = Cardinality(B)
  BY DEF Bridge!Cardinality, Cardinality
<1>9. Bridge!Cardinality(B) = m - 1
  <2> HIDE DEF B
  <2>1. m - 1 \in Nat /\ 1 \in Int
    BY <1>1, <1>4
  <2>2. Cardinality(1..(m - 1)) = m - 1
    BY <2>1, FS_Interval
  <2>3. QED
    BY <1>7, <1>8, <2>2
<1>10. \A w \in Bridge!Withdrawals : chain[w] < from <=> w <= m - 1
  <2> TAKE w \in Bridge!Withdrawals
  <2>1. w \in 1..L /\ (w \in B <=> chain[w] < from)
    BY <1>1
  <2>2. w \in B <=> w <= m - 1
    <3> HIDE DEF B
    <3>1. QED
      BY <1>1, <1>4, <1>7, <2>1
  <2>3. QED
    BY <2>1, <2>2
<1>11. QED
  BY <1>4, <1>9, <1>10

LEMMA FunIsSeq ==
    ASSUME NEW n \in Nat, NEW S, NEW p \in [1..n -> S]
    PROVE  p \in Seq(S) /\ Len(p) = n
<1>1. p \in Seq(S)
  BY SeqDef
<1>2. Len(p) \in Nat /\ 1..Len(p) = 1..n
  BY <1>1, LenProperties
<1>3. QED
  BY <1>1, <1>2

LEMMA EmptyPlan == ASSUME NEW reach PROVE GoodPlan(<< >>, reach)
BY EmptySeq DEF GoodPlan

LEMMA BridgeTypes ==
    ASSUME BridgeIInv
    PROVE  /\ Len(chain) \in Nat /\ Bridge!Withdrawals = 1..Len(chain)
           /\ height \in Nat /\ height >= 1
           /\ Len(chain) <= MaxWithdrawals /\ MaxWithdrawals \in Nat
           /\ \A w \in Bridge!Withdrawals : chain[w] \in 1..height
           /\ \A v, w \in Bridge!Withdrawals : v < w => chain[v] <= chain[w]
           /\ Cursors \subseteq Nat /\ None \notin Cursors
           /\ {cursor, start} \subseteq Cursors \cup {None}
           /\ initial \in Cursors
           /\ plan \in Seq(Steps)
<1>1. chain \in Seq(1..height)
  BY DEF BridgeIInv, ChainTypes
<1>2. Len(chain) \in Nat /\ \A w \in 1..Len(chain) : chain[w] \in 1..height
  BY <1>1, LenProperties, ElementOfSeq
<1>3. height \in 1..MaxHeight /\ MaxHeight \in Nat
  BY DEF BridgeIInv, ChainTypes
<1>4. /\ \A v, w \in Bridge!Withdrawals : v < w => chain[v] <= chain[w]
      /\ Len(chain) <= MaxWithdrawals /\ MaxWithdrawals \in Nat
  BY DEF BridgeIInv, ChainTypes
<1>5. Cursors \subseteq Nat /\ None \notin Cursors
  BY <1>2, <1>3 DEF Cursors
<1>6. /\ {cursor, start} \subseteq Cursors \cup {None} /\ initial \in Cursors
      /\ plan \in Seq(Steps)
  BY DEF BridgeIInv, RunTypes, HistoryTypes, PlanCovered, GoodPlan
<1>7. QED
  BY <1>2, <1>3, <1>4, <1>5, <1>6 DEF Bridge!Withdrawals

LEMMA RarimoPlan ==
    ASSUME BridgeIInv, kind = "rarimo", start # None, NEW reach
    PROVE  GoodPlan(Bridge!PlanRarimo(start), reach)
<1> DEFINE of == {w \in Bridge!Withdrawals : chain[w] = start}
           step1 == Bridge!Do(of, start + 1)
<1>1. CASE start > height
  BY <1>1, EmptyPlan DEF Bridge!PlanRarimo
<1>2. CASE ~(start > height)
  <2> USE DEF BridgeIInv
  <2>1. start \in 1..height /\ height \in Nat
    BY <1>2, BridgeTypes DEF Cursors
  <2>2. step1 \in Steps /\ step1.save = start + 1 /\ step1.publish = of
    BY <2>1 DEF Steps, Cursors, Bridge!Do
  <2>3. Behind(start + 1, reach) \subseteq published \cup passed \cup of
    BY <2>1, BridgeTypes DEF StartCovered, Behind
  <2>4. Bridge!PlanRarimo(start) = <<step1>>
    BY <1>2 DEF Bridge!PlanRarimo
  <2>5. start + 1 # None
    BY <2>1
  <2> HIDE DEF of, step1
  <2>6. <<step1>> \in Seq(Steps) /\ Len(<<step1>>) = 1 /\ <<step1>>[1] = step1
    BY <2>2
  <2>7. PublishedBy(<<step1>>, 1) = of
    BY <2>2, <2>6 DEF PublishedBy
  <2>8. QED
    BY <2>2, <2>3, <2>4, <2>5, <2>6, <2>7 DEF GoodPlan
<1>3. QED
  BY <1>1, <1>2

\* What a plan that publishes the withdrawals from before + 1 on, one by one,
\* has published.
LEMMA OneByOne ==
    ASSUME NEW before \in Nat, NEW n \in Nat, NEW p,
           \A j \in 1..n : \A w : w \in p[j].publish <=> w = before + j,
           NEW i \in 1..n
    PROVE  \A w : w \in PublishedBy(p, i) <=> w \in (before + 1)..(before + i)
<1>1. ASSUME NEW w \in (before + 1)..(before + i) PROVE \E j \in 1..i : w \in p[j].publish
  <2>1. w - before \in 1..i /\ w = before + (w - before)
    OBVIOUS
  <2>2. QED
    BY <2>1
<1>2. ASSUME NEW j \in 1..i PROVE p[j].publish \subseteq (before + 1)..(before + i)
  OBVIOUS
<1>3. QED
  BY <1>1, <1>2 DEF PublishedBy

LEMMA NearPlan ==
    ASSUME BridgeIInv, kind = "near", start # None, NEW reach
    PROVE  GoodPlan(Bridge!PlanNear(start), reach)
<1> DEFINE of == {w \in Bridge!Withdrawals : chain[w] = start}
           before == Bridge!Cardinality({w \in Bridge!Withdrawals : chain[w] < start})
           n == Bridge!Cardinality(of)
           upto == Bridge!Cardinality({w \in Bridge!Withdrawals : chain[w] < start + 1})
<1>1. CASE start > height
  BY <1>1, EmptyPlan DEF Bridge!PlanNear
<1>2. CASE ~(start > height)
  <2> USE DEF BridgeIInv
  <2>1. start \in 1..height /\ height \in Nat
    BY <1>2, BridgeTypes DEF Cursors
  <2>2. start + 1 \in Cursors /\ start + 1 # None
    BY <2>1 DEF Cursors
  <2>3. Behind(start, reach) \subseteq published \cup passed
    BY <2>1, BridgeTypes DEF StartCovered, Behind
  <2>4. CASE of = {}
    <3> DEFINE step1 == Bridge!Do({}, start + 1)
    <3>1. step1 \in Steps /\ step1.save = start + 1 /\ step1.publish = {}
      BY <2>2 DEF Steps, Bridge!Do
    <3>2. Behind(start + 1, reach) \subseteq published \cup passed
      BY <2>1, <2>3, <2>4, BridgeTypes DEF Behind
    <3>3. Bridge!PlanNear(start) = <<step1>>
      BY <1>2, <2>4 DEF Bridge!PlanNear
    <3> HIDE DEF step1
    <3>4. <<step1>> \in Seq(Steps) /\ Len(<<step1>>) = 1 /\ <<step1>>[1] = step1
      BY <3>1
    <3>5. QED
      BY <2>2, <3>1, <3>2, <3>3, <3>4 DEF GoodPlan
  <2>5. CASE of # {}
    <3> DEFINE p == [i \in 1..n |-> Bridge!Do({before + i}, IF i = n THEN start + 1 ELSE None)]
    <3>1. /\ before \in 0..Len(chain)
          /\ \A w \in Bridge!Withdrawals : chain[w] < start <=> w <= before
      BY <2>1, Cut
    <3>2. /\ upto \in 0..Len(chain)
          /\ \A w \in Bridge!Withdrawals : chain[w] < start + 1 <=> w <= upto
      BY <2>1, Cut
    <3>3. of = (before + 1)..upto
      <4>1. \A w \in Bridge!Withdrawals : chain[w] = start <=> w > before /\ w <= upto
        <5> TAKE w \in Bridge!Withdrawals
        <5>1. chain[w] \in Nat /\ w \in Nat /\ before \in Nat
          BY <3>1, BridgeTypes
        <5>2. chain[w] = start <=> ~(chain[w] < start) /\ chain[w] < start + 1
          BY <2>1, <5>1
        <5> HIDE DEF before, upto
        <5>3. QED
          BY <3>1, <3>2, <5>1, <5>2
      <4> HIDE DEF before, upto
      <4>2. \A w \in (before + 1)..upto : w \in Bridge!Withdrawals
        BY <3>1, <3>2, BridgeTypes
      <4>3. \A w \in Bridge!Withdrawals : w \in Int
        BY BridgeTypes
      <4>4. \A w \in of : w \in (before + 1)..upto
        BY <3>1, <3>2, <4>1, <4>3
      <4>5. \A w \in (before + 1)..upto : w \in of
        BY <3>1, <4>1, <4>2
      <4>6. QED
        BY <4>4, <4>5
    <3>4. n = upto - before /\ n \in Nat /\ n # 0
      <4>1. n = Cardinality(of)
        BY DEF Bridge!Cardinality, Cardinality
      <4>2. before + 1 \in Int /\ upto \in Int /\ upto >= before + 1
        <5> HIDE DEF of, before, upto
        <5>1. QED
          BY <2>5, <3>1, <3>2, <3>3, BridgeTypes
      <4> HIDE DEF of, before, upto, n
      <4>3. Cardinality((before + 1)..upto) = upto - before
        BY <3>1, <4>2, FS_Interval, BridgeTypes
      <4>4. QED
        BY <3>1, <3>3, <4>1, <4>2, <4>3, BridgeTypes
    <3>5. Bridge!PlanNear(start) = p
      BY <1>2, <2>5 DEF Bridge!PlanNear
    <3> HIDE DEF of, before, upto, n
    <3>6. \A i \in 1..n : before + i \in Bridge!Withdrawals
      BY <3>1, <3>2, <3>4, BridgeTypes
    <3>7. \A i \in 1..n : p[i] \in Steps /\ p[i].publish = {before + i}
                         /\ p[i].save = IF i = n THEN start + 1 ELSE None
      BY <2>2, <3>6 DEF Steps, Bridge!Do
    <3>8. p \in Seq(Steps) /\ Len(p) = n
      <4>1. p \in [1..n -> Steps]
        BY <3>7
      <4>2. QED
        BY <3>4, <4>1, FunIsSeq
    <3> HIDE DEF p
    <3>9. PublishedBy(p, n) = (before + 1)..(before + n)
      <4>1. /\ before \in Nat /\ n \in 1..n
            /\ \A j \in 1..n : \A w : w \in p[j].publish <=> w = before + j
        BY <3>1, <3>4, <3>7, BridgeTypes
      <4>2. QED
        BY <3>4, <4>1, OneByOne
    <3>10. Behind(start + 1, reach) \subseteq published \cup passed \cup (before + 1)..(before + n)
      <4>1. SUFFICES ASSUME NEW w \in Bridge!Withdrawals, chain[w] < start + 1
                     PROVE  w \in published \cup passed \cup (before + 1)..(before + n)
        BY DEF Behind
      <4>2. w <= upto /\ upto = before + n /\ w \in Nat /\ before \in Nat /\ upto \in Nat
        BY <3>1, <3>2, <3>4, <4>1, BridgeTypes
      <4>3. CASE w <= before
        BY <2>3, <3>1, <4>3 DEF Behind
      <4>4. CASE w > before
        BY <4>2, <4>4
      <4>5. QED
        BY <4>2, <4>3, <4>4
    <3>11. ASSUME NEW i \in 1..Len(p), p[i].save # None
           PROVE  Behind(p[i].save, reach) \subseteq
                      published \cup passed \cup PublishedBy(p, i)
      <4>1. i = n /\ p[i].save = start + 1
        BY <3>7, <3>8, <3>11
      <4>2. QED
        BY <3>9, <3>10, <4>1
    <3>12. p[Len(p)].save # None
      BY <2>2, <3>4, <3>7, <3>8
    <3>13. QED
      BY <3>5, <3>8, <3>11, <3>12 DEF GoodPlan
  <2>6. QED
    BY <2>4, <2>5
<1>3. QED
  BY <1>1, <1>2

LEMMA EvmPlan ==
    ASSUME BridgeIInv, kind = "evm", start # None, NEW reach
    PROVE  GoodPlan(Bridge!PlanEvm(start), reach)
<1> DEFINE before == Bridge!Cardinality({w \in Bridge!Withdrawals : chain[w] < start})
           n == Len(chain) - before
           p == [i \in 1..n |-> Bridge!Do({before + i}, chain[before + i])]
<1> USE DEF BridgeIInv
<1>1. start \in Nat
  BY BridgeTypes
<1>2. /\ before \in 0..Len(chain)
      /\ \A w \in Bridge!Withdrawals : chain[w] < start <=> w <= before
  BY <1>1, Cut
<1>3. Bridge!PlanEvm(start) = p
  BY DEF Bridge!PlanEvm
<1> HIDE DEF before
<1>4. before \in Nat /\ n \in Nat /\ \A i \in 1..n : before + i \in Bridge!Withdrawals
  BY <1>2, BridgeTypes
<1>5. \A i \in 1..n : chain[before + i] \in Cursors /\ chain[before + i] # None
  BY <1>4, BridgeTypes DEF Cursors
<1>6. \A i \in 1..n : /\ p[i] \in Steps /\ p[i].publish = {before + i}
                      /\ p[i].save = chain[before + i]
  BY <1>4, <1>5 DEF Steps, Bridge!Do
<1>7. p \in Seq(Steps) /\ Len(p) = n
  <2>1. p \in [1..n -> Steps]
    BY <1>6
  <2>2. QED
    BY <1>4, <2>1, FunIsSeq
<1> HIDE DEF p
<1>8. ASSUME NEW i \in 1..n
      PROVE  Behind(p[i].save, reach) \subseteq
                 published \cup passed \cup PublishedBy(p, i)
  <2>1. PublishedBy(p, i) = (before + 1)..(before + i)
    <3>1. \A j \in 1..n : \A w : w \in p[j].publish <=> w = before + j
      BY <1>6
    <3> HIDE DEF n
    <3>2. QED
      BY <1>4, <3>1, OneByOne
  <2>2. ASSUME NEW w \in Bridge!Withdrawals, chain[w] < chain[before + i]
        PROVE  w < before + i
    <3>1. /\ before + i \in Bridge!Withdrawals /\ w \in Nat /\ before + i \in Nat
          /\ chain[w] \in Nat /\ chain[before + i] \in Nat
      <4>1. before + i \in Bridge!Withdrawals
        BY <1>4
      <4>2. \A v \in Bridge!Withdrawals : v \in Nat /\ chain[v] \in Nat
        BY BridgeTypes
      <4>3. QED
        BY <4>1, <4>2
    <3>2. before + i < w => chain[before + i] <= chain[w]
      BY <3>1, BridgeTypes
    <3>3. w # before + i
      BY <2>2, <3>1
    <3> HIDE DEF n
    <3>4. QED
      BY <2>2, <3>1, <3>2, <3>3
  <2>3. ASSUME NEW w \in Bridge!Withdrawals, w <= before PROVE w \in published \cup passed
    BY <1>1, <1>2, <2>3 DEF StartCovered, Behind
  <2>4. QED
    <3>1. SUFFICES ASSUME NEW w \in Bridge!Withdrawals, chain[w] < chain[before + i]
                   PROVE  w \in published \cup passed \cup (before + 1)..(before + i)
      BY <1>6, <2>1 DEF Behind
    <3>2. w < before + i /\ w \in Nat /\ before + i \in Nat /\ before \in Nat
      BY <1>4, <2>2, <3>1, BridgeTypes
    <3> HIDE DEF n
    <3>3. CASE w <= before
      BY <2>3, <3>3
    <3>4. CASE w > before
      BY <3>2, <3>4
    <3>5. QED
      BY <3>2, <3>3, <3>4
<1>9. p # << >> => p[Len(p)].save # None
  <2>1. p # << >> => n # 0
    BY <1>7, EmptySeq
  <2>2. QED
    BY <1>4, <1>5, <1>6, <1>7, <2>1
<1>10. QED
  BY <1>3, <1>7, <1>8, <1>9 DEF GoodPlan

\* The pages of Solana: from last backwards, saved at their end.
LEMMA SolanaPlan ==
    ASSUME BridgeIInv, kind = "solana", start # None,
           NEW reach \in Nat,
           start = 0 => reach = Len(chain),
           start # 0 => reach <= Bridge!Larger(top, start - 1)
    PROVE  /\ GoodPlan(Bridge!PlanSolana(start), reach)
           /\ Bridge!PlanSolana(start) # << >> =>
                 Bridge!PlanSolana(start)[1].publish =
                     {IF start = 0 THEN Len(chain) ELSE start - 1}
<1> USE DEF BridgeIInv
<1> DEFINE last == IF start = 0 THEN Len(chain) ELSE start - 1
           n == Bridge!Smaller(PageSize, last)
           p == [i \in 1..n |->
                   Bridge!Do({last + 1 - i}, IF i = n THEN last + 1 - i ELSE None)]
<1>1. /\ start \in Nat /\ last \in Nat /\ last <= Len(chain) /\ Len(chain) \in Nat
      /\ last \in Cursors /\ start # None
  BY BridgeTypes DEF Cursors
<1>2. n \in 0..last /\ n \in Nat
  BY <1>1 DEF Bridge!Smaller
<1>3. Bridge!PlanSolana(start) = p
  BY DEF Bridge!PlanSolana
<1>4. last = 0 <=> n = 0
  BY <1>1 DEF Bridge!Smaller
<1>5. reach <= last \/ (start # 0 /\ reach <= top /\ top \in Nat)
  BY <1>1 DEF Bridge!Larger, HistoryTypes, Places, Bridge!Withdrawals
<1>6. start # 0 => last = start - 1
  OBVIOUS
<1> HIDE DEF last, n
<1>7. \A i \in 1..n : /\ last + 1 - i \in Bridge!Withdrawals
                      /\ last + 1 - i \in Cursors /\ last + 1 - i # None
  BY <1>1, <1>2, BridgeTypes DEF Cursors
<1>8. \A i \in 1..n : /\ p[i] \in Steps /\ p[i].publish = {last + 1 - i}
                      /\ p[i].save = IF i = n THEN last + 1 - i ELSE None
  BY <1>7 DEF Steps, Bridge!Do
<1>9. p \in Seq(Steps) /\ Len(p) = n
  <2>1. p \in [1..n -> Steps]
    BY <1>8
  <2>2. QED
    BY <1>2, <2>1, FunIsSeq
<1> HIDE DEF p
<1>10. ASSUME NEW i \in 1..Len(p), p[i].save # None
       PROVE  Behind(p[i].save, reach) \subseteq
                  published \cup passed \cup PublishedBy(p, i)
  <2>1. i = n /\ p[i].save = last + 1 - n
    BY <1>8, <1>9, <1>10
  <2>2. SUFFICES ASSUME NEW w \in Bridge!Withdrawals, last + 1 - n <= w, w <= reach
                 PROVE  w \in published \cup passed \cup PublishedBy(p, i)
    BY <2>1 DEF Behind
  <2>3. w \in Nat
    BY BridgeTypes
  <2>4. CASE w <= last
    <3>1. last + 1 - w \in 1..n /\ w = last + 1 - (last + 1 - w)
      BY <1>1, <1>2, <2>2, <2>3, <2>4
    <3>2. w \in p[last + 1 - w].publish
      BY <1>8, <3>1
    <3>3. QED
      BY <2>1, <3>1, <3>2 DEF PublishedBy
  <2>5. CASE w > last
    <3>1. start # 0 /\ start <= w /\ w <= top
      BY <1>1, <1>5, <1>6, <2>2, <2>3, <2>5
    <3>2. QED
      BY <1>1, <3>1 DEF StartCovered, Behind
  <2>6. QED
    BY <1>1, <2>3, <2>4, <2>5
<1>11. p # << >> => p[Len(p)].save # None /\ n # 0
  <2>1. p # << >> => n # 0
    BY <1>9, EmptySeq
  <2>2. QED
    BY <1>2, <1>7, <1>8, <1>9, <2>1
<1>12. GoodPlan(p, reach)
  BY <1>9, <1>10, <1>11 DEF GoodPlan
<1>13. p # << >> => p[1].publish = {last}
  BY <1>1, <1>2, <1>8, <1>11
<1>14. QED
  BY <1>3, <1>12, <1>13 DEF last

LEMMA BridgeTypeCorrect == BridgeIInv => Bridge!TypeOK
BY DEF BridgeIInv, ChainTypes, RunTypes, HistoryTypes, PlanCovered, GoodPlan, Cursors,
   Steps,
   Places, Bridge!TypeOK

LEMMA BridgeInit == Bridge!Init => BridgeIInv
<1> SUFFICES ASSUME Bridge!Init PROVE BridgeIInv
  OBVIOUS
<1>1. PICK n \in 0..Bridge!Smaller(2, MaxWithdrawals) : chain \in [1..n -> {1}]
  BY DEF Bridge!Init
<1>2. n \in Nat /\ n <= MaxWithdrawals
  BY DEF Bridge!Smaller
<1>3. /\ chain \in Seq({1}) /\ Len(chain) = n
      /\ \A w \in Bridge!Withdrawals : chain[w] = 1
      /\ height = 1
  BY <1>1, <1>2, FunIsSeq DEF Bridge!Init, Bridge!Withdrawals
<1>4. ChainTypes
  <2>1. chain \in Seq(1..height)
    BY <1>3
  <2>2. \A v, w \in Bridge!Withdrawals : v < w => chain[v] <= chain[w]
    BY <1>3
  <2>3. QED
    BY <1>2, <1>3, <2>1, <2>2 DEF Bridge!Init, ChainTypes
<1>5. initial \in Cursors
  BY <1>2, <1>3 DEF Bridge!Init, Bridge!InitialCursor, Cursors, Bridge!Larger, Bridge!Kinds
<1>6. passed \subseteq Bridge!Withdrawals
  BY DEF Bridge!Init
<1>7. RunTypes /\ HistoryTypes
  BY <1>5, <1>6 DEF Bridge!Init, RunTypes, HistoryTypes, Places
<1>8. Bridge!CursorCovered /\ StartCovered
  BY DEF Bridge!Init, Bridge!CursorCovered, StartCovered, Behind
<1>9. PlanCovered
  BY EmptyPlan DEF Bridge!Init, PlanCovered
<1>10. QED
  BY <1>4, <1>7, <1>8, <1>9 DEF BridgeIInv

\* The chain grows at its end, beyond every cursor and every page.
LEMMA NewBlockBridge ==
    ASSUME BridgeIInv, Bridge!NewBlock PROVE BridgeIInv'
<1> USE DEF BridgeIInv
<1>1. PICK n \in 0..(MaxWithdrawals - Len(chain)) :
          chain' = chain \o [i \in 1..n |-> height + 1]
  BY DEF Bridge!NewBlock
<1>2. /\ height' = height + 1 /\ height < MaxHeight
      /\ UNCHANGED <<kind, skip, cursor, initial, start, runAt, plan, published, queue,
                     withdrawals, lost, faults, passed, newest, top>>
  BY DEF Bridge!NewBlock, Bridge!runVars, Bridge!indexVars
<1> DEFINE tail == [i \in 1..n |-> height + 1]
<1>3. n \in Nat /\ Len(chain) \in Nat /\ Len(chain) + n <= MaxWithdrawals
  BY <1>1, BridgeTypes
<1>4. tail \in Seq(1..height') /\ Len(tail) = n /\ \A i \in 1..n : tail[i] = height + 1
  <2>1. tail \in [1..n -> 1..height']
    BY <1>2, BridgeTypes
  <2>2. QED
    BY <1>3, <2>1, FunIsSeq
<1>5. chain' = chain \o tail
  BY <1>1
<1> HIDE DEF tail
<1>6. /\ chain' \in Seq(1..height') /\ Len(chain') = Len(chain) + n
      /\ \A i \in 1..(Len(chain) + n) :
             chain'[i] = IF i <= Len(chain) THEN chain[i] ELSE tail[i - Len(chain)]
  <2>1. chain \in Seq(1..height')
    <3>1. chain \in Seq(1..height) /\ 1..height \subseteq 1..height'
      BY <1>2, BridgeTypes DEF ChainTypes
    <3>2. QED
      BY <3>1, SeqMonotonic
  <2>2. QED
    BY <1>3, <1>4, <1>5, <2>1, ConcatProperties
<1>w. Bridge!Withdrawals = 1..Len(chain) /\ Bridge!Withdrawals' = 1..(Len(chain) + n)
  BY <1>6 DEF Bridge!Withdrawals
<1>7. ASSUME NEW w \in Bridge!Withdrawals'
      PROVE  \/ w \in Bridge!Withdrawals /\ chain'[w] = chain[w]
             \/ w \notin Bridge!Withdrawals /\ chain'[w] = height + 1
  <2>1. w \in 1..(Len(chain) + n)
    BY <1>w
  <2>2. CASE w <= Len(chain)
    BY <1>3, <1>6, <1>w, <2>1, <2>2
  <2>3. CASE w > Len(chain)
    <3>1. w - Len(chain) \in 1..n
      BY <1>3, <2>1, <2>3
    <3>2. QED
      BY <1>3, <1>4, <1>6, <1>w, <2>1, <2>3, <3>1
  <2>4. QED
    BY <1>3, <2>1, <2>2, <2>3
<1>8. Bridge!Withdrawals \subseteq Bridge!Withdrawals' /\ Cursors \subseteq Cursors'
  BY <1>2, <1>3, <1>6, <1>w, BridgeTypes DEF Cursors
<1>9. ChainTypes'
  <2>1. ASSUME NEW v \in Bridge!Withdrawals', NEW w \in Bridge!Withdrawals', v < w
        PROVE  chain'[v] <= chain'[w]
    <3>1. v \in Nat /\ w \in Nat
      BY <1>3, <1>w
    <3>2. CASE w \in Bridge!Withdrawals
      <4>1. v \in Bridge!Withdrawals
        BY <1>3, <1>w, <2>1, <3>1, <3>2
      <4>2. QED
        BY <1>7, <2>1, <3>2, <4>1, BridgeTypes
    <3>3. CASE w \notin Bridge!Withdrawals
      <4>1. chain'[w] = height + 1
        BY <1>7, <3>3
      <4>2. chain'[v] \in 1..(height + 1) /\ height \in Nat
        <5>1. height \in Nat /\ height >= 1
          BY BridgeTypes
        <5>2. CASE v \in Bridge!Withdrawals
          <6>1. chain[v] \in 1..height
            BY <5>2, BridgeTypes
          <6>2. chain'[v] = chain[v]
            BY <1>7, <5>2
          <6>3. QED
            BY <5>1, <6>1, <6>2
        <5>3. CASE v \notin Bridge!Withdrawals
          <6>1. chain'[v] = height + 1
            BY <1>7, <5>3
          <6>2. QED
            BY <5>1, <6>1
        <5>4. QED
          BY <5>1, <5>2, <5>3
      <4>3. QED
        BY <4>1, <4>2
    <3>4. QED
      BY <3>2, <3>3
  <2>2. height' \in 1..MaxHeight
    BY <1>2, BridgeTypes
  <2>3. QED
    BY <1>2, <1>3, <1>6, <2>1, <2>2 DEF ChainTypes
<1>10. RunTypes'
  BY <1>2, <1>8 DEF RunTypes
<1>11. HistoryTypes'
  BY <1>2, <1>8 DEF HistoryTypes, Places
\* Nothing new is behind a cursor or before the end of a page.
<1>12. ASSUME NEW w \in Bridge!Withdrawals', NEW c \in Cursors, NEW t \in Places,
              IF kind = "solana" THEN c <= w /\ w <= t ELSE chain'[w] < c
       PROVE  /\ w \in Bridge!Withdrawals
              /\ IF kind = "solana" THEN c <= w /\ w <= t ELSE chain[w] < c
  <2>1. CASE kind = "solana"
    <3>1. t \in 0..Len(chain) /\ w \in Nat /\ w >= 1
      BY <1>3, <1>w DEF Places
    <3>2. w \in Bridge!Withdrawals
      BY <1>3, <1>12, <1>w, <2>1, <3>1
    <3>3. QED
      BY <1>12, <2>1, <3>2
  <2>2. CASE kind # "solana"
    <3>1. c \in 1..(height + 1) /\ height \in Nat
      BY <2>2, BridgeTypes DEF Cursors
    <3>2. chain'[w] # height + 1
      BY <1>12, <2>2, <3>1
    <3>3. QED
      BY <1>7, <1>12, <2>2, <3>2
  <2>3. QED
    BY <2>1, <2>2
<1>14. cursor \in Cursors \cup {None} /\ start \in Cursors \cup {None} /\ initial \in Cursors
       /\ top \in Places /\ newest \in Places /\ 0 \in Places /\ Reach \in Places
  BY DEF HistoryTypes, RunTypes, Reach, Bridge!Larger, Places
<1>15. Bridge!CursorCovered'
  BY <1>2, <1>12, <1>14 DEF Bridge!CursorCovered
<1>16. StartCovered'
  <2>1. start # None => Behind(start, top)' \subseteq Behind(start, top)
    BY <1>2, <1>12, <1>14 DEF Behind
  <2>2. Behind(initial, 0)' \subseteq Behind(initial, 0)
    BY <1>2, <1>12, <1>14 DEF Behind
  <2>3. QED
    BY <1>2, <2>1, <2>2 DEF StartCovered
<1>17. PlanCovered'
  <2>1. plan \in Seq(Steps)'
    <3>1. Steps \subseteq Steps'
      BY <1>8 DEF Steps
    <3>2. QED
      BY <3>1, SeqMonotonic DEF PlanCovered, GoodPlan
  <2>2. Reach' = Reach
    BY <1>2 DEF Reach
  <2>3. ASSUME NEW i \in 1..Len(plan), plan[i].save # None
        PROVE  Behind(plan[i].save, Reach)' \subseteq
                   published \cup passed \cup PublishedBy(plan, i)
    <3>1. plan[i].save \in Cursors
      <4>1. plan[i] \in Steps
        BY ElementOfSeq DEF PlanCovered, GoodPlan
      <4>2. QED
        BY <2>3, <4>1 DEF Steps
    <3>2. Behind(plan[i].save, Reach)' \subseteq Behind(plan[i].save, Reach)
      BY <1>2, <1>12, <1>14, <2>2, <3>1 DEF Behind
    <3>3. QED
      BY <2>3, <3>2 DEF PlanCovered, GoodPlan
  <2>4. GoodPlan(plan, Reach)'
    BY <1>2, <2>1, <2>3 DEF PlanCovered, GoodPlan, PublishedBy
  <2>5. QED
    BY <1>2, <2>4 DEF PlanCovered
<1>18. QED
  BY <1>9, <1>10, <1>11, <1>15, <1>16, <1>17

\* What no step of Run, nor the indexer, changes.
ChainRest == UNCHANGED <<kind, skip, chain, height>>

LEMMA ChainStays == ASSUME ChainTypes, ChainRest PROVE ChainTypes'
BY DEF ChainTypes, ChainRest, Bridge!Withdrawals

\* A run that is left leaves the cursor and what is behind it as they are.
LEMMA LeaveBridge ==
    ASSUME BridgeIInv, ChainRest, Bridge!Leave, HistoryTypes',
           UNCHANGED <<cursor, published, top>>, passed \subseteq passed',
           kind = "solana" => passed' = passed,
           cursor = None /\ kind # "solana" => Behind(initial', 0) \subseteq passed'
    PROVE  BridgeIInv'
<1> USE DEF BridgeIInv, ChainRest
<1>1. ChainTypes'
  BY ChainStays
<1>2. RunTypes'
  BY DEF Bridge!Leave, RunTypes
<1>3. Bridge!CursorCovered'
  BY DEF Bridge!CursorCovered, Bridge!Withdrawals
<1>4. StartCovered'
  BY DEF Bridge!Leave, StartCovered, Behind, Bridge!Withdrawals
<1>5. PlanCovered'
  <2>1. GoodPlan(plan, Reach)'
    BY EmptySeq DEF Bridge!Leave, GoodPlan
  <2>2. QED
    BY <2>1 DEF Bridge!Leave, PlanCovered
<1>6. QED
  BY <1>1, <1>2, <1>3, <1>4, <1>5

LEMMA GetStartCursorBridge ==
    ASSUME BridgeIInv, Bridge!GetStartCursor PROVE BridgeIInv'
<1> USE DEF BridgeIInv, ChainRest, Bridge!GetStartCursor, Bridge!RunRest, Bridge!chainVars,
            Bridge!indexVars
<1>1. ChainTypes'
  BY ChainStays
<1>2. start' \in Cursors /\ start' # None /\ plan = << >>
  BY BridgeTypes DEF RunTypes
<1>3. RunTypes' /\ HistoryTypes'
  BY <1>2 DEF RunTypes, HistoryTypes, Cursors, Places, Bridge!Withdrawals
<1>4. Bridge!CursorCovered'
  BY DEF Bridge!CursorCovered, Bridge!Withdrawals
<1>5. StartCovered'
  <2>1. CASE cursor = None
    BY <2>1, BridgeTypes DEF StartCovered, Behind, Bridge!Withdrawals
  <2>2. CASE cursor # None
    BY <2>2 DEF StartCovered, Behind, Bridge!Withdrawals, Bridge!CursorCovered
  <2>3. QED
    BY <2>1, <2>2
<1>6. PlanCovered'
  BY <1>2 DEF PlanCovered, GoodPlan, Reach, Behind, Bridge!Withdrawals, Steps, Cursors,
     PublishedBy
<1>7. QED
  BY <1>1, <1>3, <1>4, <1>5, <1>6

LEMMA FetchBridge ==
    ASSUME BridgeIInv, Bridge!Fetch PROVE BridgeIInv'
<1> USE DEF BridgeIInv
<1> DEFINE p == Bridge!Plan(start)
<1>1. /\ ChainRest
      /\ UNCHANGED <<cursor, initial, published, queue, withdrawals, lost, faults, passed, top>>
      /\ runAt = "fetch" /\ start # None /\ start \in Cursors
      /\ newest' = IF kind = "solana" /\ p # << >> THEN CHOOSE w \in p[1].publish : TRUE ELSE newest
      /\ IF p = << >> THEN Bridge!Leave
         ELSE runAt' = "publish" /\ plan' = p /\ UNCHANGED start
  BY DEF Bridge!Fetch, Bridge!RunRest, Bridge!chainVars, Bridge!indexVars, ChainRest,
     RunTypes
<1>2. ASSUME kind # "solana" PROVE GoodPlan(p, Reach')
  <2>1. kind \in {"rarimo", "near", "evm"}
    BY <1>2 DEF ChainTypes, Bridge!Kinds
  <2>2. CASE kind = "rarimo"
    BY <1>1, <2>2, RarimoPlan DEF Bridge!Plan
  <2>3. CASE kind = "near"
    BY <1>1, <2>3, NearPlan DEF Bridge!Plan
  <2>4. CASE kind = "evm"
    BY <1>1, <2>4, EvmPlan DEF Bridge!Plan
  <2>5. QED
    BY <2>1, <2>2, <2>3, <2>4
<1>3. ASSUME kind = "solana", p # << >>
      PROVE  /\ GoodPlan(p, Reach') /\ newest' \in Places
             /\ start # 0 => newest' < start
  <2> DEFINE last == IF start = 0 THEN Len(chain) ELSE start - 1
             reach == Bridge!Larger(top, last)
  <2>1. /\ last \in 0..Len(chain) /\ last \in Nat /\ start \in Nat
        /\ top \in 0..Len(chain) /\ Len(chain) \in Nat
    BY <1>1, <1>3, BridgeTypes DEF Cursors, HistoryTypes, Places
  <2>2. /\ reach \in Nat
        /\ start = 0 => reach = Len(chain)
        /\ start # 0 => reach <= Bridge!Larger(top, start - 1)
    BY <2>1 DEF Bridge!Larger
  <2>3. p = Bridge!PlanSolana(start)
    BY <1>3 DEF Bridge!Plan
  <2>4. GoodPlan(p, reach) /\ p[1].publish = {last}
    <3> HIDE DEF reach
    <3>1. QED
      BY <1>1, <1>3, <2>2, <2>3, SolanaPlan
  <2>5. newest' = last
    <3> HIDE DEF last, p
    <3>1. QED
      BY <1>1, <1>3, <2>4
  <2>6. Reach' = reach
    BY <1>1, <2>5 DEF Reach, Bridge!Larger
  <2>7. last \in Places
    BY <2>1, BridgeTypes DEF Places
  <2>8. start # 0 => last < start
    BY <2>1
  <2>9. QED
    BY <2>4, <2>5, <2>6, <2>7, <2>8
<1>4. ASSUME p # << >> PROVE BridgeIInv'
  <2>1. GoodPlan(p, Reach')
    BY <1>2, <1>3, <1>4
  <2>2. newest' \in Places /\ (kind = "solana" /\ start # 0 => newest' < start)
    BY <1>1, <1>3, <1>4 DEF HistoryTypes
  <2> HIDE DEF p
  <2>3. ChainTypes'
    BY <1>1, ChainStays
  <2>4. start' = start /\ runAt' = "publish" /\ plan' = p
    BY <1>1, <1>4
  <2>5. Steps' = Steps /\ Bridge!Withdrawals' = Bridge!Withdrawals /\ Cursors' = Cursors
    BY <1>1 DEF Steps, Cursors, Bridge!Withdrawals, ChainRest
  <2>6. RunTypes'
    BY <1>1, <1>4, <2>4, <2>5 DEF RunTypes
  <2>7. HistoryTypes'
    BY <1>1, <2>2, <2>5 DEF HistoryTypes, Places
  <2>8. Bridge!CursorCovered' /\ StartCovered'
    BY <1>1, <2>4, <2>5 DEF Bridge!CursorCovered, StartCovered, Behind, ChainRest
  <2>9. GoodPlan(plan, Reach)'
    BY <1>1, <2>1, <2>4, <2>5 DEF GoodPlan, Behind, ChainRest, PublishedBy
  <2>10. PlanCovered'
    BY <1>1, <2>2, <2>4, <2>9 DEF PlanCovered, ChainRest
  <2>11. QED
    BY <2>3, <2>6, <2>7, <2>8, <2>10
<1>5. CASE p = << >>
  <2>1. newest' = newest /\ Bridge!Leave
    BY <1>1, <1>5
  <2>2. HistoryTypes'
    BY <1>1, <2>1 DEF HistoryTypes, Places, Cursors, Bridge!Withdrawals, ChainRest
  <2>3. cursor = None /\ kind # "solana" => Behind(initial', 0) \subseteq passed'
    BY <1>1 DEF StartCovered
  <2>4. QED
    BY <1>1, <2>1, <2>2, <2>3, LeaveBridge
<1>6. QED
  BY <1>4, <1>5

\* What a step leaves to those behind it.
LEMMA PublishedFirst ==
    ASSUME NEW p \in Seq(Steps), p # << >>, NEW i \in 1..Len(Tail(p))
    PROVE  \A w : w \in PublishedBy(p, i + 1) =>
                w \in p[1].publish \/ w \in PublishedBy(Tail(p), i)
<1>1. /\ Len(Tail(p)) = Len(p) - 1 /\ Len(p) \in Nat
      /\ \A j \in 1..Len(Tail(p)) : Tail(p)[j] = p[j + 1]
  BY HeadTailProperties, LenProperties
<1>2. SUFFICES ASSUME NEW j \in 1..(i + 1), NEW w \in p[j].publish
               PROVE  w \in p[1].publish \/ w \in PublishedBy(Tail(p), i)
  BY DEF PublishedBy
<1>3. CASE j = 1
  BY <1>2, <1>3
<1>4. CASE j # 1
  <2>1. j - 1 \in 1..i /\ j - 1 \in 1..Len(Tail(p)) /\ Tail(p)[j - 1] = p[(j - 1) + 1]
    BY <1>1, <1>2, <1>4
  <2>2. (j - 1) + 1 = j
    BY <1>2
  <2>3. QED
    BY <1>2, <2>1, <2>2 DEF PublishedBy
<1>5. QED
  BY <1>3, <1>4

\* A plan without its first step is good where that step was published.
LEMMA GoodTail ==
    ASSUME NEW p, NEW reach, GoodPlan(p, reach), Len(p) > 1,
           NEW done, published \cup passed \cup p[1].publish \subseteq done
    PROVE  /\ Tail(p) \in Seq(Steps) /\ Tail(p) # << >>
           /\ \A i \in 1..Len(Tail(p)) : Tail(p)[i].save # None =>
                 Behind(Tail(p)[i].save, reach) \subseteq done \cup PublishedBy(Tail(p), i)
           /\ Tail(p)[Len(Tail(p))].save # None
<1>1. p \in Seq(Steps) /\ Len(p) \in Nat /\ p # << >>
  BY LenProperties, EmptySeq DEF GoodPlan
<1>2. /\ Tail(p) \in Seq(Steps) /\ Len(Tail(p)) = Len(p) - 1
      /\ \A j \in 1..Len(Tail(p)) : Tail(p)[j] = p[j + 1]
  BY <1>1, HeadTailProperties
<1>3. ASSUME NEW i \in 1..Len(Tail(p)), Tail(p)[i].save # None
      PROVE  Behind(Tail(p)[i].save, reach) \subseteq done \cup PublishedBy(Tail(p), i)
  <2>1. i + 1 \in 1..Len(p) /\ Tail(p)[i] = p[i + 1]
    BY <1>1, <1>2, <1>3
  <2>2. Behind(p[i + 1].save, reach) \subseteq published \cup passed \cup PublishedBy(p, i + 1)
    BY <1>3, <2>1 DEF GoodPlan
  <2>3. \A w : w \in PublishedBy(p, i + 1) =>
               w \in p[1].publish \/ w \in PublishedBy(Tail(p), i)
    BY <1>1, <1>3, PublishedFirst
  <2>4. QED
    BY <2>1, <2>2, <2>3
<1>4. Len(Tail(p)) \in 1..Len(Tail(p)) /\ Len(Tail(p)) # 0
  BY <1>1, <1>2
<1>5. Tail(p) # << >>
  BY <1>2, <1>4, EmptySeq
<1>6. Tail(p)[Len(Tail(p))] = p[Len(p)]
  BY <1>1, <1>2, <1>4
<1>7. p[Len(p)].save # None
  BY <1>1 DEF GoodPlan
<1>8. QED
  BY <1>2, <1>3, <1>5, <1>6, <1>7

\* The first step of the plan of a run.
LEMMA FirstStep ==
    ASSUME BridgeIInv, plan # << >>
    PROVE  /\ Head(plan) = plan[1] /\ plan[1] \in Steps
           /\ Len(plan) > 1 \/ Len(plan) = 1
           /\ \A w : w \in PublishedBy(plan, 1) <=> w \in plan[1].publish
           /\ plan[1].save # None =>
                 Behind(plan[1].save, Reach) \subseteq published \cup passed \cup plan[1].publish
           /\ Len(plan) = 1 => plan[1].save # None
<1> USE DEF BridgeIInv
<1>1. plan \in Seq(Steps)
  BY DEF PlanCovered, GoodPlan
<1>2. Len(plan) \in Nat /\ Len(plan) >= 1
  BY <1>1, LenProperties, EmptySeq
<1>3. plan[1] \in Steps /\ Head(plan) = plan[1]
  BY <1>1, <1>2, ElementOfSeq, HeadTailProperties
<1>4. \A w : w \in PublishedBy(plan, 1) <=> w \in plan[1].publish
  BY DEF PublishedBy
<1>5. plan[1].save # None =>
          Behind(plan[1].save, Reach) \subseteq published \cup passed \cup plan[1].publish
  <2>1. plan[1].save # None =>
          Behind(plan[1].save, Reach) \subseteq published \cup passed \cup PublishedBy(plan, 1)
    BY <1>2 DEF PlanCovered, GoodPlan
  <2>2. QED
    BY <1>4, <2>1
<1>6. Len(plan) = 1 => plan[1].save # None
  BY DEF PlanCovered, GoodPlan
<1>7. Len(plan) > 1 \/ Len(plan) = 1
  <2> DEFINE l == Len(plan)
  <2>1. l \in Nat /\ l >= 1
    BY <1>2
  <2> HIDE DEF l
  <2>2. l > 1 \/ l = 1
    BY <2>1
  <2>3. QED
    BY <2>2 DEF l
<1>8. QED
  BY <1>3, <1>4, <1>5, <1>6, <1>7

\* The step is done: the run goes on to the next one, or from where it ends.
LEMMA ProceedBridge ==
    ASSUME BridgeIInv, ChainRest, Bridge!Proceed, plan # << >>,
           plan[1].publish \subseteq published', published \subseteq published',
           UNCHANGED <<initial, passed, newest>>,
           top' = top \/ top' = Reach,
           cursor' = None => cursor = None /\ top' = top,
           HistoryTypes', Bridge!CursorCovered'
    PROVE  BridgeIInv'
<1> USE DEF BridgeIInv
<1>1. ChainTypes'
  BY ChainStays
<1>2. Reach' = Reach
  BY DEF Reach, Bridge!Larger, HistoryTypes, Places, Bridge!Withdrawals
<1>3. Steps' = Steps /\ Cursors' = Cursors /\ Bridge!Withdrawals' = Bridge!Withdrawals
  BY DEF Steps, Cursors, Bridge!Withdrawals, ChainRest
<1>4. /\ Head(plan) = plan[1] /\ plan[1] \in Steps
      /\ Len(plan) > 1 \/ Len(plan) = 1
      /\ plan[1].save # None =>
            Behind(plan[1].save, Reach) \subseteq published \cup passed \cup plan[1].publish
      /\ Len(plan) = 1 => plan[1].save # None
  BY FirstStep
<1>5. ASSUME start # None, kind = "solana" => start # 0
      PROVE  Behind(start, Reach) \subseteq Behind(start, top)
  <2>1. CASE kind = "solana"
    <3>1. newest < start /\ newest \in Nat /\ top \in Nat
      BY <1>5, <2>1, BridgeTypes DEF PlanCovered, HistoryTypes, Places, Bridge!Withdrawals
    <3>2. start \in Nat /\ \A w \in Bridge!Withdrawals : w \in Nat
      BY <1>5, BridgeTypes
    <3>3. QED
      BY <2>1, <3>1, <3>2 DEF Behind, Reach, Bridge!Larger
  <2>2. CASE kind # "solana"
    BY <2>2 DEF Behind
  <2>3. QED
    BY <2>1, <2>2
<1>6. /\ Behind(start, top)' = Behind(start', top')
      /\ Behind(initial, 0)' = Behind(initial, 0)
  BY <1>3 DEF Behind, ChainRest
<1>7. cursor' = None => top' = 0 /\ (kind # "solana" => Behind(initial, 0)' \subseteq passed')
  BY <1>6 DEF StartCovered
<1>8. ASSUME UNCHANGED start PROVE StartCovered'
  <2>1. ASSUME start # None, kind = "solana" => start # 0
        PROVE  Behind(start, top)' \subseteq published' \cup passed'
    <3>1. Behind(start, top') \subseteq Behind(start, top)
      BY <1>5, <2>1
    <3>2. Behind(start, top)' = Behind(start, top')
      BY <1>6, <1>8
    <3>3. QED
      BY <2>1, <3>1, <3>2 DEF StartCovered
  <2>2. QED
    BY <1>7, <1>8, <2>1 DEF StartCovered, ChainRest
<1>9. CASE Len(plan) > 1
  <2>1. runAt' = "publish" /\ plan' = Tail(plan) /\ start' = start
    BY <1>9 DEF Bridge!Proceed
  <2>2. GoodPlan(plan, Reach)' /\ Tail(plan) # << >>
    <3> DEFINE done == published' \cup passed'
    <3>1. published \cup passed \cup plan[1].publish \subseteq done
      OBVIOUS
    <3>2. GoodPlan(plan, Reach)
      BY DEF PlanCovered
    <3> HIDE DEF done
    <3>3. /\ plan' \in Seq(Steps) /\ plan' # << >>
          /\ \A i \in 1..Len(plan') : plan'[i].save # None =>
                Behind(plan'[i].save, Reach) \subseteq done \cup PublishedBy(plan', i)
          /\ plan'[Len(plan')].save # None
      BY <1>9, <2>1, <3>1, <3>2, GoodTail
    <3>5. \A i : Behind(plan'[i].save, Reach) = Behind(plan[i].save, Reach)'
      BY <1>2, <1>3 DEF Behind, ChainRest
    <3>6. (plan \in Seq(Steps))'
      BY <1>3, <3>3
    <3>7. \A i \in 1..Len(plan') : plan'[i].save # None =>
              Behind(plan[i].save, Reach)' \subseteq
                  published' \cup passed' \cup PublishedBy(plan', i)
      <4>1. SUFFICES ASSUME NEW i \in 1..Len(plan'), plan'[i].save # None
                     PROVE  Behind(plan[i].save, Reach)' \subseteq
                                published' \cup passed' \cup PublishedBy(plan', i)
        OBVIOUS
      <4>2. Behind(plan'[i].save, Reach) \subseteq done \cup PublishedBy(plan', i)
        BY <3>3, <4>1
      <4>3. Behind(plan'[i].save, Reach) = Behind(plan[i].save, Reach)'
        BY <3>5
      <4>4. QED
        BY <4>2, <4>3 DEF done
    <3>8. \A i : PublishedBy(plan', i) = PublishedBy(plan, i)'
      BY DEF PublishedBy
    <3>9. QED
      BY <2>1, <3>3, <3>6, <3>7, <3>8 DEF GoodPlan
  <2>3. RunTypes'
    BY <1>3, <2>1, <2>2 DEF RunTypes
  <2>4. PlanCovered'
    BY <2>1, <2>2 DEF PlanCovered, ChainRest
  <2>5. QED
    BY <1>1, <1>8, <2>1, <2>3, <2>4
<1>10. CASE ~(Len(plan) > 1) /\ kind = "evm"
  <2>1. runAt' = "idle" /\ plan' = << >> /\ start' = None
    BY <1>10 DEF Bridge!Proceed, Bridge!Leave
  <2>2. RunTypes' /\ StartCovered'
    BY <1>7, <1>10, <2>1 DEF RunTypes, StartCovered, ChainRest
  <2>3. PlanCovered'
    BY <2>1, EmptySeq DEF PlanCovered, GoodPlan
  <2>4. QED
    BY <1>1, <2>2, <2>3
<1>11. CASE ~(Len(plan) > 1) /\ kind # "evm"
  <2>1. /\ runAt' = "fetch" /\ plan' = << >> /\ plan[1].save # None /\ plan[1].save \in Cursors
        /\ start' = IF kind = "solana" THEN start ELSE plan[1].save
    <3>1. Len(plan) = 1
      BY <1>4, <1>11
    <3>2. plan[1].save # None /\ plan[1].save \in Cursors
      BY <1>4, <3>1 DEF Steps
    <3>3. QED
      BY <1>4, <1>11, <3>2 DEF Bridge!Proceed
  <2>2. RunTypes'
    BY <1>3, <2>1, BridgeTypes DEF RunTypes
  <2>3. PlanCovered'
    BY <2>1, EmptyPlan DEF PlanCovered, GoodPlan
  <2>4. StartCovered'
    <3>1. CASE kind = "solana"
      BY <1>8, <2>1, <3>1
    <3>2. CASE kind # "solana"
      <4>1. Behind(start, top)' \subseteq published' \cup passed'
        BY <1>4, <1>6, <2>1, <3>2 DEF Behind
      <4>2. QED
        BY <1>7, <3>2, <4>1 DEF StartCovered, ChainRest
    <3>3. QED
      BY <3>1, <3>2
  <2>5. QED
    BY <1>1, <2>2, <2>3, <2>4
<1>12. QED
  BY <1>9, <1>10, <1>11

LEMMA PublishBridge ==
    ASSUME BridgeIInv, Bridge!Publish PROVE BridgeIInv'
<1> USE DEF BridgeIInv
<1>1. plan # << >> /\ runAt = "publish"
  BY DEF Bridge!Publish, RunTypes
<1>2. Head(plan) = plan[1] /\ plan[1] \in Steps
  BY <1>1, FirstStep
<1>3. /\ ChainRest
      /\ UNCHANGED <<cursor, initial, withdrawals, lost, faults, passed, newest, top>>
      /\ published' = published \cup plan[1].publish
      /\ queue' = queue \cup plan[1].publish
      /\ IF plan[1].save = None THEN Bridge!Proceed
         ELSE runAt' = "save" /\ UNCHANGED <<start, plan>>
  BY <1>2 DEF Bridge!Publish, Bridge!chainVars, ChainRest
<1>4. plan[1].publish \subseteq Bridge!Withdrawals
  BY <1>2 DEF Steps
<1>5. HistoryTypes'
  BY <1>3, <1>4 DEF HistoryTypes, Places, Cursors, Bridge!Withdrawals, ChainRest
<1>6. Bridge!CursorCovered'
  BY <1>3 DEF Bridge!CursorCovered, Bridge!Withdrawals, ChainRest
<1>7. CASE plan[1].save = None
  BY <1>1, <1>3, <1>5, <1>6, <1>7, ProceedBridge
<1>8. CASE plan[1].save # None
  <2>1. runAt' = "save" /\ UNCHANGED <<start, plan>>
    BY <1>3, <1>8
  <2>2. ChainTypes'
    BY <1>3, ChainStays
  <2>3. RunTypes'
    BY <1>1, <1>3, <2>1 DEF RunTypes, Cursors, ChainRest
  <2>4. StartCovered'
    BY <1>3, <2>1 DEF StartCovered, Behind, Bridge!Withdrawals, ChainRest
  <2>5. GoodPlan(plan, Reach)
    BY DEF PlanCovered
  <2>6. Reach' = Reach
    BY <1>3 DEF Reach, Bridge!Larger
  <2>7. (plan \in Seq(Steps))'
    BY <1>3, <2>1, <2>5 DEF GoodPlan, Steps, Cursors, Bridge!Withdrawals, ChainRest
  <2>8. \A i : Behind(plan[i].save, Reach)' = Behind(plan[i].save, Reach)
    BY <1>3, <2>1, <2>6 DEF Behind, Bridge!Withdrawals, ChainRest
  <2>9. \A i : PublishedBy(plan, i)' = PublishedBy(plan, i)
    BY <2>1 DEF PublishedBy
  <2>10. GoodPlan(plan, Reach)'
    BY <1>3, <2>1, <2>5, <2>7, <2>8, <2>9 DEF GoodPlan
  <2>11. PlanCovered'
    BY <1>3, <1>8, <2>1, <2>10 DEF PlanCovered, ChainRest
  <2>12. QED
    BY <1>5, <1>6, <2>2, <2>3, <2>4, <2>11
<1>9. QED
  BY <1>7, <1>8

LEMMA SetStartCursorBridge ==
    ASSUME BridgeIInv, Bridge!SetStartCursor PROVE BridgeIInv'
<1> USE DEF BridgeIInv
<1>1. plan # << >> /\ plan[1].save # None /\ plan[1].publish \subseteq published
  BY DEF Bridge!SetStartCursor, RunTypes, PlanCovered
<1>2. /\ Head(plan) = plan[1] /\ plan[1] \in Steps
      /\ Behind(plan[1].save, Reach) \subseteq published \cup passed \cup plan[1].publish
  BY <1>1, FirstStep
<1>3. /\ ChainRest
      /\ UNCHANGED <<initial, published, queue, withdrawals, lost, faults, passed, newest>>
      /\ cursor' = plan[1].save /\ top' = Reach
      /\ Bridge!Proceed
  BY <1>2 DEF Bridge!SetStartCursor, Bridge!RunRest, Bridge!chainVars, Bridge!indexVars,
              ChainRest, Reach
<1>4. plan[1].save \in Cursors /\ Reach \in Places
  BY <1>1, <1>2 DEF Steps, Reach, Bridge!Larger, HistoryTypes
<1>5. HistoryTypes'
  BY <1>3, <1>4 DEF HistoryTypes, Places, Cursors, Bridge!Withdrawals, ChainRest
<1>6. Behind(plan[1].save, Reach) \subseteq published \cup passed
  BY <1>1, <1>2
<1>7. Bridge!CursorCovered'
  <2>1. SUFFICES ASSUME NEW w \in Bridge!Withdrawals,
                        IF kind = "solana" THEN plan[1].save <= w /\ w <= Reach
                        ELSE chain[w] < plan[1].save
                 PROVE  IF kind = "solana" THEN w \in published
                        ELSE w \in published \cup passed
    BY <1>3 DEF Bridge!CursorCovered, Bridge!Withdrawals, ChainRest
  <2>2. w \in published \cup passed
    BY <1>6, <2>1 DEF Behind
  <2>3. QED
    BY <2>2 DEF StartCovered
<1>8. QED
  BY <1>1, <1>3, <1>5, <1>7, ProceedBridge

LEMMA SetStartCursorFailsBridge ==
    ASSUME BridgeIInv, Bridge!SetStartCursorFails PROVE BridgeIInv'
<1> USE DEF BridgeIInv
<1>1. /\ ChainRest /\ plan # << >> /\ plan[1].publish \subseteq published
      /\ UNCHANGED <<cursor, initial, published, queue, withdrawals, lost, passed,
                     newest, top>>
      /\ faults' = faults + 1 /\ faults < MaxFaults
      /\ Bridge!Proceed \/ Bridge!Leave
  BY DEF Bridge!SetStartCursorFails, Bridge!RunRest, Bridge!chainVars, Bridge!indexVars,
         ChainRest, RunTypes, PlanCovered
<1>2. HistoryTypes'
  BY <1>1 DEF HistoryTypes, Places, Cursors, Bridge!Withdrawals, ChainRest
<1>3. Bridge!CursorCovered'
  BY <1>1 DEF Bridge!CursorCovered, Bridge!Withdrawals, ChainRest
<1>4. CASE Bridge!Proceed
  BY <1>1, <1>2, <1>3, <1>4, ProceedBridge
<1>5. CASE Bridge!Leave
  <2>1. cursor = None /\ kind # "solana" => Behind(initial', 0) \subseteq passed'
    BY <1>1 DEF StartCovered
  <2>2. QED
    BY <1>1, <1>2, <1>5, <2>1, LeaveBridge
<1>6. QED
  BY <1>1, <1>4, <1>5

LEMMA CallFailsBridge ==
    ASSUME BridgeIInv, Bridge!CallFails PROVE BridgeIInv'
<1> USE DEF BridgeIInv
<1>1. /\ ChainRest /\ Bridge!Leave
      /\ UNCHANGED <<cursor, initial, published, queue, withdrawals, lost, passed,
                     newest, top>>
      /\ faults' = faults + 1 /\ faults < MaxFaults
  BY DEF Bridge!CallFails, Bridge!RunRest, Bridge!chainVars, Bridge!indexVars, ChainRest
<1>2. HistoryTypes'
  BY <1>1 DEF HistoryTypes, Places, Cursors, Bridge!Withdrawals, ChainRest
<1>3. cursor = None /\ kind # "solana" => Behind(initial', 0) \subseteq passed'
  BY <1>1 DEF StartCovered
<1>4. QED
  BY <1>1, <1>2, <1>3, LeaveBridge

LEMMA RestartBridge ==
    ASSUME BridgeIInv, Bridge!Restart PROVE BridgeIInv'
<1> USE DEF BridgeIInv
<1>1. /\ ChainRest /\ Bridge!Leave
      /\ UNCHANGED <<cursor, published, queue, withdrawals, lost, newest, top>>
      /\ faults' = faults + 1 /\ faults < MaxFaults
      /\ initial' = Bridge!InitialCursor(kind, skip, chain, height)
      /\ passed' = IF cursor # None \/ kind = "solana" THEN passed
                   ELSE passed \cup {w \in Bridge!Withdrawals : chain[w] < initial'}
  BY DEF Bridge!Restart, Bridge!chainVars, Bridge!indexVars, ChainRest
<1>2. initial' \in Cursors
  <2>1. CASE kind = "solana" /\ (~skip \/ chain = << >>)
    BY <1>1, <2>1, BridgeTypes DEF Bridge!InitialCursor, Cursors
  <2>2. CASE kind = "solana" /\ ~(~skip \/ chain = << >>)
    <3>1. initial' = Bridge!Larger(1, Len(chain) - PageSize + 1)
      BY <1>1, <2>2 DEF Bridge!InitialCursor
    <3>2. Len(chain) \in Nat /\ Len(chain) # 0
      BY <2>2, BridgeTypes, EmptySeq DEF ChainTypes
    <3>3. QED
      BY <2>2, <3>1, <3>2 DEF Bridge!Larger, Cursors
  <2>3. CASE kind # "solana"
    BY <1>1, <2>3, BridgeTypes DEF Bridge!InitialCursor, Cursors
  <2>4. QED
    BY <2>1, <2>2, <2>3
<1>3. HistoryTypes'
  <2>1. Bridge!Withdrawals' = Bridge!Withdrawals /\ Cursors' = Cursors /\ Places' = Places
    BY <1>1 DEF Places, Cursors, Bridge!Withdrawals, ChainRest
  <2>2. passed' \subseteq Bridge!Withdrawals
    BY <1>1 DEF HistoryTypes
  <2>3. faults' \in 0..MaxFaults
    BY <1>1 DEF HistoryTypes
  <2>4. QED
    BY <1>1, <1>2, <2>1, <2>2, <2>3 DEF HistoryTypes
<1>4. cursor = None /\ kind # "solana" => Behind(initial', 0) \subseteq passed'
  BY <1>1 DEF Behind
<1>5. QED
  BY <1>1, <1>3, <1>4, LeaveBridge

\* What leaves the run alone.
LEMMA RunStays ==
    ASSUME BridgeIInv, ChainRest, HistoryTypes',
           UNCHANGED <<cursor, initial, start, runAt, plan, published, passed, newest, top>>
    PROVE  BridgeIInv'
<1> USE DEF BridgeIInv
<1>1. ChainTypes'
  BY ChainStays
<1>2. RunTypes'
  BY DEF RunTypes, Cursors, ChainRest
<1>3. Bridge!CursorCovered' /\ StartCovered'
  BY DEF Bridge!CursorCovered, StartCovered, Behind, Bridge!Withdrawals, ChainRest
<1>4. Reach' = Reach /\ Steps' = Steps
  BY DEF Reach, Bridge!Larger, Steps, Cursors, Bridge!Withdrawals, ChainRest
<1>5. \A i : /\ Behind(plan[i].save, Reach)' = Behind(plan[i].save, Reach)
             /\ PublishedBy(plan, i)' = PublishedBy(plan, i)
  BY <1>4 DEF Behind, Bridge!Withdrawals, ChainRest, PublishedBy
<1>6. GoodPlan(plan, Reach)'
  BY <1>4, <1>5 DEF GoodPlan, PlanCovered
<1>7. PlanCovered'
  BY <1>6 DEF PlanCovered, ChainRest
<1>8. QED
  BY <1>1, <1>2, <1>3, <1>7

LEMMA BridgeNext == BridgeIInv /\ [Bridge!Next]_bridgeVars => BridgeIInv'
<1> SUFFICES ASSUME BridgeIInv, [Bridge!Next]_bridgeVars PROVE BridgeIInv'
  OBVIOUS
<1>1. CASE Bridge!NewBlock
  BY <1>1, NewBlockBridge
<1>2. CASE Bridge!GetStartCursor
  BY <1>2, GetStartCursorBridge
<1>3. CASE Bridge!Fetch
  BY <1>3, FetchBridge
<1>4. CASE Bridge!Publish
  BY <1>4, PublishBridge
<1>5. CASE Bridge!SetStartCursor
  BY <1>5, SetStartCursorBridge
<1>6. CASE Bridge!SetStartCursorFails
  BY <1>6, SetStartCursorFailsBridge
<1>7. CASE Bridge!CallFails
  BY <1>7, CallFailsBridge
<1>8. CASE Bridge!Restart
  BY <1>8, RestartBridge
<1>9. ASSUME Bridge!Handle \/ Bridge!GiveUp PROVE BridgeIInv'
  <2>1. PICK batch \in SUBSET queue, ok \in BOOLEAN : Bridge!Index(batch, ok)
    BY <1>9 DEF Bridge!Handle, Bridge!GiveUp
  <2>2. /\ ChainRest
        /\ UNCHANGED <<cursor, initial, start, runAt, plan, published, passed, newest, top>>
    BY <2>1 DEF Bridge!Index, Bridge!chainVars, Bridge!runVars, ChainRest
  <2>3. HistoryTypes'
    <3>1. Bridge!Withdrawals' = Bridge!Withdrawals /\ Cursors' = Cursors /\ Places' = Places
      BY <2>2 DEF Places, Cursors, Bridge!Withdrawals, ChainRest
    <3>2. HistoryTypes
      BY DEF BridgeIInv
    <3>3. faults' \in 0..MaxFaults
      BY <2>1, <3>2 DEF Bridge!Index, HistoryTypes
    <3>4. queue' \subseteq published /\ withdrawals' \subseteq published
      BY <2>1, <3>2 DEF Bridge!Index, HistoryTypes
    <3>5. lost' \subseteq Bridge!Withdrawals
      BY <2>1, <3>2 DEF Bridge!Index, HistoryTypes
    <3>6. QED
      BY <2>2, <3>1, <3>2, <3>3, <3>4, <3>5 DEF HistoryTypes
  <2>4. QED
    BY <2>2, <2>3, RunStays
<1>10. CASE UNCHANGED bridgeVars
  <2>1. /\ ChainRest /\ HistoryTypes'
        /\ UNCHANGED <<cursor, initial, start, runAt, plan, published, passed, newest, top>>
    BY <1>10 DEF bridgeVars, BridgeIInv, HistoryTypes, Places, Cursors, Bridge!Withdrawals,
                 ChainRest
  <2>2. QED
    BY <2>1, RunStays
<1>11. QED
  BY <1>1, <1>2, <1>3, <1>4, <1>5, <1>6, <1>7, <1>8, <1>9, <1>10 DEF Bridge!Next

LEMMA BridgeAlways == SpecAll => []BridgeIInv
<1>1. InitAll => BridgeIInv
  BY BridgeInit DEF InitAll
<1>2. BridgeIInv /\ [NextAny]_allVars => BridgeIInv'
  BY OneMoves, BridgeNext
<1>3. QED
  BY <1>1, <1>2, PTL DEF SpecAll

\* Whatever call fails and whenever the process is started again, a producer
\* of any of the four kinds has published every withdrawal that the cursor it
\* saves leaves behind, but for those SkipCatchup passes over.
THEOREM CursorLeavesNoneBehind == SpecAll => []CursorCovered
<1>1. BridgeIInv => CursorCovered
  BY DEF BridgeIInv, CursorCovered
<1>2. QED
  BY <1>1, BridgeAlways, PTL

HIDE BridgeAssumption

-----------------------------------------------------------------------------
(* CachedEvidence *)

\* A list is not empty, holds rows of its table, and all of them where there
\* may be one.
Sound(k, o, length) ==
    /\ length \in 1..table[k][o]
    /\ k \in UniqueTables => length = table[k][o]

\* So is a list that a request has read, although it is not cached yet.
RequestSound ==
    \A q \in Callers : request[q] # None =>
        Sound(request[q].kind, request[q].of, request[q].length)

EvidenceIInv == Evidence!TypeOK /\ Evidence!CachedListSound /\ RequestSound

LEMMA EvidenceInit == Evidence!Init => EvidenceIInv
BY EvidenceAssumption DEF Evidence!Init, EvidenceIInv, Evidence!TypeOK,
   Evidence!CachedListSound, RequestSound

LEMMA EvidenceNext == EvidenceIInv /\ [Evidence!Next]_evidenceVars => EvidenceIInv'
<1> SUFFICES ASSUME EvidenceIInv, [Evidence!Next]_evidenceVars PROVE EvidenceIInv'
  OBVIOUS
<1> USE EvidenceAssumption DEF EvidenceIInv, Sound
<1>1. ASSUME NEW k \in EvidenceTables, NEW batch \in (SUBSET Operations) \ {{}},
             Evidence!InsertBatch(k, batch)
      PROVE  EvidenceIInv'
  <2> USE <1>1 DEF Evidence!InsertBatch, Evidence!TypeOK
  <2>1. Evidence!TypeOK'
    OBVIOUS
  <2>2. \A l \in EvidenceTables, o \in Operations :
            /\ table[l][o] \in Nat /\ table'[l][o] \in Nat
            /\ table[l][o] <= table'[l][o]
            /\ l \in UniqueTables /\ table[l][o] # 0 => table'[l][o] = table[l][o]
    OBVIOUS
  <2>3. Evidence!CachedListSound'
    BY <2>2 DEF Evidence!CachedListSound
  <2>4. RequestSound'
    BY <2>2 DEF RequestSound
  <2>5. QED
    BY <2>1, <2>3, <2>4
<1>2. ASSUME NEW q \in Callers, NEW k \in EvidenceTables, NEW o \in Operations,
             Evidence!ByTransferIndex(q, k, o)
      PROVE  EvidenceIInv'
  <2> USE <1>2 DEF Evidence!ByTransferIndex, Evidence!Cacheable, Evidence!TypeOK
  <2>1. Evidence!TypeOK'
    OBVIOUS
  <2>2. Evidence!CachedListSound'
    BY DEF Evidence!CachedListSound
  <2>3. RequestSound'
    BY DEF RequestSound
  <2>4. QED
    BY <2>1, <2>2, <2>3
<1>3. ASSUME NEW q \in Callers, Evidence!SetList(q) PROVE EvidenceIInv'
  <2> USE <1>3 DEF Evidence!SetList, Evidence!TypeOK
  <2>1. Evidence!TypeOK'
    OBVIOUS
  <2>2. Evidence!CachedListSound'
    BY DEF Evidence!CachedListSound, RequestSound
  <2>3. RequestSound'
    BY DEF RequestSound
  <2>4. QED
    BY <2>1, <2>2, <2>3
<1>4. ASSUME NEW q \in Callers, Evidence!SetListFails(q) PROVE EvidenceIInv'
  BY <1>4 DEF Evidence!SetListFails, Evidence!TypeOK, Evidence!CachedListSound, RequestSound
<1>5. CASE UNCHANGED evidenceVars
  BY <1>5 DEF evidenceVars, Evidence!TypeOK, Evidence!CachedListSound, RequestSound
<1>6. QED
  BY <1>1, <1>2, <1>3, <1>4, <1>5 DEF Evidence!Next

LEMMA EvidenceAlways == SpecAll => []EvidenceIInv
<1>1. InitAll => EvidenceIInv
  BY EvidenceInit DEF InitAll
<1>2. EvidenceIInv /\ [NextAny]_allVars => EvidenceIInv'
  BY OneMoves, EvidenceNext
<1>3. QED
  BY <1>1, <1>2, PTL DEF SpecAll

\* A cached list of evidence is never empty and holds rows of its table only,
\* whoever read and cached it when, although it is never invalidated.
THEOREM EvidenceStays == SpecAll => []CachedListSound
<1>1. EvidenceIInv => CachedListSound
  BY DEF EvidenceIInv, CachedListSound
<1>2. QED
  BY <1>1, EvidenceAlways, PTL

-----------------------------------------------------------------------------
(* TransferPages *)

\* Is the walk one along the ids?
ById == sort.by = "id" \/ (Pages!InOrder /\ ~retimed)

\* Is a transfer not before another one, as the walk goes?
NotBefore(i, j) == IF sort.descending THEN i <= j ELSE i >= j

\* Is a transfer on a page of this cursor, if the page is long enough?
Beyond(i, c) == c = 0 \/ (NotBefore(i, c) /\ i # c)

\* A page along the ids, whenever it was read, goes from its cursor to its last
\* transfer without a gap.
PageSound(page, c) ==
    /\ \A i \in page.rows : i <= page.of /\ Beyond(i, c) /\ NotBefore(page.last, i)
    /\ page.last \in page.rows
    /\ \A i \in 1..page.of : Beyond(i, c) /\ NotBefore(page.last, i) => i \in page.rows

\* A page in the cache, or on the way to it, is such a page.
PagesSound ==
    /\ \A c \in Pages!Cursors : cache[c] # None => PageSound(cache[c], c)
    /\ \A r \in Readers : reading[r] # None => PageSound(reading[r].page, reading[r].at)

\* A walk along the ids has seen what lies on its side of the cursor, as far as
\* its pages knew of it, and nothing else, so that nothing comes twice.
AlongIds ==
    /\ ~again
    /\ pageCursor = 0 => seen = {}
    /\ \A i \in seen : pageCursor # 0 /\ NotBefore(pageCursor, i)
    /\ pageCursor # 0 =>
          \A i \in 1..(IF sort.descending THEN known ELSE pageCursor) :
             NotBefore(pageCursor, i) => i \in seen
    /\ ended => 1..(IF sort.descending THEN known ELSE begun) \subseteq seen

PagesIInv == Pages!TypeOK /\ (pageCursor = 0 => known = 0) /\ (ById => PagesSound /\ AlongIds)

LEMMA PagesInit == Pages!Init => PagesIInv
<1> SUFFICES ASSUME Pages!Init PROVE PagesIInv
  OBVIOUS
<1>1. time \in Seq(Times) /\ Len(time) = 0 /\ MaxTransfers \in Nat
  BY PagesAssumption DEF Pages!Init
<1>2. Pages!TypeOK
  <2>1. cache \in [Pages!Cursors -> Pages!Page \cup {None}]
    BY DEF Pages!Init
  <2>2. reading \in [Readers -> [at : Pages!Cursors, page : Pages!Page] \cup {None}]
    BY DEF Pages!Init
  <2>3. 0 \in 0..Len(time) /\ Len(time) <= MaxTransfers
    BY <1>1
  <2>4. QED
    BY <1>1, <2>1, <2>2, <2>3 DEF Pages!Init, Pages!TypeOK
<1>3. PagesSound /\ AlongIds
  BY DEF Pages!Init, PagesSound, AlongIds
<1>4. QED
  BY <1>2, <1>3 DEF PagesIInv, Pages!Init

\* What the types of a step's outcome rest on, if the table does not shrink.
LEMMA PagesGrow ==
    ASSUME Pages!TypeOK, Len(time') \in Nat, Len(time') >= Len(time)
    PROVE  /\ Pages!Page \subseteq Pages!Page'
           /\ 0..Len(time) \subseteq 0..Len(time')
           /\ Pages!Transfers \subseteq Pages!Transfers'
<1>1. Len(time) \in Nat
  BY DEF Pages!TypeOK
<1>2. 1..Len(time) \subseteq 1..Len(time') /\ 0..Len(time) \subseteq 0..Len(time')
  BY <1>1
<1>3. QED
  BY <1>2 DEF Pages!Page, Pages!Transfers

\* The table changes, and the rest does not.
LEMMA TablePages ==
    ASSUME PagesIInv, Pages!Insert \/ Pages!Resubmit PROVE PagesIInv'
<1> USE PagesAssumption DEF PagesIInv
<1>1. UNCHANGED <<sort, cache, reading, pageCursor, ended, seen, again, begun, known>>
  BY DEF Pages!Insert, Pages!Resubmit, Pages!walkVars
<1>2. /\ time \in Seq(Times) /\ Len(time) \in Nat /\ Len(time) <= MaxTransfers
  BY DEF Pages!TypeOK
<1>3. /\ time' \in Seq(Times) /\ Len(time') \in Nat /\ Len(time') <= MaxTransfers
      /\ Len(time') >= Len(time) /\ retimed' \in BOOLEAN
      /\ ById' => ById
  <2>1. CASE Pages!Insert
    <3>1. PICK t \in Times : time' = Append(time, t)
      BY <2>1 DEF Pages!Insert
    <3>2. /\ time' \in Seq(Times) /\ Len(time') = Len(time) + 1
          /\ \A i \in 1..Len(time) : time'[i] = time[i]
      BY <1>2, <3>1
    <3>3. retimed' = retimed /\ Len(time) < MaxTransfers
      BY <2>1 DEF Pages!Insert
    <3>4. Pages!InOrder' => Pages!InOrder
      BY <1>2, <3>2 DEF Pages!InOrder, Pages!Transfers
    <3>5. QED
      BY <1>1, <1>2, <3>2, <3>3, <3>4 DEF ById, Pages!TypeOK
  <2>2. CASE Pages!Resubmit
    <3>1. PICK i \in Pages!Transfers : \E t \in Times : time' = [time EXCEPT ![i] = t]
      BY <2>2 DEF Pages!Resubmit
    <3>2. PICK t \in Times : time' = [time EXCEPT ![i] = t]
      BY <3>1
    <3>3. time' \in Seq(Times) /\ Len(time') = Len(time)
      BY <1>2, <3>1, <3>2, ExceptSeq DEF Pages!Transfers
    <3>4. retimed' = TRUE
      BY <2>2 DEF Pages!Resubmit
    <3>5. QED
      BY <1>1, <1>2, <3>3, <3>4 DEF ById
  <2>3. QED
    BY <2>1, <2>2
<1>4. Pages!TypeOK'
  <2>1. /\ Pages!Page \subseteq Pages!Page' /\ 0..Len(time) \subseteq 0..Len(time')
        /\ Pages!Transfers \subseteq Pages!Transfers'
    BY <1>3, PagesGrow
  <2>2. cache' \in [Pages!Cursors -> Pages!Page' \cup {None}]
    BY <1>1, <2>1 DEF Pages!TypeOK
  <2>3. reading' \in [Readers -> [at : Pages!Cursors, page : Pages!Page'] \cup {None}]
    <3>1. [at : Pages!Cursors, page : Pages!Page]
             \subseteq [at : Pages!Cursors, page : Pages!Page']
      BY <2>1
    <3>2. QED
      BY <1>1, <3>1 DEF Pages!TypeOK
  <2>4. QED
    BY <1>1, <1>3, <2>1, <2>2, <2>3 DEF Pages!TypeOK, Pages!Cursors
<1>5. ById' => PagesSound' /\ AlongIds'
  BY <1>1, <1>3 DEF PagesSound, PageSound, AlongIds, Beyond, NotBefore
<1>6. QED
  BY <1>1, <1>4, <1>5

\* Along the ids, one transfer comes before another if its id does.
LEMMA PrecedesById ==
    ASSUME Pages!TypeOK, ById, NEW i \in Pages!Transfers, NEW j \in Pages!Transfers
    PROVE  Pages!Precedes(i, j) <=> ~NotBefore(i, j)
<1>1. CASE sort.by = "id"
  BY <1>1 DEF Pages!Precedes, Pages!Transfers, NotBefore
<1>2. CASE sort.by # "id" /\ Pages!InOrder
  <2>1. time[i] \in Nat /\ time[j] \in Nat /\ i \in Nat /\ j \in Nat
    <3>1. /\ time \in Seq(Times) /\ Len(time) \in Nat
          /\ i \in 1..Len(time) /\ j \in 1..Len(time)
      BY DEF Pages!TypeOK, Pages!Transfers
    <3>2. time[i] \in Times /\ time[j] \in Times
      BY <3>1
    <3>3. time[i] \in Nat /\ time[j] \in Nat
      BY <3>2, PagesAssumption
    <3>4. QED
      BY <3>1, <3>3
  <2>2. (i < j => time[i] < time[j]) /\ (j < i => time[j] < time[i])
    BY <1>2 DEF Pages!InOrder
  <2>3. QED
    BY <1>2, <2>1, <2>2 DEF Pages!Precedes, NotBefore
<1>3. QED
  BY <1>1, <1>2 DEF ById

LEMMA PageCardinality == \A S : Pages!Cardinality(S) = Cardinality(S)
BY DEF Pages!Cardinality, Cardinality

\* A page that is read is well typed, and along the ids without a gap.
LEMMA SelectedSound ==
    ASSUME Pages!TypeOK, NEW c \in Pages!Cursors, NEW page \in Pages!Selected(c)
    PROVE  page \in Pages!Page /\ (ById => PageSound(page, c))
<1>1. /\ Pages!Transfers = 1..Len(time) /\ Len(time) \in Nat
      /\ Pages!AfterCursor(c) \subseteq Pages!Transfers /\ c \in Nat
  BY PagesAssumption DEF Pages!AfterCursor, Pages!Transfers, Pages!TypeOK, Pages!Cursors
<1>2. /\ page \in [rows : SUBSET Pages!AfterCursor(c), last : Pages!AfterCursor(c),
                   of : {Len(time)}]
      /\ Pages!IsPage(page.rows, c)
      /\ page.last \in page.rows /\ \A i \in page.rows : ~Pages!Precedes(page.last, i)
  BY DEF Pages!Selected
<1>3. page \in Pages!Page
  BY <1>1, <1>2 DEF Pages!Page
<1>4. ASSUME ById PROVE PageSound(page, c)
  <2>1. \A i \in page.rows :
           i \in 1..Len(time) /\ Beyond(i, c) /\ NotBefore(page.last, i)
    <3>1. \A i \in page.rows : i \in Pages!AfterCursor(c) /\ i \in Pages!Transfers
      BY <1>1, <1>2
    <3>2. \A i \in page.rows : Beyond(i, c)
      BY <1>1, <3>1 DEF Pages!AfterCursor, Beyond, NotBefore
    <3>3. \A i \in page.rows : NotBefore(page.last, i)
      BY <1>2, <1>4, <3>1, PrecedesById
    <3>4. QED
      BY <1>1, <3>1, <3>2, <3>3
  <2>2. ASSUME NEW i \in 1..Len(time), Beyond(i, c), NotBefore(page.last, i),
               i \notin page.rows
        PROVE  FALSE
    <3>1. i \in Pages!AfterCursor(c)
      BY <1>1, <2>2 DEF Pages!AfterCursor, Beyond, NotBefore
    <3>2. ~Pages!Precedes(i, page.last)
      BY <1>2, <2>2, <3>1 DEF Pages!IsPage
    <3>3. NotBefore(i, page.last)
      BY <1>1, <1>2, <1>4, <3>1, <3>2, PrecedesById
    <3>4. i = page.last
      BY <1>1, <1>2, <2>2, <3>3 DEF NotBefore
    <3>5. QED
      BY <1>2, <2>2, <3>4
  <2>3. page.of = Len(time)
    BY <1>2
  <2>4. QED
    BY <1>1, <1>2, <2>1, <2>2, <2>3 DEF PageSound
<1>5. QED
  BY <1>3, <1>4

\* Of the steps that leave the table, the sort and the walk alone: a page goes,
\* one is read, or one is put into the cache.
LEMMA CachePages ==
    ASSUME PagesIInv,
           Pages!Invalidate \/ \E r \in Readers : Pages!Select(r) \/ Pages!Set(r)
    PROVE  PagesIInv'
<1> USE DEF PagesIInv
<1>1. UNCHANGED <<time, sort, pageCursor, ended, seen, again, begun, known, retimed>>
  BY DEF Pages!Invalidate, Pages!Select, Pages!Set, Pages!walkVars
<1>2. ById' = ById
  BY <1>1 DEF ById, Pages!InOrder, Pages!Transfers
<1>3. /\ cache \in [Pages!Cursors -> Pages!Page \cup {None}]
      /\ reading \in [Readers -> [at : Pages!Cursors, page : Pages!Page] \cup {None}]
  BY DEF Pages!TypeOK
<1>4. ASSUME cache' \in [Pages!Cursors -> Pages!Page \cup {None}],
             reading' \in [Readers -> [at : Pages!Cursors, page : Pages!Page] \cup {None}],
             ById => PagesSound'
      PROVE  PagesIInv'
  <2>1. Pages!TypeOK'
    BY <1>1, <1>4 DEF Pages!TypeOK, Pages!Page, Pages!Transfers, Pages!Cursors
  <2>2. ById' => AlongIds'
    BY <1>1, <1>2 DEF AlongIds, NotBefore
  <2>3. QED
    BY <1>1, <1>2, <1>4, <2>1, <2>2
<1>5. CASE Pages!Invalidate
  <2>1. PICK c \in Pages!Cursors : cache' = [cache EXCEPT ![c] = None]
    BY <1>5 DEF Pages!Invalidate
  <2>2. UNCHANGED reading
    BY <1>5 DEF Pages!Invalidate
  <2>3. ById => PagesSound'
    BY <1>1, <1>3, <2>1, <2>2 DEF PagesSound, PageSound, Beyond, NotBefore
  <2>4. QED
    BY <1>3, <1>4, <2>1, <2>2, <2>3
<1>6. ASSUME NEW r \in Readers, Pages!Select(r) PROVE PagesIInv'
  <2>1. PICK c \in Pages!Cursors : \E page \in Pages!Selected(c) :
          reading' = [reading EXCEPT ![r] = [at |-> c, page |-> page]]
    BY <1>6 DEF Pages!Select
  <2>2. PICK page \in Pages!Selected(c) :
          reading' = [reading EXCEPT ![r] = [at |-> c, page |-> page]]
    BY <2>1
  <2>3. UNCHANGED cache
    BY <1>6 DEF Pages!Select
  <2>4. page \in Pages!Page /\ (ById => PageSound(page, c))
    BY SelectedSound
  <2>5. reading' \in [Readers -> [at : Pages!Cursors, page : Pages!Page] \cup {None}]
    BY <1>3, <2>2, <2>4
  <2>6. ById => PagesSound'
    <3>1. ASSUME ById, NEW q \in Readers, reading'[q] # None
          PROVE  PageSound(reading'[q].page, reading'[q].at)
      <4>1. CASE q = r
        BY <1>3, <2>2, <2>4, <3>1, <4>1
      <4>2. CASE q # r
        BY <1>3, <2>2, <3>1, <4>2 DEF PagesSound
      <4>3. QED
        BY <4>1, <4>2
    <3>2. QED
      BY <1>1, <2>3, <3>1 DEF PagesSound, PageSound, Beyond, NotBefore
  <2>7. QED
    BY <1>3, <1>4, <2>3, <2>5, <2>6
<1>7. ASSUME NEW r \in Readers, Pages!Set(r) PROVE PagesIInv'
  <2>1. /\ reading[r] # None
        /\ cache' = cache \/ cache' = [cache EXCEPT ![reading[r].at] = reading[r].page]
        /\ reading' = [reading EXCEPT ![r] = None]
    BY <1>7 DEF Pages!Set
  <2>2. reading[r].at \in Pages!Cursors /\ reading[r].page \in Pages!Page
    BY <1>3, <2>1
  <2>3. cache' \in [Pages!Cursors -> Pages!Page \cup {None}]
    BY <1>3, <2>1, <2>2
  <2>4. reading' \in [Readers -> [at : Pages!Cursors, page : Pages!Page] \cup {None}]
    BY <1>3, <2>1
  <2>5. ById => PagesSound'
    <3>1. ASSUME ById, NEW c \in Pages!Cursors, cache'[c] # None
          PROVE  PageSound(cache'[c], c)
      <4>1. CASE cache'[c] = cache[c]
        BY <3>1, <4>1 DEF PagesSound
      <4>2. CASE cache'[c] # cache[c]
        <5>1. c = reading[r].at /\ cache'[c] = reading[r].page
          BY <1>3, <2>1, <4>2
        <5>2. QED
          BY <2>1, <3>1, <5>1 DEF PagesSound
      <4>3. QED
        BY <4>1, <4>2
    <3>2. ASSUME ById, NEW q \in Readers, reading'[q] # None
          PROVE  PageSound(reading'[q].page, reading'[q].at)
      BY <1>3, <2>1, <3>2 DEF PagesSound
    <3>3. QED
      BY <1>1, <3>1, <3>2 DEF PagesSound, PageSound, Beyond, NotBefore
  <2>6. QED
    BY <1>4, <2>3, <2>4, <2>5
<1>8. QED
  BY <1>5, <1>6, <1>7

\* A page the walk receives, from the table or from the cache.
LEMMA ReceivePages ==
    ASSUME PagesIInv, ~ended, NEW page \in Pages!Page,
           ById => PageSound(page, pageCursor), Pages!Receive(page),
           cache' \in [Pages!Cursors -> Pages!Page \cup {None}],
           ById => \A c \in Pages!Cursors : cache'[c] # None => PageSound(cache'[c], c)
    PROVE  PagesIInv'
<1> USE DEF PagesIInv
<1>1. /\ pageCursor' = page.last /\ seen' = seen \cup page.rows
      /\ again' = (again \/ page.rows \cap seen # {})
      /\ known' = (IF pageCursor = 0 \/ page.of < known THEN page.of ELSE known)
      /\ begun' = (IF pageCursor = 0 THEN Len(time) ELSE begun)
      /\ UNCHANGED <<time, sort, reading, ended, retimed>>
  BY DEF Pages!Receive, Pages!Begin
<1>2. /\ Pages!Transfers = 1..Len(time) /\ Len(time) \in Nat
      /\ begun \in 0..Len(time) /\ known \in 0..Len(time) /\ pageCursor \in 0..Len(time)
      /\ page.rows \subseteq 1..Len(time) /\ page.last \in 1..Len(time)
      /\ page.of \in 0..Len(time) /\ seen \subseteq 1..Len(time)
  BY DEF Pages!Transfers, Pages!TypeOK, Pages!Page
<1>3. ById' = ById
  BY <1>1 DEF ById, Pages!InOrder, Pages!Transfers
<1>4. Pages!TypeOK'
  <2>1. /\ pageCursor' \in 0..Len(time) /\ begun' \in 0..Len(time) /\ known' \in 0..Len(time)
        /\ seen' \subseteq 1..Len(time)
    <3>1. page.last \in 0..Len(time) /\ Len(time) \in 0..Len(time)
      BY <1>2
    <3>2. seen \cup page.rows \subseteq 1..Len(time)
      BY <1>2
    <3>3. (IF pageCursor = 0 \/ page.of < known THEN page.of ELSE known) \in 0..Len(time)
      BY <1>2
    <3>4. QED
      BY <1>1, <1>2, <3>1, <3>2, <3>3
  <2>2. again' \in BOOLEAN
    BY <1>1 DEF Pages!TypeOK
  <2>3. QED
    BY <1>1, <1>2, <2>1, <2>2 DEF Pages!TypeOK, Pages!Page, Pages!Transfers, Pages!Cursors
<1>5. ASSUME ById PROVE PagesSound'
  BY <1>1, <1>5 DEF PagesSound, PageSound, Beyond, NotBefore
<1>6. ASSUME ById PROVE AlongIds'
  <2>1. /\ \A i \in page.rows :
              i <= page.of /\ Beyond(i, pageCursor) /\ NotBefore(page.last, i)
        /\ page.last \in page.rows
        /\ \A i \in 1..page.of :
              Beyond(i, pageCursor) /\ NotBefore(page.last, i) => i \in page.rows
    BY <1>6 DEF PageSound
  <2>2. /\ ~again /\ (pageCursor = 0 => seen = {})
        /\ \A i \in seen : pageCursor # 0 /\ NotBefore(pageCursor, i)
        /\ pageCursor # 0 =>
              \A i \in 1..(IF sort.descending THEN known ELSE pageCursor) :
                 NotBefore(pageCursor, i) => i \in seen
    BY <1>6 DEF AlongIds
  <2>3. \A i \in page.rows : i \notin seen
    BY <1>2, <2>1, <2>2 DEF Beyond, NotBefore
  <2>4. ~again'
    BY <1>1, <2>2, <2>3
  <2>5. \A i \in seen' : NotBefore(page.last, i)
    <3>1. pageCursor # 0 => NotBefore(page.last, pageCursor)
      BY <1>2, <2>1 DEF Beyond, NotBefore
    <3>2. \A i \in seen : NotBefore(page.last, i)
      BY <1>2, <2>2, <3>1 DEF NotBefore
    <3>3. QED
      BY <1>1, <2>1, <3>2
  <2>6. ASSUME NEW i \in 1..(IF sort.descending THEN known' ELSE page.last),
               NotBefore(page.last, i)
        PROVE  i \in seen'
    <3>1. i \in Nat /\ i # 0 /\ i <= page.of
      <4>1. CASE sort.descending
        BY <1>1, <1>2, <2>6, <4>1
      <4>2. CASE ~sort.descending
        BY <1>2, <2>1, <2>6, <4>2
      <4>3. QED
        BY <4>1, <4>2
    <3>2. CASE Beyond(i, pageCursor)
      BY <1>1, <1>2, <2>1, <2>6, <3>1, <3>2
    <3>3. CASE ~Beyond(i, pageCursor)
      <4>1. pageCursor # 0 /\ NotBefore(pageCursor, i)
        BY <1>2, <3>1, <3>3 DEF Beyond, NotBefore
      <4>2. i \in 1..(IF sort.descending THEN known ELSE pageCursor)
        BY <1>1, <1>2, <2>6, <3>1, <4>1 DEF NotBefore
      <4>3. QED
        BY <1>1, <2>2, <4>1, <4>2
    <3>4. QED
      BY <3>2, <3>3
  <2>7. page.last # 0 /\ ~ended'
    BY <1>1, <1>2
  <2>8. QED
    BY <1>1, <2>4, <2>5, <2>6, <2>7 DEF AlongIds, NotBefore
<1>7. pageCursor' # 0
  BY <1>1, <1>2
<1>8. QED
  BY <1>3, <1>4, <1>5, <1>6, <1>7

LEMMA TransferListPages ==
    ASSUME PagesIInv, Pages!TransferList PROVE PagesIInv'
<1>1. /\ Pages!TypeOK /\ (pageCursor = 0 => known = 0) /\ (ById => PagesSound /\ AlongIds)
      /\ cache \in [Pages!Cursors -> Pages!Page \cup {None}]
      /\ Len(time) \in Nat /\ pageCursor \in 0..Len(time) /\ pageCursor \in Pages!Cursors
  BY PagesAssumption DEF PagesIInv, Pages!TypeOK, Pages!Cursors
<1>2. CASE Pages!Hit
  <2>1. ~ended /\ cache[pageCursor] # None /\ cache' = cache
        /\ Pages!Receive(cache[pageCursor])
    BY <1>2 DEF Pages!Hit
  <2>2. cache[pageCursor] \in Pages!Page
    BY <1>1, <2>1
  <2>3. ById => PageSound(cache[pageCursor], pageCursor)
    BY <1>1, <2>1 DEF PagesSound
  <2>4. ById => \A c \in Pages!Cursors : cache'[c] # None => PageSound(cache'[c], c)
    BY <2>1 , <1>1 DEF PagesSound
  <2>5. cache' \in [Pages!Cursors -> Pages!Page \cup {None}]
    BY <1>1, <2>1
  <2>6. QED
    BY <2>1, <2>2, <2>3, <2>4, <2>5, ReceivePages
<1>3. CASE Pages!Miss
  <2>1. PICK page \in Pages!Selected(pageCursor) :
          /\ Pages!Receive(page)
          /\ cache' = cache \/ cache' = [cache EXCEPT ![pageCursor] = page]
    BY <1>3 DEF Pages!Miss
  <2>2. ~ended
    BY <1>3 DEF Pages!Miss
  <2>3. page \in Pages!Page /\ (ById => PageSound(page, pageCursor))
    BY <1>1, SelectedSound
  <2>4. cache' \in [Pages!Cursors -> Pages!Page \cup {None}]
    BY <1>1, <2>1, <2>3
  <2>5. ById => \A c \in Pages!Cursors : cache'[c] # None => PageSound(cache'[c], c)
    <3>1. ASSUME ById, NEW c \in Pages!Cursors, cache'[c] # None
          PROVE  PageSound(cache'[c], c)
      <4>1. CASE cache'[c] = cache[c]
        BY <1>1, <3>1, <4>1 DEF PagesSound
      <4>2. CASE cache'[c] # cache[c]
        <5>1. c = pageCursor /\ cache'[c] = page
          BY <1>1, <2>1, <4>2
        <5>2. QED
          BY <2>3, <3>1, <5>1
      <4>3. QED
        BY <4>1, <4>2
    <3>2. QED
      BY <3>1
  <2>6. QED
    BY <2>1, <2>2, <2>3, <2>4, <2>5, ReceivePages
<1>4. CASE Pages!End
  <2>1. /\ ended' = TRUE /\ begun' = (IF pageCursor = 0 THEN Len(time) ELSE begun)
        /\ UNCHANGED <<time, sort, cache, reading, pageCursor, seen, again, known, retimed>>
        /\ Pages!AfterCursor(pageCursor) = {}
    BY <1>4 DEF Pages!End, Pages!Begin
  <2>2. ById' = ById
    BY <2>1 DEF ById, Pages!InOrder, Pages!Transfers
  <2>3. begun' \in 0..Len(time)
    BY <1>1, <2>1 DEF Pages!TypeOK
  <2>4. Pages!TypeOK'
    BY <1>1, <2>1, <2>3 DEF Pages!TypeOK, Pages!Page, Pages!Transfers, Pages!Cursors
  <2>5. ById => PagesSound'
    BY <1>1, <2>1 DEF PagesSound, PageSound, Beyond, NotBefore
  <2>6. ASSUME ById PROVE AlongIds'
    <3>1. ASSUME NEW i \in 1..(IF sort.descending THEN known ELSE begun') PROVE i \in seen
      <4>1. /\ i \in 1..Len(time) /\ i \notin Pages!AfterCursor(pageCursor)
            /\ (sort.descending => i \in 1..known) /\ known \in 0..Len(time)
        BY <1>1, <2>1, <2>3, <3>1 DEF Pages!TypeOK
      <4>2. pageCursor # 0 /\ NotBefore(pageCursor, i)
        BY <1>1, <4>1 DEF Pages!AfterCursor, Pages!Transfers, NotBefore
      <4>3. i \in 1..(IF sort.descending THEN known ELSE pageCursor)
        BY <1>1, <4>1, <4>2 DEF NotBefore
      <4>4. QED
        BY <1>1, <2>6, <4>2, <4>3 DEF AlongIds
    <3>2. AlongIds
      BY <1>1, <2>6
    <3>3. QED
      BY <2>1, <3>1, <3>2 DEF AlongIds, NotBefore
  <2>7. QED
    BY <1>1, <2>1, <2>2, <2>4, <2>5, <2>6 DEF PagesIInv
<1>5. QED
  BY <1>2, <1>3, <1>4 DEF Pages!TransferList

LEMMA PagesNext == PagesIInv /\ [Pages!Next]_pageVars => PagesIInv'
<1>1. PagesIInv /\ UNCHANGED pageVars => PagesIInv'
  BY DEF pageVars, PagesIInv, Pages!TypeOK, Pages!Page, Pages!Cursors, AlongIds, PagesSound,
     PageSound, Beyond, NotBefore, ById, Pages!InOrder, Pages!Transfers
<1>2. QED
  BY <1>1, TablePages, CachePages, TransferListPages DEF Pages!Next

LEMMA PagesWalk == PagesIInv => WalkSeesAllOnce
BY DEF PagesIInv, AlongIds, ById, WalkSeesAllOnce, Pages!WalkSeesAllOnce

LEMMA PagesAlways == SpecAll => []PagesIInv
<1>1. InitAll => PagesIInv
  BY PagesInit DEF InitAll
<1>2. PagesIInv /\ [NextAny]_allVars => PagesIInv'
  BY OneMoves, PagesNext
<1>3. QED
  BY <1>1, <1>2, PTL DEF SpecAll

\* A client that turns the pages of the transfer list until an empty one, by
\* id, or by time while times follow ids, has seen none twice, whatever is
\* inserted, cached or invalidated meanwhile.  Upwards it has seen every transfer
\* that was there when it began, downwards every one that was there when the
\* oldest of its pages was read.
THEOREM WalkIsComplete == SpecAll => []WalkSeesAllOnce
BY PagesWalk, PagesAlways, PTL

-----------------------------------------------------------------------------
(* TxBuilder *)

\* An API that is up has a builder and a proxy for every chain it knows, and
\* nothing is in hand while it is not.
Up == IF api = "up" THEN chains \cap {"rarimo", "other"} = {} ELSE call = Builder!NoCall

\* What a request is answered with.
Answered ==
    IF call = Builder!NoCall THEN answer = "none"
    ELSE IF ~Builder!ValidateBuildTx(call) THEN answer = "refused"
    ELSE answer = Builder!Build(call) \/ (nodeFailed /\ answer = "failed")

BuilderIInv == Builder!TypeOK /\ Up /\ Answered

LEMMA BuilderInit == Builder!Init => BuilderIInv
BY DEF Builder!Init, BuilderIInv, Builder!TypeOK, Up, Answered, Builder!NoCall

LEMMA BuildIs == ASSUME NEW req PROVE Builder!Build(req) \in {"built", "failed", "crashed"}
<1>1. Builder!BuildEvm(req) \in {"built", "failed", "crashed"}
  BY DEF Builder!BuildEvm
<1>2. Builder!BuildSolana(req) \in {"built", "failed", "crashed"}
  BY DEF Builder!BuildSolana
<1>3. Builder!BuildNear(req) \in {"built", "failed", "crashed"}
  BY DEF Builder!BuildNear
<1>4. QED
  BY <1>1, <1>2, <1>3 DEF Builder!Build, Builder!Builders

LEMMA SomeCall == ASSUME NEW req \in Builder!Requests PROVE req # Builder!NoCall
<1>1. req.network # "none"
  BY DEF Builder!Requests, Builder!EvmRequests, Builder!SolanaRequests,
     Builder!NearRequests, Builder!OtherRequests
<1>2. QED
  BY <1>1 DEF Builder!NoCall

LEMMA BuilderNext == BuilderIInv /\ [Builder!Next]_builderVars => BuilderIInv'
<1> SUFFICES ASSUME BuilderIInv, [Builder!Next]_builderVars PROVE BuilderIInv'
  OBVIOUS
<1> USE DEF BuilderIInv
<1>1. CASE Builder!Start
  BY <1>1 DEF Builder!Start, Builder!TypeOK, Up, Answered,
     Builder!MultiBuilderStarts, Builder!ProxiesStart, Builder!ValidateBuildTx,
     Builder!Build, Builder!Builders
<1>2. CASE Builder!Stop
  BY <1>2 DEF Builder!Stop, Builder!TypeOK, Up, Answered
<1>3. ASSUME NEW req \in Builder!Requests, Builder!BuildTx(req) PROVE BuilderIInv'
  <2>1. Builder!TypeOK'
    BY <1>3, BuildIs DEF Builder!BuildTx, Builder!TypeOK
  <2>2. Up'
    BY <1>3 DEF Builder!BuildTx, Up
  <2>3. Answered'
    BY <1>3, SomeCall DEF Builder!BuildTx, Answered, Builder!ValidateBuildTx,
       Builder!Build, Builder!Builders
  <2>4. QED
    BY <2>1, <2>2, <2>3
<1>4. CASE Builder!Render
  BY <1>4 DEF Builder!Render, Builder!TypeOK, Up, Answered
<1>5. CASE UNCHANGED builderVars
  BY <1>5 DEF builderVars, Builder!TypeOK, Up, Answered, Builder!ValidateBuildTx,
     Builder!Build, Builder!Builders
<1>6. QED
  BY <1>1, <1>2, <1>3, <1>4, <1>5 DEF Builder!Next

\* What validation lets through has a builder.
LEMMA ValidHasBuilder ==
    ASSUME BuilderIInv, call # Builder!NoCall, Builder!ValidateBuildTx(call)
    PROVE  call.network \in Builder!Builders
BY BuilderAssumption DEF BuilderIInv, Builder!TypeOK, Builder!ValidateBuildTx,
   Builder!Builders

\* A complete deposit that is not unbuildable passes the validation and is built.
LEMMA EvmBuilds ==
    ASSUME NEW req \in Builder!EvmRequests, Builder!Complete(req), ~Builder!Unbuildable(req)
    PROVE  Builder!ValidEvm(req) /\ Builder!BuildEvm(req) = "built" /\ req.type \in Builder!Types
<1>1. req.type \in {"native", "erc20", "erc721", "erc1155"}
  BY DEF Builder!Complete, Builder!EvmRequests, Builder!EvmRequires
<1>2. Builder!HasAll(req, Builder!EvmRequires[req.type])
  BY <1>1 DEF Builder!Complete, Builder!EvmRequests, Builder!EvmRequires, Builder!HasAll,
     Builder!Has, Builder!Unbuildable
<1>3. Builder!BuildEvm(req) = "built"
  BY <1>1, <1>2 DEF Builder!BuildEvm, Builder!Complete, Builder!EvmRequests,
     Builder!Unbuildable, Builder!EvmRequires, Builder!Has
<1>4. Builder!ValidEvm(req) /\ req.type \in Builder!Types
  BY <1>1 DEF Builder!ValidEvm, Builder!Complete, Builder!EvmRequests, Builder!Has,
     Builder!Types, Builder!Unbuildable
<1>5. QED
  BY <1>3, <1>4

LEMMA SolanaBuilds ==
    ASSUME NEW req \in Builder!SolanaRequests, Builder!Complete(req), ~Builder!Unbuildable(req)
    PROVE  Builder!ValidSolana(req) /\ Builder!BuildSolana(req) = "built" /\ req.type \in Builder!Types
BY DEF Builder!Complete, Builder!SolanaRequests, Builder!ValidSolana,
   Builder!BuildSolana, Builder!Has,
   Builder!Types, Builder!Unbuildable

LEMMA NearBuilds ==
    ASSUME NEW req \in Builder!NearRequests, Builder!Complete(req), ~Builder!Unbuildable(req)
    PROVE  Builder!ValidNear(req) /\ Builder!BuildNear(req) = "built" /\ req.type \in Builder!Types
<1>1. req.type \in {"native", "ft", "nft"}
  BY DEF Builder!Complete, Builder!NearRequests
<1>2. Builder!HasAll(req, Builder!NearRequires[req.type])
  BY <1>1 DEF Builder!Complete, Builder!NearRequests, Builder!NearRequires,
     Builder!HasAll, Builder!Has, Builder!Unbuildable
<1>3. Builder!BuildNear(req) = "built"
  BY <1>1, <1>2 DEF Builder!BuildNear, Builder!Complete, Builder!NearRequests,
     Builder!Unbuildable, Builder!NearRequires, Builder!HasAll, Builder!Has
<1>4. Builder!ValidNear(req) /\ req.type \in Builder!Types
  BY <1>1 DEF Builder!ValidNear, Builder!Complete, Builder!NearRequests, Builder!Has,
     Builder!Types, Builder!Unbuildable
<1>5. QED
  BY <1>3, <1>4

\* A request with everything its network asks for passes the validation, finds
\* its builder and is built, unless it is one of the unbuildable ones or the
\* network's node fails.
LEMMA CompleteIsBuilt ==
    BuilderIInv => NotBuiltForAReason
<1> SUFFICES ASSUME BuilderIInv, call # Builder!NoCall, Builder!Complete(call), ~nodeFailed,
                    ~Builder!Unbuildable(call)
             PROVE  answer = "built"
  BY DEF NotBuiltForAReason, Builder!NotBuiltForAReason
<1> USE DEF BuilderIInv
<1>1. call.network \in Builder!Builders
  BY DEF Builder!TypeOK, Up, Builder!Complete, Builder!Builders
<1>2. CASE call.network = "evm"
  <2>1. call \in Builder!EvmRequests
    BY <1>2 DEF Builder!TypeOK, Builder!Requests, Builder!SolanaRequests,
       Builder!NearRequests, Builder!OtherRequests
  <2>2. QED
    BY <1>1, <1>2, <2>1, EvmBuilds DEF Answered, Builder!ValidateBuildTx,
       Builder!Builders, Builder!Build
<1>3. CASE call.network = "solana"
  <2>1. call \in Builder!SolanaRequests
    BY <1>3 DEF Builder!TypeOK, Builder!Requests, Builder!EvmRequests,
       Builder!NearRequests, Builder!OtherRequests
  <2>2. QED
    BY <1>1, <1>3, <2>1, SolanaBuilds DEF Answered, Builder!ValidateBuildTx,
       Builder!Builders, Builder!Build
<1>4. CASE call.network = "near"
  <2>1. call \in Builder!NearRequests
    BY <1>4 DEF Builder!TypeOK, Builder!Requests, Builder!EvmRequests,
       Builder!SolanaRequests, Builder!OtherRequests
  <2>2. QED
    BY <1>1, <1>4, <2>1, NearBuilds DEF Answered, Builder!ValidateBuildTx,
       Builder!Builders, Builder!Build
<1>5. QED
  BY <1>1, <1>2, <1>3, <1>4 DEF Builder!Builders

LEMMA CrashIsId ==
    BuilderIInv => CrashOnlyOnUndecodedId
<1> SUFFICES ASSUME BuilderIInv, answer = "crashed"
             PROVE  \/ ~Builder!Decodes(call.account)
                    \/ call.network = "solana" /\ ~Builder!Decodes(call.receiver)
                    \/ call.network = "near" /\ ~Builder!Decodes(call.sender)
  BY DEF CrashOnlyOnUndecodedId, Builder!CrashOnlyOnUndecodedId
<1> USE DEF BuilderIInv
<1>1. /\ call # Builder!NoCall /\ Builder!ValidateBuildTx(call)
      /\ Builder!Build(call) = "crashed"
  BY DEF Answered
<1>2. call.network \in Builder!Builders
  BY <1>1, BuilderAssumption DEF Builder!TypeOK, Up, Builder!ValidateBuildTx,
     Builder!Builders
<1>3. CASE call.network = "evm"
  BY <1>1, <1>2, <1>3 DEF Builder!Build, Builder!BuildEvm
<1>4. CASE call.network = "solana"
  BY <1>1, <1>2, <1>4 DEF Builder!Build, Builder!BuildSolana
<1>5. CASE call.network = "near"
  <2>1. call \in Builder!NearRequests
    BY <1>1, <1>5 DEF Builder!TypeOK, Builder!Requests, Builder!EvmRequests,
       Builder!SolanaRequests, Builder!OtherRequests
  <2>2. ASSUME call.type \in DOMAIN Builder!NearRequires,
               Builder!HasAll(call, Builder!NearRequires[call.type])
        PROVE  call.type = "native" \/ Builder!HasAll(call, {"tokenAddr", "isWrapped"})
    BY <2>2 DEF Builder!NearRequires, Builder!HasAll
  <2>3. Builder!BuildNear(call) = "crashed"
    BY <1>1, <1>2, <1>5 DEF Builder!Build
  <2>4. ~Builder!Decodes(call.account) \/ ~Builder!Decodes(call.sender)
    <3>1. SUFFICES ASSUME Builder!Decodes(call.account), Builder!Decodes(call.sender)
                   PROVE  FALSE
      OBVIOUS
    <3>2. /\ call.type \in DOMAIN Builder!NearRequires
          /\ Builder!HasAll(call, Builder!NearRequires[call.type])
          /\ call.type # "native" /\ ~Builder!HasAll(call, {"tokenAddr", "isWrapped"})
      BY <2>3, <3>1 DEF Builder!BuildNear
    <3>3. QED
      BY <2>2, <3>2
  <2>5. QED
    BY <1>5, <2>4
<1>6. QED
  BY <1>2, <1>3, <1>4, <1>5 DEF Builder!Builders

LEMMA BuilderAlways == SpecAll => []BuilderIInv
<1>1. InitAll => BuilderIInv
  BY BuilderInit DEF InitAll
<1>2. BuilderIInv /\ [NextAny]_allVars => BuilderIInv'
  BY OneMoves, BuilderNext
<1>3. QED
  BY <1>1, <1>2, PTL DEF SpecAll

\* On an API that has started, whatever chains it was configured with, the
\* handler of a deposit builds every documented one but for the named ones.
THEOREM DepositIsBuilt == SpecAll => []NotBuiltForAReason
BY CompleteIsBuilt, BuilderAlways, PTL

\* The handler of a deposit ends in a panic only on an id that does not decode:
\* what validation lets through never meets a chain without its builder.
THEOREM OnlyAnIdCrashes == SpecAll => []CrashOnlyOnUndecodedId
BY CrashIsId, BuilderAlways, PTL

-----------------------------------------------------------------------------
(* ItemRequests *)

\* What a handler has in hand is what the core chain had, unless that changed.
InHand ==
    /\ step = "item" => changes = 0
    /\ step \in {"data", "proxy", "fetch"} /\ changes = 0 => found = index
    /\ step \in {"proxy", "fetch"} /\ changes = 0 => type = token
    /\ step = "fetch" => itemCall.kind = "metadata"
    /\ step # "done" => itemAnswer = "none"

ItemIInv ==
    Item!TypeOK /\ InHand /\ Item!ServedUnlessDisturbed /\ Item!NotFoundOnlyIfMissing

LEMMA ItemInit == Item!Init => ItemIInv
<1> SUFFICES ASSUME Item!Init PROVE ItemIInv
  OBVIOUS
<1>1. Item!TypeOK
  <2>1. changes \in 0..MaxChanges
    BY ItemAssumption DEF Item!Init
  <2>2. uri \in Item!Uris \cup {"none"}
    BY DEF Item!Init
  <2>3. disturbed \in BOOLEAN /\ missing \in BOOLEAN
    BY DEF Item!Init
  <2>4. QED
    BY <2>1, <2>2, <2>3 DEF Item!Init, Item!TypeOK
<1>2. InHand
  BY DEF Item!Init, InHand
<1>3. Item!ServedUnlessDisturbed /\ Item!NotFoundOnlyIfMissing
  BY DEF Item!Init, Item!ServedUnlessDisturbed, Item!NotFoundOnlyIfMissing
<1>4. QED
  BY <1>1, <1>2, <1>3 DEF ItemIInv

\* What a fetched document is answered with.
LEMMA FetchAnswer ==
    ASSUME Item!GetMetadata
    PROVE  /\ itemAnswer' \in {"ok", "notFound", "internal", "crashed"}
           /\ disturbed' = (itemAnswer' \notin {"ok", "notFound"})
           /\ missing' \in BOOLEAN
           /\ itemAnswer' = "notFound" => missing'
<1>1. PICK served \in Item!Served, document \in DOMAIN Item!ExtractMetadata :
         LET payload == Item!Payload(Item!Parsed(uri), served)
         IN  /\ itemAnswer' = CASE payload = "payload" -> Item!ExtractMetadata[document]
                                [] payload = "nonRetriable" -> "notFound"
                                [] payload = "error" -> "internal"
             /\ disturbed' = (itemAnswer' \notin {"ok", "notFound"})
             /\ missing' = (served \in Item!Absences \/ uri \in {"empty", "noScheme"})
  BY DEF Item!GetMetadata, Item!Answer
<1> DEFINE payload == Item!Payload(Item!Parsed(uri), served)
<1>2. /\ payload \in {"payload", "nonRetriable", "error"}
      /\ payload = "nonRetriable" => served \in Item!Absences \/ uri \in {"empty", "noScheme"}
  BY DEF Item!Served, Item!Absences, Item!Payload, Item!HttpGet, Item!IpfsGet, Item!DataGet, Item!Parsed
<1>3. Item!ExtractMetadata[document] \in {"ok", "internal", "crashed"}
  BY DEF Item!ExtractMetadata
<1>4. QED
  BY <1>1, <1>2, <1>3

LEMMA ItemTypes == Item!TypeOK /\ Item!Next => Item!TypeOK'
<1> SUFFICES ASSUME Item!TypeOK, Item!Next PROVE Item!TypeOK'
  OBVIOUS
<1> USE DEF Item!TypeOK, Item!Answer, Item!Failed
<1>1. CASE Item!ReadItem
  BY <1>1 DEF Item!ReadItem
<1>2. CASE Item!ReadData
  BY <1>2 DEF Item!ReadData, Item!NotNft
<1>3. CASE Item!NoProxy
  BY <1>3 DEF Item!NoProxy
<1>4. CASE Item!BalanceOf
  BY <1>4 DEF Item!BalanceOf, Item!AmountFromBig
<1>5. CASE Item!NftMetadata
  <2>1. Item!Absent(network) \in {"internal", "notFound", "crashed"}
    BY <1>5 DEF Item!NftMetadata, Item!Absent, Item!Supported
  <2>2. uri' \in Item!Uris \cup {"none"} /\ step' \in {"fetch", "done"}
    BY <1>5, <2>1 DEF Item!NftMetadata
  <2>3. itemAnswer' \in {"none", "ok", "bad", "notFound", "internal", "crashed"}
    BY <1>5, <2>1 DEF Item!NftMetadata
  <2>4. disturbed' \in BOOLEAN /\ missing' \in BOOLEAN
    BY <1>5, <2>1 DEF Item!NftMetadata
  <2>5. QED
    BY <1>5, <2>2, <2>3, <2>4 DEF Item!NftMetadata
<1>6. CASE Item!GetMetadata
  BY <1>6, FetchAnswer DEF Item!GetMetadata
<1>7. CASE Item!Change
  BY <1>7, ItemAssumption DEF Item!Change
<1>9. QED
  BY <1>1, <1>2, <1>3, <1>4, <1>5, <1>6, <1>7 DEF Item!Next


LEMMA ItemHand ==
    ASSUME Item!TypeOK, InHand, Item!Next PROVE InHand'
<1> USE DEF InHand, Item!TypeOK, Item!Answer, Item!Failed
<1>1. CASE Item!ReadItem
  BY <1>1 DEF Item!ReadItem
<1>2. CASE Item!ReadData
  BY <1>2 DEF Item!ReadData
<1>3. CASE Item!NoProxy
  BY <1>3 DEF Item!NoProxy
<1>4. CASE Item!BalanceOf
  BY <1>4 DEF Item!BalanceOf
<1>5. CASE Item!NftMetadata
  BY <1>5 DEF Item!NftMetadata
<1>6. CASE Item!GetMetadata
  BY <1>6 DEF Item!GetMetadata
<1>7. CASE Item!Change
  BY <1>7, ItemAssumption DEF Item!Change
<1>9. QED
  BY <1>1, <1>2, <1>3, <1>4, <1>5, <1>6, <1>7 DEF Item!Next

LEMMA ItemServed ==
    ASSUME Item!TypeOK, InHand, Item!ServedUnlessDisturbed, Item!Next
    PROVE  Item!ServedUnlessDisturbed'
<1> SUFFICES ASSUME step' = "done", changes' = 0, ~disturbed', Item!Servable'
             PROVE  itemAnswer' \in {"ok", "notFound"}
  BY DEF Item!ServedUnlessDisturbed
<1> USE DEF InHand, Item!Answer, Item!Failed
<1>1. CASE Item!ReadItem
  BY <1>1 DEF Item!ReadItem, Item!Servable
<1>2. CASE Item!ReadData
  <2>1. token \in Item!Supported[network]
        /\ (itemCall.kind = "metadata" => token \in Item!isNftTokenType)
    BY <1>2 DEF Item!ReadData, Item!Servable, Item!TypeOK, Item!Requests
  <2>2. token # "none"
    BY <2>1 DEF Item!TypeOK, Item!Supported
  <2>3. QED
    BY <1>2, <2>1, <2>2 DEF Item!ReadData
<1>3. CASE Item!NoProxy
  BY <1>3 DEF Item!NoProxy, Item!Servable, Item!Supported
<1>4. CASE Item!BalanceOf
  <2>1. /\ type = token /\ token \in Item!Supported[network]
        /\ token = "erc1155" => itemCall.tokenId = "decimal"
        /\ network = "solana" => itemCall.account = "parses"
    BY <1>4 DEF Item!BalanceOf, Item!Servable
  <2>2. Item!AsksBalance
    BY <2>1 DEF Item!AsksBalance, Item!EvmAsks, Item!SolanaAsks
  <2>3. QED
    BY <1>4, <2>2 DEF Item!BalanceOf
<1>5. CASE Item!NftMetadata
  <2>1. /\ type = token /\ found = index /\ token \in Item!Supported[network]
        /\ token \in Item!isNftTokenType
        /\ network = "evm" => index = "decimal"
        /\ network = "solana" => index = "base58"
    BY <1>5 DEF Item!NftMetadata, Item!Servable
  <2>2. network = "evm" => token \in {"erc721", "erc1155"}
    BY <2>1 DEF Item!Supported, Item!isNftTokenType
  <2>3. Item!AsksMetadata
    BY <2>1, <2>2 DEF Item!AsksMetadata, Item!EvmMetadata, Item!SolanaMetadata
  <2>4. QED
    BY <1>5, <2>3 DEF Item!NftMetadata
<1>6. CASE Item!GetMetadata
  BY <1>6, FetchAnswer
<1>7. CASE Item!Change
  BY <1>7 DEF Item!Change
<1>9. QED
  BY <1>1, <1>2, <1>3, <1>4, <1>5, <1>6, <1>7 DEF Item!Next

LEMMA ItemNotFound ==
    ASSUME Item!TypeOK, InHand, Item!NotFoundOnlyIfMissing, Item!Next
    PROVE  Item!NotFoundOnlyIfMissing'
<1> USE DEF InHand, Item!Answer, Item!Failed, Item!NotFoundOnlyIfMissing
<1>1. CASE Item!ReadItem
  BY <1>1 DEF Item!ReadItem
<1>2. CASE Item!ReadData
  BY <1>2 DEF Item!ReadData, Item!NotNft
<1>3. CASE Item!NoProxy
  BY <1>3 DEF Item!NoProxy
<1>4. CASE Item!BalanceOf
  BY <1>4 DEF Item!BalanceOf, Item!AmountFromBig
<1>5. CASE Item!NftMetadata
  BY <1>5 DEF Item!NftMetadata
<1>6. CASE Item!GetMetadata
  BY <1>6, FetchAnswer
<1>7. CASE Item!Change
  BY <1>7 DEF Item!Change
<1>9. QED
  BY <1>1, <1>2, <1>3, <1>4, <1>5, <1>6, <1>7 DEF Item!Next

LEMMA ItemNext == ItemIInv /\ [Item!Next]_itemVars => ItemIInv'
<1>1. ItemIInv /\ UNCHANGED itemVars => ItemIInv'
  BY DEF itemVars, ItemIInv, Item!TypeOK, InHand, Item!ServedUnlessDisturbed, Item!Servable,
         Item!NotFoundOnlyIfMissing
<1>2. QED
  BY <1>1, ItemTypes, ItemHand, ItemServed, ItemNotFound DEF ItemIInv

LEMMA ItemAlways == SpecAll => []ItemIInv
<1>1. InitAll => ItemIInv
  BY ItemInit DEF InitAll
<1>2. ItemIInv /\ [NextAny]_allVars => ItemIInv'
  BY OneMoves, ItemNext
<1>3. QED
  BY <1>1, <1>2, PTL DEF SpecAll

\* A balance or a document the core chain could serve when the request came is
\* served, unless the chain changed between the two reads, a call failed or the
\* document was of no use.
THEOREM RequestIsServed == SpecAll => []ServedUnlessDisturbed
<1>1. ItemIInv => ServedUnlessDisturbed
  BY DEF ItemIInv, ServedUnlessDisturbed
<1>2. QED
  BY <1>1, ItemAlways, PTL

\* Not found is answered only where the token or its document is not there, or
\* not open: the proxies never take a failure that may pass for it.
THEOREM NotFoundIsMissing == SpecAll => []NotFoundOnlyIfMissing
<1>1. ItemIInv => NotFoundOnlyIfMissing
  BY DEF ItemIInv, NotFoundOnlyIfMissing
<1>2. QED
  BY <1>1, ItemAlways, PTL

-----------------------------------------------------------------------------
(* WithdrawalStream *)

LEMMA SomeNewest ==
    ASSUME DOMAIN indexed # {}, \A o \in DOMAIN indexed : indexed[o] \in StreamTimes
    PROVE  Stream!Newest # {}
<1>1. PICK latest \in StreamTimes : \A t \in StreamTimes : t <= latest
  BY StreamAssumption
<1> DEFINE T == {latest - indexed[o] : o \in DOMAIN indexed}
<1>r. \A o \in DOMAIN indexed : indexed[o] \in 0..latest
  <2>1. SUFFICES ASSUME NEW o \in DOMAIN indexed PROVE indexed[o] \in 0..latest
    OBVIOUS
  <2>2. indexed[o] \in StreamTimes /\ indexed[o] \in Nat /\ latest \in Nat
    BY StreamAssumption
  <2>3. indexed[o] <= latest
    BY <1>1, <2>2
  <2>4. QED
    BY <2>2, <2>3
<1>2. T \in SUBSET Nat /\ T # {}
  <2>1. \A o \in DOMAIN indexed : latest - indexed[o] \in Nat
    BY <1>1, <1>r, StreamAssumption
  <2>2. QED
    BY <2>1
<1>3. PICK x \in T : \A y \in T : x <= y
  BY <1>2, Least
<1>4. PICK o \in DOMAIN indexed : x = latest - indexed[o]
  OBVIOUS
<1>5. ASSUME NEW p \in DOMAIN indexed PROVE indexed[p] <= indexed[o]
  <2>1. x <= latest - indexed[p]
    BY <1>3
  <2>2. QED
    BY <1>1, <1>r, <1>4, <2>1, StreamAssumption
<1>6. QED
  BY <1>5 DEF Stream!Newest

\* What was told, or is about to be, is in the storage.
Told ==
    /\ told.withdrawal \subseteq withdrawn \cap DOMAIN indexed
    /\ event.withdrawal \subseteq withdrawn \cap DOMAIN indexed
    /\ told.withdrawal # {} => told.error = "none"
    /\ event.withdrawal # {} => event.error = "none"

\* There is another transfer that is at least as new.
Outdated(o) == \E p \in DOMAIN indexed \ {o} : indexed[p] >= indexed[o]

\* The transfer selected was the newest one, so that none of a withdrawal told
\* is newer; nor is there one for "not found" then but for another transfer.
Selected ==
    /\ stream = "withdrawal" =>
          \E p \in DOMAIN indexed :
              /\ transfer = {p}
              /\ \A o \in told.withdrawal : indexed[o] <= indexed[p]
    /\ stream = "write" /\ event.error = "notFound" =>
          \A o \in told.withdrawal : Outdated(o)

StreamIInv == Stream!TypeOK /\ Told /\ Selected

LEMMA StreamInit == Stream!Init => StreamIInv
BY BridgeAssumption DEF Stream!Init, StreamIInv, Stream!TypeOK, Told, Selected,
   Stream!NoEvent,
   Stream!Error, Stream!Events

LEMMA StreamNext == StreamIInv /\ [Stream!Next]_streamVars => StreamIInv'
<1> SUFFICES ASSUME StreamIInv, [Stream!Next]_streamVars PROVE StreamIInv'
  OBVIOUS
<1> USE StreamAssumption, BridgeAssumption DEF StreamIInv
<1>1. ASSUME NEW o \in Origins, Stream!IndexTransfer(o) PROVE StreamIInv'
  <2> USE <1>1 DEF Stream!IndexTransfer
  <2>1. /\ DOMAIN indexed' = DOMAIN indexed \cup {o}
        /\ indexed'[o] \in StreamTimes
        /\ \A p \in DOMAIN indexed : indexed'[p] = indexed[p]
    OBVIOUS
  <2>2. Stream!TypeOK'
    BY <2>1 DEF Stream!TypeOK, Stream!Events
  <2>3. Told'
    BY <2>1 DEF Told
  <2>4. Selected'
    BY <2>1 DEF Selected, Outdated, Told
  <2>5. QED
    BY <2>2, <2>3, <2>4
<1>2. ASSUME NEW o \in Origins, Stream!IndexWithdrawal(o) PROVE StreamIInv'
  BY <1>2 DEF Stream!IndexWithdrawal, Stream!TypeOK, Stream!Events, Told, Selected, Outdated
<1>3. CASE Stream!SelectTransfer
  <2>1. Stream!TypeOK'
    BY <1>3 DEF Stream!SelectTransfer, Stream!TypeOK, Stream!Events, Stream!Error,
       Stream!Newest
  <2>2. Told'
    BY <1>3 DEF Stream!SelectTransfer, Stream!Error, Told
  <2>3. Selected'
    <3>1. Stream!Newest = {} => DOMAIN indexed = {}
      BY SomeNewest DEF Stream!TypeOK
    <3>2. QED
      BY <1>3, <3>1 DEF Stream!SelectTransfer, Stream!Error, Stream!Newest, Told, Selected
  <2>4. QED
    BY <2>1, <2>2, <2>3
<1>4. CASE Stream!SelectWithdrawal
  <2>1. Stream!TypeOK'
    BY <1>4 DEF Stream!SelectWithdrawal, Stream!TypeOK, Stream!Events, Stream!Error
  <2>2. Told'
    BY <1>4 DEF Stream!SelectWithdrawal, Stream!Error, Told, Selected
  <2>3. Selected'
    BY <1>4 DEF Stream!SelectWithdrawal, Stream!Error, Told, Selected, Outdated,
       Stream!TypeOK
  <2>4. QED
    BY <2>1, <2>2, <2>3
<1>5. CASE Stream!WriteEvent
  BY <1>5 DEF Stream!WriteEvent, Stream!TypeOK, Told, Selected, Stream!NoEvent,
     Stream!Error, Stream!Events
<1>6. CASE Stream!Wake
  BY <1>6 DEF Stream!Wake, Stream!TypeOK, Told, Selected
<1>7. CASE Stream!Disconnect
  BY <1>7 DEF Stream!Disconnect, Stream!TypeOK, Told, Selected, Outdated
<1>8. CASE Stream!Reconnect
  BY <1>8 DEF Stream!Reconnect, Stream!TypeOK, Told, Selected, Stream!NoEvent,
     Stream!Error, Stream!Events
<1>9. CASE UNCHANGED streamVars
  BY <1>9 DEF streamVars, Stream!TypeOK, Told, Selected, Outdated, Stream!Events
<1>10. QED
  BY <1>1, <1>2, <1>3, <1>4, <1>5, <1>6, <1>7, <1>8, <1>9 DEF Stream!Next, Stream!Serve

LEMMA StreamStep ==
    StreamIInv /\ [Stream!Next]_streamVars =>
        (told.withdrawal # {} /\ told'.error = "notFound" =>
            \A o \in told.withdrawal : Outdated(o))
<1> SUFFICES ASSUME StreamIInv, [Stream!Next]_streamVars,
                    told.withdrawal # {}, told'.error = "notFound"
             PROVE  \A o \in told.withdrawal : Outdated(o)
  OBVIOUS
<1>1. told' # told
  BY DEF StreamIInv, Told
<1>2. CASE Stream!WriteEvent
  BY <1>1, <1>2 DEF Stream!WriteEvent, StreamIInv, Selected
<1>3. CASE Stream!Reconnect
  BY <1>3 DEF Stream!Reconnect, Stream!NoEvent, Stream!Error
<1>4. QED
  BY <1>1, <1>2, <1>3 DEF Stream!Next, Stream!Serve, streamVars, Stream!IndexTransfer,
     Stream!IndexWithdrawal, Stream!SelectTransfer, Stream!SelectWithdrawal, Stream!Wake,
     Stream!Disconnect

LEMMA StreamAlways == SpecAll => []StreamIInv
<1>1. InitAll => StreamIInv
  BY StreamInit DEF InitAll
<1>2. StreamIInv /\ [NextAny]_allVars => StreamIInv'
  BY OneMoves, StreamNext
<1>3. QED
  BY <1>1, <1>2, PTL DEF SpecAll

\* A listener who was told a withdrawal is told "not found" after it only if
\* another transfer is at least as new as the one withdrawn.
THEOREM ToldIsKept == SpecAll => LostOnlyToNewer
<1>1. StreamIInv /\ [NextAny]_allVars =>
          [told.withdrawal # {} /\ told'.error = "notFound" =>
              \A o \in told.withdrawal : Outdated(o)]_(Stream!vars)
  BY OneMoves, StreamStep
<1>2. QED
  BY <1>1, StreamAlways, PTL
     DEF SpecAll, LostOnlyToNewer, Stream!LostOnlyToNewer, Outdated

-----------------------------------------------------------------------------
(* All seven *)

\* Each of the seven is well typed in every behaviour of all of them.
THEOREM TypesCorrect == SpecAll => []TypesOK
<1>1. InitAll => GenesisIInv
  BY GenesisInit DEF InitAll
<1>2. GenesisIInv /\ [NextAny]_allVars => GenesisIInv'
  BY OneMoves, GenesisNext
<1>3. SpecAll => []GenesisIInv
  BY <1>1, <1>2, PTL DEF SpecAll
<1>4. GenesisIInv /\ BridgeIInv /\ EvidenceIInv /\ PagesIInv /\ BuilderIInv /\ ItemIInv
        /\ StreamIInv => TypesOK
  BY BridgeTypeCorrect
     DEF GenesisIInv, EvidenceIInv, PagesIInv, BuilderIInv, ItemIInv, StreamIInv, TypesOK
<1>5. QED
  BY <1>3, <1>4, BridgeAlways, EvidenceAlways, PagesAlways, BuilderAlways, ItemAlways,
     StreamAlways, PTL
=============================================================================
