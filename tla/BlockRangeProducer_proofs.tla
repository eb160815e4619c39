----------------------- MODULE BlockRangeProducer_proofs -----------------------
(***************************************************************************)
(* Proofs about BlockRangeProducer, for every block range limit, every set *)
(* of special-case ranges and every height of the chain.                   *)
(*                                                                         *)
(* CursorCovered is not inductive: between Publish and SaveCursor, and     *)
(* after a failed save, produceOnce's local start and end run ahead of the *)
(* saved cursor.  The strengthening says what they stand for: everything   *)
(* below the local start (and, once published, up to the local end) is     *)
(* announced.                                                              *)
(***************************************************************************)
EXTENDS BlockRangeProducer, TLAPS

Announced(b) == \E r \in published : b \in Blocks(r)

\* Where produceOnce runs, its local position is backed by published ranges.
LocalCovered ==
    /\ pc \in {"fetch", "publish", "save"} =>
        /\ Cursor <= start
        /\ \A b \in 1..(start - 1) : Announced(b)
    /\ pc \in {"publish", "save"} => start <= end /\ end <= latest
    /\ pc = "save" => [start |-> start, end |-> end] \in published

\* While no save was lost, the position is the saved cursor and everything
\* published lies below it (below the local end while the save is due).
Fresh ==
    ~unsaved =>
        /\ pc \in {"fetch", "publish", "save"} => start = Cursor
        /\ \A r \in published \ SpecialCaseBlocks :
            r.end < (IF pc = "save" THEN end + 1 ELSE Cursor)

IInv ==
    /\ TypeOK
    /\ CursorCovered
    /\ PublishedExist
    /\ LocalCovered
    /\ Fresh

------------------------------------------------------------------------------
\* A start, an end and a cursor within their bounds stay so under every step of
\* the runner (blockranges_producer.go, produceOnce).
LEMMA TypeInvariance == TypeOK /\ [Next]_vars => TypeOK'
<1> SUFFICES ASSUME TypeOK, [Next]_vars PROVE TypeOK'
    OBVIOUS
<1> USE BlockRangeProducerAssumption
    DEF BlockRangeProducerAssumption, TypeOK, Cursor, NoCursor, Range
<1>1. CASE NewBlock
    BY <1>1 DEF NewBlock
<1>2. CASE StartRunner
    BY <1>2 DEF StartRunner
<1>3. CASE StartRunnerFails
    BY <1>3 DEF StartRunnerFails
<1>4. CASE ReadCursor
    BY <1>4 DEF ReadCursor
<1>5. CASE ChooseRange
    BY <1>5 DEF ChooseRange, ClippedEnd
<1>6. CASE Return
    BY <1>6 DEF Return
<1>7. CASE Publish
    BY <1>7 DEF Publish
<1>8. CASE PublishFails
    <2>1. published' \subseteq Range
        BY <1>8 DEF PublishFails
    <2>2. unsaved' \in BOOLEAN
        BY <1>8 DEF PublishFails
    <2> QED
        BY <1>8, <2>1, <2>2 DEF PublishFails
<1>9. CASE SaveCursor
    BY <1>9 DEF SaveCursor
<1>10. CASE SaveCursorFails
    BY <1>10 DEF SaveCursorFails
<1>11. CASE Crash
    BY <1>11 DEF Crash
<1>12. CASE UNCHANGED vars
    BY <1>12 DEF vars
<1> QED
    BY <1>1, <1>2, <1>3, <1>4, <1>5, <1>6, <1>7, <1>8, <1>9, <1>10, <1>11, <1>12
    DEF Next

\* The cursor moves only when produceOnce saves it, to the block after the end.
LEMMA CursorStep ==
    ASSUME TypeOK, [Next]_vars
    PROVE  \/ Cursor' = Cursor
           \/ pc = "save" /\ kv' = end + 1 /\ Cursor' = end + 1
<1> USE DEF TypeOK, Cursor, NoCursor
<1>1. CASE SaveCursor
    BY <1>1 DEF SaveCursor
<1>2. CASE SaveCursorFails
    BY <1>2 DEF SaveCursorFails
<1>3. CASE ~SaveCursor /\ ~SaveCursorFails
    BY <1>3 DEF Next, vars, NewBlock, StartRunner, StartRunnerFails,
       ReadCursor, ChooseRange, Return, Publish, PublishFails, Crash
<1> QED
    BY <1>1, <1>2, <1>3

\* Published ranges are never taken back (rmq's Publish appends).
LEMMA PublishedGrows == [Next]_vars => published \subseteq published'
BY DEF Next, vars, NewBlock, StartRunner, StartRunnerFails, ReadCursor,
       ChooseRange, Return, Publish, PublishFails, SaveCursor,
       SaveCursorFails, Crash

\* A block once announced stays announced.
LEMMA AnnouncedStays ==
    ASSUME [Next]_vars, NEW b, Announced(b) PROVE Announced(b)'
BY PublishedGrows DEF Announced, Blocks

\* After Publish, everything up to the local end is announced.
LEMMA SaveCovers ==
    ASSUME TypeOK, LocalCovered, pc = "save" PROVE \A b \in 1..end : Announced(b)
<1> TAKE b \in 1..end
<1>1. CASE b < start
    BY <1>1 DEF LocalCovered, TypeOK
<1>2. CASE b >= start
    <2> DEFINE r == [start |-> start, end |-> end]
    <2>1. r \in published /\ b \in Blocks(r)
        BY <1>2 DEF LocalCovered, TypeOK, Blocks
    <2> QED
        BY <2>1 DEF Announced
<1> QED
    BY <1>1, <1>2 DEF TypeOK

------------------------------------------------------------------------------
\* The strengthened invariant holds initially.
LEMMA InitIInv == Init => IInv
<1> SUFFICES ASSUME Init PROVE IInv
    OBVIOUS
<1> USE BlockRangeProducerAssumption DEF BlockRangeProducerAssumption, Init
<1>1. TypeOK
    <2>1. /\ latest \in 0..MaxHeight
          /\ kv \in 0..(MaxHeight + 1)
          /\ start \in 1..(MaxHeight + 1)
          /\ end \in 0..MaxHeight
        BY DEF NoCursor
    <2> QED
        BY <2>1 DEF TypeOK
<1>2. CursorCovered
    BY DEF CursorCovered, Cursor, NoCursor
<1>3. PublishedExist /\ LocalCovered /\ Fresh
    BY DEF PublishedExist, LocalCovered, Fresh
<1> QED
    BY <1>1, <1>2, <1>3 DEF IInv

\* The saved cursor never passes a block that was not announced.
LEMMA CoveredInvariance == IInv /\ [Next]_vars => CursorCovered'
<1> SUFFICES ASSUME IInv, [Next]_vars, NEW b \in 1..(Cursor' - 1)
             PROVE  Announced(b)'
    BY DEF CursorCovered, Announced, Blocks
<1> USE DEF IInv
<1>1. CASE Cursor' = Cursor
    <2>1. Announced(b)
        BY <1>1 DEF CursorCovered, Announced
    <2> QED
        BY <2>1, AnnouncedStays
<1>2. CASE pc = "save" /\ Cursor' = end + 1
    <2>1. b \in 1..end
        BY <1>2 DEF TypeOK
    <2>2. Announced(b)
        BY <1>2, <2>1, SaveCovers
    <2> QED
        BY <2>2, AnnouncedStays
<1>3. Cursor' = Cursor \/ (pc = "save" /\ Cursor' = end + 1)
    BY CursorStep
<1> QED
    BY <1>1, <1>2, <1>3

\* Every range the producer adds lies within the chain.
LEMMA ExistInvariance == IInv /\ [Next]_vars => PublishedExist'
<1> SUFFICES ASSUME IInv, [Next]_vars, NEW r \in published' \ SpecialCaseBlocks
             PROVE  (1 <= r.start /\ r.start <= r.end /\ r.end <= latest')
    BY DEF PublishedExist
<1> USE DEF IInv, TypeOK
<1>1. latest <= latest' /\ latest \in Int /\ latest' \in Int
    BY TypeInvariance DEF Next, vars, NewBlock, StartRunner, StartRunnerFails,
           ReadCursor, ChooseRange, Return, Publish, PublishFails, SaveCursor,
           SaveCursorFails, Crash
<1>2. CASE r \in published
    <2>1. r \in Range
        BY <1>2
    <2> QED
        BY <1>1, <1>2, <2>1 DEF PublishedExist, Range
<1>3. CASE r \notin published
    <2>1. pc = "publish" /\ r = [start |-> start, end |-> end]
        BY <1>3 DEF Next, vars, NewBlock, StartRunner, StartRunnerFails,
               ReadCursor, ChooseRange, Return, Publish, PublishFails,
               SaveCursor, SaveCursorFails, Crash
    <2> QED
        BY <1>1, <2>1 DEF LocalCovered
<1> QED
    BY <1>2, <1>3

\* produceOnce's local position stays backed by what is published.
LEMMA LocalInvariance == IInv /\ [Next]_vars => LocalCovered'
<1> SUFFICES ASSUME IInv, [Next]_vars PROVE LocalCovered'
    OBVIOUS
<1> USE DEF IInv
<1> USE DEF TypeOK
<1>1. pc' \in {"fetch", "publish", "save"} => Cursor' <= start'
    BY DEF Next, vars, NewBlock, StartRunner, StartRunnerFails, ReadCursor,
           ChooseRange, Return, Publish, PublishFails, SaveCursor,
           SaveCursorFails, Crash, Cursor, NoCursor, LocalCovered
<1>2. ASSUME pc' \in {"fetch", "publish", "save"}, NEW b \in 1..(start' - 1)
      PROVE  Announced(b)'
    <2>1. \/ pc \in {"fetch", "publish", "save"} /\ start' = start
          \/ pc = "idle" /\ start' = Cursor
          \/ pc = "save" /\ start' = end + 1
        BY <1>2 DEF Next, vars, NewBlock, StartRunner, StartRunnerFails,
               ReadCursor, ChooseRange, Return, Publish, PublishFails,
               SaveCursor, SaveCursorFails, Crash
    <2>2. CASE pc \in {"fetch", "publish", "save"} /\ start' = start
        <3>1. Announced(b)
            BY <2>2, <1>2 DEF LocalCovered
        <3> QED
            BY <3>1, AnnouncedStays
    <2>3. CASE pc = "idle" /\ start' = Cursor
        <3>1. Announced(b)
            BY <2>3, <1>2 DEF CursorCovered, Announced
        <3> QED
            BY <3>1, AnnouncedStays
    <2>4. CASE pc = "save" /\ start' = end + 1
        <3>1. b \in 1..end
            BY <2>4, <1>2
        <3>2. Announced(b)
            BY <2>4, <3>1, SaveCovers
        <3> QED
            BY <3>2, AnnouncedStays
    <2> QED
        BY <2>1, <2>2, <2>3, <2>4
<1>3. pc' \in {"publish", "save"} => start' <= end' /\ end' <= latest'
    BY BlockRangeProducerAssumption
    DEF Next, vars, NewBlock, StartRunner, StartRunnerFails, ReadCursor,
        ChooseRange, ClippedEnd, Return, Publish, PublishFails, SaveCursor,
        SaveCursorFails, Crash, LocalCovered
<1>4. pc' = "save" => [start |-> start', end |-> end'] \in published'
    BY DEF Next, vars, NewBlock, StartRunner, StartRunnerFails, ReadCursor,
           ChooseRange, Return, Publish, PublishFails, SaveCursor,
           SaveCursorFails, Crash, LocalCovered
<1> QED
    BY <1>1, <1>2, <1>3, <1>4 DEF LocalCovered

\* As long as no save is lost, published ranges stay below the position.
LEMMA FreshInvariance == IInv /\ [Next]_vars => Fresh'
<1> SUFFICES ASSUME IInv, [Next]_vars, ~unsaved' PROVE Fresh'
    BY DEF Fresh
<1> USE DEF IInv, TypeOK
<1>1. ~unsaved
    BY DEF Next, vars, NewBlock, StartRunner, StartRunnerFails, ReadCursor,
           ChooseRange, Return, Publish, PublishFails, SaveCursor,
           SaveCursorFails, Crash
<1>2. pc' \in {"fetch", "publish", "save"} => start' = Cursor'
    BY <1>1 DEF Next, vars, NewBlock, StartRunner, StartRunnerFails,
           ReadCursor, ChooseRange, Return, Publish, PublishFails, SaveCursor,
           SaveCursorFails, Crash, Fresh, Cursor, NoCursor
<1>3. ASSUME NEW r \in published' \ SpecialCaseBlocks
      PROVE  r.end < (IF pc' = "save" THEN end' + 1 ELSE Cursor')
    <2>1. CASE r \in published
        <3>1. r \in Range /\ r.end < (IF pc = "save" THEN end + 1 ELSE Cursor)
            BY <1>1, <1>3, <2>1 DEF Fresh
        <3>2. CASE SaveCursor
            BY <3>1, <3>2 DEF SaveCursor, Cursor, NoCursor, Range
        <3>3. CASE Publish
            <4>1. start = Cursor /\ start <= end
                BY <1>1, <3>3 DEF Publish, Fresh, LocalCovered
            <4> QED
                BY <3>1, <3>3, <4>1 DEF Publish, Range
        <3>4. CASE ~SaveCursor /\ ~Publish
            <4>1. \/ pc' = pc /\ end' = end
                  \/ pc # "save" /\ pc' # "save"
                BY <3>4 DEF Next, vars, NewBlock, StartRunner,
                   StartRunnerFails, ReadCursor, ChooseRange, Return,
                   PublishFails, SaveCursorFails, Crash
            <4>2. Cursor' = Cursor
                BY <3>4 DEF Next, vars, NewBlock, StartRunner,
                   StartRunnerFails, ReadCursor, ChooseRange, Return,
                   PublishFails, SaveCursorFails, Crash, Cursor
            <4> QED
                BY <3>1, <4>1, <4>2
        <3> QED
            BY <3>2, <3>3, <3>4
    <2>2. CASE r \notin published
        <3>1. pc = "publish" /\ pc' = "save" /\ end' = end
              /\ r = [start |-> start, end |-> end]
            BY <1>1, <1>3, <2>2 DEF Next, vars, NewBlock, StartRunner,
               StartRunnerFails, ReadCursor, ChooseRange, Return, Publish,
               PublishFails, SaveCursor, SaveCursorFails, Crash
        <3> QED
            BY <3>1
    <2> QED
        BY <2>1, <2>2
<1> QED
    BY <1>2, <1>3 DEF Fresh

\* The strengthened invariant is inductive.
LEMMA NextIInv == IInv /\ [Next]_vars => IInv'
BY TypeInvariance, CoveredInvariance, ExistInvariance, LocalInvariance,
   FreshInvariance DEF IInv

\* The strengthened invariant holds in every reachable state.
THEOREM Invariance == Spec => []IInv
BY InitIInv, NextIInv, PTL DEF Spec

------------------------------------------------------------------------------
\* Type correctness of the producer's state.
THEOREM TypeCorrect == Spec => []TypeOK
<1>1. IInv => TypeOK
    BY DEF IInv
<1> QED
    BY <1>1, Invariance, PTL

\* Whatever fails and whenever the process dies, no block below the saved
\* cursor was left out of the ranges put into the queue.
THEOREM NoBlockSkipped == Spec => []CursorCovered
<1>1. IInv => CursorCovered
    BY DEF IInv
<1> QED
    BY <1>1, Invariance, PTL

\* No range announces a block above the latest one.
THEOREM NoPhantomBlock == Spec => []PublishedExist
<1>1. IInv => PublishedExist
    BY DEF IInv
<1> QED
    BY <1>1, Invariance, PTL

\* Without a lost save no block is announced twice.
THEOREM NoNeedlessRepeat == Spec => []FreshUnlessUnsaved
<1>1. IInv => FreshUnlessUnsaved
    BY DEF IInv, FreshUnlessUnsaved, Fresh
<1> QED
    BY <1>1, Invariance, PTL

\* The saved cursor never moves back.
THEOREM CursorNeverRewinds == Spec => CursorMonotone
<1>1. IInv /\ [Next]_vars => [Cursor' >= Cursor]_vars
    <2> SUFFICES ASSUME IInv, [Next]_vars PROVE Cursor' >= Cursor
        OBVIOUS
    <2>1. Cursor \in Int
        BY DEF IInv, TypeOK, Cursor
    <2>2. pc = "save" => Cursor <= end
        BY <2>1 DEF IInv, TypeOK, LocalCovered
    <2> QED
        BY <2>1, <2>2, CursorStep DEF IInv, TypeOK
<1> QED
    BY <1>1, Invariance, PTL DEF Spec, CursorMonotone

------------------------------------------------------------------------------
\* What CursorLog calls done: the blocks of the chain in some published range.
Done == {b \in 1..MaxHeight : Announced(b)}

\* A unit below a cursor is a unit.
LEMMA BelowCursor ==
    ASSUME NEW last \in Nat, NEW c \in 1..(last + 1), NEW b \in 1..(c - 1)
    PROVE  b \in 1..last
OBVIOUS

\* Each step of the producer hands blocks out or moves the cursor past blocks
\* already handed out, or is invisible to CursorLog.
LEMMA StepRefines == IInv /\ [Next]_vars => [Log!Next]_(Log!vars)
<1> SUFFICES ASSUME IInv, [Next]_vars PROVE [Log!Next]_(Log!vars)
    OBVIOUS
<1>1. TypeOK /\ TypeOK' /\ CursorCovered' /\ BlockRangeProducerAssumption
    BY TypeInvariance, CoveredInvariance, BlockRangeProducerAssumption DEF IInv
<1>2. /\ Done \subseteq Done'
      /\ Done' \in SUBSET (1..MaxHeight)
    BY AnnouncedStays DEF Done
<1>3. Cursor \in Int /\ Cursor' \in 1..(MaxHeight + 1)
    BY <1>1 DEF TypeOK, Cursor, NoCursor, BlockRangeProducerAssumption
<1>4. CASE Cursor' = Cursor
    BY <1>2, <1>4 DEF Log!Next, Log!HandOut, Log!vars, Done, Announced
<1>5. CASE Cursor' # Cursor
    <2>1. published' = published /\ pc = "save" /\ Cursor' = end + 1
        <3>1. pc = "save" /\ Cursor' = end + 1
            BY <1>1, <1>5, CursorStep
        <3> QED
            BY <3>1 DEF Next, vars, NewBlock, StartRunner, StartRunnerFails,
               ReadCursor, ChooseRange, Return, Publish, PublishFails,
               SaveCursor, SaveCursorFails, Crash
    <2>2. Cursor < Cursor'
        BY <2>1, <1>1, <1>3 DEF IInv, LocalCovered, TypeOK
    <2>3. Done' = Done
        BY <2>1 DEF Done, Announced, Blocks
    <2>4. ASSUME NEW b \in 1..(Cursor' - 1)
          PROVE  b \in 1..MaxHeight /\ Announced(b)'
        <3>1. b \in 1..MaxHeight
            BY <1>1, <1>3, BelowCursor DEF BlockRangeProducerAssumption
        <3>2. Announced(b)'
            BY <1>1 DEF CursorCovered, Announced, Blocks
        <3> QED
            BY <3>1, <3>2
    <2>5. 1..(Cursor' - 1) \subseteq Done
        BY <2>3, <2>4 DEF Done
    <2>6. Cursor' \in (Cursor + 1)..(MaxHeight + 1)
        BY <1>3, <2>2, <1>1 DEF BlockRangeProducerAssumption
    <2> QED
        BY <2>3, <2>5, <2>6 DEF Log!Next, Log!Commit, Done, Announced
<1> QED
    BY <1>4, <1>5

\* The producer implements the at-least-once contract of CursorLog.
THEOREM Refinement == Spec => ImplementsCursorLog
<1>1. Init => Log!Init
    BY DEF Init, Log!Init, Cursor, NoCursor
<1>2. IInv /\ [Next]_vars => [Log!Next]_(Log!vars)
    BY StepRefines
<1> QED
    BY <1>1, <1>2, Invariance, PTL DEF Spec, ImplementsCursorLog, Log!Spec
==============================================================================
