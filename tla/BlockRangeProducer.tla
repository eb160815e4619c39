-------------------------- MODULE BlockRangeProducer --------------------------
(***************************************************************************)
(* internal/services/blockranges_producer.go: the process that turns the   *)
(* growing chain into BlockRangeMessages.  produceOnce reads the cursor    *)
(* from Redis, then repeats: ask the node for its latest block, clip the   *)
(* next range to it, publish the range, save the cursor.  Every call to    *)
(* Redis or the node may fail (also after it took effect), and the process *)
(* may die between any two calls.                                          *)
(***************************************************************************)
EXTENDS Integers

CONSTANTS
    BlockRangeLimit,    \* block_range_limit of the configuration
    SpecialCaseBlocks,  \* special_case_blocks: ranges published at every start
    MaxHeight           \* bound: the chain grows up to this height

Range == [start : Int, end : Int]

ASSUME BlockRangeProducerAssumption ==
    /\ BlockRangeLimit \in Nat
    /\ SpecialCaseBlocks \subseteq Range
    /\ MaxHeight \in Nat

VARIABLES
    latest,             \* height of the latest block, 0 before the first one
    kv,                 \* the cursor stored in Redis, NoCursor when absent
    pc,                 \* where produceOnce stands, "down" when the process is
    start,              \* produceOnce's local start
    end,                \* produceOnce's local end
    published,          \* every range ever put into the queue
    unsaved             \* history: a published range's cursor save was lost

vars == <<latest, kv, pc, start, end, published, unsaved>>

NoCursor == 0

\* The cursor produceOnce starts from: a missing key reads as "1".
Cursor == IF kv = NoCursor THEN 1 ELSE kv

\* The blocks a range announces, its end included: the producer goes on at end + 1.
Blocks(r) == r.start .. r.end

\* The blocks whose transactions a consumer of the range asks for:
\* tx.height >= start AND tx.height < end, or tx.height = start.
Handled(r) == IF r.start = r.end THEN {r.start} ELSE r.start .. (r.end - 1)

Init ==
    /\ latest = 0
    /\ kv = NoCursor
    /\ pc = "down"
    /\ start = 1
    /\ end = 0
    /\ published = {}
    /\ unsaved = FALSE

------------------------------------------------------------------------------
\* The chain produces a block.
NewBlock ==
    /\ latest < MaxHeight
    /\ latest' = latest + 1
    /\ UNCHANGED <<kv, pc, start, end, published, unsaved>>

\* RunBlockRangeProducer: the special cases are published in one call first.
StartRunner ==
    /\ pc = "down"
    /\ pc' = "idle"
    /\ published' = published \cup SpecialCaseBlocks
    /\ UNCHANGED <<latest, kv, start, end, unsaved>>

\* produceSpecialCase fails, after the messages landed or not: the runner
\* panics and stays down until the next start.
StartRunnerFails ==
    /\ pc = "down"
    /\ SpecialCaseBlocks # {}
    /\ published' \in {published, published \cup SpecialCaseBlocks}
    /\ UNCHANGED <<latest, kv, pc, start, end, unsaved>>

\* produceOnce is called and reads the cursor; when Get fails it returns and
\* nothing has changed.
ReadCursor ==
    /\ pc = "idle"
    /\ start' = Cursor
    /\ pc' = "fetch"
    /\ UNCHANGED <<latest, kv, end, published, unsaved>>

\* The next range, clipped to the latest block.
ClippedEnd ==
    IF start + BlockRangeLimit > latest THEN latest ELSE start + BlockRangeLimit

\* Mutant: a range of a single block is left for later.
ChooseLongRange ==
    /\ pc = "fetch"
    /\ start < ClippedEnd
    /\ end' = ClippedEnd
    /\ pc' = "publish"
    /\ UNCHANGED <<latest, kv, start, published, unsaved>>

\* Mutant: the cursor is saved before the range is published.
ChooseRangeAndSave ==
    /\ pc = "fetch"
    /\ start <= ClippedEnd
    /\ end' = ClippedEnd
    /\ kv' = ClippedEnd + 1
    /\ pc' = "publish"
    /\ UNCHANGED <<latest, start, published, unsaved>>

ChooseRange ==
    /\ pc = "fetch"
    /\ start <= ClippedEnd
    /\ end' = ClippedEnd
    /\ pc' = "publish"
    /\ UNCHANGED <<latest, kv, start, published, unsaved>>

\* produceOnce returns: nothing new on the chain, no block yet, or the node
\* could not be asked.  It is called again later.
Return ==
    /\ pc = "fetch"
    /\ pc' = "idle"
    /\ UNCHANGED <<latest, kv, start, end, published, unsaved>>

Publish ==
    /\ pc = "publish"
    /\ published' = published \cup {[start |-> start, end |-> end]}
    /\ pc' = "save"
    /\ UNCHANGED <<latest, kv, start, end, unsaved>>

\* PublishMsgs reports an error, whether or not Redis kept the message.
PublishFails ==
    /\ pc = "publish"
    /\ \/ /\ published' = published \cup {[start |-> start, end |-> end]}
          /\ unsaved' = TRUE
       \/ UNCHANGED <<published, unsaved>>
    /\ pc' = "idle"
    /\ UNCHANGED <<latest, kv, start, end>>

\* Mutant: the next range starts at the end of this one.
SaveEnd ==
    /\ pc = "save"
    /\ start' = end
    /\ kv' = end
    /\ pc' = "fetch"
    /\ UNCHANGED <<latest, end, published, unsaved>>

\* Mutant: the next range starts one block too late.
SaveBeyondEnd ==
    /\ pc = "save"
    /\ start' = end + 2
    /\ kv' = end + 2
    /\ pc' = "fetch"
    /\ UNCHANGED <<latest, end, published, unsaved>>

SaveCursor ==
    /\ pc = "save"
    /\ start' = end + 1
    /\ kv' = end + 1
    /\ pc' = "fetch"
    /\ UNCHANGED <<latest, end, published, unsaved>>

\* A failed Upsert, kept by Redis or not, is only logged: the loop goes on from
\* the local start.
SaveCursorFails ==
    /\ pc = "save"
    /\ start' = end + 1
    /\ kv' \in {kv, end + 1}
    /\ pc' = "fetch"
    /\ unsaved' = TRUE
    /\ UNCHANGED <<latest, end, published>>

\* The process dies; whatever it kept in memory is gone.
Crash ==
    /\ pc # "down"
    /\ pc' = "down"
    /\ unsaved' = (unsaved \/ pc = "save")
    /\ UNCHANGED <<latest, kv, start, end, published>>

Next ==
    \/ NewBlock
    \/ StartRunner
    \/ StartRunnerFails
    \/ ReadCursor
    \/ ChooseRange
    \/ Return
    \/ Publish
    \/ PublishFails
    \/ SaveCursor
    \/ SaveCursorFails
    \/ Crash

Spec == Init /\ [][Next]_vars

\* running.WithBackOff calls produceOnce again whatever it returned, and a stopped
\* process is started again; no failure is permanent: a call made again and
\* again succeeds at last.
Fairness ==
    /\ SF_vars(StartRunner)
    /\ SF_vars(ReadCursor)
    /\ SF_vars(ChooseRange)
    /\ SF_vars(Publish)
    /\ SF_vars(SaveCursor)

FairSpec == Spec /\ Fairness

------------------------------------------------------------------------------
TypeOK ==
    /\ latest \in 0..MaxHeight
    /\ kv \in 0..(MaxHeight + 1)
    /\ pc \in {"down", "idle", "fetch", "publish", "save"}
    /\ start \in 1..(MaxHeight + 1)
    /\ end \in 0..MaxHeight
    /\ published \subseteq Range
    /\ unsaved \in BOOLEAN

\* No block is skipped by the producer itself: whatever failed or died on the
\* way, every block below the saved cursor is in a range that was published
\* (publish comes before the cursor's Upsert, and the next start is end + 1).
CursorCovered ==
    \A b \in 1..(Cursor - 1) : \E r \in published : b \in Blocks(r)

\* A range never announces a block the chain does not have yet: the end is
\* clipped to the latest block before the range is published.
PublishedExist ==
    \A r \in published \ SpecialCaseBlocks :
        1 <= r.start /\ r.start <= r.end /\ r.end <= latest

\* A block is announced twice only after the save of a published range's cursor was
\* lost; otherwise the range about to be published lies above all earlier ones.
FreshUnlessUnsaved ==
    pc = "publish" /\ ~unsaved =>
        \A r \in published \ SpecialCaseBlocks : r.end < start

\* The saved cursor never moves back, so no failure rewinds the producer past
\* what it had saved.
CursorMonotone == [][Cursor' >= Cursor]_vars

\* The producer keeps the promise of a cursor-driven producer: the blocks it
\* announces and the cursor it saves behave like CursorLog's.
Log == INSTANCE CursorLog WITH
    LastUnit <- MaxHeight,
    done <- {b \in 1..MaxHeight : \E r \in published : b \in Blocks(r)},
    cursor <- Cursor

ImplementsCursorLog == Log!Spec

\* Every block of the chain is announced at last, however often calls fail and
\* the process restarts.
EveryBlockAnnounced ==
    \A b \in 1..MaxHeight :
        (latest >= b) ~> (\E r \in published : b \in Blocks(r))

\* docs/diag/informal-description.txt:17 says that the indexers handle every event
\* in every block: every block below the cursor is asked for by the consumer of
\* some range.
EveryBlockHandled ==
    \A b \in 1..(Cursor - 1) : \E r \in published : b \in Handled(r)
==============================================================================
