--------------------------- MODULE BothEnds_proofs ---------------------------
(***************************************************************************)
(* Proofs about the two components of MCBothEnds, for every value of the   *)
(* constants.                                                              *)
(*                                                                         *)
(* RarimoCoreOpProducer takes only steps the consumer alone may take, so   *)
(* the consumer's invariant carries over.  On top of it, OpInv says what   *)
(* the producer's local state knows of the stores while Handle runs.       *)
(*                                                                         *)
(* For CachedTransfers, FreshUnlessOutrun needs TagsCover, an invalidation *)
(* by the index tag of a transfer reaches every entry whose last transfer  *)
(* it is, and OpenOutrun: what is cached of the rows a transaction will    *)
(* write after it has invalidated them is recorded in outrun.              *)
(***************************************************************************)
EXTENDS MCBothEnds, TLAPS

-----------------------------------------------------------------------------
(* RarimoCoreOpProducer *)

CP == INSTANCE Consumer_proofs

\* The handler is within produceMsgs's loop over pages.
InLoop == step \in {"fetch", "publish", "save", "insert"}

\* Types of the producer's own state.
OpTypeOK ==
    /\ step \in {"off", "next", "fetch", "publish", "save", "insert"}
    /\ idx \in Nat \ {0}
    /\ page \in Nat \ {0}
    /\ queue \in 1..(Len(Queues) + 1)
    /\ kvPage \in [Ranges -> Nat]
    /\ sent \subseteq Ranges \X Nat \X {Queues[q] : q \in DOMAIN Queues}
    /\ rows \subseteq Ranges \X Nat
    /\ finished \subseteq Ranges
    /\ passedBy \subseteq Ranges \X Nat

\* Handle runs only while the consumer waits for it, and within the loop the
\* local page is the saved one.
LocalIsSaved ==
    /\ step # "off" => pc = "handling"
    /\ InLoop => idx \in DOMAIN batch /\ page = SavedPage(Current)

\* What has been published of the page at hand.
PublishProgress ==
    /\ step = "publish" =>
        /\ queue \in DOMAIN Queues
        /\ \A q \in 1..(queue - 1) : <<Current, page, Queues[q]>> \in sent
    /\ step = "save" => PageSent(Current, page)

\* Ranges that are finished are sent, and the messages that are done are finished.
DoneIsSent ==
    /\ \A r \in finished : \A p \in 1..Pages[r] : PageSent(r, p)
    /\ step # "off" =>
        \A i \in DOMAIN batch : i < idx => RangeOf[batch[i]] \in finished
    /\ \A m \in handled : RangeOf[m] \in finished

\* The strengthened invariant, on top of the consumer's.
OpInv ==
    /\ OpTypeOK
    /\ LocalIsSaved
    /\ PublishProgress
    /\ DoneIsSent
    /\ PageCursorCovered
    /\ RowsMissingOnlyIfPassedBy

------------------------------------------------------------------------------
\* Each step of the composition is a step of the consumer, or none of its.
LEMMA StepIsConsumerStep == [Next]_vars => [C!Next]_(C!vars)
BY DEF Next, vars, consumerVars, localVars, storeVars, C!Next, C!vars, ConsumerStep,
       BeginHandle, NextRange, HandleReturns, FetchPage, FetchEmpty, PublishEvents,
       SavePage, InsertTransactions, HandleFails, Malformed, Interrupt

\* The producer's handler does nothing the queue consumer does not allow for: with
\* it, the consumer still is the consumer of the module Consumer.
THEOREM ConsumerRefinement == Spec => C!Spec
<1>1. Init => C!Init
    BY DEF Init
<1> QED
    BY <1>1, StepIsConsumerStep, PTL DEF Spec, C!Spec

\* Consumer_proofs speaks of the same consumer.
LEMMA SameConsumer ==
    /\ C!Init => CP!Init
    /\ [C!Next]_(C!vars) => [CP!Next]_(CP!vars)
<1>1. C!Init => CP!Init
    BY DEF C!Init, CP!Init
<1>2. C!Run = CP!Run /\ C!StartConsuming = CP!StartConsuming
    BY DEF C!Run, CP!Run, C!StartConsuming, CP!StartConsuming
<1>3. C!StartFails = CP!StartFails /\ C!Cancel = CP!Cancel /\ C!Crash = CP!Crash
    BY DEF C!StartFails, CP!StartFails, C!Cancel, CP!Cancel, C!Crash, CP!Crash,
           C!Cleanup, CP!Cleanup, C!Cleaned, CP!Cleaned, C!Stopped, CP!Stopped,
           C!At, CP!At, C!Moved, CP!Moved
<1>4. \A m \in Msgs : C!Publish(m) = CP!Publish(m) /\ C!Prefetch(m) = CP!Prefetch(m)
    BY DEF C!Publish, CP!Publish, C!Prefetch, CP!Prefetch, C!At, CP!At, C!Cardinality,
       CP!Cardinality
<1>5. C!Consume = CP!Consume
    BY DEF C!Consume, CP!Consume, C!Batches, CP!Batches, C!At, CP!At, C!Cardinality,
       CP!Cardinality
<1>6. /\ C!HandleOk = CP!HandleOk /\ C!HandleErr = CP!HandleErr
      /\ C!HandlePanic = CP!HandlePanic /\ C!Finalize = CP!Finalize
    BY DEF C!HandleOk, CP!HandleOk, C!HandleErr, CP!HandleErr, C!HandlePanic,
           CP!HandlePanic, C!AttemptFails, CP!AttemptFails, C!Finalize, CP!Finalize,
           C!InBatch, CP!InBatch, C!Moved, CP!Moved
<1>7. C!Next => CP!Next
    BY <1>2, <1>3, <1>4, <1>5, <1>6, Zenon DEF C!Next, CP!Next
<1>8. UNCHANGED C!vars => UNCHANGED CP!vars
    BY DEF C!vars, CP!vars
<1> QED
    BY <1>1, <1>7, <1>8

\* The consumer's invariant holds of the composition.
LEMMA ConsumerInvariance == Spec => []CP!IInv
<1>1. Spec => CP!Spec
    BY ConsumerRefinement, SameConsumer, PTL DEF C!Spec, CP!Spec
<1>2. CP!Spec => []CP!IInv
    BY CP!Invariance, OpProducerAssumption DEF OpProducerAssumption
<1> QED
    BY <1>1, <1>2, PTL

------------------------------------------------------------------------------
\* What the consumer's invariant says of the batch.
LEMMA BatchFacts ==
    ASSUME CP!IInv
    PROVE  batch \in Seq(Msgs) /\ handled \subseteq Msgs
BY DEF CP!IInv, CP!TypeOK

\* Within the loop over pages the range at hand is a range.
LEMMA CurrentType ==
    ASSUME CP!IInv, LocalIsSaved, InLoop
    PROVE  Current \in Ranges
BY BatchFacts, OpProducerAssumption DEF Current, LocalIsSaved, OpProducerAssumption

\* The saved page is a page number.
LEMMA SavedPageType ==
    ASSUME OpTypeOK, NEW r \in Ranges PROVE SavedPage(r) \in Nat \ {0}
BY DEF OpTypeOK, SavedPage, NoCursor

\* The strengthened invariant holds initially.
LEMMA InitOpInv == Init => OpInv
<1> SUFFICES ASSUME Init PROVE OpInv
    OBVIOUS
<1>1. OpTypeOK
    BY DEF Init, OpTypeOK, NoCursor, Queues
<1>2. LocalIsSaved /\ PublishProgress /\ DoneIsSent
    BY DEF Init, C!Init, LocalIsSaved, InLoop, PublishProgress, DoneIsSent
<1>3. \A r \in Ranges : SavedPage(r) = 1
    BY DEF Init, SavedPage
<1>4. PageCursorCovered /\ RowsMissingOnlyIfPassedBy
    BY <1>3 DEF PageCursorCovered, RowsMissingOnlyIfPassedBy
<1> QED
    BY <1>1, <1>2, <1>4 DEF OpInv

\* A step that leaves the stores and the handled messages alone, and the batch too
\* while Handle runs: the consumer's own steps, BeginHandle, NextRange, FetchPage.
LEMMA StoresKept ==
    ASSUME OpInv, UNCHANGED storeVars, UNCHANGED handled,
           step = "insert" => UNCHANGED <<step, batch, idx, page>>
    PROVE  /\ PageCursorCovered'
           /\ RowsMissingOnlyIfPassedBy'
           /\ \A r \in finished' : \A p \in 1..Pages[r] : PageSent(r, p)'
           /\ \A m \in handled' : RangeOf[m] \in finished'
<1> USE DEF OpInv, storeVars
<1>1. \A r, p : PageSent(r, p)' <=> PageSent(r, p)
    BY DEF PageSent
<1>2. \A r : SavedPage(r)' = SavedPage(r)
    BY DEF SavedPage
<1>3. PageCursorCovered'
    BY <1>1, <1>2 DEF PageCursorCovered
<1>4. RowsMissingOnlyIfPassedBy'
    BY <1>2 DEF RowsMissingOnlyIfPassedBy, Current
<1> QED
    BY <1>1, <1>3, <1>4 DEF DoneIsSent

\* The consumer's own steps.
LEMMA ConsumerStepKeeps ==
    ASSUME CP!IInv, OpInv, ConsumerStep PROVE OpInv'
<1> USE DEF OpInv
<1>1. UNCHANGED localVars /\ UNCHANGED storeVars /\ UNCHANGED handled
    BY DEF ConsumerStep, C!Publish, C!Prefetch, C!Run, C!StartConsuming,
           C!StartFails, C!Consume, C!Finalize
<1>2. step # "off" => UNCHANGED <<pc, batch>>
    BY DEF LocalIsSaved, ConsumerStep, C!Publish, C!Prefetch, C!Run,
           C!StartConsuming, C!StartFails, C!Consume, C!Finalize
<1>3. OpTypeOK'
    BY <1>1 DEF OpTypeOK, localVars, storeVars
<1>4. LocalIsSaved'
    BY <1>1, <1>2 DEF LocalIsSaved, InLoop, localVars, storeVars, SavedPage, Current
<1>5. PublishProgress'
    BY <1>1, <1>2 DEF PublishProgress, PageSent, Current, localVars, storeVars
<1>6. /\ PageCursorCovered'
      /\ RowsMissingOnlyIfPassedBy'
      /\ \A r \in finished' : \A p \in 1..Pages[r] : PageSent(r, p)'
      /\ \A m \in handled' : RangeOf[m] \in finished'
    BY <1>1, <1>2, StoresKept DEF localVars
<1>7. DoneIsSent'
    BY <1>1, <1>2, <1>6 DEF DoneIsSent, localVars, storeVars
<1> QED
    BY <1>3, <1>4, <1>5, <1>6, <1>7

\* BeginHandle: no message of the batch is done yet.
LEMMA BeginHandleKeeps ==
    ASSUME CP!IInv, OpInv, BeginHandle PROVE OpInv'
<1> USE DEF OpInv, BeginHandle, consumerVars
<1>1. OpTypeOK'
    BY DEF OpTypeOK, storeVars
<1>2. LocalIsSaved' /\ PublishProgress'
    BY DEF LocalIsSaved, InLoop, PublishProgress
<1>3. /\ PageCursorCovered'
      /\ RowsMissingOnlyIfPassedBy'
      /\ \A r \in finished' : \A p \in 1..Pages[r] : PageSent(r, p)'
      /\ \A m \in handled' : RangeOf[m] \in finished'
    BY StoresKept
<1>4. DoneIsSent'
    <2>1. \A i \in DOMAIN batch' : ~ (i < idx')
        BY BatchFacts
    <2> QED
        BY <1>3, <2>1 DEF DoneIsSent
<1> QED
    BY <1>1, <1>2, <1>3, <1>4

\* NextRange and FetchPage: the loop starts at the saved page.
LEMMA FetchStepKeeps ==
    ASSUME CP!IInv, OpInv, NextRange \/ FetchPage PROVE OpInv'
<1> USE DEF OpInv
<1>1. /\ UNCHANGED consumerVars /\ UNCHANGED storeVars /\ UNCHANGED idx
      /\ step \in {"next", "fetch"} /\ step' \in {"fetch", "publish"}
      /\ idx \in DOMAIN batch
      /\ page' = SavedPage(Current)
      /\ step' = "publish" => queue' = 1
      /\ queue' \in {1, queue}
    BY BatchFacts DEF NextRange, FetchPage, LocalIsSaved, InLoop, OpTypeOK
<1>2. Current \in Ranges
    BY <1>1, BatchFacts, OpProducerAssumption DEF Current, OpProducerAssumption
<1>3. OpTypeOK'
    BY <1>1, <1>2, SavedPageType DEF OpTypeOK, storeVars, Queues
<1>4. LocalIsSaved'
    BY <1>1 DEF LocalIsSaved, InLoop, SavedPage, Current, consumerVars, storeVars
<1>5. PublishProgress'
    <2>1. step' # "save" /\ (step' = "publish" => queue' = 1)
        BY <1>1
    <2>2. 1 \in DOMAIN Queues
        BY DEF Queues
    <2>3. \A q \in 1..(1 - 1) : FALSE
        OBVIOUS
    <2> QED
        BY <2>1, <2>2, <2>3 DEF PublishProgress
<1>6. /\ PageCursorCovered'
      /\ RowsMissingOnlyIfPassedBy'
      /\ \A r \in finished' : \A p \in 1..Pages[r] : PageSent(r, p)'
      /\ \A m \in handled' : RangeOf[m] \in finished'
    BY <1>1, StoresKept DEF consumerVars
<1>7. DoneIsSent'
    BY <1>1, <1>6 DEF DoneIsSent, consumerVars, storeVars
<1> QED
    BY <1>3, <1>4, <1>5, <1>6, <1>7

\* HandleReturns: the messages of the batch are handled, and all are finished.
LEMMA HandleReturnsKeeps ==
    ASSUME CP!IInv, OpInv, HandleReturns PROVE OpInv'
<1> USE DEF OpInv
<1>1. /\ step = "next" /\ step' = "off" /\ idx > Len(batch)
      /\ UNCHANGED <<idx, page, queue>> /\ UNCHANGED storeVars
      /\ handled' = handled \cup {batch[i] : i \in DOMAIN batch}
    BY DEF HandleReturns, C!HandleOk, C!InBatch
<1>2. OpTypeOK'
    BY <1>1 DEF OpTypeOK, storeVars
<1>3. LocalIsSaved' /\ PublishProgress'
    BY <1>1 DEF LocalIsSaved, InLoop, PublishProgress
<1>4. \A r, p : PageSent(r, p)' <=> PageSent(r, p)
    BY <1>1 DEF PageSent, storeVars
<1>5. DoneIsSent'
    <2>1. \A i \in DOMAIN batch : RangeOf[batch[i]] \in finished
        BY <1>1, BatchFacts DEF DoneIsSent, OpTypeOK
    <2> QED
        BY <1>1, <1>4, <2>1 DEF DoneIsSent, storeVars
<1>6. PageCursorCovered'
    BY <1>1, <1>4 DEF PageCursorCovered, SavedPage, storeVars
<1>7. RowsMissingOnlyIfPassedBy'
    BY <1>1 DEF RowsMissingOnlyIfPassedBy, SavedPage, storeVars
<1> QED
    BY <1>2, <1>3, <1>5, <1>6, <1>7

\* FetchEmpty: the cursor has passed all pages, so all are sent.
LEMMA FetchEmptyKeeps ==
    ASSUME CP!IInv, OpInv, FetchEmpty PROVE OpInv'
<1> USE DEF OpInv
<1>1. /\ step = "fetch" /\ step' = "next" /\ idx' = idx + 1
      /\ page > Pages[Current]
      /\ finished' = finished \cup {Current}
      /\ kvPage' \in {kvPage, [kvPage EXCEPT ![Current] = NoCursor]}
      /\ UNCHANGED consumerVars /\ UNCHANGED <<page, queue, sent, rows, passedBy>>
    BY DEF FetchEmpty
<1>2. Current \in Ranges /\ idx \in DOMAIN batch /\ page = SavedPage(Current)
    BY <1>1, CurrentType DEF LocalIsSaved, InLoop
<1>3. OpTypeOK'
    BY <1>1, <1>2 DEF OpTypeOK, NoCursor
<1>4. LocalIsSaved' /\ PublishProgress'
    BY <1>1 DEF LocalIsSaved, InLoop, PublishProgress, consumerVars
<1>5. \A r, p : PageSent(r, p)' <=> PageSent(r, p)
    BY <1>1 DEF PageSent
<1>6. \A r \in Ranges :
        SavedPage(r)' \in Nat \ {0} /\ SavedPage(r)' <= SavedPage(r)
    BY <1>1, <1>2 DEF SavedPage, OpTypeOK, NoCursor
<1>7. PageCursorCovered'
    BY <1>5, <1>6, SavedPageType DEF PageCursorCovered
<1>8. RowsMissingOnlyIfPassedBy'
    <2> SUFFICES ASSUME NEW r \in Ranges, NEW p \in 1..(SavedPage(r)' - 1)
                 PROVE  <<r, p>> \in rows \cup passedBy
        BY <1>1 DEF RowsMissingOnlyIfPassedBy
    <2>1. p \in 1..(SavedPage(r) - 1)
        BY <1>6, SavedPageType
    <2> QED
        BY <1>1, <2>1 DEF RowsMissingOnlyIfPassedBy
<1>9. DoneIsSent'
    <2>1. \A p \in 1..Pages[Current] : PageSent(Current, p)
        BY <1>1, <1>2, SavedPageType, OpProducerAssumption
           DEF PageCursorCovered, OpProducerAssumption
    <2>2. \A r \in finished' : \A p \in 1..Pages[r] : PageSent(r, p)'
        BY <1>1, <1>5, <2>1 DEF DoneIsSent
    <2>3. \A i \in DOMAIN batch : i < idx' => RangeOf[batch[i]] \in finished'
        BY <1>1, <1>2, BatchFacts DEF DoneIsSent, OpTypeOK, Current
    <2> QED
        BY <1>1, <2>2, <2>3 DEF DoneIsSent, consumerVars
<1> QED
    BY <1>3, <1>4, <1>7, <1>8, <1>9

\* PublishEvents: one more queue has the page's events.
LEMMA PublishEventsKeeps ==
    ASSUME CP!IInv, OpInv, PublishEvents PROVE OpInv'
<1> USE DEF OpInv
<1>1. /\ step = "publish" /\ queue' = queue + 1
      /\ sent' = sent \cup {<<Current, page, Queues[queue]>>}
      /\ step' = (IF queue = Len(Queues) THEN "save" ELSE "publish")
      /\ UNCHANGED consumerVars
      /\ UNCHANGED <<idx, page, kvPage, rows, finished, passedBy>>
      /\ Current' = Current
    BY DEF PublishEvents, Current, consumerVars
<1>2. Current \in Ranges /\ queue \in DOMAIN Queues /\ queue \in Nat /\ page \in Nat
    BY <1>1, CurrentType DEF LocalIsSaved, InLoop, PublishProgress, OpTypeOK
<1>3. DOMAIN Queues = 1..Len(Queues) /\ Len(Queues) \in Nat
    BY DEF Queues
<1>4. OpTypeOK'
    <2>1. queue' \in 1..(Len(Queues) + 1)
        BY <1>1, <1>2, <1>3
    <2>2. sent' \subseteq Ranges \X Nat \X {Queues[q] : q \in DOMAIN Queues}
        BY <1>1, <1>2 DEF OpTypeOK
    <2> QED
        BY <1>1, <2>1, <2>2 DEF OpTypeOK
<1>5. LocalIsSaved'
    BY <1>1 DEF LocalIsSaved, InLoop, SavedPage, consumerVars
<1>6. PublishProgress'
    <2>1. \A q \in 1..queue : <<Current, page, Queues[q]>> \in sent'
        BY <1>1, <1>2 DEF PublishProgress
    <2>2. CASE queue = Len(Queues)
        BY <1>1, <1>3, <2>1, <2>2 DEF PublishProgress, PageSent
    <2>3. CASE queue # Len(Queues)
        BY <1>1, <1>2, <1>3, <2>1, <2>3 DEF PublishProgress
    <2> QED
        BY <2>2, <2>3
<1>7. \A r, p : PageSent(r, p) => PageSent(r, p)'
    BY <1>1 DEF PageSent
<1>8. PageCursorCovered' /\ DoneIsSent'
    BY <1>1, <1>7 DEF PageCursorCovered, SavedPage, DoneIsSent, consumerVars
<1>9. RowsMissingOnlyIfPassedBy'
    BY <1>1 DEF RowsMissingOnlyIfPassedBy, SavedPage
<1> QED
    BY <1>4, <1>5, <1>6, <1>8, <1>9

\* SavePage: the page the cursor passes is sent, and its insert comes next.
LEMMA SavePageKeeps ==
    ASSUME CP!IInv, OpInv, SavePage PROVE OpInv'
<1> USE DEF OpInv
<1>1. /\ step = "save" /\ step' = "insert" /\ page' = page + 1
      /\ kvPage' = [kvPage EXCEPT ![Current] = page + 1]
      /\ UNCHANGED consumerVars
      /\ UNCHANGED <<idx, queue, sent, rows, finished, passedBy>>
      /\ Current' = Current
    BY DEF SavePage, Current, consumerVars
<1>2. /\ Current \in Ranges /\ idx \in DOMAIN batch
      /\ page = SavedPage(Current) /\ page \in Nat \ {0}
    BY <1>1, CurrentType DEF LocalIsSaved, InLoop, OpTypeOK
<1>3. OpTypeOK'
    BY <1>1, <1>2 DEF OpTypeOK
<1>4. \A r \in Ranges :
        SavedPage(r)' = IF r = Current THEN page + 1 ELSE SavedPage(r)
    BY <1>1, <1>2 DEF SavedPage, NoCursor, OpTypeOK
<1>5. LocalIsSaved'
    <2>1. kvPage'[Current'] = page + 1
        BY <1>1, <1>2 DEF OpTypeOK
    <2> QED
        BY <1>1, <1>2, <2>1 DEF LocalIsSaved, InLoop, consumerVars, SavedPage, NoCursor
<1>6. PublishProgress'
    BY <1>1 DEF PublishProgress
<1>7. \A r, p : PageSent(r, p)' <=> PageSent(r, p)
    BY <1>1 DEF PageSent
<1>8. DoneIsSent'
    BY <1>1, <1>7 DEF DoneIsSent, consumerVars
<1>9. PageCursorCovered'
    <2> SUFFICES ASSUME NEW r \in Ranges, NEW p \in 1..(SavedPage(r)' - 1)
                 PROVE  PageSent(r, p)
        BY <1>7 DEF PageCursorCovered
    <2>1. CASE r = Current /\ p = page
        BY <1>1, <2>1 DEF PublishProgress
    <2>2. CASE ~ (r = Current /\ p = page)
        <3>1. p \in 1..(SavedPage(r) - 1)
            BY <1>2, <1>4, <2>2, SavedPageType
        <3> QED
            BY <3>1 DEF PageCursorCovered
    <2> QED
        BY <2>1, <2>2
<1>10. RowsMissingOnlyIfPassedBy'
    <2> SUFFICES ASSUME NEW r \in Ranges, NEW p \in 1..(SavedPage(r)' - 1),
                        ~ (r = Current /\ p = page)
                 PROVE  <<r, p>> \in rows \cup passedBy
        <3>1. page' - 1 = page
            BY <1>1, <1>2
        <3> QED
            BY <1>1, <3>1 DEF RowsMissingOnlyIfPassedBy
    <2>1. p \in 1..(SavedPage(r) - 1)
        BY <1>2, <1>4, SavedPageType
    <2> QED
        BY <1>1, <2>1 DEF RowsMissingOnlyIfPassedBy
<1> QED
    BY <1>3, <1>5, <1>6, <1>8, <1>9, <1>10

\* InsertTransactions: the page just passed is in the database.
LEMMA InsertKeeps ==
    ASSUME CP!IInv, OpInv, InsertTransactions PROVE OpInv'
<1> USE DEF OpInv
<1>1. /\ step = "insert" /\ step' = "fetch"
      /\ rows' = rows \cup {<<Current, page - 1>>}
      /\ UNCHANGED consumerVars
      /\ UNCHANGED <<idx, page, queue, kvPage, sent, finished, passedBy>>
      /\ Current' = Current
    BY DEF InsertTransactions, Current, consumerVars
<1>2. Current \in Ranges /\ page - 1 \in Nat
    BY <1>1, CurrentType DEF LocalIsSaved, InLoop, OpTypeOK
<1>3. OpTypeOK'
    BY <1>1, <1>2 DEF OpTypeOK
<1>4. LocalIsSaved' /\ PublishProgress'
    BY <1>1 DEF LocalIsSaved, InLoop, PublishProgress, SavedPage, consumerVars
<1>5. \A r, p : PageSent(r, p)' <=> PageSent(r, p)
    BY <1>1 DEF PageSent
<1>6. DoneIsSent' /\ PageCursorCovered'
    BY <1>1, <1>5 DEF DoneIsSent, PageCursorCovered, SavedPage, consumerVars
<1>7. RowsMissingOnlyIfPassedBy'
    BY <1>1 DEF RowsMissingOnlyIfPassedBy, SavedPage
<1> QED
    BY <1>3, <1>4, <1>6, <1>7

\* HandleFails and Interrupt: the page whose insert was due is noted as passed by.
LEMMA LeaveOffKeeps ==
    ASSUME CP!IInv, OpInv, HandleFails \/ Interrupt PROVE OpInv'
<1> USE DEF OpInv
<1>1. /\ step' = "off" /\ PassedBy /\ UNCHANGED handled
      /\ UNCHANGED <<idx, page, queue, kvPage, sent, rows, finished>>
    BY DEF HandleFails, Malformed, Interrupt, C!HandleErr, C!HandlePanic, C!AttemptFails,
           C!Cancel, C!Crash, C!Stopped
<1>2. step = "insert" => Current \in Ranges /\ page - 1 \in Nat
    BY CurrentType DEF LocalIsSaved, InLoop, OpTypeOK
<1>3. OpTypeOK'
    <2>1. passedBy' \subseteq Ranges \X Nat
        BY <1>1, <1>2 DEF PassedBy, OpTypeOK
    <2> QED
        BY <1>1, <2>1 DEF OpTypeOK
<1>4. LocalIsSaved' /\ PublishProgress'
    BY <1>1 DEF LocalIsSaved, InLoop, PublishProgress
<1>5. \A r, p : PageSent(r, p)' <=> PageSent(r, p)
    BY <1>1 DEF PageSent
<1>6. DoneIsSent' /\ PageCursorCovered'
    BY <1>1, <1>5 DEF DoneIsSent, PageCursorCovered, SavedPage
<1>7. RowsMissingOnlyIfPassedBy'
    BY <1>1 DEF RowsMissingOnlyIfPassedBy, SavedPage, PassedBy
<1> QED
    BY <1>3, <1>4, <1>6, <1>7

\* The strengthened invariant is inductive.
LEMMA NextOpInv == CP!IInv /\ OpInv /\ [Next]_vars => OpInv'
<1> SUFFICES ASSUME CP!IInv, OpInv, [Next]_vars PROVE OpInv'
    OBVIOUS
<1>1. CASE UNCHANGED vars
    <2>1. UNCHANGED consumerVars /\ UNCHANGED localVars /\ UNCHANGED storeVars
        BY <1>1 DEF vars
    <2> QED
        BY <2>1 DEF consumerVars, localVars, storeVars, OpInv, OpTypeOK, LocalIsSaved,
            InLoop, PublishProgress, DoneIsSent, PageCursorCovered,
            RowsMissingOnlyIfPassedBy, PageSent, SavedPage, Current
<1> QED
    BY <1>1, ConsumerStepKeeps, BeginHandleKeeps, FetchStepKeeps, HandleReturnsKeeps,
       FetchEmptyKeeps, PublishEventsKeeps, SavePageKeeps, InsertKeeps, LeaveOffKeeps
       DEF Next

\* The strengthened invariant holds in every reachable state.
THEOREM Invariance == Spec => [](CP!IInv /\ OpInv)
BY ConsumerInvariance, InitOpInv, NextOpInv, PTL DEF Spec

\* Type correctness of the composition's state.
THEOREM TypeCorrect == Spec => []TypeOK
<1>1. CP!IInv /\ OpInv => TypeOK
    <2>1. CP!TypeOK => C!TypeOK
        BY DEF CP!TypeOK, C!TypeOK, CP!Places, C!Places
    <2> QED
        BY <2>1 DEF CP!IInv, OpInv, OpTypeOK, TypeOK
<1> QED
    BY <1>1, Invariance, PTL

\* A range's page cursor never passes a page with an unpublished event, whatever
\* fails, is redelivered or is begun again.
THEOREM NoPageSkipped == Spec => []PageCursorCovered
<1>1. OpInv => PageCursorCovered
    BY DEF OpInv
<1> QED
    BY <1>1, Invariance, PTL

\* A message is handled only once all events of its range are in their queues.
THEOREM NoEarlySuccess == Spec => []HandledIsSent
<1>1. OpInv => HandledIsSent
    BY DEF OpInv, DoneIsSent, HandledIsSent
<1> QED
    BY <1>1, Invariance, PTL

\* Transactions are missing only where the handler left off between the save of the
\* page cursor and the insert: nowhere else does the producer lose rows.
THEOREM OnlyOneGap == Spec => []RowsMissingOnlyIfPassedBy
<1>1. OpInv => RowsMissingOnlyIfPassedBy
    BY DEF OpInv
<1> QED
    BY <1>1, Invariance, PTL

------------------------------------------------------------------------------
\* For the refinement: the page cursor stops right after the last page.
PageInRange ==
    /\ \A r \in Ranges : SavedPage(r) <= Pages[r] + 1
    /\ step \in {"publish", "save"} => page <= Pages[Current]

\* A step moves the saved page only by SavePage, and by FetchEmpty back to 1.
LEMMA SavedPageStep ==
    ASSUME CP!IInv, OpInv, [Next]_vars, ~ SavePage, NEW r \in Ranges
    PROVE  SavedPage(r)' = SavedPage(r) \/ (SavedPage(r)' = 1 /\ FetchEmpty)
<1>1. CASE FetchEmpty
    <2>1. Current \in Ranges
        BY <1>1, CurrentType DEF OpInv, FetchEmpty, InLoop
    <2>2. kvPage' \in {kvPage, [kvPage EXCEPT ![Current] = NoCursor]}
        BY <1>1 DEF FetchEmpty
    <2> QED
        BY <1>1, <2>1, <2>2 DEF SavedPage, OpInv, OpTypeOK, NoCursor
<1>2. CASE ~ FetchEmpty
    <2>1. UNCHANGED kvPage
        BY <1>2 DEF Next, vars, storeVars, ConsumerStep, BeginHandle, NextRange,
           HandleReturns, FetchPage, PublishEvents, InsertTransactions, HandleFails,
           Interrupt
    <2> QED
        BY <2>1 DEF SavedPage
<1> QED
    BY <1>1, <1>2

\* The page cursor stays within the range.
LEMMA NextPageInRange ==
    CP!IInv /\ OpInv /\ PageInRange /\ [Next]_vars => PageInRange'
<1> SUFFICES ASSUME CP!IInv, OpInv, PageInRange, [Next]_vars PROVE PageInRange'
    OBVIOUS
<1>1. CASE SavePage
    <2>1. /\ step = "save" /\ step' = "insert"
          /\ kvPage' = [kvPage EXCEPT ![Current] = page + 1]
        BY <1>1 DEF SavePage
    <2>2. Current \in Ranges /\ page \in Nat /\ page <= Pages[Current]
        BY <2>1, CurrentType DEF OpInv, OpTypeOK, InLoop, PageInRange
    <2>3. \A r \in Ranges :
            SavedPage(r)' = IF r = Current THEN page + 1 ELSE SavedPage(r)
        BY <2>1, <2>2 DEF SavedPage, NoCursor, OpInv, OpTypeOK
    <2>4. \A r \in Ranges : Pages[r] \in Nat
        BY OpProducerAssumption DEF OpProducerAssumption
    <2> QED
        BY <2>1, <2>2, <2>3, <2>4 DEF PageInRange
<1>2. CASE ~ SavePage
    <2>1. \A r \in Ranges : SavedPage(r)' <= Pages[r] + 1
        BY <1>2, SavedPageStep, OpProducerAssumption
           DEF PageInRange, OpProducerAssumption
    <2>2. ASSUME step' \in {"publish", "save"} PROVE page' <= Pages[Current']
        <3>1. CASE FetchPage \/ PublishEvents
            BY <3>1 DEF FetchPage, PublishEvents, PageInRange, Current, consumerVars
        <3>2. CASE ConsumerStep
            BY <2>2, <3>2 DEF ConsumerStep, localVars, PageInRange, Current, OpInv,
               LocalIsSaved, C!Publish, C!Prefetch, C!Run, C!StartConsuming,
               C!StartFails, C!Consume, C!Finalize
        <3>3. CASE UNCHANGED vars
            BY <2>2, <3>3 DEF vars, consumerVars, localVars, PageInRange, Current
        <3>4. \/ FetchPage \/ PublishEvents \/ ConsumerStep \/ UNCHANGED vars
              \/ step' \in {"off", "next", "fetch"}
            BY <1>2 DEF Next, BeginHandle, NextRange, HandleReturns, FetchEmpty,
               InsertTransactions, HandleFails, Interrupt
        <3> QED
            BY <2>2, <3>1, <3>2, <3>3, <3>4
    <2> QED
        BY <2>1, <2>2 DEF PageInRange
<1> QED
    BY <1>1, <1>2

\* What is sent stays sent, and no range's finish is undone.
LEMMA SentGrows ==
    ASSUME [Next]_vars
    PROVE  /\ sent \subseteq sent' /\ finished \subseteq finished'
           /\ PublishEvents \/ UNCHANGED sent
           /\ FetchEmpty \/ UNCHANGED finished
BY DEF Next, vars, storeVars, ConsumerStep, BeginHandle, NextRange, HandleReturns,
       FetchPage, FetchEmpty, PublishEvents, SavePage, InsertTransactions,
       HandleFails, Interrupt

\* Every step of the producer is, for every range, a step of its CursorLog or a
\* stutter.
LEMMA StepRefines ==
    ASSUME CP!IInv, OpInv, PageInRange, [Next]_vars, PageCursorCovered',
           NEW r \in Ranges
    PROVE  [Log(r)!Next]_(Log(r)!vars)
<1> DEFINE Done == {p \in 1..Pages[r] : PageSent(r, p)}
           Cur  == IF r \in finished THEN Pages[r] + 1 ELSE SavedPage(r)
<1>1. Done \subseteq Done' /\ Done' \in SUBSET (1..Pages[r])
    BY SentGrows DEF PageSent
<1>2. CASE ~ SavePage
    <2>1. Cur' = Cur
        <3>1. CASE FetchEmpty
            <4>1. /\ step = "fetch" /\ page > Pages[Current]
                  /\ finished' = finished \cup {Current}
                BY <3>1 DEF FetchEmpty
            <4>2. Current \in Ranges /\ page = SavedPage(Current)
                BY <4>1, CurrentType DEF OpInv, LocalIsSaved, InLoop
            <4>3. CASE r = Current
                <5>1. SavedPage(r) = Pages[r] + 1
                    BY <4>1, <4>2, <4>3, SavedPageType, OpProducerAssumption
                       DEF PageInRange, OpInv, OpProducerAssumption
                <5> QED
                    BY <4>1, <4>3, <5>1
            <4>4. CASE r # Current
                <5>1. kvPage'[r] = kvPage[r]
                    BY <3>1, <4>2, <4>4 DEF FetchEmpty, OpInv, OpTypeOK
                <5> QED
                    BY <4>1, <4>4, <5>1 DEF SavedPage
            <4> QED
                BY <4>3, <4>4
        <3>2. CASE ~ FetchEmpty
            BY <1>2, <3>2, SavedPageStep, SentGrows
        <3> QED
            BY <3>1, <3>2
    <2> QED
        BY <1>1, <2>1 DEF Log!Next, Log!HandOut, Log!vars
<1>3. CASE SavePage
    <2>1. /\ step = "save" /\ kvPage' = [kvPage EXCEPT ![Current] = page + 1]
          /\ UNCHANGED <<sent, finished>>
        BY <1>3 DEF SavePage
    <2>2. /\ Current \in Ranges /\ page \in Nat /\ page <= Pages[Current]
          /\ page = SavedPage(Current)
        BY <2>1, CurrentType DEF OpInv, OpTypeOK, InLoop, PageInRange, LocalIsSaved
    <2>3. SavedPage(r)' = IF r = Current THEN page + 1 ELSE SavedPage(r)
        BY <2>1, <2>2 DEF SavedPage, NoCursor, OpInv, OpTypeOK
    <2>4. Done' = Done
        BY <2>1 DEF PageSent
    <2>5. CASE r = Current /\ r \notin finished
        <3>1. Cur = page /\ Cur' = page + 1
            BY <2>1, <2>2, <2>3, <2>5
        <3>2. Cur' \in (Cur + 1)..(Pages[r] + 1)
            BY <2>2, <2>5, <3>1, OpProducerAssumption DEF OpProducerAssumption
        <3>3. 1..(Cur' - 1) \subseteq Done
            <4> SUFFICES ASSUME NEW p \in 1..page PROVE p \in Done
                BY <2>2, <3>1
            <4>1. PageSent(r, p)'
                BY <2>2, <2>3, <2>5 DEF PageCursorCovered
            <4>2. PageSent(r, p)
                BY <2>1, <4>1 DEF PageSent
            <4>3. p \in 1..Pages[r]
                BY <2>2, <2>5, OpProducerAssumption DEF OpProducerAssumption
            <4> QED
                BY <4>2, <4>3
        <3> QED
            BY <2>4, <3>2, <3>3 DEF Log!Next, Log!Commit
    <2>6. CASE ~ (r = Current /\ r \notin finished)
        <3>1. Cur' = Cur
            BY <2>1, <2>3, <2>6
        <3> QED
            BY <2>4, <3>1 DEF Log!vars
    <2> QED
        BY <2>5, <2>6
<1> QED
    BY <1>2, <1>3

\* The producer implements the abstract at-least-once cursor, page by page, for
\* every block range.
THEOREM Refinement == Spec => ImplementsCursorLog
<1>1. Init => PageInRange /\ \A r \in Ranges : Log(r)!Init
    <2> SUFFICES ASSUME Init PROVE PageInRange /\ \A r \in Ranges : Log(r)!Init
        OBVIOUS
    <2>1. \A r \in Ranges : SavedPage(r) = 1 /\ Pages[r] \in Nat
        BY OpProducerAssumption DEF Init, SavedPage, OpProducerAssumption
    <2>2. \A r, p : ~ PageSent(r, p)
        <3>1. 1 \in DOMAIN Queues
            BY DEF Queues
        <3> QED
            BY <3>1 DEF Init, PageSent
    <2>3. step = "off" /\ finished = {}
        BY DEF Init
    <2>4. PageInRange
        BY <2>1, <2>3 DEF PageInRange
    <2>5. ASSUME NEW r \in Ranges PROVE Log(r)!Init
        BY <2>1, <2>2, <2>3 DEF Log!Init
    <2> QED
        BY <2>4, <2>5
<1>2. Spec => []PageInRange
    BY <1>1, Invariance, NextPageInRange, PTL DEF Spec
<1>3. /\ CP!IInv /\ OpInv /\ PageInRange /\ [Next]_vars /\ PageCursorCovered'
      => [\A r \in Ranges : [Log(r)!Next]_(Log(r)!vars)]_vars
    BY StepRefines
<1> QED
    BY <1>1, <1>2, <1>3, Invariance, NoPageSkipped, PTL DEF Spec, ImplementsCursorLog

-----------------------------------------------------------------------------
(* CachedTransfers *)

TagsCover == \A k \in Queries!Keys : cache[k] # None => k \in tagged[cache[k].last]

OpenOutrun ==
    \A k \in Queries!Keys : cache[k] # None =>
        (Queries!Open(cache[k].last) => <<k, cache[k].last>> \in outrun)

CacheIInv == Queries!TypeOK /\ TagsCover /\ OpenOutrun /\ Queries!FreshUnlessOutrun

------------------------------------------------------------------------------
\* What is in hand or cached of the transfers is a status for each of some.
LEMMA RowsAreFunctions ==
    \A f \in Queries!Rows : /\ DOMAIN f \subseteq Transfers
                    /\ f \in [DOMAIN f -> Statuses]
    BY DEF Queries!Rows

\* Statuses of some transfers are in Rows.
LEMMA FunctionsAreRows ==
    ASSUME NEW ts \in SUBSET Transfers, NEW f \in [ts -> Statuses] PROVE f \in Queries!Rows
    BY DEF Queries!Rows

\* None stands for no entry and no key only.
LEMMA NoneIsNoRecord ==
    /\ \A e \in Queries!Entries : DOMAIN e.rows \subseteq Transfers /\ e.last \in DOMAIN e.rows
    /\ \A x \in Queries!Fills : /\ x.rows \in Queries!Rows
                        /\ x.todo \subseteq DOMAIN x.rows
                        /\ x.last \in DOMAIN x.rows
    BY RowsAreFunctions DEF Queries!Entries, Queries!Fills

------------------------------------------------------------------------------
\* Putting an entry that is well formed leaves the cache well typed
\* (cachedpg/transfers.go, SelectCtx and cacheEveryTransfer).
LEMMA PutTyped ==
    ASSUME Queries!TypeOK,
           NEW k \in Queries!Keys, NEW read \in Queries!Rows, NEW last \in DOMAIN read,
           Queries!Put(k, read, last)
    PROVE  /\ cache' \in [Queries!Keys -> Queries!Entries \cup {None}]
           /\ tagged' \in [Transfers -> SUBSET Queries!Keys]
           /\ outrun' \subseteq Queries!Keys \X Transfers
<1>1. DOMAIN read \subseteq Transfers
    BY RowsAreFunctions
<1>2. [rows |-> read, last |-> last] \in Queries!Entries
    BY <1>1 DEF Queries!Entries
<1>3. cache' \in [Queries!Keys -> Queries!Entries \cup {None}]
    BY <1>2 DEF Queries!Put, Queries!TypeOK
<1>4. tagged' \in [Transfers -> SUBSET Queries!Keys]
    BY DEF Queries!Put, Queries!TypeOK
<1>5. outrun' \subseteq Queries!Keys \X Transfers
    BY <1>1 DEF Queries!Put, Queries!TypeOK
<1> QED
    BY <1>3, <1>4, <1>5

\* Every operation of a writer or reader keeps the types.
LEMMA CacheTypeStep == Queries!TypeOK /\ [Queries!Next]_queryVars => Queries!TypeOK'
<1> SUFFICES ASSUME Queries!TypeOK, [Queries!Next]_queryVars PROVE Queries!TypeOK'
    OBVIOUS
<1> USE CacheAssumption DEF CacheAssumption
<1>0. << >> \in Queries!Rows
    BY FunctionsAreRows, << >> \in [{} -> Statuses]
<1>1. ASSUME NEW w \in Writers, NEW new \in Queries!Rows, Queries!UpsertBatch(w, new)
      PROVE  Queries!TypeOK'
    <2>1. row' \in [Transfers -> Statuses \cup {None}]
        BY <1>1, RowsAreFunctions DEF Queries!UpsertBatch, Queries!TypeOK
    <2>2. writer'[w].hits = {} /\ \A v \in Writers \ {w} : writer'[v] = writer[v]
        BY <1>1 DEF Queries!UpsertBatch, Queries!Begin, Queries!TypeOK
    <2> QED
        BY <1>1, <2>1, <2>2 DEF Queries!UpsertBatch, Queries!Begin, Queries!TypeOK
<1>2. ASSUME NEW w \in Writers, NEW new \in Queries!Rows, Queries!SetStatusByIndex(w, new)
      PROVE  Queries!TypeOK'
    <2> DEFINE hits == {t \in DOMAIN new : row[t] # None}
    <2>1. hits \subseteq DOMAIN new /\ hits \in SUBSET Transfers
        BY RowsAreFunctions
    <2>2. writer' = [writer EXCEPT ![w] = [phase |-> "updated", new |-> new, hits |-> hits]]
        BY <1>2 DEF Queries!SetStatusByIndex, Queries!Begin
    <2> HIDE DEF hits
    <2>3. \A v \in Writers : writer'[v].hits \subseteq DOMAIN writer'[v].new
        BY <2>1, <2>2 DEF Queries!TypeOK
    <2> QED
        BY <1>2, <2>1, <2>2, <2>3
        DEF Queries!SetStatusByIndex, Queries!Begin, Queries!TypeOK
<1>3. ASSUME NEW w \in Writers
      PROVE  LET a == Queries!AfterInvalidation(w) IN
             /\ a \in [Writers -> [phase : {"idle", "written", "updated", "invalidated"},
                                   new : Queries!Rows, hits : SUBSET Transfers]]
             /\ \A v \in Writers : a[v].hits \subseteq DOMAIN a[v].new
    BY <1>0 DEF Queries!AfterInvalidation, Queries!IdleWriter, Queries!TypeOK
<1>4. ASSUME NEW w \in Writers, Queries!Invalidate(w) PROVE Queries!TypeOK'
    BY <1>3, <1>4 DEF Queries!Invalidate, Queries!TypeOK
<1>5. ASSUME NEW w \in Writers, Queries!InvalidateFails(w) PROVE Queries!TypeOK'
    <2>1. DOMAIN writer[w].new \subseteq Transfers
        BY RowsAreFunctions DEF Queries!TypeOK
    <2>2. outrun' \subseteq Queries!Keys \X Transfers
        BY <1>5, <2>1 DEF Queries!InvalidateFails, Queries!TypeOK
    <2> QED
        BY <1>3, <1>5, <2>2 DEF Queries!InvalidateFails, Queries!TypeOK
<1>6. ASSUME NEW w \in Writers, Queries!Commit(w) PROVE Queries!TypeOK'
    <2>1. \A t \in writer[w].hits : writer[w].new[t] \in Statuses
        BY RowsAreFunctions DEF Queries!TypeOK
    <2>2. row' \in [Transfers -> Statuses \cup {None}]
        BY <1>6, <2>1 DEF Queries!Commit, Queries!TypeOK
    <2> QED
        BY <1>0, <1>6, <2>2 DEF Queries!Commit, Queries!IdleWriter, Queries!TypeOK
<1>7. ASSUME NEW w \in Writers, Queries!Rollback(w) PROVE Queries!TypeOK'
    BY <1>0, <1>7 DEF Queries!Rollback, Queries!IdleWriter, Queries!TypeOK
<1>8. ASSUME NEW r \in Readers, NEW f \in Filters, NEW last \in Transfers,
             Queries!Select(r, f, last)
      PROVE Queries!TypeOK'
    <2>1. \A t \in Queries!Matching(f) : row[t] \in Statuses
        BY DEF Queries!Matching, Queries!TypeOK
    <2>2. [t \in Queries!Matching(f) |-> row[t]] \in Queries!Rows
        BY <2>1, FunctionsAreRows DEF Queries!Matching
    <2>3. [key |-> Queries!ListKey(f), last |-> last, todo |-> Queries!Matching(f),
           rows |-> [t \in Queries!Matching(f) |-> row[t]]] \in Queries!Fills
        BY <1>8, <2>2 DEF Queries!Select, Queries!Fills, Queries!Matching
    <2> QED
        BY <1>8, <2>3 DEF Queries!Select, Queries!TypeOK
<1>9. ASSUME NEW r \in Readers, NEW t \in Transfers, Queries!TransferByIndex(r, t)
      PROVE  Queries!TypeOK'
    <2>1. row[t] \in Statuses
        BY <1>9 DEF Queries!TransferByIndex, Queries!TypeOK
    <2>2. [u \in {t} |-> row[u]] \in Queries!Rows
        BY <2>1, FunctionsAreRows
    <2>3. [key |-> None, last |-> t, todo |-> {t},
           rows |-> [u \in {t} |-> row[u]]] \in Queries!Fills
        BY <2>2 DEF Queries!Fills
    <2> QED
        BY <1>9, <2>3 DEF Queries!TransferByIndex, Queries!TypeOK
<1>10. ASSUME NEW r \in Readers, Queries!PutList(r) PROVE Queries!TypeOK'
    <2>1. reader[r] \in Queries!Fills
        BY <1>10 DEF Queries!PutList, Queries!TypeOK
    <2>2. reader[r].key \in Queries!Keys
        BY <1>10, <2>1 DEF Queries!PutList, Queries!Fills, Queries!Keys
    <2>3. Queries!Put(reader[r].key, reader[r].rows, reader[r].last)
        BY <1>10 DEF Queries!PutList
    <2>4. /\ cache' \in [Queries!Keys -> Queries!Entries \cup {None}]
          /\ tagged' \in [Transfers -> SUBSET Queries!Keys]
          /\ outrun' \subseteq Queries!Keys \X Transfers
        BY <2>1, <2>2, <2>3, PutTyped, NoneIsNoRecord
    <2>5. [reader[r] EXCEPT !.key = None] \in Queries!Fills
        BY <2>1 DEF Queries!Fills
    <2> QED
        BY <1>10, <2>4, <2>5 DEF Queries!PutList, Queries!TypeOK
<1>11. ASSUME NEW r \in Readers, NEW t \in Transfers, Queries!CacheEveryTransfer(r, t)
      PROVE  Queries!TypeOK'
    <2>1. reader[r] \in Queries!Fills /\ t \in reader[r].todo
        BY <1>11 DEF Queries!CacheEveryTransfer, Queries!TypeOK
    <2>2. t \in DOMAIN reader[r].rows
        BY <2>1, NoneIsNoRecord
    <2> DEFINE one == [u \in {t} |-> reader[r].rows[t]]
    <2>3. one \in Queries!Rows
        BY <2>1, <2>2, NoneIsNoRecord, RowsAreFunctions, FunctionsAreRows
    <2>4. Queries!Put(Queries!IndexKey(t), one, t)
        BY <1>11 DEF Queries!CacheEveryTransfer
    <2>5. Queries!IndexKey(t) \in Queries!Keys
        BY DEF Queries!Keys
    <2>6. t \in DOMAIN one
        OBVIOUS
    <2> HIDE DEF one
    <2>7. /\ cache' \in [Queries!Keys -> Queries!Entries \cup {None}]
          /\ tagged' \in [Transfers -> SUBSET Queries!Keys]
          /\ outrun' \subseteq Queries!Keys \X Transfers
        BY <2>3, <2>4, <2>5, <2>6, PutTyped
    <2>8. reader[r].todo # {t} => [reader[r] EXCEPT !.todo = @ \ {t}] \in Queries!Fills
        BY <2>1 DEF Queries!Fills
    <2>9. reader' \in [Readers -> Queries!Fills \cup {None}]
        BY <1>11, <2>8 DEF Queries!CacheEveryTransfer, Queries!TypeOK
    <2> QED
        BY <1>11, <2>7, <2>9 DEF Queries!CacheEveryTransfer, Queries!TypeOK
<1>12. ASSUME NEW r \in Readers, Queries!SetFails(r) PROVE Queries!TypeOK'
    BY <1>12 DEF Queries!SetFails, Queries!TypeOK
<1>13. CASE UNCHANGED queryVars
    BY <1>13 DEF queryVars, Queries!TypeOK
<1> QED
    BY <1>1, <1>2, <1>4, <1>5, <1>6, <1>7, <1>8, <1>9, <1>10, <1>11, <1>12, <1>13
    DEF Queries!Next

------------------------------------------------------------------------------
\* An entry that is put is tagged and, if it is outdated already, outrun.
LEMMA PutPreserves ==
    ASSUME CacheIInv,
           NEW k \in Queries!Keys, NEW read \in Queries!Rows, NEW last \in DOMAIN read,
           Queries!Put(k, read, last), UNCHANGED <<row, writer>>
    PROVE  TagsCover' /\ OpenOutrun' /\ Queries!FreshUnlessOutrun'
<1>1. last \in Transfers
    BY RowsAreFunctions
<1>2. /\ cache'[k] = [rows |-> read, last |-> last]
      /\ \A l \in Queries!Keys \ {k} : cache'[l] = cache[l]
      /\ k \in tagged'[last]
      /\ \A t \in Transfers : tagged[t] \subseteq tagged'[t]
      /\ \A l \in Queries!Keys \ {k}, t \in Transfers :
             <<l, t>> \in outrun => <<l, t>> \in outrun'
      /\ read[last] # row[last] \/ Queries!Open(last) => <<k, last>> \in outrun'
    BY <1>1 DEF Queries!Put, Queries!IndexTags, CacheIInv, Queries!TypeOK
<1>3. \A l \in Queries!Keys : cache[l] # None => cache[l].last \in Transfers
    BY DEF CacheIInv, Queries!TypeOK, Queries!Entries
<1>4. TagsCover'
    BY <1>2, <1>3
    DEF CacheIInv, TagsCover, Queries!Keys, Queries!ListKey, Queries!IndexKey
<1>5. \A t : /\ Queries!Owed(t)' <=> Queries!Owed(t)
             /\ Queries!Open(t)' <=> Queries!Open(t)
    BY DEF Queries!Owed, Queries!Open
<1>6. ASSUME NEW l \in Queries!Keys, cache'[l] # None,
             cache'[l].rows[cache'[l].last] # row[cache'[l].last]
      PROVE  Queries!Owed(cache'[l].last) \/ <<l, cache'[l].last>> \in outrun'
    <2>1. CASE l = k
        BY <1>2, <1>6, <2>1
    <2>2. CASE l # k
        BY <1>2, <1>3, <1>6, <2>2 DEF CacheIInv, Queries!FreshUnlessOutrun
    <2> QED
        BY <2>1, <2>2
<1>7. Queries!FreshUnlessOutrun'
    BY <1>5, <1>6 DEF Queries!FreshUnlessOutrun
<1>8. OpenOutrun'
    BY <1>2, <1>3, <1>5 DEF CacheIInv, OpenOutrun
<1> QED
    BY <1>4, <1>7, <1>8

\* No operation leaves an outdated entry behind but those outrun records.
LEMMA CacheFreshStep == CacheIInv /\ Queries!TypeOK' /\ [Queries!Next]_queryVars => CacheIInv'
<1> SUFFICES ASSUME CacheIInv, Queries!TypeOK', [Queries!Next]_queryVars
             PROVE TagsCover' /\ OpenOutrun' /\ Queries!FreshUnlessOutrun'
    BY DEF CacheIInv
<1>0. \A k \in Queries!Keys : cache[k] # None =>
          /\ cache[k].last \in Transfers
          /\ cache[k].last \in DOMAIN cache[k].rows
    BY DEF CacheIInv, Queries!TypeOK, Queries!Entries
<1>1. ASSUME NEW w \in Writers, NEW new \in Queries!Rows, Queries!UpsertBatch(w, new)
      PROVE  TagsCover' /\ OpenOutrun' /\ Queries!FreshUnlessOutrun'
    <2>1. /\ writer[w].phase = "idle"
          /\ writer'[w].phase = "written" /\ writer'[w].new = new
          /\ \A v \in Writers \ {w} : writer'[v] = writer[v]
          /\ UNCHANGED <<cache, tagged, outrun>>
        BY <1>1 DEF Queries!UpsertBatch, Queries!Begin, CacheIInv, Queries!TypeOK
    <2>2. \A t \in DOMAIN new : Queries!Owed(t)'
        BY <2>1 DEF Queries!Owed
    <2>3. \A t : /\ Queries!Owed(t) => Queries!Owed(t)'
                 /\ Queries!Open(t)' => Queries!Open(t)
        BY <2>1 DEF Queries!Owed, Queries!Open
    <2>4. \A t \in Transfers \ DOMAIN new : row'[t] = row[t]
        BY <1>1 DEF Queries!UpsertBatch
    <2> QED
        BY <1>0, <2>1, <2>2, <2>3, <2>4
        DEF CacheIInv, TagsCover, OpenOutrun, Queries!FreshUnlessOutrun
<1>2. ASSUME NEW w \in Writers, NEW new \in Queries!Rows, Queries!SetStatusByIndex(w, new)
      PROVE  TagsCover' /\ OpenOutrun' /\ Queries!FreshUnlessOutrun'
    <2>1. /\ writer[w].phase = "idle"
          /\ writer'[w].phase = "updated"
          /\ \A v \in Writers \ {w} : writer'[v] = writer[v]
          /\ UNCHANGED <<row, cache, tagged, outrun>>
        BY <1>2 DEF Queries!SetStatusByIndex, Queries!Begin, CacheIInv, Queries!TypeOK
    <2>2. \A t : /\ Queries!Owed(t) => Queries!Owed(t)'
                 /\ Queries!Open(t)' => Queries!Open(t)
        BY <2>1 DEF Queries!Owed, Queries!Open
    <2> QED
        BY <2>1, <2>2 DEF CacheIInv, TagsCover, OpenOutrun, Queries!FreshUnlessOutrun
<1>3. ASSUME NEW w \in Writers, Queries!Invalidate(w)
      PROVE TagsCover' /\ OpenOutrun' /\ Queries!FreshUnlessOutrun'
    <2> DEFINE gone == Queries!TaggedByIndex(w)
    <2>1. /\ \A k \in Queries!Keys : cache'[k] = IF k \in gone THEN None ELSE cache[k]
          /\ \A t \in Transfers :
                tagged'[t] = IF t \in DOMAIN writer[w].new THEN {} ELSE tagged[t]
          /\ outrun' = {p \in outrun : p[1] \notin gone}
          /\ row' = row
          /\ writer' = Queries!AfterInvalidation(w)
        BY <1>3 DEF Queries!Invalidate
    <2>2. \A k \in Queries!Keys, t \in DOMAIN writer[w].new : k \in tagged[t] => k \in gone
        BY DEF Queries!TaggedByIndex
    <2> HIDE DEF gone
    <2>3. TagsCover'
        BY <1>0, <2>1, <2>2
        DEF CacheIInv, TagsCover, Queries!Keys, Queries!ListKey, Queries!IndexKey
    <2>4. \A v \in Writers \ {w} : writer'[v] = writer[v]
        BY <2>1 DEF Queries!AfterInvalidation, CacheIInv, Queries!TypeOK
    <2>5. \A t : Queries!Owed(t) => Queries!Owed(t)' \/ t \in DOMAIN writer[w].new
        BY <2>4 DEF Queries!Owed
    <2>6. \A k \in Queries!Keys : k \notin gone /\ cache[k] # None =>
              cache[k].last \notin DOMAIN writer[w].new
        BY <2>2 DEF CacheIInv, TagsCover
    <2>7. \A k \in Queries!Keys : \A t :
              k \notin gone /\ <<k, t>> \in outrun => <<k, t>> \in outrun'
        BY <2>1
    <2>8. \A t : Queries!Open(t)' => Queries!Open(t) \/ t \in DOMAIN writer[w].new
        <3>1. writer'[w].hits \subseteq DOMAIN writer[w].new
            BY <2>1
            DEF Queries!AfterInvalidation, Queries!IdleWriter, CacheIInv, Queries!TypeOK
        <3> QED
            BY <2>4, <3>1 DEF Queries!Open
    <2>9. OpenOutrun'
        BY <2>1, <2>6, <2>7, <2>8 DEF CacheIInv, OpenOutrun
    <2>10. Queries!FreshUnlessOutrun'
        BY <2>1, <2>5, <2>6, <2>7 DEF CacheIInv, Queries!FreshUnlessOutrun
    <2> QED
        BY <2>3, <2>9, <2>10
<1>4. ASSUME NEW w \in Writers, Queries!InvalidateFails(w)
      PROVE TagsCover' /\ OpenOutrun' /\ Queries!FreshUnlessOutrun'
    <2>1. /\ UNCHANGED <<row, cache, tagged>>
          /\ outrun \subseteq outrun'
          /\ writer' = Queries!AfterInvalidation(w)
        BY <1>4 DEF Queries!InvalidateFails
    <2>2. \A v \in Writers \ {w} : writer'[v] = writer[v]
        BY <2>1 DEF Queries!AfterInvalidation, CacheIInv, Queries!TypeOK
    <2>3. \A k \in Queries!Keys :
              cache[k] # None /\ cache[k].last \in DOMAIN writer[w].new =>
              <<k, cache[k].last>> \in outrun'
        BY <1>0, <1>4 DEF Queries!InvalidateFails, Queries!Holds
    <2>4. ASSUME NEW k \in Queries!Keys, cache[k] # None, Queries!Owed(cache[k].last)
          PROVE  Queries!Owed(cache[k].last)' \/ <<k, cache[k].last>> \in outrun'
        <3>1. CASE cache[k].last \in DOMAIN writer[w].new
            BY <2>3, <2>4, <3>1
        <3>2. CASE cache[k].last \notin DOMAIN writer[w].new
            BY <2>1, <2>2, <2>4, <3>2 DEF Queries!Owed
        <3> QED
            BY <3>1, <3>2
    <2>5. \A t : Queries!Open(t)' => Queries!Open(t) \/ t \in DOMAIN writer[w].new
        <3>1. writer'[w].hits \subseteq DOMAIN writer[w].new
            BY <2>1
            DEF Queries!AfterInvalidation, Queries!IdleWriter, CacheIInv, Queries!TypeOK
        <3> QED
            BY <2>2, <3>1 DEF Queries!Open
    <2>6. OpenOutrun'
        BY <2>1, <2>3, <2>5 DEF CacheIInv, OpenOutrun
    <2>7. TagsCover' /\ Queries!FreshUnlessOutrun'
        BY <2>1, <2>4 DEF CacheIInv, TagsCover, Queries!FreshUnlessOutrun
    <2> QED
        BY <2>6, <2>7
<1>5. ASSUME NEW w \in Writers, Queries!Commit(w)
      PROVE TagsCover' /\ OpenOutrun' /\ Queries!FreshUnlessOutrun'
    <2>1. /\ UNCHANGED <<cache, tagged, outrun>>
          /\ \A t \in Transfers \ writer[w].hits : row'[t] = row[t]
          /\ writer[w].phase = "invalidated" /\ writer'[w].phase = "idle"
          /\ \A v \in Writers \ {w} : writer'[v] = writer[v]
        BY <1>5 DEF Queries!Commit, Queries!IdleWriter, CacheIInv, Queries!TypeOK
    <2>2. \A t \in writer[w].hits : Queries!Open(t)
        BY <2>1 DEF Queries!Open
    <2>3. \A t : /\ Queries!Owed(t) => Queries!Owed(t)'
                 /\ Queries!Open(t)' => Queries!Open(t)
        BY <2>1 DEF Queries!Owed, Queries!Open
    <2> QED
        BY <1>0, <2>1, <2>2, <2>3
        DEF CacheIInv, TagsCover, OpenOutrun, Queries!FreshUnlessOutrun
<1>6. ASSUME NEW w \in Writers, Queries!Rollback(w)
      PROVE TagsCover' /\ OpenOutrun' /\ Queries!FreshUnlessOutrun'
    <2>1. /\ UNCHANGED <<row, cache, tagged, outrun>>
          /\ writer[w].phase # "written" /\ writer'[w].phase = "idle"
          /\ \A v \in Writers \ {w} : writer'[v] = writer[v]
        BY <1>6 DEF Queries!Rollback, Queries!IdleWriter, CacheIInv, Queries!TypeOK
    <2>2. \A t : /\ Queries!Owed(t) => Queries!Owed(t)'
                 /\ Queries!Open(t)' => Queries!Open(t)
        BY <2>1 DEF Queries!Owed, Queries!Open
    <2> QED
        BY <2>1, <2>2 DEF CacheIInv, TagsCover, OpenOutrun, Queries!FreshUnlessOutrun
<1>7. CASE UNCHANGED <<row, writer, cache, tagged, outrun>>
    BY <1>7
    DEF CacheIInv, TagsCover, OpenOutrun, Queries!FreshUnlessOutrun, Queries!Owed,
        Queries!Open
<1>8. ASSUME NEW r \in Readers, Queries!PutList(r)
      PROVE TagsCover' /\ OpenOutrun' /\ Queries!FreshUnlessOutrun'
    <2>1. reader[r] \in Queries!Fills /\ reader[r].key \in Queries!Keys
        BY <1>8
        DEF Queries!PutList, CacheIInv, Queries!TypeOK, Queries!Fills, Queries!Keys
    <2> QED
        BY <1>8, <2>1, PutPreserves, NoneIsNoRecord DEF Queries!PutList
<1>9. ASSUME NEW r \in Readers, NEW t \in Transfers, Queries!CacheEveryTransfer(r, t)
      PROVE  TagsCover' /\ OpenOutrun' /\ Queries!FreshUnlessOutrun'
    <2>1. reader[r] \in Queries!Fills /\ t \in reader[r].todo
        BY <1>9 DEF Queries!CacheEveryTransfer, CacheIInv, Queries!TypeOK
    <2>2. t \in DOMAIN reader[r].rows
        BY <2>1, NoneIsNoRecord
    <2> DEFINE one == [u \in {t} |-> reader[r].rows[t]]
    <2>3. one \in Queries!Rows
        BY <2>1, <2>2, NoneIsNoRecord, RowsAreFunctions, FunctionsAreRows
    <2>4. Queries!Put(Queries!IndexKey(t), one, t) /\ UNCHANGED <<row, writer>>
        BY <1>9 DEF Queries!CacheEveryTransfer
    <2>5. Queries!IndexKey(t) \in Queries!Keys /\ t \in DOMAIN one
        BY DEF Queries!Keys
    <2> HIDE DEF one
    <2> QED
        BY <2>3, <2>4, <2>5, PutPreserves
<1>10. ASSUME NEW r \in Readers,
              \/ \E f \in Filters, last \in Transfers : Queries!Select(r, f, last)
              \/ \E t \in Transfers : Queries!TransferByIndex(r, t)
              \/ Queries!SetFails(r)
       PROVE  UNCHANGED <<row, writer, cache, tagged, outrun>>
    BY <1>10 DEF Queries!Select, Queries!TransferByIndex, Queries!SetFails
<1> QED
    BY <1>1, <1>2, <1>3, <1>4, <1>5, <1>6, <1>7, <1>8, <1>9, <1>10
    DEF Queries!Next, queryVars

\* Nothing is cached at the start.
LEMMA CacheInit == Queries!Init => CacheIInv
<1> SUFFICES ASSUME Queries!Init PROVE CacheIInv
    OBVIOUS
<1>1. /\ Queries!IdleWriter.new \in Queries!Rows
      /\ Queries!IdleWriter.hits \subseteq DOMAIN Queries!IdleWriter.new
    BY FunctionsAreRows, << >> \in [{} -> Statuses] DEF Queries!IdleWriter
<1> QED
    BY <1>1, CacheAssumption
    DEF CacheAssumption, Queries!Init, CacheIInv, Queries!TypeOK, TagsCover, OpenOutrun,
        Queries!FreshUnlessOutrun,
    Queries!IdleWriter

\* A step is one of the producer or one of the queries.
LEMMA OneMoves == [NextAny]_allVars => [Next]_vars /\ [Queries!Next]_queryVars
BY DEF NextAny, allVars, ProducerMoves, QueriesMove

\* What is checked side by side is, seen alone, the producer.
LEMMA ProducerAlone == SpecAll => Spec
<1>1. InitAll => Init
    BY DEF InitAll
<1> QED
    BY <1>1, OneMoves, PTL DEF SpecAll, Spec

\* The cached queries keep the types of what they store and cache.
THEOREM CacheTyped == SpecAll => []Queries!TypeOK
<1>1. InitAll => Queries!TypeOK
    BY CacheInit DEF InitAll, CacheIInv
<1>2. Queries!TypeOK /\ [NextAny]_allVars => Queries!TypeOK'
    BY CacheTypeStep, OneMoves
<1> QED
    BY <1>1, <1>2, PTL DEF SpecAll

\* A cached entry shows the committed status of the transfer it is tagged with
\* unless an invalidation is due, was lost or was outrun.
THEOREM CacheFresh == SpecAll => []FreshUnlessOutrun
<1>1. InitAll => CacheIInv
    BY CacheInit DEF InitAll
<1>2. CacheIInv /\ [NextAny]_allVars => CacheIInv'
    BY CacheTypeStep, CacheFreshStep, OneMoves DEF CacheIInv
<1>3. CacheIInv => FreshUnlessOutrun
    BY DEF CacheIInv, FreshUnlessOutrun
<1> QED
    BY <1>1, <1>2, <1>3, PTL DEF SpecAll
=============================================================================
