------------------------- MODULE RarimoCoreOpProducer -------------------------
(***************************************************************************)
(* internal/services/rarimocore_producer.go composed with the queue        *)
(* consumer that runs it (pkg/msgs/consumer.go).  For every block range    *)
(* message the producer walks through the pages of the range's             *)
(* transactions: it publishes the page's events to five queues, saves the  *)
(* range's page cursor, then inserts the page's transactions.  It may fail *)
(* at every call and the process may die between any two; then the batch   *)
(* is handled again, by this process or, after a redelivery, a later one.  *)
(***************************************************************************)
EXTENDS Integers, Sequences, FiniteSets

CONSTANTS
    Msgs, PrefetchLimit, Attempts, MaxRuns, MaxStarts,      \* see Consumer
    Ranges,             \* the block ranges
    RangeOf,            \* the block range a message carries
    Pages               \* how many pages of transactions a range has

ASSUME OpProducerAssumption ==
    /\ PrefetchLimit \in Nat \ {0}
    /\ Attempts \in Nat \ {0}
    /\ MaxRuns \in Nat \ {0}
    /\ MaxStarts \in Nat \ {0}
    /\ RangeOf \in [Msgs -> Ranges]
    /\ Pages \in [Ranges -> Nat]

VARIABLES
    place, pc, batch, attempt, failedHandling, starts, runs, handled, tried,
    step,               \* where Handle stands, "off" when it does not run
    idx,                \* the message of the batch Handle is at
    page,               \* produceMsgs's local page
    queue,              \* number of the queue that is published to next
    kvPage,             \* the page cursors stored in Redis, NoCursor when absent
    sent,               \* <<r, p, q>>: page p's events of r are in queue q
    rows,               \* <<r, p>>: page p's transactions of r are in the database
    finished,           \* history: ranges produceMsgs came to the end of
    passedBy            \* history: pages whose insert failed or never ran

consumerVars ==
    <<place, pc, batch, attempt, failedHandling, starts, runs, handled, tried>>
localVars == <<step, idx, page, queue>>
storeVars == <<kvPage, sent, rows, finished, passedBy>>
vars == <<consumerVars, localVars, storeVars>>

C == INSTANCE Consumer

NoCursor == 0

\* The order in which a page's events are published.
Queues == <<"transfers", "confirmations", "approvals", "rejections", "votes">>

\* The range of the message at hand.
Current == RangeOf[batch[idx]]

\* The page the range goes on from: a missing key reads as "1".
SavedPage(r) == IF kvPage[r] = NoCursor THEN 1 ELSE kvPage[r]

Init ==
    /\ C!Init
    /\ step = "off"
    /\ idx = 1
    /\ page = 1
    /\ queue = 1
    /\ kvPage = [r \in Ranges |-> NoCursor]
    /\ sent = {}
    /\ rows = {}
    /\ finished = {}
    /\ passedBy = {}

------------------------------------------------------------------------------
\* Handle is called with the batch.
BeginHandle ==
    /\ pc = "handling"
    /\ step = "off"
    /\ step' = "next"
    /\ idx' = 1
    /\ UNCHANGED <<consumerVars, page, queue, storeVars>>

\* produceMsgs is called for the next range and reads its page cursor.
NextRange ==
    /\ step = "next"
    /\ idx <= Len(batch)
    /\ page' = SavedPage(Current)
    /\ step' = "fetch"
    /\ UNCHANGED <<consumerVars, idx, queue, storeVars>>

\* All messages are done: Handle returns without an error.
HandleReturns ==
    /\ step = "next"
    /\ idx > Len(batch)
    /\ C!HandleOk
    /\ step' = "off"
    /\ UNCHANGED <<idx, page, queue, storeVars>>

\* A page with transactions: publish their events next.
FetchPage ==
    /\ step = "fetch"
    /\ page <= Pages[Current]
    /\ step' = "publish"
    /\ queue' = 1
    /\ UNCHANGED <<consumerVars, idx, page, storeVars>>

\* Mutant: a page that could not be fetched counts as the last one.
FetchAnyIsEmpty ==
    /\ step = "fetch"
    /\ finished' = finished \cup {Current}
    /\ kvPage' \in {kvPage, [kvPage EXCEPT ![Current] = NoCursor]}
    /\ step' = "next"
    /\ idx' = idx + 1
    /\ UNCHANGED <<consumerVars, page, queue, sent, rows, passedBy>>

\* Mutant: the last page counts as none.
FetchLastIsEmpty ==
    /\ step = "fetch"
    /\ page >= Pages[Current]
    /\ finished' = finished \cup {Current}
    /\ kvPage' \in {kvPage, [kvPage EXCEPT ![Current] = NoCursor]}
    /\ step' = "next"
    /\ idx' = idx + 1
    /\ UNCHANGED <<consumerVars, page, queue, sent, rows, passedBy>>

\* No transactions left: the cursor is removed (a failure is only logged) and
\* the range is finished.
FetchEmpty ==
    /\ step = "fetch"
    /\ page > Pages[Current]
    /\ finished' = finished \cup {Current}
    /\ kvPage' \in {kvPage, [kvPage EXCEPT ![Current] = NoCursor]}
    /\ step' = "next"
    /\ idx' = idx + 1
    /\ UNCHANGED <<consumerVars, page, queue, sent, rows, passedBy>>

\* Mutant: the last queue is forgotten.
PublishAllButVotes ==
    /\ step = "publish"
    /\ sent' = sent \cup {<<Current, page, Queues[queue]>>}
    /\ queue' = queue + 1
    /\ step' = IF queue + 1 = Len(Queues) THEN "save" ELSE "publish"
    /\ UNCHANGED <<consumerVars, idx, page, kvPage, rows, finished, passedBy>>

\* The page's events of one kind go to their queue.
PublishEvents ==
    /\ step = "publish"
    /\ sent' = sent \cup {<<Current, page, Queues[queue]>>}
    /\ queue' = queue + 1
    /\ step' = IF queue = Len(Queues) THEN "save" ELSE "publish"
    /\ UNCHANGED <<consumerVars, idx, page, kvPage, rows, finished, passedBy>>

\* The page cursor moves on before the transactions are inserted.
SavePage ==
    /\ step = "save"
    /\ page' = page + 1
    /\ kvPage' = [kvPage EXCEPT ![Current] = page + 1]
    /\ step' = "insert"
    /\ UNCHANGED <<consumerVars, idx, queue, sent, rows, finished, passedBy>>

\* Mutant: the insert takes the page the cursor has moved on to.
InsertNextPage ==
    /\ step = "insert"
    /\ rows' = rows \cup {<<Current, page>>}
    /\ step' = "fetch"
    /\ UNCHANGED <<consumerVars, idx, page, queue, kvPage, sent, finished, passedBy>>

\* The transactions are inserted; rows that are there already stay as they are.
InsertTransactions ==
    /\ step = "insert"
    /\ rows' = rows \cup {<<Current, page - 1>>}
    /\ step' = "fetch"
    /\ UNCHANGED <<consumerVars, idx, page, queue, kvPage, sent, finished, passedBy>>

\* What is lost when the handler leaves off here.
PassedBy ==
    passedBy' = IF step = "insert" THEN passedBy \cup {<<Current, page - 1>>}
                                   ELSE passedBy

\* A message, an event or a transaction is malformed: reading it panics, a
\* page's events before any of them is published.
Malformed ==
    /\ step \in {"next", "insert"} \/ (step = "publish" /\ queue = 1)
    /\ C!HandlePanic

\* A call of the handler fails (it may have taken effect: then the step counts
\* as done and the next one fails), or it panics.
HandleFails ==
    /\ step # "off"
    /\ ~(step = "next" /\ idx > Len(batch))
    /\ C!HandleErr \/ Malformed
    /\ PassedBy
    /\ step' = "off"
    /\ UNCHANGED <<idx, page, queue, kvPage, sent, rows, finished>>

\* The process dies or is stopped, the handler with it.
Interrupt ==
    /\ C!Cancel \/ C!Crash
    /\ PassedBy
    /\ step' = "off"
    /\ UNCHANGED <<idx, page, queue, kvPage, sent, rows, finished>>

\* The consumer's own steps.
ConsumerStep ==
    /\ \/ \E m \in Msgs : C!Publish(m) \/ C!Prefetch(m)
       \/ C!Run
       \/ C!StartConsuming
       \/ C!StartFails
       \/ C!Consume
       \/ C!Finalize
    /\ UNCHANGED <<localVars, storeVars>>

Next ==
    \/ ConsumerStep
    \/ BeginHandle
    \/ NextRange
    \/ HandleReturns
    \/ FetchPage
    \/ FetchEmpty
    \/ PublishEvents
    \/ SavePage
    \/ InsertTransactions
    \/ HandleFails
    \/ Interrupt

Spec == Init /\ [][Next]_vars

------------------------------------------------------------------------------
TypeOK ==
    /\ C!TypeOK
    /\ step \in {"off", "next", "fetch", "publish", "save", "insert"}
    /\ idx \in Nat \ {0}
    /\ page \in Nat \ {0}
    /\ queue \in 1..(Len(Queues) + 1)
    /\ kvPage \in [Ranges -> Nat]
    /\ sent \subseteq Ranges \X Nat \X {Queues[q] : q \in DOMAIN Queues}
    /\ rows \subseteq Ranges \X Nat
    /\ finished \subseteq Ranges
    /\ passedBy \subseteq Ranges \X Nat

\* All events of page p of r are in their queues.
PageSent(r, p) == \A q \in DOMAIN Queues : <<r, p, Queues[q]>> \in sent

\* The page cursor never passes a page some of whose events are in no queue,
\* however often the range was begun, failed, redelivered and begun again.
PageCursorCovered ==
    \A r \in Ranges : \A p \in 1..(SavedPage(r) - 1) : PageSent(r, p)

\* A message counts as handled only once every event of its range is in its
\* queue: the consumer acks it as a success no earlier.
HandledIsSent ==
    \A m \in handled : \A p \in 1..Pages[RangeOf[m]] : PageSent(RangeOf[m], p)

\* A page's transactions are missing from the database only when the handler
\* left off exactly between the save of the page cursor and the insert.
RowsMissingOnlyIfPassedBy ==
    \A r \in Ranges : \A p \in 1..(SavedPage(r) - 1) :
        \/ <<r, p>> \in rows \cup passedBy
        \/ step = "insert" /\ r = Current /\ p = page - 1

\* The pages of each range are handed out at least once, by the page cursor: each
\* range behaves like a CursorLog (Log(r)!Spec for every r, as one formula).
Log(r) == INSTANCE CursorLog WITH
    LastUnit <- Pages[r],
    done <- {p \in 1..Pages[r] : PageSent(r, p)},
    cursor <- IF r \in finished THEN Pages[r] + 1 ELSE SavedPage(r)

ImplementsCursorLog ==
    /\ \A r \in Ranges : Log(r)!Init
    /\ [][\A r \in Ranges : [Log(r)!Next]_(Log(r)!vars)]_vars
==============================================================================
