------------------------- MODULE TokenManagerOpProducer -------------------------
(***************************************************************************)
(* internal/services/tokenmanager_producer.go: the handler of block range  *)
(* messages that feeds the items and the collections queue.  It works      *)
(* through a range twice: first block by block, for the events of the end  *)
(* of each block, then page by page, for the events of the transactions.   *)
(* Each pass has a cursor of its own per range; the page cursor is removed *)
(* in the end, the block cursor never.                                     *)
(*                                                                         *)
(* The consumer is abstract: it has one range handled at a time, and any   *)
(* range again, after a failure, a crash or a second delivery.             *)
(***************************************************************************)
EXTENDS Integers, Sequences

CONSTANTS
    Ranges,             \* the block ranges: records with a start and an end
    Heights,            \* Heights[r][p]: the block of page p's transactions
    MaxDeliveries       \* bound: how often produceMsgs is called

\* The blocks of a range that are looked at: its end only if it is its start.
Handled(r) == IF r.start = r.end THEN {r.start} ELSE r.start .. (r.end - 1)

ASSUME TokenManagerAssumption ==
    /\ Ranges \subseteq {r \in [start : Nat \ {0}, end : Nat] : r.start <= r.end}
    /\ Heights \in [Ranges -> Seq(Nat)]
    /\ \A r \in Ranges : \A p \in DOMAIN Heights[r] : Heights[r][p] \in Handled(r)
    /\ MaxDeliveries \in Nat

VARIABLES
    step,               \* where produceMsgs stands, "off" when it does not run
    cur,                \* the range at hand, {} or a singleton
    block,              \* publishBlockEvents's local block
    page,               \* publishTxEvents's local page
    queue,              \* number of the queue that is published to next
    kvBlock,            \* the block cursors in Redis, NoCursor when absent
    kvPage,             \* the page cursors in Redis, NoCursor when absent
    sent,               \* <<kind, r, n, q>>: block or page n's events of r are in q
    rows,               \* <<r, p>>: page p's transactions of r are in the database
    deliveries,         \* calls of produceMsgs so far
    handled,            \* history: ranges produceMsgs succeeded for
    passedBy,           \* history: pages whose insert failed or never ran
    leftOff,            \* history: blocks left between first publish and save
    again,              \* history: blocks some of whose events were sent again
    late                \* history: events first sent after one of a higher block

localVars == <<step, cur, block, page, queue>>
kvVars == <<kvBlock, kvPage>>
historyVars == <<deliveries, handled, passedBy, leftOff, again, late>>
vars == <<localVars, kvVars, sent, rows, historyVars>>

NoCursor == 0

\* The order in which the events of a block or a page are published.
Queues == <<"items", "collections">>

\* Where a range goes on: a missing key reads as its first block, the first page.
SavedBlock(r) == IF kvBlock[r] = NoCursor THEN r.start ELSE kvBlock[r]
SavedPage(r) == IF kvPage[r] = NoCursor THEN 1 ELSE kvPage[r]

\* The block an element of sent belongs to.
Height(e) == IF e[1] = "block" THEN e[3] ELSE Heights[e[2]][e[3]]

Init ==
    /\ step = "off"
    /\ cur = {}
    /\ block = 0
    /\ page = 1
    /\ queue = 1
    /\ kvBlock = [r \in Ranges |-> NoCursor]
    /\ kvPage = [r \in Ranges |-> NoCursor]
    /\ sent = {}
    /\ rows = {}
    /\ deliveries = 0
    /\ handled = {}
    /\ passedBy = {}
    /\ leftOff = {}
    /\ again = {}
    /\ late = {}

------------------------------------------------------------------------------
\* produceMsgs is called for a range; publishBlockEvents reads its block cursor.
BeginBlocks(r) ==
    /\ step = "off"
    /\ deliveries < MaxDeliveries
    /\ deliveries' = deliveries + 1
    /\ cur' = {r}
    /\ block' = SavedBlock(r)
    /\ step' = "block"
    /\ UNCHANGED <<page, queue, kvVars, sent, rows, handled, passedBy, leftOff, again, late>>

\* The next block is there to be looked at.
FetchBlock(r) ==
    /\ step = "block"
    /\ ~(block # r.start /\ block >= r.end)
    /\ step' = "publishBlock"
    /\ queue' = 1
    /\ UNCHANGED <<cur, block, page, kvVars, sent, rows, historyVars>>

\* Mutant: the pages come first.
BlocksDoneAnyTime(r) ==
    /\ step = "block"
    /\ page' = SavedPage(r)
    /\ step' = "page"
    /\ UNCHANGED <<cur, block, queue, kvVars, sent, rows, historyVars>>

\* All blocks are done; publishTxEvents reads the page cursor.
BlocksDone(r) ==
    /\ step = "block"
    /\ block # r.start /\ block >= r.end
    /\ page' = SavedPage(r)
    /\ step' = "page"
    /\ UNCHANGED <<cur, block, queue, kvVars, sent, rows, historyVars>>

\* Events of block or page n go to the next queue.
Send(kind, r, n) ==
    LET e == <<kind, r, n, Queues[queue]>>
    IN  /\ sent' = sent \cup {e}
        /\ again' = IF e \in sent /\ kind = "block" THEN again \cup {<<r, n>>} ELSE again
        /\ late' = IF e \notin sent
                      /\ \E f \in sent : f[4] = e[4] /\ Height(f) > Height(e)
                   THEN late \cup {e} ELSE late
        /\ queue' = queue + 1

\* Mutant: the collections queue is forgotten.
PublishItemsOnly(r) ==
    /\ step = "publishBlock"
    /\ Send("block", r, block)
    /\ step' = "saveBlock"
    /\ UNCHANGED <<cur, block, page, kvVars, rows, deliveries, handled, passedBy, leftOff>>

PublishBlock(r) ==
    /\ step = "publishBlock"
    /\ Send("block", r, block)
    /\ step' = IF queue = Len(Queues) THEN "saveBlock" ELSE "publishBlock"
    /\ UNCHANGED <<cur, block, page, kvVars, rows, deliveries, handled, passedBy, leftOff>>

\* Mutant: the block cursor moves on by two.
SkipBlock(r) ==
    /\ step = "saveBlock"
    /\ block' = block + 2
    /\ kvBlock' = [kvBlock EXCEPT ![r] = block + 2]
    /\ step' = "block"
    /\ UNCHANGED <<cur, page, queue, kvPage, sent, rows, historyVars>>

SaveBlock(r) ==
    /\ step = "saveBlock"
    /\ block' = block + 1
    /\ kvBlock' = [kvBlock EXCEPT ![r] = block + 1]
    /\ step' = "block"
    /\ UNCHANGED <<cur, page, queue, kvPage, sent, rows, historyVars>>

\* A page with transactions: publish their events next.
FetchPage(r) ==
    /\ step = "page"
    /\ page <= Len(Heights[r])
    /\ step' = "publishPage"
    /\ queue' = 1
    /\ UNCHANGED <<cur, block, page, kvVars, sent, rows, historyVars>>

PublishPage(r) ==
    /\ step = "publishPage"
    /\ Send("page", r, page)
    /\ step' = IF queue = Len(Queues) THEN "savePage" ELSE "publishPage"
    /\ UNCHANGED <<cur, block, page, kvVars, rows, deliveries, handled, passedBy, leftOff>>

\* The page cursor moves on before the transactions are inserted.
SavePage(r) ==
    /\ step = "savePage"
    /\ page' = page + 1
    /\ kvPage' = [kvPage EXCEPT ![r] = page + 1]
    /\ step' = "insert"
    /\ UNCHANGED <<cur, block, queue, kvBlock, sent, rows, historyVars>>

\* Mutant: the insert takes the page the cursor has moved on to.
InsertNextPage(r) ==
    /\ step = "insert"
    /\ rows' = rows \cup {<<r, page>>}
    /\ step' = "page"
    /\ UNCHANGED <<cur, block, page, queue, kvVars, sent, historyVars>>

\* The transactions are inserted; rows that are there already stay as they are.
InsertTransactions(r) ==
    /\ step = "insert"
    /\ rows' = rows \cup {<<r, page - 1>>}
    /\ step' = "page"
    /\ UNCHANGED <<cur, block, page, queue, kvVars, sent, historyVars>>

\* Mutant: a range counts as done before its last page.
FinishEarly(r) ==
    /\ step = "page"
    /\ page >= Len(Heights[r])
    /\ kvPage' \in {kvPage, [kvPage EXCEPT ![r] = NoCursor]}
    /\ handled' = handled \cup {r}
    /\ step' = "off"
    /\ cur' = {}
    /\ UNCHANGED <<block, page, queue, kvBlock, sent, rows, deliveries, passedBy, leftOff,
                   again, late>>

\* No transactions left: the page cursor is removed (a failure is only logged)
\* and the range is done.
Finish(r) ==
    /\ step = "page"
    /\ page > Len(Heights[r])
    /\ kvPage' \in {kvPage, [kvPage EXCEPT ![r] = NoCursor]}
    /\ handled' = handled \cup {r}
    /\ step' = "off"
    /\ cur' = {}
    /\ UNCHANGED <<block, page, queue, kvBlock, sent, rows, deliveries, passedBy, leftOff,
                   again, late>>

\* A call fails (it may have taken effect: then the step counts as done and the
\* next one fails), a malformed event panics, or the process dies.
LeaveOff(r) ==
    /\ step # "off"
    /\ step' = "off"
    /\ cur' = {}
    /\ passedBy' = IF step = "insert" THEN passedBy \cup {<<r, page - 1>>} ELSE passedBy
    /\ leftOff' = IF step \in {"publishBlock", "saveBlock"}
                  THEN leftOff \cup {<<r, block>>} ELSE leftOff
    /\ UNCHANGED <<block, page, queue, kvVars, sent, rows, deliveries, handled, again, late>>

Next ==
    \/ \E r \in Ranges : BeginBlocks(r)
    \/ \E r \in cur :
        \/ FetchBlock(r)
        \/ PublishBlock(r)
        \/ SaveBlock(r)
        \/ BlocksDone(r)
        \/ FetchPage(r)
        \/ PublishPage(r)
        \/ SavePage(r)
        \/ InsertTransactions(r)
        \/ Finish(r)
        \/ LeaveOff(r)

Spec == Init /\ [][Next]_vars

------------------------------------------------------------------------------
TypeOK ==
    /\ step \in {"off", "block", "publishBlock", "saveBlock", "page", "publishPage",
                 "savePage", "insert"}
    /\ IF step = "off" THEN cur = {} ELSE \E r \in Ranges : cur = {r}
    /\ block \in Nat
    /\ page \in Nat \ {0}
    /\ queue \in 1..(Len(Queues) + 1)
    /\ kvBlock \in [Ranges -> Nat]
    /\ kvPage \in [Ranges -> Nat]
    /\ \A e \in sent : e[2] \in Ranges /\ Height(e) \in Handled(e[2])
    /\ rows \subseteq Ranges \X Nat
    /\ deliveries \in 0..MaxDeliveries
    /\ handled \subseteq Ranges
    /\ passedBy \subseteq Ranges \X Nat
    /\ leftOff \subseteq Ranges \X Nat
    /\ again \subseteq Ranges \X Nat
    /\ late \subseteq sent

\* All events of block or page n of r are in their queues.
IsSent(kind, r, n) == \A q \in DOMAIN Queues : <<kind, r, n, Queues[q]>> \in sent

\* Neither cursor of a range ever passes events that are in no queue, although one
\* of them outlives the range and the other is removed.
CursorsCovered ==
    \A r \in Ranges :
        /\ \A b \in r.start .. (SavedBlock(r) - 1) : IsSent("block", r, b)
        /\ \A p \in 1 .. (SavedPage(r) - 1) : IsSent("page", r, p)

\* A range counts as done only when the events of all its blocks and pages are in
\* their queues, however its two passes were interrupted and resumed.
HandledIsSent ==
    \A r \in handled :
        /\ \A b \in Handled(r) : IsSent("block", r, b)
        /\ \A p \in DOMAIN Heights[r] : IsSent("page", r, p)

\* The events of the end of a block are published again only when the handler left
\* off in the middle of that block: a second delivery of a finished range repeats
\* its transactions' events but not those of its blocks.
BlocksAgainOnlyIfLeftOff == again \subseteq leftOff

\* A page's transactions are missing from the database only when the handler left
\* off exactly between the save of the page cursor and the insert.
RowsMissingOnlyIfPassedBy ==
    \A r \in Ranges : \A p \in 1 .. (SavedPage(r) - 1) :
        \/ <<r, p>> \in rows \cup passedBy
        \/ step = "insert" /\ cur = {r} /\ p = page - 1

\* How many blocks of a range are looked at.
Blocks(r) == IF r.start = r.end THEN 1 ELSE r.end - r.start

\* The blocks of each range are handed out at least once, by the block cursor:
\* every range behaves like a CursorLog.
Log(r) == INSTANCE CursorLog WITH
    LastUnit <- Blocks(r),
    done <- {u \in 1 .. Blocks(r) : IsSent("block", r, r.start + u - 1)},
    cursor <- SavedBlock(r) - r.start + 1

ImplementsCursorLog ==
    /\ \A r \in Ranges : Log(r)!Init
    /\ [][\A r \in Ranges : [Log(r)!Next]_(Log(r)!vars)]_vars

\* The two passes put the events of transactions behind the block end events of
\* later blocks.  The block end events of a range stay in order all the same, however
\* often the range is delivered: one that is new enters its queue behind an event of a
\* higher block only if that block is in another range.
BlocksInOrder ==
    \A e \in late : e[1] = "block" =>
        \E f \in sent : f[2] # e[2] /\ Height(f) > Height(e)
==============================================================================
