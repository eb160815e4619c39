--------------------- MODULE TokenManagerOpProducer_proofs ---------------------
(***************************************************************************)
(* Proofs about TokenManagerOpProducer, for every set of ranges and every  *)
(* distribution of the transactions.                                       *)
(*                                                                         *)
(* The properties speak of the cursors; the strengthened invariant says    *)
(* what the handler has already sent beyond them (Progress), how far each  *)
(* pass has come, and which block events are in a queue although their     *)
(* block's cursor has not moved on (SentBeyond).                           *)
(***************************************************************************)
EXTENDS TokenManagerOpProducer, TLAPS

BlockPass == {"block", "publishBlock", "saveBlock"}
PagePass == {"page", "publishPage", "savePage", "insert"}

\* The events of block or page n that are published before the queue at hand.
SentSoFar(kind, r, n) ==
    \A q \in DOMAIN Queues : q < queue => <<kind, r, n, Queues[q]>> \in sent

\* How far the handler has come with the range at hand.
Progress ==
    \A r \in cur :
        /\ step \in BlockPass => block = SavedBlock(r)
        /\ step \in PagePass =>
            page = SavedPage(r) /\ SavedBlock(r) # r.start /\ SavedBlock(r) >= r.end
        /\ step = "publishBlock" =>
            block \in Handled(r) /\ queue \in DOMAIN Queues /\ SentSoFar("block", r, block)
        /\ step = "saveBlock" => block \in Handled(r) /\ IsSent("block", r, block)
        /\ step = "publishPage" =>
            page \in DOMAIN Heights[r] /\ queue \in DOMAIN Queues /\ SentSoFar("page", r, page)
        /\ step = "savePage" => page \in DOMAIN Heights[r] /\ IsSent("page", r, page)
        /\ step = "insert" => page - 1 \in DOMAIN Heights[r]

\* The block cursor of a range stays within the range.
CursorInRange ==
    \A r \in Ranges :
        SavedBlock(r) \in r.start .. (IF r.start = r.end THEN r.end + 1 ELSE r.end)

\* Events of a block the cursor has not passed are in a queue only when the
\* handler is at this block or has left off there.
SentBeyond ==
    \A r \in Ranges, q \in DOMAIN Queues : \A b \in Nat :
        <<"block", r, b, Queues[q]>> \in sent =>
            \/ b < SavedBlock(r)
            \/ <<r, b>> \in leftOff
            \/ cur = {r} /\ b = block /\ step = "publishBlock" /\ q < queue
            \/ cur = {r} /\ b = block /\ step = "saveBlock"

\* The strengthened invariant.
IInv ==
    /\ TypeOK
    /\ CursorsCovered
    /\ CursorInRange
    /\ Progress
    /\ HandledIsSent
    /\ SentBeyond
    /\ BlocksAgainOnlyIfLeftOff
    /\ RowsMissingOnlyIfPassedBy

------------------------------------------------------------------------------
\* What the assumption says of one range.
LEMMA RangeFacts ==
    ASSUME NEW r \in Ranges
    PROVE  /\ r.start \in Nat \ {0} /\ r.end \in Nat /\ r.start <= r.end
           /\ Heights[r] \in Seq(Nat)
           /\ \A p \in DOMAIN Heights[r] : Heights[r][p] \in Handled(r)
BY TokenManagerAssumption DEF TokenManagerAssumption

\* The two queues.
LEMMA QueueFacts ==
    /\ Len(Queues) = 2 /\ DOMAIN Queues = 1..2
    /\ Queues[1] = "items" /\ Queues[2] = "collections"
    /\ \A p, q \in 1..2 : Queues[p] = Queues[q] => p = q
BY DEF Queues

\* While the handler runs there is one range at hand.
LEMMA RangeAtHand ==
    ASSUME TypeOK, NEW r \in cur
    PROVE  r \in Ranges /\ cur = {r} /\ step # "off"
BY DEF TypeOK

\* The cursors are numbers.
LEMMA CursorType ==
    ASSUME TypeOK, NEW r \in Ranges
    PROVE  SavedBlock(r) \in Nat \ {0} /\ SavedPage(r) \in Nat \ {0}
BY RangeFacts DEF TypeOK, SavedBlock, SavedPage, NoCursor

\* The elements of sent are in order as long as it does not change.
LEMMA SentType ==
    ASSUME TypeOK, UNCHANGED sent
    PROVE  \A e \in sent' : e[2] \in Ranges /\ Height(e)' \in Handled(e[2])
BY DEF TypeOK, Height

\* The strengthened invariant holds initially.
LEMMA InitIInv == Init => IInv
<1> SUFFICES ASSUME Init PROVE IInv
    OBVIOUS
<1> USE TokenManagerAssumption DEF Init
<1>1. TypeOK
    BY QueueFacts DEF TypeOK, TokenManagerAssumption, NoCursor
<1>2. \A r \in Ranges : SavedBlock(r) = r.start /\ SavedPage(r) = 1
    BY DEF SavedBlock, SavedPage
<1>3. CursorsCovered /\ CursorInRange
    BY <1>2, RangeFacts DEF CursorsCovered, CursorInRange
<1>4. Progress /\ HandledIsSent /\ SentBeyond
    BY DEF Progress, HandledIsSent, SentBeyond
<1>5. BlocksAgainOnlyIfLeftOff /\ RowsMissingOnlyIfPassedBy
    BY <1>2 DEF BlocksAgainOnlyIfLeftOff, RowsMissingOnlyIfPassedBy
<1> QED
    BY <1>1, <1>3, <1>4, <1>5 DEF IInv

\* What depends on the cursors and the queues only holds while these stay.
LEMMA StoresKept ==
    ASSUME IInv, UNCHANGED <<kvBlock, kvPage, sent>>
    PROVE  /\ CursorsCovered' /\ CursorInRange'
           /\ \A r \in Ranges : SavedBlock(r)' = SavedBlock(r) /\ SavedPage(r)' = SavedPage(r)
           /\ \A kind, r, n : IsSent(kind, r, n)' = IsSent(kind, r, n)
           /\ UNCHANGED handled => HandledIsSent'
BY DEF IInv, CursorsCovered, CursorInRange, SavedBlock, SavedPage, IsSent, HandledIsSent

\* BeginBlocks: the range goes on at its block cursor.
LEMMA BeginStep ==
    ASSUME IInv, NEW r \in Ranges, BeginBlocks(r) PROVE IInv'
<1> USE DEF IInv
<1>1. /\ step = "off" /\ step' = "block"
      /\ cur' = {r}
      /\ block' = SavedBlock(r)
      /\ deliveries < MaxDeliveries /\ deliveries' = deliveries + 1
      /\ UNCHANGED <<page, queue, kvBlock, kvPage, sent, rows, handled, passedBy, leftOff,
                     again, late>>
    BY DEF BeginBlocks, kvVars
<1>2. cur = {}
    BY <1>1 DEF TypeOK
<1>3. /\ CursorsCovered' /\ CursorInRange' /\ HandledIsSent'
      /\ \A x \in Ranges : SavedBlock(x)' = SavedBlock(x) /\ SavedPage(x)' = SavedPage(x)
    BY <1>1, StoresKept
<1>4. TypeOK'
    <2>1. deliveries' \in 0..MaxDeliveries
        BY <1>1, TokenManagerAssumption DEF TypeOK, TokenManagerAssumption
    <2>2. block' \in Nat
        BY <1>1, CursorType
    <2>3. \A e \in sent' : e[2] \in Ranges /\ Height(e)' \in Handled(e[2])
        BY <1>1, SentType
    <2> QED
        BY <1>1, <2>1, <2>2, <2>3 DEF TypeOK
<1>5. Progress'
    BY <1>1, <1>3 DEF Progress, BlockPass, PagePass
<1>6. SentBeyond'
    BY <1>1, <1>2, <1>3 DEF SentBeyond
<1>7. BlocksAgainOnlyIfLeftOff' /\ RowsMissingOnlyIfPassedBy'
    BY <1>1, <1>2, <1>3 DEF BlocksAgainOnlyIfLeftOff, RowsMissingOnlyIfPassedBy
<1> QED
    BY <1>3, <1>4, <1>5, <1>6, <1>7

\* FetchBlock, BlocksDone and FetchPage: the handler looks at what comes next.
LEMMA LookStep ==
    ASSUME IInv, NEW r \in cur, FetchBlock(r) \/ BlocksDone(r) \/ FetchPage(r)
    PROVE  IInv'
<1> USE DEF IInv
<1>1. /\ UNCHANGED <<cur, block, kvBlock, kvPage, sent, rows, deliveries, handled, passedBy,
                     leftOff, again, late>>
      /\ \/ /\ step = "block" /\ ~(block # r.start /\ block >= r.end)
            /\ step' = "publishBlock" /\ queue' = 1 /\ page' = page
         \/ /\ step = "block" /\ block # r.start /\ block >= r.end
            /\ step' = "page" /\ queue' = queue /\ page' = SavedPage(r)
         \/ /\ step = "page" /\ page <= Len(Heights[r])
            /\ step' = "publishPage" /\ queue' = 1 /\ page' = page
    BY DEF FetchBlock, BlocksDone, FetchPage, kvVars, historyVars
<1>2. r \in Ranges /\ cur = {r}
    BY RangeAtHand
<1>3. /\ CursorsCovered' /\ CursorInRange' /\ HandledIsSent'
      /\ \A x \in Ranges : SavedBlock(x)' = SavedBlock(x) /\ SavedPage(x)' = SavedPage(x)
    BY <1>1, StoresKept
<1>4. TypeOK'
    <2>1. queue' \in 1..(Len(Queues) + 1)
        BY <1>1, QueueFacts DEF TypeOK
    <2>2. page' \in Nat \ {0}
        BY <1>1, <1>2, CursorType DEF TypeOK
    <2>3. \A e \in sent' : e[2] \in Ranges /\ Height(e)' \in Handled(e[2])
        BY <1>1, SentType
    <2>4. step' \in {"block", "publishBlock", "page", "publishPage"}
        BY <1>1
    <2> QED
        BY <1>1, <1>2, <2>1, <2>2, <2>3, <2>4 DEF TypeOK
<1>5. Progress'
    <2>1. step = "block" /\ ~(block # r.start /\ block >= r.end) => block \in Handled(r)
        <3>1. step = "block" => block = SavedBlock(r)
            BY <1>2 DEF Progress, BlockPass
        <3>2. SavedBlock(r) \in r.start .. (IF r.start = r.end THEN r.end + 1 ELSE r.end)
            BY <1>2 DEF CursorInRange
        <3>3. r.start \in Nat /\ r.end \in Nat /\ r.start <= r.end
            BY <1>2, RangeFacts
        <3>4. CASE r.start = r.end
            BY <3>1, <3>2, <3>3, <3>4 DEF Handled
        <3>5. CASE r.start # r.end
            BY <3>1, <3>2, <3>3, <3>5 DEF Handled
        <3> QED
            BY <3>4, <3>5
    <2>2. step = "page" /\ page <= Len(Heights[r]) => page \in DOMAIN Heights[r]
        BY <1>2, RangeFacts DEF TypeOK
    <2>3. queue' = 1 => queue' \in DOMAIN Queues
                        /\ \A kind, n : SentSoFar(kind, r, n)'
        BY QueueFacts DEF SentSoFar
    <2> QED
        BY <1>1, <1>2, <1>3, <2>1, <2>2, <2>3 DEF Progress, BlockPass, PagePass
<1>6. SentBeyond'
    BY <1>1, <1>2, <1>3 DEF SentBeyond
<1>7. BlocksAgainOnlyIfLeftOff' /\ RowsMissingOnlyIfPassedBy'
    BY <1>1, <1>2, <1>3 DEF BlocksAgainOnlyIfLeftOff, RowsMissingOnlyIfPassedBy
<1> QED
    BY <1>3, <1>4, <1>5, <1>6, <1>7

\* Send puts one element into sent, and takes note of what it means.
LEMMA SendFacts ==
    ASSUME NEW kind, NEW r, NEW n, Send(kind, r, n)
    PROVE  /\ sent' = sent \cup {<<kind, r, n, Queues[queue]>>}
           /\ \/ again' = again
              \/ /\ kind = "block" /\ <<kind, r, n, Queues[queue]>> \in sent
                 /\ again' = again \cup {<<r, n>>}
           /\ late' \subseteq late \cup {<<kind, r, n, Queues[queue]>>}
           /\ queue' = queue + 1
BY DEF Send

\* Queues only grow, and so does what is known to be in them.
LEMMA SentGrows ==
    ASSUME IInv, sent \subseteq sent', UNCHANGED <<kvBlock, kvPage, handled>>
    PROVE  /\ CursorsCovered' /\ CursorInRange' /\ HandledIsSent'
           /\ \A r \in Ranges : SavedBlock(r)' = SavedBlock(r) /\ SavedPage(r)' = SavedPage(r)
BY DEF IInv, CursorsCovered, CursorInRange, SavedBlock, SavedPage, IsSent, HandledIsSent

\* PublishBlock and PublishPage: one queue more has the events.
LEMMA PublishStep ==
    ASSUME IInv, NEW r \in cur, PublishBlock(r) \/ PublishPage(r) PROVE IInv'
<1> USE DEF IInv
<1>1. r \in Ranges /\ cur = {r}
    BY RangeAtHand
<1>2. PICK kind \in {"block", "page"}, n \in Nat :
        /\ Send(kind, r, n)
        /\ \/ /\ kind = "block" /\ n = block /\ step = "publishBlock"
              /\ step' = IF queue = Len(Queues) THEN "saveBlock" ELSE "publishBlock"
           \/ /\ kind = "page" /\ n = page /\ step = "publishPage"
              /\ step' = IF queue = Len(Queues) THEN "savePage" ELSE "publishPage"
        /\ UNCHANGED <<cur, block, page, kvBlock, kvPage, rows, deliveries, handled,
                       passedBy, leftOff>>
    BY DEF PublishBlock, PublishPage, kvVars, TypeOK
<1> DEFINE e == <<kind, r, n, Queues[queue]>>
<1>3. /\ sent' = sent \cup {e}
      /\ \/ again' = again
         \/ kind = "block" /\ e \in sent /\ again' = again \cup {<<r, n>>}
      /\ late' \subseteq late \cup {e}
      /\ queue' = queue + 1
    BY <1>2, SendFacts
<1>4. /\ queue \in 1..2
      /\ kind = "block" => n \in Handled(r)
      /\ kind = "page" => n \in DOMAIN Heights[r]
    BY <1>1, <1>2, QueueFacts DEF Progress
<1>5. /\ CursorsCovered' /\ CursorInRange' /\ HandledIsSent'
      /\ \A x \in Ranges : SavedBlock(x)' = SavedBlock(x) /\ SavedPage(x)' = SavedPage(x)
    BY <1>2, <1>3, SentGrows
<1>6. TypeOK'
    <2>1. e[2] = r /\ Height(e) \in Handled(r)
        BY <1>1, <1>2, <1>4, RangeFacts DEF Height
    <2>2. \A x \in sent' : x[2] \in Ranges /\ Height(x)' \in Handled(x[2])
        BY <1>1, <1>3, <2>1 DEF TypeOK, Height
    <2>3. again' \subseteq Ranges \X Nat /\ late' \subseteq sent'
        BY <1>1, <1>3 DEF TypeOK
    <2>4. queue' \in 1..(Len(Queues) + 1)
        BY <1>3, <1>4, QueueFacts
    <2> QED
        BY <1>1, <1>2, <2>2, <2>3, <2>4 DEF TypeOK
<1>7. Progress'
    <2>1. SentSoFar(kind, r, n)
        BY <1>1, <1>2 DEF Progress
    <2>2. queue # 2 => queue' \in DOMAIN Queues /\ SentSoFar(kind, r, n)'
        BY <1>3, <1>4, <2>1, QueueFacts DEF SentSoFar
    <2>3. queue = 2 => IsSent(kind, r, n)'
        BY <1>3, <1>4, <2>1, QueueFacts DEF SentSoFar, IsSent
    <2> QED
        BY <1>1, <1>2, <1>4, <1>5, <2>2, <2>3, QueueFacts DEF Progress, BlockPass, PagePass
<1>8. SentBeyond'
    BY <1>1, <1>2, <1>3, <1>4, <1>5, QueueFacts DEF SentBeyond
<1>9. BlocksAgainOnlyIfLeftOff'
    <2>1. CASE again' = again
        BY <1>2, <2>1 DEF BlocksAgainOnlyIfLeftOff
    <2>2. CASE kind = "block" /\ e \in sent /\ again' = again \cup {<<r, n>>}
        <3>1. SavedBlock(r) = n
            BY <1>1, <1>2, <2>2 DEF Progress, BlockPass
        <3>2. <<r, n>> \in leftOff
            BY <1>1, <1>2, <1>4, <2>2, <3>1, QueueFacts DEF SentBeyond
        <3> QED
            BY <1>2, <2>2, <3>2 DEF BlocksAgainOnlyIfLeftOff
    <2> QED
        BY <1>3, <2>1, <2>2
<1>10. RowsMissingOnlyIfPassedBy'
    BY <1>1, <1>2, <1>5 DEF RowsMissingOnlyIfPassedBy
<1> QED
    BY <1>5, <1>6, <1>7, <1>8, <1>9, <1>10

\* SaveBlock: the block cursor passes a block whose events are in the queues.
LEMMA SaveBlockStep ==
    ASSUME IInv, NEW r \in cur, SaveBlock(r) PROVE IInv'
<1> USE DEF IInv
<1>1. r \in Ranges /\ cur = {r}
    BY RangeAtHand
<1>2. /\ step = "saveBlock" /\ step' = "block"
      /\ block' = block + 1
      /\ kvBlock' = [kvBlock EXCEPT ![r] = block + 1]
      /\ UNCHANGED <<cur, page, queue, kvPage, sent, rows, deliveries, handled, passedBy,
                     leftOff, again, late>>
    BY DEF SaveBlock, historyVars
<1>3. /\ block = SavedBlock(r) /\ block \in Handled(r) /\ IsSent("block", r, block)
      /\ block \in Nat
    BY <1>1, <1>2 DEF Progress, BlockPass, TypeOK
<1>4. /\ SavedBlock(r)' = block + 1
      /\ \A x \in Ranges \ {r} : SavedBlock(x)' = SavedBlock(x)
      /\ \A x \in Ranges : SavedPage(x)' = SavedPage(x)
    BY <1>1, <1>2, <1>3 DEF SavedBlock, SavedPage, TypeOK, NoCursor
<1>5. \A kind, x, n : IsSent(kind, x, n)' = IsSent(kind, x, n)
    BY <1>2 DEF IsSent
<1>6. TypeOK'
    <2>1. \A e \in sent' : e[2] \in Ranges /\ Height(e)' \in Handled(e[2])
        BY <1>2, SentType
    <2>2. block' \in Nat /\ kvBlock' \in [Ranges -> Nat]
        BY <1>1, <1>2, <1>3 DEF TypeOK
    <2> QED
        BY <1>1, <1>2, <2>1, <2>2 DEF TypeOK
<1>7. CursorsCovered'
    <2> SUFFICES ASSUME NEW x \in Ranges
                 PROVE  /\ \A b \in x.start .. (SavedBlock(x)' - 1) : IsSent("block", x, b)
                        /\ \A p \in 1 .. (SavedPage(x)' - 1) : IsSent("page", x, p)
        BY <1>5 DEF CursorsCovered
    <2>1. \A p \in 1 .. (SavedPage(x)' - 1) : IsSent("page", x, p)
        BY <1>4 DEF CursorsCovered
    <2>2. CASE x = r
        <3>1. \A b \in x.start .. block : b = block \/ b \in x.start .. (block - 1)
            BY <1>3, RangeFacts
        <3> QED
            BY <1>3, <1>4, <2>1, <2>2, <3>1 DEF CursorsCovered
    <2>3. CASE x # r
        BY <1>4, <2>1, <2>3 DEF CursorsCovered
    <2> QED
        BY <2>2, <2>3
<1>8. CursorInRange'
    <2>1. block + 1 \in r.start .. (IF r.start = r.end THEN r.end + 1 ELSE r.end)
        <3>1. r.start \in Nat /\ r.end \in Nat /\ r.start <= r.end
            BY <1>1, RangeFacts
        <3>2. CASE r.start = r.end
            BY <1>3, <3>1, <3>2 DEF Handled
        <3>3. CASE r.start # r.end
            BY <1>3, <3>1, <3>3 DEF Handled
        <3> QED
            BY <3>2, <3>3
    <2> QED
        BY <1>1, <1>4, <2>1 DEF CursorInRange
<1>9. Progress'
    BY <1>1, <1>2, <1>4 DEF Progress, BlockPass, PagePass
<1>10. HandledIsSent'
    BY <1>2, <1>5 DEF HandledIsSent
<1>11. SentBeyond'
    BY <1>1, <1>2, <1>3, <1>4, CursorType DEF SentBeyond
<1>12. BlocksAgainOnlyIfLeftOff' /\ RowsMissingOnlyIfPassedBy'
    BY <1>1, <1>2, <1>4 DEF BlocksAgainOnlyIfLeftOff, RowsMissingOnlyIfPassedBy
<1> QED
    BY <1>6, <1>7, <1>8, <1>9, <1>10, <1>11, <1>12

\* SavePage: the page cursor passes a page whose events are in the queues.
LEMMA SavePageStep ==
    ASSUME IInv, NEW r \in cur, SavePage(r) PROVE IInv'
<1> USE DEF IInv
<1>1. r \in Ranges /\ cur = {r}
    BY RangeAtHand
<1>2. /\ step = "savePage" /\ step' = "insert"
      /\ page' = page + 1
      /\ kvPage' = [kvPage EXCEPT ![r] = page + 1]
      /\ UNCHANGED <<cur, block, queue, kvBlock, sent, rows, deliveries, handled, passedBy,
                     leftOff, again, late>>
    BY DEF SavePage, historyVars
<1>3. /\ page = SavedPage(r) /\ page \in DOMAIN Heights[r] /\ IsSent("page", r, page)
      /\ SavedBlock(r) # r.start /\ SavedBlock(r) >= r.end
      /\ page \in Nat \ {0}
    BY <1>1, <1>2 DEF Progress, PagePass, TypeOK
<1>4. /\ SavedPage(r)' = page + 1
      /\ \A x \in Ranges \ {r} : SavedPage(x)' = SavedPage(x)
      /\ \A x \in Ranges : SavedBlock(x)' = SavedBlock(x)
    BY <1>1, <1>2, <1>3 DEF SavedBlock, SavedPage, TypeOK, NoCursor
<1>5. \A kind, x, n : IsSent(kind, x, n)' = IsSent(kind, x, n)
    BY <1>2 DEF IsSent
<1>6. TypeOK'
    <2>1. \A e \in sent' : e[2] \in Ranges /\ Height(e)' \in Handled(e[2])
        BY <1>2, SentType
    <2>2. page' \in Nat \ {0} /\ kvPage' \in [Ranges -> Nat]
        BY <1>1, <1>2, <1>3 DEF TypeOK
    <2> QED
        BY <1>1, <1>2, <2>1, <2>2 DEF TypeOK
<1>7. CursorsCovered'
    <2> SUFFICES ASSUME NEW x \in Ranges
                 PROVE  /\ \A b \in x.start .. (SavedBlock(x)' - 1) : IsSent("block", x, b)
                        /\ \A p \in 1 .. (SavedPage(x)' - 1) : IsSent("page", x, p)
        BY <1>5 DEF CursorsCovered
    <2>1. \A b \in x.start .. (SavedBlock(x)' - 1) : IsSent("block", x, b)
        BY <1>4 DEF CursorsCovered
    <2>2. CASE x = r
        <3>1. \A p \in 1 .. page : p = page \/ p \in 1 .. (page - 1)
            BY <1>3
        <3> QED
            BY <1>3, <1>4, <2>1, <2>2, <3>1 DEF CursorsCovered
    <2>3. CASE x # r
        BY <1>4, <2>1, <2>3 DEF CursorsCovered
    <2> QED
        BY <2>2, <2>3
<1>8. CursorInRange' /\ SentBeyond'
    BY <1>2, <1>4 DEF CursorInRange, SentBeyond
<1>9. Progress'
    BY <1>1, <1>2, <1>3, <1>4 DEF Progress, BlockPass, PagePass
<1>10. HandledIsSent'
    BY <1>2, <1>5 DEF HandledIsSent
<1>11. BlocksAgainOnlyIfLeftOff'
    BY <1>2 DEF BlocksAgainOnlyIfLeftOff
<1>12. RowsMissingOnlyIfPassedBy'
    <2> SUFFICES ASSUME NEW x \in Ranges, NEW p \in 1 .. (SavedPage(x)' - 1)
                 PROVE  \/ <<x, p>> \in rows' \cup passedBy'
                        \/ step' = "insert" /\ cur' = {x} /\ p = page' - 1
        BY DEF RowsMissingOnlyIfPassedBy
    <2>3. page' - 1 = page
        BY <1>2, <1>3
    <2>1. CASE x = r
        <3>1. p = page \/ p \in 1 .. (SavedPage(x) - 1)
            BY <1>3, <1>4, <2>1
        <3> QED
            BY <1>1, <1>2, <2>1, <2>3, <3>1 DEF RowsMissingOnlyIfPassedBy
    <2>2. CASE x # r
        BY <1>2, <1>4, <2>2 DEF RowsMissingOnlyIfPassedBy
    <2> QED
        BY <2>1, <2>2
<1> QED
    BY <1>6, <1>7, <1>8, <1>9, <1>10, <1>11, <1>12

\* InsertTransactions: the page the cursor has just passed gets into the database.
LEMMA InsertStep ==
    ASSUME IInv, NEW r \in cur, InsertTransactions(r) PROVE IInv'
<1> USE DEF IInv
<1>1. r \in Ranges /\ cur = {r}
    BY RangeAtHand
<1>2. /\ step = "insert" /\ step' = "page"
      /\ rows' = rows \cup {<<r, page - 1>>}
      /\ UNCHANGED <<cur, block, page, queue, kvBlock, kvPage, sent, deliveries, handled,
                     passedBy, leftOff, again, late>>
    BY DEF InsertTransactions, kvVars, historyVars
<1>3. /\ CursorsCovered' /\ CursorInRange' /\ HandledIsSent'
      /\ \A x \in Ranges : SavedBlock(x)' = SavedBlock(x) /\ SavedPage(x)' = SavedPage(x)
    BY <1>2, StoresKept
<1>4. TypeOK'
    <2>1. \A e \in sent' : e[2] \in Ranges /\ Height(e)' \in Handled(e[2])
        BY <1>2, SentType
    <2>2. rows' \subseteq Ranges \X Nat
        BY <1>1, <1>2 DEF TypeOK
    <2> QED
        BY <1>1, <1>2, <2>1, <2>2 DEF TypeOK
<1>5. Progress'
    BY <1>2, <1>3 DEF Progress, BlockPass, PagePass, TypeOK
<1>6. SentBeyond'
    BY <1>2, <1>3 DEF SentBeyond
<1>7. BlocksAgainOnlyIfLeftOff' /\ RowsMissingOnlyIfPassedBy'
    BY <1>1, <1>2, <1>3 DEF BlocksAgainOnlyIfLeftOff, RowsMissingOnlyIfPassedBy
<1> QED
    BY <1>3, <1>4, <1>5, <1>6, <1>7

\* Finish: both cursors have passed everything, so the range is done.
LEMMA FinishStep ==
    ASSUME IInv, NEW r \in cur, Finish(r) PROVE IInv'
<1> USE DEF IInv
<1>1. r \in Ranges /\ cur = {r}
    BY RangeAtHand
<1>2. /\ step = "page" /\ page > Len(Heights[r])
      /\ kvPage' \in {kvPage, [kvPage EXCEPT ![r] = NoCursor]}
      /\ handled' = handled \cup {r}
      /\ step' = "off" /\ cur' = {}
      /\ UNCHANGED <<block, page, queue, kvBlock, sent, rows, deliveries, passedBy, leftOff,
                     again, late>>
    BY DEF Finish
<1>3. /\ page = SavedPage(r) /\ page \in Nat \ {0}
      /\ SavedBlock(r) # r.start /\ SavedBlock(r) >= r.end
    BY <1>1, <1>2 DEF Progress, PagePass, TypeOK
<1>4. /\ \A x \in Ranges : SavedBlock(x)' = SavedBlock(x)
      /\ \A x \in Ranges : SavedPage(x)' = SavedPage(x) \/ SavedPage(x)' = 1
    BY <1>1, <1>2 DEF SavedBlock, SavedPage, TypeOK, NoCursor
<1>5. \A kind, x, n : IsSent(kind, x, n)' = IsSent(kind, x, n)
    BY <1>2 DEF IsSent
<1>6. TypeOK'
    <2>1. \A e \in sent' : e[2] \in Ranges /\ Height(e)' \in Handled(e[2])
        BY <1>2, SentType
    <2>2. kvPage' \in [Ranges -> Nat] /\ handled' \subseteq Ranges
        BY <1>1, <1>2 DEF TypeOK, NoCursor
    <2> QED
        BY <1>1, <1>2, <2>1, <2>2 DEF TypeOK
<1>7. CursorsCovered' /\ CursorInRange'
    BY <1>4, <1>5 DEF CursorsCovered, CursorInRange
<1>8. Progress' /\ SentBeyond'
    BY <1>1, <1>2, <1>4 DEF Progress, SentBeyond
<1>9. HandledIsSent'
    <2>1. Handled(r) \subseteq r.start .. (SavedBlock(r) - 1)
        <3>1. /\ r.start \in Nat /\ r.end \in Nat /\ r.start <= r.end
              /\ SavedBlock(r) \in Nat
              /\ SavedBlock(r) >= r.start
            BY <1>1, CursorType, RangeFacts DEF CursorInRange
        <3>2. CASE r.start = r.end
            BY <1>3, <3>1, <3>2 DEF Handled
        <3>3. CASE r.start # r.end
            BY <1>3, <3>1, <3>3 DEF Handled
        <3> QED
            BY <3>2, <3>3
    <2>2. DOMAIN Heights[r] \subseteq 1 .. (SavedPage(r) - 1)
        BY <1>1, <1>2, <1>3, RangeFacts
    <2>3. /\ \A b \in Handled(r) : IsSent("block", r, b)
          /\ \A p \in DOMAIN Heights[r] : IsSent("page", r, p)
        BY <1>1, <2>1, <2>2 DEF CursorsCovered
    <2> QED
        BY <1>2, <1>5, <2>3 DEF HandledIsSent
<1>10. BlocksAgainOnlyIfLeftOff' /\ RowsMissingOnlyIfPassedBy'
    BY <1>1, <1>2, <1>4 DEF BlocksAgainOnlyIfLeftOff, RowsMissingOnlyIfPassedBy
<1> QED
    BY <1>6, <1>7, <1>8, <1>9, <1>10

\* LeaveOff: only what was missed or begun is noted.
LEMMA LeaveOffStep ==
    ASSUME IInv, NEW r \in cur, LeaveOff(r) PROVE IInv'
<1> USE DEF IInv
<1>1. r \in Ranges /\ cur = {r}
    BY RangeAtHand
<1>2. /\ step # "off" /\ step' = "off" /\ cur' = {}
      /\ passedBy' = IF step = "insert" THEN passedBy \cup {<<r, page - 1>>} ELSE passedBy
      /\ leftOff' = IF step \in {"publishBlock", "saveBlock"}
                    THEN leftOff \cup {<<r, block>>} ELSE leftOff
      /\ UNCHANGED <<block, page, queue, kvBlock, kvPage, sent, rows, deliveries, handled,
                     again, late>>
    BY DEF LeaveOff, kvVars
<1>3. /\ CursorsCovered' /\ CursorInRange' /\ HandledIsSent'
      /\ \A x \in Ranges : SavedBlock(x)' = SavedBlock(x) /\ SavedPage(x)' = SavedPage(x)
    BY <1>2, StoresKept
<1>4. TypeOK'
    <2>1. \A e \in sent' : e[2] \in Ranges /\ Height(e)' \in Handled(e[2])
        BY <1>2, SentType
    <2>2. passedBy' \subseteq Ranges \X Nat /\ leftOff' \subseteq Ranges \X Nat
        BY <1>1, <1>2 DEF TypeOK
    <2> QED
        BY <1>1, <1>2, <2>1, <2>2 DEF TypeOK
<1>5. Progress'
    BY <1>2 DEF Progress
<1>6. SentBeyond'
    BY <1>1, <1>2, <1>3 DEF SentBeyond
<1>7. BlocksAgainOnlyIfLeftOff' /\ RowsMissingOnlyIfPassedBy'
    BY <1>1, <1>2, <1>3 DEF BlocksAgainOnlyIfLeftOff, RowsMissingOnlyIfPassedBy
<1> QED
    BY <1>3, <1>4, <1>5, <1>6, <1>7

\* Every step of the handler preserves the strengthened invariant.
LEMMA NextIInv == IInv /\ [Next]_vars => IInv'
<1> SUFFICES ASSUME IInv, [Next]_vars PROVE IInv'
    OBVIOUS
<1>1. ASSUME NEW r \in Ranges, BeginBlocks(r) PROVE IInv'
    BY <1>1, BeginStep
<1>2. ASSUME NEW r \in cur, FetchBlock(r) \/ BlocksDone(r) \/ FetchPage(r) PROVE IInv'
    BY <1>2, LookStep
<1>3. ASSUME NEW r \in cur, PublishBlock(r) \/ PublishPage(r) PROVE IInv'
    BY <1>3, PublishStep
<1>4. ASSUME NEW r \in cur, SaveBlock(r) PROVE IInv'
    BY <1>4, SaveBlockStep
<1>5. ASSUME NEW r \in cur, SavePage(r) PROVE IInv'
    BY <1>5, SavePageStep
<1>6. ASSUME NEW r \in cur, InsertTransactions(r) PROVE IInv'
    BY <1>6, InsertStep
<1>7. ASSUME NEW r \in cur, Finish(r) PROVE IInv'
    BY <1>7, FinishStep
<1>8. ASSUME NEW r \in cur, LeaveOff(r) PROVE IInv'
    BY <1>8, LeaveOffStep
<1>9. CASE UNCHANGED vars
    <2>1. UNCHANGED <<step, cur, block, page, queue, kvBlock, kvPage, sent, rows, deliveries,
                      handled, passedBy, leftOff, again, late>>
        BY <1>9 DEF vars, localVars, kvVars, historyVars
    <2>2. /\ CursorsCovered' /\ CursorInRange' /\ HandledIsSent'
          /\ \A x \in Ranges : SavedBlock(x)' = SavedBlock(x) /\ SavedPage(x)' = SavedPage(x)
          /\ \A kind, x, n : IsSent(kind, x, n)' = IsSent(kind, x, n)
        BY <2>1, StoresKept
    <2>3. TypeOK'
        BY <2>1, SentType DEF IInv, TypeOK
    <2>4. Progress'
        <3>1. \A kind, x, n : SentSoFar(kind, x, n)' = SentSoFar(kind, x, n)
            BY <2>1 DEF SentSoFar
        <3>2. cur \subseteq Ranges
            BY DEF IInv, TypeOK
        <3> QED
            BY <2>1, <2>2, <3>1, <3>2 DEF IInv, Progress
    <2>5. SentBeyond' /\ BlocksAgainOnlyIfLeftOff' /\ RowsMissingOnlyIfPassedBy'
        BY <2>1, <2>2 DEF IInv, SentBeyond, BlocksAgainOnlyIfLeftOff,
           RowsMissingOnlyIfPassedBy
    <2> QED
        BY <2>2, <2>3, <2>4, <2>5 DEF IInv
<1> QED
    BY <1>1, <1>2, <1>3, <1>4, <1>5, <1>6, <1>7, <1>8, <1>9 DEF Next

------------------------------------------------------------------------------
\* The strengthened invariant holds in every reachable state of produceMsgs.
THEOREM Invariance == Spec => []IInv
BY InitIInv, NextIInv, PTL DEF Spec

\* Every variable keeps its type, in particular no event of a range is ever sent
\* from a block that is not one of the range's.
THEOREM TypeCorrect == Spec => []TypeOK
BY Invariance, PTL DEF IInv

\* Neither cursor of a range ever passes events that are in no queue.
THEOREM CursorsNeverPass == Spec => []CursorsCovered
BY Invariance, PTL DEF IInv

\* produceMsgs succeeds for a range only when all its events are in their queues.
THEOREM NoEarlySuccess == Spec => []HandledIsSent
BY Invariance, PTL DEF IInv

\* A block's events are published again only if the handler left off at the block.
THEOREM BlocksNotRepeated == Spec => []BlocksAgainOnlyIfLeftOff
BY Invariance, PTL DEF IInv

\* Transactions are missing only if the handler left off between save and insert.
THEOREM OnlyOneGap == Spec => []RowsMissingOnlyIfPassedBy
BY Invariance, PTL DEF IInv

\* No step takes anything out of a queue, and only the save of the block cursor,
\* which sends nothing, moves it.
LEMMA StepMoves ==
    ASSUME IInv, [Next]_vars, NEW r \in Ranges
    PROVE  /\ sent \subseteq sent'
           /\ \/ SavedBlock(r)' = SavedBlock(r)
              \/ SavedBlock(r)' = SavedBlock(r) + 1 /\ sent' = sent
<1>1. CASE kvBlock' = kvBlock /\ sent \subseteq sent'
    BY <1>1 DEF SavedBlock
<1>2. CASE \E x \in cur : SaveBlock(x)
    <2>1. PICK x \in cur : SaveBlock(x)
        BY <1>2
    <2>2. x \in Ranges /\ block = SavedBlock(x) /\ block \in Nat
        BY <2>1, RangeAtHand DEF IInv, SaveBlock, Progress, BlockPass, TypeOK
    <2>3. kvBlock' = [kvBlock EXCEPT ![x] = block + 1] /\ sent' = sent
        BY <2>1 DEF SaveBlock
    <2> QED
        BY <2>2, <2>3 DEF SavedBlock, IInv, TypeOK, NoCursor
<1>3. ASSUME NEW x \in Ranges, BeginBlocks(x) PROVE kvBlock' = kvBlock /\ sent' = sent
    BY <1>3 DEF BeginBlocks, kvVars
<1>4. ASSUME NEW x \in cur,
             \/ FetchBlock(x) \/ BlocksDone(x) \/ FetchPage(x) \/ SavePage(x)
             \/ InsertTransactions(x) \/ Finish(x) \/ LeaveOff(x)
      PROVE  kvBlock' = kvBlock /\ sent' = sent
    BY <1>4 DEF FetchBlock, BlocksDone, FetchPage, SavePage, InsertTransactions, Finish,
                LeaveOff, kvVars
<1>5. ASSUME NEW x \in cur, PublishBlock(x) \/ PublishPage(x)
      PROVE  kvBlock' = kvBlock /\ sent \subseteq sent'
    BY <1>5 DEF PublishBlock, PublishPage, Send, kvVars
<1>6. CASE UNCHANGED vars
    BY <1>1, <1>6 DEF vars, kvVars
<1> QED
    BY <1>1, <1>2, <1>3, <1>4, <1>5, <1>6 DEF Next

\* What one step means to the abstract log of a range.
LEMMA StepRefines ==
    ASSUME IInv, IInv', [Next]_vars, NEW r \in Ranges
    PROVE  [Log(r)!Next]_(Log(r)!vars)
<1> DEFINE Done == {u \in 1 .. Blocks(r) : IsSent("block", r, r.start + u - 1)}
           Cur == SavedBlock(r) - r.start + 1
<1>1. Done \subseteq Done' /\ Done' \in SUBSET (1 .. Blocks(r))
    BY StepMoves DEF IsSent
<1>2. CASE SavedBlock(r)' = SavedBlock(r)
    <2>1. Log(r)!HandOut
        BY <1>1, <1>2 DEF Log!HandOut
    <2> QED
        BY <2>1 DEF Log!Next
<1>3. CASE SavedBlock(r)' = SavedBlock(r) + 1 /\ sent' = sent
    <2>1. /\ r.start \in Nat /\ r.end \in Nat /\ r.start <= r.end
          /\ SavedBlock(r) \in Nat /\ SavedBlock(r)' \in Nat
          /\ SavedBlock(r) >= r.start
          /\ SavedBlock(r)' <= IF r.start = r.end THEN r.end + 1 ELSE r.end
        BY <1>3, RangeFacts, CursorType DEF IInv, CursorInRange
    <2>2. Blocks(r) \in Nat /\ SavedBlock(r)' <= r.start + Blocks(r)
        BY <2>1 DEF Blocks
    <2>3. Cur' \in (Cur + 1) .. (Blocks(r) + 1)
        BY <1>3, <2>1, <2>2
    <2>4. Done' = Done
        BY <1>3 DEF IsSent
    <2>5. ASSUME NEW u \in 1 .. (Cur' - 1) PROVE u \in Done
        <3>1. u \in 1 .. Blocks(r)
            BY <2>1, <2>2
        <3>2. r.start + u - 1 \in r.start .. (SavedBlock(r)' - 1)
            BY <2>1
        <3>3. IsSent("block", r, r.start + u - 1)
            BY <1>3, <3>2 DEF IInv, CursorsCovered, IsSent
        <3> QED
            BY <3>1, <3>3
    <2>6. Log(r)!Commit
        BY <2>3, <2>4, <2>5 DEF Log!Commit
    <2> QED
        BY <2>6 DEF Log!Next
<1> QED
    BY <1>2, <1>3, StepMoves

\* The block pass implements the abstract at-least-once cursor for every range.
THEOREM Refinement == Spec => ImplementsCursorLog
<1>1. Init => \A r \in Ranges : Log(r)!Init
    <2> SUFFICES ASSUME Init, NEW r \in Ranges PROVE Log(r)!Init
        OBVIOUS
    <2>1. SavedBlock(r) = r.start /\ r.start \in Nat
        BY RangeFacts DEF Init, SavedBlock
    <2>2. \A n : ~ IsSent("block", r, n)
        BY QueueFacts DEF Init, IsSent
    <2> QED
        BY <2>1, <2>2 DEF Log!Init
<1>2. IInv /\ IInv' /\ [Next]_vars => [\A r \in Ranges : [Log(r)!Next]_(Log(r)!vars)]_vars
    BY StepRefines
<1> QED
    BY <1>1, <1>2, Invariance, PTL DEF Spec, ImplementsCursorLog

------------------------------------------------------------------------------
\* The order of the events.  What is in a queue has the shape of an event,
\* the pages of a range come after the last of its blocks, and no block was left
\* off that the block cursor has not come to.
SentShape ==
    \A e \in sent : \E kind \in {"block", "page"}, r \in Ranges, n \in Nat, q \in DOMAIN Queues :
        e = <<kind, r, n, Queues[q]>>

PagesAfterBlocks ==
    \A e \in sent : e[1] = "page" =>
        SavedBlock(e[2]) # e[2].start /\ SavedBlock(e[2]) >= e[2].end

LeftOffBehind == \A r \in Ranges, b \in Nat : <<r, b>> \in leftOff => b <= SavedBlock(r)

OrderIInv == SentShape /\ PagesAfterBlocks /\ LeftOffBehind /\ BlocksInOrder

LEMMA InitOrder == Init => OrderIInv
BY DEF Init, OrderIInv, SentShape, PagesAfterBlocks, LeftOffBehind, BlocksInOrder

\* The pages of a range stay behind its blocks, however its cursor moves on.
LEMMA CursorMoves ==
    ASSUME IInv, [Next]_vars, NEW r \in Ranges
    PROVE  /\ SavedBlock(r) \in Nat /\ SavedBlock(r)' \in Nat
           /\ SavedBlock(r) <= SavedBlock(r)'
           /\ SavedBlock(r) # r.start /\ SavedBlock(r) >= r.end =>
                  SavedBlock(r)' # r.start /\ SavedBlock(r)' >= r.end
<1>1. SavedBlock(r)' = SavedBlock(r) \/ SavedBlock(r)' = SavedBlock(r) + 1
    BY StepMoves
<1>2. /\ SavedBlock(r) \in Nat /\ r.start \in Nat /\ r.end \in Nat
      /\ SavedBlock(r) >= r.start
    BY RangeFacts, CursorType DEF IInv, CursorInRange
<1> QED
    BY <1>1, <1>2

\* A step that sends nothing keeps the order.
LEMMA NothingSent ==
    ASSUME IInv, OrderIInv, [Next]_vars, UNCHANGED <<sent, late>>, LeftOffBehind'
    PROVE  OrderIInv'
<1> USE DEF OrderIInv
<1>1. SentShape' /\ BlocksInOrder'
    BY DEF SentShape, BlocksInOrder, Height
<1>2. PagesAfterBlocks'
    BY CursorMoves DEF PagesAfterBlocks, IInv, TypeOK
<1> QED
    BY <1>1, <1>2

\* A block's event that is new in its queue finds none of a higher block of its
\* range there: neither one of a block nor one of a page.
LEMMA NoneBehind ==
    ASSUME IInv, OrderIInv, NEW r \in Ranges, cur = {r}, step = "publishBlock",
           NEW f \in sent, f[2] = r
    PROVE  ~(Height(f) > block)
<1> USE DEF IInv, OrderIInv
<1>1. PICK kind \in {"block", "page"}, n \in Nat, q \in DOMAIN Queues :
          f = <<kind, r, n, Queues[q]>>
    BY DEF SentShape
<1>2. block = SavedBlock(r) /\ block \in Handled(r) /\ block \in Nat
    BY DEF Progress, BlockPass, TypeOK
<1>3. CASE kind = "page"
    <2>1. SavedBlock(r) # r.start /\ SavedBlock(r) >= r.end
        BY <1>1, <1>3 DEF PagesAfterBlocks
    <2>2. r.start \in Nat /\ r.end \in Nat
        BY RangeFacts
    <2>3. CASE r.start = r.end
        BY <1>2, <2>1, <2>3 DEF Handled
    <2>4. CASE r.start # r.end
        BY <1>2, <2>1, <2>2, <2>4 DEF Handled
    <2> QED
        BY <2>3, <2>4
<1>4. CASE kind = "block"
    <2>1. <<"block", r, n, Queues[q]>> \in sent
        BY <1>1, <1>4
    <2>2. n < SavedBlock(r) \/ <<r, n>> \in leftOff \/ n = block
        BY <2>1 DEF SentBeyond
    <2>3. n <= block
        BY <1>2, <2>2 DEF LeftOffBehind
    <2>4. Height(f) = n
        BY <1>1, <1>4 DEF Height
    <2> QED
        BY <1>2, <2>3, <2>4
<1> QED
    BY <1>3, <1>4

LEMMA PublishOrder ==
    ASSUME IInv, OrderIInv, NEW r \in cur, PublishBlock(r) \/ PublishPage(r)
    PROVE  OrderIInv'
<1> USE DEF OrderIInv
<1>1. r \in Ranges /\ cur = {r} /\ TypeOK
    BY RangeAtHand DEF IInv
<1>2. PICK kind \in {"block", "page"}, n \in Nat :
        /\ Send(kind, r, n)
        /\ \/ kind = "block" /\ n = block /\ step = "publishBlock"
           \/ kind = "page" /\ n = page /\ step = "publishPage"
        /\ UNCHANGED <<kvBlock, kvPage, leftOff>>
    BY <1>1 DEF PublishBlock, PublishPage, kvVars, TypeOK
<1> DEFINE e == <<kind, r, n, Queues[queue]>>
<1>3. /\ sent' = sent \cup {e}
      /\ late' = late \/ (late' = late \cup {e} /\ e \notin sent
                          /\ \E f \in sent : f[4] = e[4] /\ Height(f) > Height(e))
    BY <1>2 DEF Send
<1>4. queue \in DOMAIN Queues
    BY <1>1, <1>2 DEF IInv, Progress
<1>5. SentShape'
    BY <1>1, <1>3, <1>4 DEF SentShape
<1>6. \A x \in Ranges : SavedBlock(x)' = SavedBlock(x)
    BY <1>2 DEF SavedBlock
<1>7. PagesAfterBlocks'
    <2>1. kind = "page" => SavedBlock(r) # r.start /\ SavedBlock(r) >= r.end
        BY <1>1, <1>2 DEF IInv, Progress, PagePass
    <2>2. \A x \in sent : x[2] \in Ranges
        BY <1>1 DEF TypeOK
    <2> QED
        BY <1>1, <1>3, <1>6, <2>1, <2>2 DEF PagesAfterBlocks
<1>8. LeftOffBehind'
    BY <1>2, <1>6 DEF LeftOffBehind
<1>9. BlocksInOrder'
    <2>1. ASSUME kind = "block", NEW f \in sent, Height(f) > Height(e) PROVE f[2] # r
        <3>1. Height(e) = block /\ step = "publishBlock"
            BY <1>2, <2>1 DEF Height
        <3> QED
            BY <1>1, <2>1, <3>1, NoneBehind
    <2>2. late' # late => (e[1] = "block" =>
              \E f \in sent : f[2] # e[2] /\ Height(f) > Height(e))
        BY <1>3, <2>1
    <2>3. ASSUME NEW x \in late', x[1] = "block"
          PROVE  \E f \in sent : f[2] # x[2] /\ Height(f) > Height(x)
        BY <1>3, <2>2, <2>3 DEF BlocksInOrder
    <2> QED
        BY <1>3, <2>3 DEF BlocksInOrder, Height
<1> QED
    BY <1>5, <1>7, <1>8, <1>9

LEMMA NextOrder == IInv /\ OrderIInv /\ [Next]_vars => OrderIInv'
<1> SUFFICES ASSUME IInv, OrderIInv, [Next]_vars PROVE OrderIInv'
    OBVIOUS
<1>1. CASE \E r \in cur : PublishBlock(r) \/ PublishPage(r)
    BY <1>1, PublishOrder
<1>2. CASE \E r \in cur : LeaveOff(r)
    <2>1. PICK r \in cur : LeaveOff(r)
        BY <1>2
    <2>2. r \in Ranges /\ cur = {r}
        BY RangeAtHand DEF IInv
    <2>3. /\ UNCHANGED <<sent, late, kvBlock>>
          /\ leftOff' = IF step \in {"publishBlock", "saveBlock"}
                        THEN leftOff \cup {<<r, block>>} ELSE leftOff
        BY <2>1 DEF LeaveOff, kvVars
    <2>4. step \in {"publishBlock", "saveBlock"} => block = SavedBlock(r) /\ block \in Nat
        BY <2>2 DEF IInv, Progress, BlockPass, TypeOK
    <2>5. LeftOffBehind'
        BY <2>2, <2>3, <2>4 DEF LeftOffBehind, OrderIInv, SavedBlock
    <2> QED
        BY <2>3, <2>5, NothingSent
<1>3. CASE UNCHANGED <<sent, late, leftOff>>
    <2>1. LeftOffBehind'
        BY <1>3, CursorMoves DEF LeftOffBehind, OrderIInv
    <2> QED
        BY <1>3, <2>1, NothingSent
<1> QED
    BY <1>1, <1>2, <1>3 DEF Next, BeginBlocks, FetchBlock, BlocksDone, FetchPage, SaveBlock,
       SavePage, InsertTransactions, Finish, vars, localVars, kvVars, historyVars

\* However often a range is delivered and wherever its handling was left off, an
\* event of a block that is new in its queue is behind none of a higher block of
\* the same range.
THEOREM InOrder == Spec => []BlocksInOrder
<1>1. Spec => []OrderIInv
    BY InitOrder, NextOrder, Invariance, PTL DEF Spec
<1> QED
    BY <1>1, PTL DEF OrderIInv
================================================================================
