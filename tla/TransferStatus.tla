---------------------------- MODULE TransferStatus ----------------------------
(***************************************************************************)
(* The four indexers that write a transfer's status: transfers_indexer.go, *)
(* approval_indexer.go, rejection_indexer.go, confirmations_indexer.go.    *)
(* Each consumes a queue of its own, so they handle the events of one      *)
(* transfer in any order and at the same time.  The approval, rejection    *)
(* and confirmation indexers set the status of the rows that exist and     *)
(* insert their evidence in one database transaction; the transfers        *)
(* indexer derives the status of a new row from the evidence it finds, one *)
(* read after the other, and then upserts the rows.                        *)
(*                                                                         *)
(* The queues are the abstraction Consumer justifies: a message is handled *)
(* at least once, or given up after all attempts at its batch failed.      *)
(***************************************************************************)
EXTENDS Integers, FiniteSets

CONSTANTS
    Transfers,          \* the indices of the transfers
    MaxSubmits,         \* bound: how often a transfer is submitted on the chain
    MaxRepeats          \* bound: repeated messages, crashed and failed handlings

ASSUME StatusAssumption ==
    /\ MaxSubmits \in Nat \ {0}
    /\ MaxRepeats \in Nat

Status == {"INITIALIZED", "APPROVED", "NOT_APPROVED", "SIGNED"}

\* The queues of messages that carry evidence, and the status each one sets.
EvidenceKinds == {"confirmations", "approvals", "rejections"}
Kinds == {"transfers"} \cup EvidenceKinds
StatusOf == [confirmations |-> "SIGNED", approvals |-> "APPROVED",
             rejections |-> "NOT_APPROVED"]

VARIABLES
    chain,              \* the operation's status on the chain, "none" before it
    submits,            \* how often each transfer was submitted
    sent,               \* history: the messages ever published, by queue
    queue,              \* messages waiting in each queue
    batch,              \* the unacked batch each handler has
    pc,                 \* where each handler stands
    row,                \* status column of public.transfers, "absent" without a row
    table,              \* transfers with a row in each evidence table
    todo,               \* transfers of the batch that are still to be made
    cur,                \* the transfer being made, {} or a singleton
    op,                 \* its operation's status, as fetched from the core
    made,               \* the statuses of the transfers made so far
    repeats,            \* number of repeats, crashes and failures so far
    lost,               \* history: transfers a message of which was given up
    raced,              \* history: evidence arrived after it was looked for
    behind              \* history: evidence was applied after stronger evidence

chainVars == <<chain, submits, sent>>
dbVars == <<row, table>>
localVars == <<todo, cur, op, made>>
historyVars == <<lost, raced, behind>>
vars == <<chainVars, queue, batch, pc, dbVars, localVars, repeats, historyVars>>

Init ==
    /\ chain = [t \in Transfers |-> "none"]
    /\ submits = [t \in Transfers |-> 0]
    /\ sent = [k \in Kinds |-> {}]
    /\ queue = [k \in Kinds |-> {}]
    /\ batch = [k \in Kinds |-> {}]
    /\ pc = [k \in Kinds |-> "idle"]
    /\ row = [t \in Transfers |-> "absent"]
    /\ table = [k \in EvidenceKinds |-> {}]
    /\ todo = {}
    /\ cur = {}
    /\ op = "none"
    /\ made = << >>
    /\ repeats = 0
    /\ lost = {}
    /\ raced = {}
    /\ behind = {}

\* What the tables say of a transfer, in the order getTransferStatus asks them.
Evidence(tab, t) ==
    CASE t \in tab["confirmations"] -> "SIGNED"
      [] t \in tab["approvals"] \ tab["confirmations"] -> "APPROVED"
      [] t \in tab["rejections"] \ (tab["approvals"] \cup tab["confirmations"])
            -> "NOT_APPROVED"
      [] OTHER -> "none"

------------------------------------------------------------------------------
\* The chain's operation of t changes its status and the event is published.
ChainEvent(t, from, to, k) ==
    /\ chain[t] \in from
    /\ chain' = [chain EXCEPT ![t] = to]
    /\ sent' = [sent EXCEPT ![k] = @ \cup {t}]
    /\ queue' = [queue EXCEPT ![k] = @ \cup {t}]
    /\ UNCHANGED <<batch, pc, dbVars, localVars, repeats, historyVars>>

\* A transfer is submitted, or submitted again after it was not approved.
Submit(t) ==
    /\ submits[t] < MaxSubmits
    /\ submits' = [submits EXCEPT ![t] = @ + 1]
    /\ ChainEvent(t, {"none", "NOT_APPROVED"}, "INITIALIZED", "transfers")

Approve(t) ==
    /\ ChainEvent(t, {"INITIALIZED"}, "APPROVED", "approvals")
    /\ UNCHANGED submits

Reject(t) ==
    /\ ChainEvent(t, {"INITIALIZED"}, "NOT_APPROVED", "rejections")
    /\ UNCHANGED submits

Sign(t) ==
    /\ ChainEvent(t, {"APPROVED"}, "SIGNED", "confirmations")
    /\ UNCHANGED submits

\* The producer publishes a message once more (a page or a range was repeated).
Republish(k, t) ==
    /\ repeats < MaxRepeats
    /\ repeats' = repeats + 1
    /\ t \in sent[k]
    /\ queue' = [queue EXCEPT ![k] = @ \cup {t}]
    /\ UNCHANGED <<chainVars, batch, pc, dbVars, localVars, historyVars>>

------------------------------------------------------------------------------
\* Handle is called with a batch of the queue.
Take(k) ==
    /\ pc[k] = "idle"
    /\ \E b \in (SUBSET queue[k]) \ {{}} :
        /\ batch' = [batch EXCEPT ![k] = b]
        /\ queue' = [queue EXCEPT ![k] = @ \ b]
        /\ todo' = IF k = "transfers" THEN b ELSE todo
    /\ pc' = [pc EXCEPT ![k] = "work"]
    /\ UNCHANGED <<chainVars, dbVars, cur, op, made, repeats, historyVars>>

\* The transfers whose status the transfers indexer has already looked up, or
\* looked for in the evidence table k.
LookedUp(k) ==
    DOMAIN made \cup
        (IF pc["transfers"] \in
                CASE k = "confirmations" -> {"approvals", "rejections"}
                  [] k = "approvals" -> {"rejections"}
                  [] k = "rejections" -> {}
         THEN cur ELSE {})

\* Mutant: the evidence is inserted without the status update.
InsertOnly(k) ==
    /\ pc[k] = "work"
    /\ k = "confirmations" => batch[k] \cap table[k] = {}
    /\ table' = [table EXCEPT ![k] = @ \cup batch[k]]
    /\ raced' = raced \cup (batch[k] \cap LookedUp(k))
    /\ behind' = behind \cup
        {t \in batch[k] : Evidence(table', t) # StatusOf[k]}
    /\ pc' = [pc EXCEPT ![k] = "ack"]
    /\ UNCHANGED <<chainVars, queue, batch, row, localVars, repeats, lost>>

\* The database transaction of the evidence indexers: the rows that exist get the
\* status, the evidence is inserted.  A second confirmation of a transfer
\* violates the table's UNIQUE constraint: then nothing is done and Handle fails.
Apply(k) ==
    /\ pc[k] = "work"
    /\ k = "confirmations" => batch[k] \cap table[k] = {}
    /\ row' = [t \in Transfers |->
                IF t \in batch[k] /\ row[t] # "absent" THEN StatusOf[k] ELSE row[t]]
    /\ table' = [table EXCEPT ![k] = @ \cup batch[k]]
    /\ raced' = raced \cup (batch[k] \cap LookedUp(k))
    /\ behind' = behind \cup
        {t \in batch[k] : Evidence(table', t) # StatusOf[k]}
    /\ pc' = [pc EXCEPT ![k] = "ack"]
    /\ UNCHANGED <<chainVars, queue, batch, localVars, repeats, lost>>

\* The transfers indexer fetches the next transfer's operation from the core.
GetOperation ==
    /\ pc["transfers"] = "work"
    /\ \E t \in todo :
        /\ cur' = {t}
        /\ todo' = todo \ {t}
        /\ op' = chain[t]
    /\ pc' = [pc EXCEPT !["transfers"] = "confirmations"]
    /\ UNCHANGED <<chainVars, queue, batch, dbVars, made, repeats, historyVars>>

\* The status of the current transfer is s: go on with the next one.
Make(s) ==
    /\ made' = [t \in DOMAIN made \cup cur |-> IF t \in cur THEN s ELSE made[t]]
    /\ cur' = {}
    /\ op' = "none"
    /\ pc' = [pc EXCEPT !["transfers"] = "work"]

\* getTransferStatus looks into one evidence table after the other.
Look(k, next) ==
    /\ pc["transfers"] = k
    /\ IF cur \subseteq table[k]
       THEN Make(StatusOf[k])
       ELSE /\ pc' = [pc EXCEPT !["transfers"] = next]
            /\ UNCHANGED <<cur, op, made>>
    /\ UNCHANGED <<chainVars, queue, batch, dbVars, todo, repeats, historyVars>>

\* Mutant: the confirmations are not asked.
SkipConfirmations ==
    /\ pc["transfers"] = "confirmations"
    /\ pc' = [pc EXCEPT !["transfers"] = "approvals"]
    /\ UNCHANGED <<cur, op, made>>
    /\ UNCHANGED <<chainVars, queue, batch, dbVars, todo, repeats, historyVars>>

LookForConfirmations == Look("confirmations", "approvals")

LookForApprovals == Look("approvals", "rejections")

\* Without any evidence the status is the operation's.
LookForRejections ==
    /\ pc["transfers"] = "rejections"
    /\ Make(IF cur \subseteq table["rejections"] THEN "NOT_APPROVED" ELSE op)
    /\ UNCHANGED <<chainVars, queue, batch, dbVars, todo, repeats, historyVars>>

\* All transfers of the batch are made: their rows are upserted.
UpsertBatch ==
    /\ pc["transfers"] = "work"
    /\ todo = {}
    /\ row' = [t \in Transfers |-> IF t \in DOMAIN made THEN made[t] ELSE row[t]]
    /\ made' = << >>
    /\ pc' = [pc EXCEPT !["transfers"] = "ack"]
    /\ UNCHANGED <<chainVars, queue, batch, table, todo, cur, op, repeats, historyVars>>

\* The batch is acked after Handle returned without an error.
Ack(k) ==
    /\ pc[k] = "ack"
    /\ pc' = [pc EXCEPT ![k] = "idle"]
    /\ batch' = [batch EXCEPT ![k] = {}]
    /\ UNCHANGED <<chainVars, queue, dbVars, localVars, repeats, historyVars>>

\* What the transfers indexer had in memory is gone.
Forget(k) ==
    IF k = "transfers"
    THEN todo' = {} /\ cur' = {} /\ op' = "none" /\ made' = << >>
    ELSE UNCHANGED localVars

\* The handler fails or dies before its ack: the batch is delivered again.
Redeliver(k) ==
    /\ pc[k] # "idle"
    /\ repeats < MaxRepeats
    /\ repeats' = repeats + 1
    /\ queue' = [queue EXCEPT ![k] = @ \cup batch[k]]
    /\ batch' = [batch EXCEPT ![k] = {}]
    /\ pc' = [pc EXCEPT ![k] = "idle"]
    /\ Forget(k)
    /\ UNCHANGED <<chainVars, dbVars, historyVars>>

\* All attempts at the batch failed: it is acked all the same.
GiveUp(k) ==
    /\ pc[k] \notin {"idle", "ack"}
    /\ repeats < MaxRepeats
    /\ repeats' = repeats + 1
    /\ lost' = lost \cup batch[k]
    /\ batch' = [batch EXCEPT ![k] = {}]
    /\ pc' = [pc EXCEPT ![k] = "idle"]
    /\ Forget(k)
    /\ UNCHANGED <<chainVars, queue, dbVars, raced, behind>>

Next ==
    \/ \E t \in Transfers :
        \/ Submit(t)
        \/ Approve(t)
        \/ Reject(t)
        \/ Sign(t)
        \/ \E k \in Kinds : Republish(k, t)
    \/ \E k \in Kinds : Take(k) \/ Ack(k) \/ Redeliver(k) \/ GiveUp(k)
    \/ \E k \in EvidenceKinds : Apply(k)
    \/ GetOperation
    \/ LookForConfirmations
    \/ LookForApprovals
    \/ LookForRejections
    \/ UpsertBatch

Spec == Init /\ [][Next]_vars

------------------------------------------------------------------------------
TypeOK ==
    /\ chain \in [Transfers -> Status \cup {"none"}]
    /\ submits \in [Transfers -> 0..MaxSubmits]
    /\ sent \in [Kinds -> SUBSET Transfers]
    /\ queue \in [Kinds -> SUBSET Transfers]
    /\ batch \in [Kinds -> SUBSET Transfers]
    /\ pc \in [Kinds -> {"idle", "work", "ack"} \cup EvidenceKinds]
    /\ row \in [Transfers -> Status \cup {"absent"}]
    /\ table \in [EvidenceKinds -> SUBSET Transfers]
    /\ todo \subseteq batch["transfers"]
    /\ cur \subseteq batch["transfers"]
    /\ op \in Status \cup {"none"}
    /\ DOMAIN made \subseteq batch["transfers"]
    /\ \A t \in DOMAIN made : made[t] \in Status
    /\ repeats \in 0..MaxRepeats
    /\ lost \subseteq Transfers
    /\ raced \subseteq Transfers
    /\ behind \subseteq Transfers

\* A row's status agrees with the strongest evidence stored for its transfer,
\* unless that evidence was stored after the transfers indexer had looked for
\* it, or weaker evidence was handled after stronger: redeliveries, crashes, failed
\* batches and rows that come after their evidence never make them disagree.
StatusFollowsEvidence ==
    \A t \in Transfers \ (raced \cup behind) :
        row[t] # "absent" /\ Evidence(table, t) # "none" =>
            row[t] = Evidence(table, t)

\* Nothing is in flight, and no message was given up.
Quiet == \A k \in Kinds : queue[k] = {} /\ pc[k] = "idle"

\* Once all messages are handled a transfer submitted once has the status of its
\* operation on the chain, with the same two exceptions.
QuietIsChain ==
    Quiet => \A t \in Transfers \ (lost \cup raced \cup behind) :
                submits[t] = 1 => row[t] = chain[t]
==============================================================================
