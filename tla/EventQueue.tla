----------------------------- MODULE EventQueue -----------------------------
(***************************************************************************)
(* A queue of token manager events and its consumer, as far as a handler   *)
(* that works on its batch one message at a time can observe them: the     *)
(* Handle of items_indexer.go and collections_indexer.go inside the        *)
(* Consume of pkg/msgs/consumer.go.  A handling that fails starts the      *)
(* batch again at its first message; after the last attempt the batch is   *)
(* acked all the same (see Consumer: NothingLost).  Deliveries of a        *)
(* connection that died go to the tail of the queue.                       *)
(***************************************************************************)
EXTENDS Naturals, Sequences

CONSTANTS
    BatchSize,          \* messages of a batch at most
    Attempts,           \* attempts at a batch
    MaxEvents,          \* bound: events of the chain
    MaxFaults           \* bound: failed calls, crashes and repeated events

ASSUME EventQueueAssumption ==
    /\ BatchSize \in Nat \ {0}
    /\ Attempts \in Nat \ {0}
    /\ MaxEvents \in Nat
    /\ MaxFaults \in Nat

VARIABLES
    queue,              \* the messages, in the order of their arrival
    batch,              \* the messages being handled
    idx,                \* the next of them
    attempt,            \* the attempt at the batch
    pc,                 \* where the handler of a message stands
    emitted,            \* the messages there have ever been
    events,             \* number of events
    faults,             \* number of faults
    lost,               \* history: a batch was given up
    disturbed           \* history: a message came again or out of order

queueVars == <<queue, batch, idx, attempt, pc, emitted, events, faults, lost, disturbed>>

QueueInit ==
    /\ queue = << >> /\ batch = << >> /\ idx = 1 /\ attempt = 1 /\ pc = "idle"
    /\ emitted = {} /\ events = 0 /\ faults = 0
    /\ lost = FALSE /\ disturbed = FALSE

\* An event of the chain reaches the queue.
Emit(m) ==
    /\ events < MaxEvents
    /\ events' = events + 1
    /\ emitted' = emitted \cup {m}
    /\ queue' = Append(queue, m)
    /\ UNCHANGED <<batch, idx, attempt, pc, faults, lost, disturbed>>

\* The producer publishes a page or block of events once more.
Repeat(m) ==
    /\ faults < MaxFaults
    /\ faults' = faults + 1
    /\ m \in emitted
    /\ queue' = Append(queue, m)
    /\ disturbed' = TRUE
    /\ UNCHANGED <<batch, idx, attempt, pc, emitted, events, lost>>

TakeBatch(n) ==
    /\ pc = "idle"
    /\ n <= Len(queue)
    /\ batch' = SubSeq(queue, 1, n)
    /\ queue' = SubSeq(queue, n + 1, Len(queue))
    /\ pc' = "next"
    /\ UNCHANGED <<idx, attempt, emitted, events, faults, lost, disturbed>>

\* The handling of a message begins with the look at its type.
Handling(type) == pc = "next" /\ idx <= Len(batch) /\ batch[idx].type = type

\* The message at hand, as it is read by the handler of its type.
Message == batch[idx]

Goto(label) ==
    /\ pc' = label
    /\ UNCHANGED <<queue, batch, idx, attempt, emitted, events, faults, lost, disturbed>>

\* Mutant: the rest of the batch is passed over.
AdvanceToEnd ==
    /\ idx' = Len(batch) + 1
    /\ pc' = "next"
    /\ UNCHANGED <<queue, batch, attempt, emitted, events, faults, lost, disturbed>>

\* The handler of the message returns without an error.
Advance ==
    /\ idx' = idx + 1
    /\ pc' = "next"
    /\ UNCHANGED <<queue, batch, attempt, emitted, events, faults, lost, disturbed>>

\* Back to where no batch is being handled.
LetGo == batch' = << >> /\ idx' = 1 /\ attempt' = 1 /\ pc' = "idle"

AckBatch ==
    /\ pc = "next"
    /\ idx > Len(batch)
    /\ LetGo
    /\ UNCHANGED <<queue, emitted, events, faults, lost, disturbed>>

\* The handler returns an error or panics.
FailAttempt ==
    /\ IF attempt < Attempts
       THEN /\ attempt' = attempt + 1 /\ idx' = 1 /\ pc' = "next"
            /\ UNCHANGED <<batch, lost>>
       ELSE LetGo /\ lost' = TRUE
    /\ UNCHANGED <<queue, emitted, events, disturbed>>

FailHere == FailAttempt /\ UNCHANGED faults

\* A call of the handler fails that had no reason in the data to.
CallFails ==
    /\ pc # "idle"
    /\ faults < MaxFaults
    /\ faults' = faults + 1
    /\ FailAttempt

\* The process dies, and the cleaner returns what it held.
Crash ==
    /\ pc # "idle"
    /\ faults < MaxFaults
    /\ faults' = faults + 1
    /\ queue' = queue \o batch
    /\ disturbed' = TRUE
    /\ LetGo
    /\ UNCHANGED <<emitted, events, lost>>

QueueTypeOK(Messages, Labels) ==
    /\ queue \in Seq(Messages) /\ batch \in Seq(Messages)
    /\ Len(batch) <= BatchSize
    /\ idx \in 1..(Len(batch) + 1)
    /\ attempt \in 1..Attempts
    /\ pc \in Labels \cup {"idle", "next"}
    /\ pc \notin {"idle", "next"} => idx <= Len(batch)
    /\ emitted \subseteq Messages
    /\ events \in 0..MaxEvents /\ faults \in 0..MaxFaults
    /\ lost \in BOOLEAN /\ disturbed \in BOOLEAN

Quiet == queue = << >> /\ pc = "idle"
=============================================================================
