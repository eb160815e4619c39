------------------------------- MODULE Consumer -------------------------------
(***************************************************************************)
(* pkg/msgs/consumer.go: the queue consumer every indexer and events       *)
(* producer of horizon-svc runs.  Messages live in Redis (adjust/rmq): a   *)
(* message is ready, unacked by a live connection, orphaned by a dead one, *)
(* rejected, or gone (acked, or purged after a rejection).  The handler is *)
(* abstract here: an attempt succeeds, returns an error or panics.         *)
(*                                                                         *)
(* rmq and distributed_lab/running are libraries and are modelled from how *)
(* this file uses them: Clean returns the deliveries of dead connections   *)
(* to their queue (and may return this connection's, which is about to     *)
(* stop), WithThreshold runs the handler until it succeeds or has run      *)
(* Attempts times, and Attempt(h.ctx) is the attempt number of the         *)
(* UntilSuccess("consumer") whose context the handlerConsumer was given.   *)
(***************************************************************************)
EXTENDS Integers, Sequences, FiniteSets

CONSTANTS
    Msgs,               \* the messages that are ever published to the queue
    PrefetchLimit,      \* prefetch_limit: unacked messages and batch size
    Attempts,           \* retry_consume_attempts
    MaxRuns,            \* bound: how often Run is called
    MaxStarts           \* bound: attempts to start consuming within a Run

ASSUME ConsumerAssumption ==
    /\ PrefetchLimit \in Nat \ {0}
    /\ Attempts \in Nat \ {0}
    /\ MaxRuns \in Nat \ {0}
    /\ MaxStarts \in Nat \ {0}

VARIABLES
    place,              \* where each message is
    pc,                 \* where the consumer stands
    batch,              \* the batch Consume was called with
    attempt,            \* failed attempts at the batch so far
    failedHandling,     \* Consume's local flag
    starts,             \* attempt number of UntilSuccess("consumer")
    runs,               \* number of Runs so far
    handled,            \* history: messages of successfully handled batches
    tried               \* history: failed attempts since the last delivery

vars == <<place, pc, batch, attempt, failedHandling, starts, runs, handled, tried>>

Places ==
    {"unsent", "ready", "unacked", "orphaned", "rejected", "acked", "purged"}

At(p) == {m \in Msgs : place[m] = p}

\* Move the messages of S to p.
Moved(S, p) == [m \in Msgs |-> IF m \in S THEN p ELSE place[m]]

\* The messages of the batch at hand.
InBatch == {batch[i] : i \in DOMAIN batch}

\* Batches of distinct messages of S, in any order of delivery.
Batches(S) ==
    {b \in UNION {[1..n -> S] : n \in 1..PrefetchLimit} :
        \A i, j \in DOMAIN b : b[i] = b[j] => i = j}

Init ==
    /\ place = [m \in Msgs |-> "unsent"]
    /\ pc = "stopped"
    /\ batch = <<>>
    /\ attempt = 0
    /\ failedHandling = FALSE
    /\ starts = 0
    /\ runs = 0
    /\ handled = {}
    /\ tried = [m \in Msgs |-> 0]

------------------------------------------------------------------------------
\* A publisher puts a message into the queue.
Publish(m) ==
    /\ place[m] = "unsent"
    /\ place' = [place EXCEPT ![m] = "ready"]
    /\ UNCHANGED <<pc, batch, attempt, failedHandling, starts, runs, handled, tried>>

\* Run: open a new connection.
Run ==
    /\ pc = "stopped"
    /\ runs < MaxRuns
    /\ pc' = "starting"
    /\ starts' = 1
    /\ runs' = runs + 1
    /\ UNCHANGED <<place, batch, attempt, failedHandling, handled, tried>>

\* What cleanup leaves of the queue: the deliveries in `back` are ready again,
\* this connection's other ones are orphaned with it, rejected ones are purged.
Cleaned(back) ==
    [m \in Msgs |->
        IF m \in back THEN "ready"
        ELSE IF place[m] = "unacked" THEN "orphaned"
        ELSE IF place[m] = "rejected" THEN "purged" ELSE place[m]]

Cleanup ==
    \E back \in {At("orphaned"), At("orphaned") \cup At("unacked")} :
        place' = Cleaned(back)

\* runConsumingOnce gets StartConsuming and AddBatchConsumer through.
StartConsuming ==
    /\ pc = "starting"
    /\ pc' = "idle"
    /\ UNCHANGED <<place, batch, attempt, failedHandling, starts, runs, handled, tried>>

\* It does not: clean up, open a new connection and try again.  (When the clean-up
\* panics, Run ends: nothing more happens until the process dies.)
StartFails ==
    /\ pc = "starting"
    /\ starts < MaxStarts
    /\ Cleanup
    /\ starts' = starts + 1
    /\ UNCHANGED <<pc, batch, attempt, failedHandling, runs, handled, tried>>

\* rmq takes a message off the queue for this connection, as soon as
\* StartConsuming was called, whether or not the consumer was added.
Prefetch(m) ==
    /\ pc # "stopped"
    /\ place[m] = "ready"
    /\ Cardinality(At("unacked")) < PrefetchLimit
    /\ place' = [place EXCEPT ![m] = "unacked"]
    /\ UNCHANGED <<pc, batch, attempt, failedHandling, starts, runs, handled, tried>>

\* rmq calls Consume with a batch of the messages taken off the queue.
Consume ==
    /\ pc = "idle"
    /\ batch' \in Batches(At("unacked"))
    /\ pc' = "handling"
    /\ attempt' = 0
    /\ failedHandling' = FALSE
    /\ tried' = [m \in Msgs |-> IF \E i \in DOMAIN batch' : batch'[i] = m
                                THEN 0 ELSE tried[m]]
    /\ UNCHANGED <<place, starts, runs, handled>>

\* The handler succeeds and the batch is due for finalizing.
HandleOk ==
    /\ pc = "handling"
    /\ pc' = "finalizing"
    /\ handled' = handled \cup InBatch
    /\ UNCHANGED <<place, batch, attempt, failedHandling, starts, runs, tried>>

\* An attempt fails; the last one makes the batch due for finalizing as well.
AttemptFails ==
    /\ pc = "handling"
    /\ attempt' = attempt + 1
    /\ tried' = [m \in Msgs |-> IF m \in InBatch THEN tried[m] + 1 ELSE tried[m]]
    /\ pc' = IF attempt' = Attempts THEN "finalizing" ELSE "handling"
    /\ UNCHANGED <<place, batch, starts, runs, handled>>

\* Handle returns an error.  The attempt number it is told is the outer one.
HandleErr ==
    /\ AttemptFails
    /\ failedHandling' = (failedHandling \/ starts = Attempts)

\* Handle panics: the attempt fails, the flag is not looked at.
HandlePanic ==
    /\ AttemptFails
    /\ UNCHANGED failedHandling

\* Mutant: a failed batch is left unacked.
FinalizeHandled ==
    /\ pc = "finalizing"
    /\ place' = Moved(InBatch \cap handled, "acked")
    /\ pc' = "idle"
    /\ batch' = <<>>
    /\ attempt' = 0
    /\ failedHandling' = FALSE
    /\ UNCHANGED <<starts, runs, handled, tried>>

\* The batch is acked, or rejected when failedHandling is set; this is repeated
\* until it works.
Finalize ==
    /\ pc = "finalizing"
    /\ place' = Moved(InBatch, IF failedHandling THEN "rejected" ELSE "acked")
    /\ pc' = "idle"
    /\ batch' = <<>>
    /\ attempt' = 0
    /\ failedHandling' = FALSE
    /\ UNCHANGED <<starts, runs, handled, tried>>

\* Where the consumer stands after it was stopped.
Stopped ==
    /\ pc' = "stopped"
    /\ batch' = <<>>
    /\ attempt' = 0
    /\ failedHandling' = FALSE
    /\ UNCHANGED <<starts, runs, handled, tried>>

\* Mutant: a cancelled context does not keep the batch from being acked.
CancelAndAck ==
    /\ pc # "stopped"
    /\ runs < MaxRuns
    /\ place' = Moved(InBatch, "acked")
    /\ Stopped

\* The context is cancelled: a batch at hand is not finalized, cleanup runs.
Cancel ==
    /\ pc # "stopped"
    /\ runs < MaxRuns
    /\ Cleanup
    /\ Stopped

\* The process dies, its connection with it.
Crash ==
    /\ pc # "stopped"
    /\ runs < MaxRuns
    /\ place' = Moved(At("unacked"), "orphaned")
    /\ Stopped

Next ==
    \/ \E m \in Msgs : Publish(m)
    \/ Run
    \/ StartConsuming
    \/ StartFails
    \/ \E m \in Msgs : Prefetch(m)
    \/ Consume
    \/ HandleOk
    \/ HandleErr
    \/ HandlePanic
    \/ Finalize
    \/ Cancel
    \/ Crash

Spec == Init /\ [][Next]_vars

\* The loops of Run, Consume and rmq go on; an ack that is retried works at last; a
\* handler returns.  rmq takes messages off in the order they came, so none is
\* passed over for ever (SF: the prefetch limit comes and goes).
Fairness ==
    /\ WF_vars(Run)
    /\ WF_vars(StartConsuming)
    /\ \A m \in Msgs : SF_vars(Prefetch(m))
    /\ WF_vars(Consume)
    /\ WF_vars(HandleOk \/ HandleErr \/ HandlePanic)
    /\ WF_vars(Finalize)

FairSpec == Spec /\ Fairness

------------------------------------------------------------------------------
TypeOK ==
    /\ place \in [Msgs -> Places]
    /\ pc \in {"stopped", "starting", "idle", "handling", "finalizing"}
    /\ batch \in Seq(Msgs)
    /\ attempt \in 0..Attempts
    /\ failedHandling \in BOOLEAN
    /\ starts \in 0..MaxStarts
    /\ runs \in 0..MaxRuns
    /\ handled \subseteq Msgs
    /\ tried \in [Msgs -> 0..Attempts]

\* A message leaves the queue only after a successful handling or after all the
\* attempts the configuration grants: neither a cancelled context, a dead process
\* nor a failed start ever settles one.
SettledOnlyAfterEffort ==
    \A m \in Msgs :
        place[m] \in {"rejected", "acked", "purged"} =>
            m \in handled \/ tried[m] = Attempts

\* A message in the queue does not wait for ever: it is settled, or the connection
\* that took it dies.
ReadyIsSettled ==
    \A m \in Msgs :
        (place[m] = "ready")
            ~> (place[m] \in {"rejected", "acked", "purged", "orphaned"})

\* consumer.go:186 says of a batch whose attempts are used up that it "should be
\* retried manually": no message is gone that was not handled.
NothingLost ==
    \A m \in Msgs : place[m] \in {"acked", "purged"} => m \in handled
==============================================================================
