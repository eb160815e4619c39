---------------------------- MODULE Consumer_proofs ----------------------------
(***************************************************************************)
(* Proofs about Consumer, for every set of messages, prefetch limit and    *)
(* number of attempts.                                                     *)
(*                                                                         *)
(* SettledOnlyAfterEffort speaks of messages that have left the queue; to  *)
(* be inductive it needs to know what Finalize is about to settle: that    *)
(* the batch at hand is still this connection's (BatchIsOurs, so a settled *)
(* message is in no batch any more) and how often it was tried (Effort).   *)
(***************************************************************************)
EXTENDS Consumer, TLAPS

\* The batch at hand is still this connection's: nothing that happens meanwhile
\* hands one of its messages to someone else.
BatchIsOurs ==
    pc \in {"handling", "finalizing"} =>
        \A m \in InBatch : place[m] = "unacked"

\* How often the messages of the batch at hand were tried.
Effort ==
    /\ pc = "handling" => attempt < Attempts
    /\ pc \in {"handling", "finalizing"} =>
        \A m \in InBatch : tried[m] = attempt
    /\ pc = "finalizing" => InBatch \subseteq handled \/ attempt = Attempts

\* The strengthened invariant.
IInv ==
    /\ TypeOK
    /\ SettledOnlyAfterEffort
    /\ BatchIsOurs
    /\ Effort

------------------------------------------------------------------------------
\* The messages of the batch are messages of the queue.
LEMMA InBatchType == TypeOK => InBatch \subseteq Msgs
BY DEF TypeOK, InBatch

\* Moving messages to a place leaves each message in one place.
LEMMA MovedType ==
    ASSUME TypeOK, NEW S, NEW p \in Places
    PROVE  Moved(S, p) \in [Msgs -> Places]
BY DEF TypeOK, Moved

\* cleanup leaves each message in one place, and settles none that was not
\* rejected before.
LEMMA CleanupType ==
    ASSUME TypeOK, Cleanup
    PROVE  /\ place' \in [Msgs -> Places]
           /\ \A m \in Msgs :
                place'[m] \in {"rejected", "acked", "purged"} =>
                    place[m] \in {"rejected", "acked", "purged"}
<1>1. PICK back \in {At("orphaned"), At("orphaned") \cup At("unacked")} :
        place' = Cleaned(back)
    BY DEF Cleanup
<1>2. ASSUME NEW m \in Msgs
      PROVE  /\ Cleaned(back)[m] \in Places
             /\ Cleaned(back)[m] \in {"rejected", "acked", "purged"} =>
                    place[m] \in {"rejected", "acked", "purged"}
    <2>1. place[m] \in Places
        BY DEF TypeOK
    <2>2. CASE m \in back
        BY <2>2 DEF Cleaned, Places
    <2>3. CASE m \notin back /\ place[m] = "unacked"
        BY <2>3 DEF Cleaned, Places
    <2>4. CASE m \notin back /\ place[m] = "rejected"
        BY <2>4 DEF Cleaned, Places
    <2>5. CASE m \notin back /\ place[m] # "unacked" /\ place[m] # "rejected"
        BY <2>1, <2>5 DEF Cleaned
    <2> QED
        BY <2>2, <2>3, <2>4, <2>5
<1> QED
    BY <1>1, <1>2 DEF Cleaned

\* A batch rmq delivers is a sequence of messages.
LEMMA BatchType ==
    ASSUME NEW b \in Batches(At("unacked")) PROVE b \in Seq(Msgs)
<1>1. PICK n \in 1..PrefetchLimit : b \in [1..n -> At("unacked")]
    BY DEF Batches
<1>2. b \in [1..n -> Msgs] /\ n \in Nat
    BY <1>1, ConsumerAssumption DEF At, ConsumerAssumption
<1> QED
    BY <1>2

------------------------------------------------------------------------------
\* The strengthened invariant holds initially.
LEMMA InitIInv == Init => IInv
<1> SUFFICES ASSUME Init PROVE IInv
    OBVIOUS
<1> USE ConsumerAssumption DEF ConsumerAssumption, Init
<1>1. TypeOK
    <2>1. place \in [Msgs -> Places] /\ tried \in [Msgs -> 0..Attempts]
        BY DEF Places
    <2>2. batch \in Seq(Msgs)
        OBVIOUS
    <2>3. failedHandling \in BOOLEAN
        BY Zenon
    <2> QED
        BY <2>1, <2>2, <2>3 DEF TypeOK
<1>2. SettledOnlyAfterEffort /\ BatchIsOurs /\ Effort
    BY DEF SettledOnlyAfterEffort, BatchIsOurs, Effort
<1> QED
    BY <1>1, <1>2 DEF IInv

\* Publish and Prefetch: a message that is not in a batch moves on.
LEMMA MoveStep ==
    ASSUME IInv, NEW m \in Msgs, Publish(m) \/ Prefetch(m) PROVE IInv'
<1> USE DEF IInv
<1>1. /\ place' = [place EXCEPT ![m] = place'[m]]
      /\ place[m] \in {"unsent", "ready"}
      /\ place'[m] \in {"ready", "unacked"}
      /\ UNCHANGED <<pc, batch, attempt, failedHandling, starts, runs, handled, tried>>
    BY DEF Publish, Prefetch, TypeOK
<1>2. TypeOK'
    <2>1. place' \in [Msgs -> Places]
        BY <1>1 DEF TypeOK, Places
    <2> QED
        BY <1>1, <2>1 DEF TypeOK
<1>3. SettledOnlyAfterEffort'
    BY <1>1 DEF SettledOnlyAfterEffort, TypeOK
<1>4. BatchIsOurs'
    BY <1>1, InBatchType DEF BatchIsOurs, InBatch, TypeOK
<1>5. Effort'
    BY <1>1 DEF Effort, InBatch
<1> QED
    BY <1>2, <1>3, <1>4, <1>5

\* Run, StartConsuming and StartFails: no batch is at hand.
LEMMA StartStep ==
    ASSUME IInv, Run \/ StartConsuming \/ StartFails PROVE IInv'
<1> USE ConsumerAssumption DEF ConsumerAssumption, IInv
<1>1. /\ pc' \in {"starting", "idle"}
      /\ starts' \in 0..MaxStarts /\ runs' \in 0..MaxRuns
      /\ UNCHANGED <<batch, attempt, failedHandling, handled, tried>>
    BY DEF Run, StartConsuming, StartFails, TypeOK
<1>2. /\ place' \in [Msgs -> Places]
      /\ \A m \in Msgs :
            place'[m] \in {"rejected", "acked", "purged"} =>
                place[m] \in {"rejected", "acked", "purged"}
    <2>1. UNCHANGED place \/ Cleanup
        BY DEF Run, StartConsuming, StartFails
    <2> QED
        BY <2>1, CleanupType DEF TypeOK
<1>3. TypeOK'
    BY <1>1, <1>2 DEF TypeOK
<1>4. SettledOnlyAfterEffort'
    BY <1>1, <1>2 DEF SettledOnlyAfterEffort
<1>5. BatchIsOurs' /\ Effort'
    BY <1>1 DEF BatchIsOurs, Effort
<1> QED
    BY <1>3, <1>4, <1>5

\* Consume: the batch consists of messages this connection holds.
LEMMA ConsumeStep == ASSUME IInv, Consume PROVE IInv'
<1> USE ConsumerAssumption DEF ConsumerAssumption, IInv
<1>1. /\ batch' \in Batches(At("unacked")) /\ batch' \in Seq(Msgs)
      /\ \A i \in DOMAIN batch' : place[batch'[i]] = "unacked"
    BY BatchType DEF Consume, Batches, At
<1>2. /\ pc' = "handling" /\ attempt' = 0
      /\ UNCHANGED <<place, starts, runs, handled>>
      /\ \A m \in Msgs :
            tried'[m] = IF \E i \in DOMAIN batch' : batch'[i] = m THEN 0 ELSE tried[m]
    BY DEF Consume
<1>3. TypeOK'
    <2>1. tried' \in [Msgs -> 0..Attempts]
        BY DEF Consume, TypeOK
    <2>2. attempt' \in 0..Attempts
        BY <1>2
    <2>3. failedHandling' \in BOOLEAN
        BY Zenon DEF Consume
    <2> QED
        BY <1>1, <1>2, <2>1, <2>2, <2>3 DEF TypeOK
<1>4. SettledOnlyAfterEffort'
    <2> SUFFICES ASSUME NEW m \in Msgs,
                        place[m] \in {"rejected", "acked", "purged"}
                 PROVE  m \in handled \/ tried'[m] = Attempts
        BY <1>2 DEF SettledOnlyAfterEffort
    <2>1. \A i \in DOMAIN batch' : batch'[i] # m
        BY <1>1
    <2> QED
        BY <1>2, <2>1 DEF SettledOnlyAfterEffort
<1>5. BatchIsOurs'
    BY <1>1, <1>2 DEF BatchIsOurs, InBatch
<1>6. Effort'
    <2>1. \A m \in InBatch' : m \in Msgs /\ tried'[m] = 0
        BY <1>1, <1>2 DEF InBatch
    <2> QED
        BY <1>2, <2>1 DEF Effort
<1> QED
    BY <1>3, <1>4, <1>5, <1>6

\* HandleOk: the batch counts as handled.
LEMMA HandleOkStep == ASSUME IInv, HandleOk PROVE IInv'
<1> USE DEF IInv
<1>1. /\ pc = "handling" /\ pc' = "finalizing" /\ handled' = handled \cup InBatch
      /\ UNCHANGED <<place, batch, attempt, failedHandling, starts, runs, tried>>
      /\ InBatch' = InBatch
    BY DEF HandleOk, InBatch
<1>2. TypeOK'
    BY <1>1, InBatchType DEF TypeOK
<1>3. SettledOnlyAfterEffort'
    BY <1>1 DEF SettledOnlyAfterEffort
<1>4. BatchIsOurs' /\ Effort'
    BY <1>1 DEF BatchIsOurs, Effort
<1> QED
    BY <1>2, <1>3, <1>4

\* HandleErr and HandlePanic: one more attempt is used up.
LEMMA HandleFailsStep == ASSUME IInv, HandleErr \/ HandlePanic PROVE IInv'
<1> USE ConsumerAssumption DEF ConsumerAssumption, IInv
<1>1. /\ pc = "handling" /\ attempt' = attempt + 1
      /\ pc' = (IF attempt' = Attempts THEN "finalizing" ELSE "handling")
      /\ tried' = [m \in Msgs |-> IF m \in InBatch THEN tried[m] + 1 ELSE tried[m]]
      /\ UNCHANGED <<place, batch, starts, runs, handled>>
      /\ InBatch' = InBatch
    BY DEF HandleErr, HandlePanic, AttemptFails, InBatch
<1>2. attempt < Attempts /\ attempt \in Nat /\ \A m \in InBatch : tried[m] = attempt
    BY <1>1 DEF Effort, TypeOK
<1>3. TypeOK'
    <2>1. failedHandling' \in BOOLEAN
        BY DEF HandleErr, HandlePanic, TypeOK
    <2>2. tried' \in [Msgs -> 0..Attempts]
        BY <1>1, <1>2 DEF TypeOK
    <2>3. attempt' \in 0..Attempts /\ pc' \in {"handling", "finalizing"}
        BY <1>1, <1>2
    <2> QED
        BY <1>1, <2>1, <2>2, <2>3 DEF TypeOK
<1>4. SettledOnlyAfterEffort'
    <2> SUFFICES ASSUME NEW m \in Msgs,
                        place[m] \in {"rejected", "acked", "purged"}
                 PROVE  m \in handled \/ tried'[m] = Attempts
        BY <1>1 DEF SettledOnlyAfterEffort
    <2>1. m \notin InBatch
        BY <1>1 DEF BatchIsOurs
    <2> QED
        BY <1>1, <2>1 DEF SettledOnlyAfterEffort
<1>5. BatchIsOurs'
    BY <1>1 DEF BatchIsOurs
<1>6. Effort'
    BY <1>1, <1>2, InBatchType DEF Effort
<1> QED
    BY <1>3, <1>4, <1>5, <1>6

\* Finalize: what is settled was handled or tried to the end.
LEMMA FinalizeStep == ASSUME IInv, Finalize PROVE IInv'
<1> USE ConsumerAssumption DEF ConsumerAssumption, IInv
<1>1. PICK p \in {"rejected", "acked"} : place' = Moved(InBatch, p)
    BY DEF Finalize
<1>2. /\ pc = "finalizing" /\ pc' = "idle" /\ batch' = <<>> /\ attempt' = 0
      /\ failedHandling' = FALSE
      /\ UNCHANGED <<starts, runs, handled, tried>>
    BY DEF Finalize
<1>3. TypeOK'
    <2>1. place' \in [Msgs -> Places]
        BY <1>1, MovedType DEF Places
    <2>2. batch' \in Seq(Msgs)
        BY <1>2, SMT
    <2>3. failedHandling' \in BOOLEAN
        BY <1>2, Zenon
    <2> QED
        BY <1>2, <2>1, <2>2, <2>3 DEF TypeOK
<1>4. SettledOnlyAfterEffort'
    BY <1>1, <1>2 DEF SettledOnlyAfterEffort, Moved, Effort
<1>5. BatchIsOurs' /\ Effort'
    BY <1>2 DEF BatchIsOurs, Effort
<1> QED
    BY <1>3, <1>4, <1>5

\* Cancel and Crash: nothing is settled.
LEMMA StopStep == ASSUME IInv, Cancel \/ Crash PROVE IInv'
<1> USE ConsumerAssumption DEF ConsumerAssumption, IInv
<1>1. /\ place' \in [Msgs -> Places]
      /\ \A m \in Msgs :
            place'[m] \in {"rejected", "acked", "purged"} =>
                place[m] \in {"rejected", "acked", "purged"}
    <2>1. CASE Cancel
        BY <2>1, CleanupType DEF Cancel
    <2>2. CASE Crash
        BY <2>2, MovedType DEF Crash, Moved, Places
    <2> QED
        BY <2>1, <2>2
<1>2. /\ pc' = "stopped" /\ batch' = <<>> /\ attempt' = 0 /\ failedHandling' = FALSE
      /\ UNCHANGED <<starts, runs, handled, tried>>
    BY DEF Cancel, Crash, Stopped
<1>3. TypeOK'
    <2>1. batch' \in Seq(Msgs)
        BY <1>2, SMT
    <2>2. failedHandling' \in BOOLEAN
        BY <1>2, Zenon
    <2> QED
        BY <1>1, <1>2, <2>1, <2>2 DEF TypeOK
<1>4. SettledOnlyAfterEffort'
    BY <1>1, <1>2 DEF SettledOnlyAfterEffort
<1>5. BatchIsOurs' /\ Effort'
    BY <1>2 DEF BatchIsOurs, Effort
<1> QED
    BY <1>3, <1>4, <1>5

\* The strengthened invariant is inductive.
LEMMA NextIInv == IInv /\ [Next]_vars => IInv'
<1> SUFFICES ASSUME IInv, [Next]_vars PROVE IInv'
    OBVIOUS
<1>1. CASE UNCHANGED vars
    BY <1>1 DEF vars, IInv, TypeOK, SettledOnlyAfterEffort, BatchIsOurs, Effort,
                InBatch
<1> QED
    BY <1>1, MoveStep, StartStep, ConsumeStep, HandleOkStep, HandleFailsStep,
       FinalizeStep, StopStep DEF Next

\* The strengthened invariant holds in every reachable state.
THEOREM Invariance == Spec => []IInv
BY InitIInv, NextIInv, PTL DEF Spec

\* Type correctness of the consumer's state.
THEOREM TypeCorrect == Spec => []TypeOK
<1>1. IInv => TypeOK
    BY DEF IInv
<1> QED
    BY <1>1, Invariance, PTL

\* No message leaves the queue without a successful handling or all the attempts
\* it was due (Consume's threshold, its context check, and cleanup).
THEOREM NoEarlySettling == Spec => []SettledOnlyAfterEffort
<1>1. IInv => SettledOnlyAfterEffort
    BY DEF IInv
<1> QED
    BY <1>1, Invariance, PTL
==============================================================================
