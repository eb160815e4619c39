------------------------- MODULE TransferStatus_proofs -------------------------
(***************************************************************************)
(* Proofs about TransferStatus, for every set of transfers and every bound *)
(* on submissions and repeats.                                             *)
(*                                                                         *)
(* StatusFollowsEvidence speaks of rows.  To be inductive it needs to know *)
(* the same of the statuses that are on their way to a row (MadeFollows)   *)
(* and what the look-ups done so far have excluded (StageFollows).         *)
(* QuietIsChain needs, besides, that no message gets lost unnoticed        *)
(* (Accounted), what the events published so far tell of the operation     *)
(* (OnChain), and that nothing but INITIALIZED is known of a transfer      *)
(* whose operation is new (StillInitialized).                              *)
(***************************************************************************)
EXTENDS TransferStatus, TLAPS

\* What the local state of the handlers has to do with where they stand.
Bookkeeping ==
    /\ \A k \in EvidenceKinds : pc[k] \in {"idle", "work", "ack"}
    /\ \A k \in Kinds : pc[k] = "idle" => batch[k] = {}
    /\ pc["transfers"] \in EvidenceKinds =>
            (\E t \in Transfers : cur = {t}) /\ op \in Status
    /\ pc["transfers"] \notin EvidenceKinds => cur = {}
    /\ pc["transfers"] \in {"idle", "ack"} => todo = {} /\ DOMAIN made = {}
    /\ pc["transfers"] \notin {"idle", "ack"} =>
            batch["transfers"] = todo \cup cur \cup DOMAIN made

\* The statuses that are made agree with the evidence stored.
MadeFollows ==
    \A t \in (DOMAIN made) \ raced :
        Evidence(table, t) # "none" => made[t] = Evidence(table, t)

\* A table that was looked into without success holds nothing about the transfer.
StageFollows ==
    \A t \in cur \ raced :
        /\ pc["transfers"] \in {"approvals", "rejections"} => t \notin table["confirmations"]
        /\ pc["transfers"] = "rejections" => t \notin table["approvals"]

\* Every message ever published is waiting, at hand, given up or handled.
Accounted ==
    /\ \A k \in Kinds : queue[k] \subseteq sent[k] /\ batch[k] \subseteq sent[k]
    /\ \A k \in EvidenceKinds :
        /\ table[k] \subseteq sent[k]
        /\ sent[k] \subseteq queue[k] \cup batch[k] \cup table[k] \cup lost
        /\ pc[k] = "ack" => batch[k] \subseteq table[k]
    /\ \A t \in Transfers : row[t] # "absent" => t \in sent["transfers"]
    /\ \A t \in sent["transfers"] :
        t \in queue["transfers"] \cup batch["transfers"] \cup lost \/ row[t] # "absent"
    /\ pc["transfers"] = "ack" => \A t \in batch["transfers"] : row[t] # "absent"

\* What the messages ever published tell of an operation submitted once.
OnChain ==
    \A t \in Transfers :
        /\ submits[t] = 0 <=> chain[t] = "none"
        /\ submits[t] # 0 <=> t \in sent["transfers"]
        /\ submits[t] = 0 => \A k \in EvidenceKinds : t \notin sent[k]
        /\ submits[t] = 1 =>
            /\ t \in sent["approvals"] <=> chain[t] \in {"APPROVED", "SIGNED"}
            /\ t \in sent["rejections"] <=> chain[t] = "NOT_APPROVED"
            /\ t \in sent["confirmations"] <=> chain[t] = "SIGNED"

\* Nothing but INITIALIZED is known of a transfer whose operation is new.
StillInitialized ==
    \A t \in Transfers :
        submits[t] = 1 /\ chain[t] = "INITIALIZED" =>
            /\ row[t] \in {"absent", "INITIALIZED"}
            /\ t \in DOMAIN made => made[t] = "INITIALIZED"
            /\ t \in cur => op = "INITIALIZED"

\* The strengthened invariant.
IInv ==
    /\ TypeOK
    /\ Bookkeeping
    /\ Accounted
    /\ OnChain
    /\ MadeFollows
    /\ StageFollows
    /\ StatusFollowsEvidence
    /\ StillInitialized

------------------------------------------------------------------------------
\* What the tables say of a transfer, case by case.
LEMMA EvidenceIs ==
    ASSUME NEW tab, NEW t
    PROVE  /\ t \in tab["confirmations"] => Evidence(tab, t) = "SIGNED"
           /\ t \notin tab["confirmations"] /\ t \in tab["approvals"] =>
                Evidence(tab, t) = "APPROVED"
           /\ t \notin tab["confirmations"] /\ t \notin tab["approvals"]
              /\ t \in tab["rejections"] => Evidence(tab, t) = "NOT_APPROVED"
           /\ t \notin tab["confirmations"] /\ t \notin tab["approvals"]
              /\ t \notin tab["rejections"] => Evidence(tab, t) = "none"
BY DEF Evidence

\* The evidence of a transfer depends on its own rows only.
LEMMA EvidenceSame ==
    ASSUME NEW tab, NEW tab2, NEW t,
           \A k \in EvidenceKinds : t \in tab[k] <=> t \in tab2[k]
    PROVE  Evidence(tab, t) = Evidence(tab2, t)
BY EvidenceIs DEF EvidenceKinds

------------------------------------------------------------------------------
\* The strengthened invariant holds initially.
LEMMA InitIInv == Init => IInv
<1> SUFFICES ASSUME Init PROVE IInv
    OBVIOUS
<1> USE StatusAssumption DEF StatusAssumption, Init, Kinds, EvidenceKinds
<1>1. TypeOK /\ Bookkeeping
    BY DEF TypeOK, Bookkeeping, Status
<1>2. Accounted /\ OnChain
    BY DEF Accounted, OnChain
<1>3. MadeFollows /\ StageFollows /\ StatusFollowsEvidence /\ StillInitialized
    BY DEF MadeFollows, StageFollows, StatusFollowsEvidence, StillInitialized
<1> QED
    BY <1>1, <1>2, <1>3 DEF IInv

\* What the indexers know does not change while they do not move.
LEMMA Unmoved ==
    ASSUME IInv, UNCHANGED <<pc, dbVars, localVars, historyVars>>
    PROVE  MadeFollows' /\ StageFollows' /\ StatusFollowsEvidence'
BY DEF IInv, MadeFollows, StageFollows, StatusFollowsEvidence, dbVars, localVars,
       historyVars

\* Submit: nothing is known yet of a transfer that is submitted for the first time.
LEMMA SubmitStep ==
    ASSUME IInv, NEW t \in Transfers, Submit(t) PROVE IInv'
<1> USE StatusAssumption DEF StatusAssumption, IInv
<1>1. /\ submits[t] < MaxSubmits
      /\ submits' = [submits EXCEPT ![t] = @ + 1]
      /\ chain[t] \in {"none", "NOT_APPROVED"}
      /\ chain' = [chain EXCEPT ![t] = "INITIALIZED"]
      /\ sent' = [sent EXCEPT !["transfers"] = @ \cup {t}]
      /\ queue' = [queue EXCEPT !["transfers"] = @ \cup {t}]
      /\ UNCHANGED <<batch, pc, row, table, todo, cur, op, made, repeats, lost, raced, behind>>
    BY DEF Submit, ChainEvent, dbVars, localVars, historyVars
<1>2. TypeOK'
    BY <1>1 DEF TypeOK, Kinds, Status
<1>3. Bookkeeping'
    BY <1>1 DEF Bookkeeping
<1>4. Accounted'
    BY <1>1 DEF Accounted, TypeOK, Kinds, EvidenceKinds
<1>5. OnChain'
    BY <1>1 DEF OnChain, TypeOK, Kinds, EvidenceKinds
<1>6. MadeFollows' /\ StageFollows' /\ StatusFollowsEvidence'
    BY <1>1, Unmoved DEF dbVars, localVars, historyVars
<1>7. StillInitialized'
    <2>1. submits[t] = 0 =>
            row[t] = "absent" /\ t \notin DOMAIN made /\ t \notin cur
        BY DEF Accounted, OnChain, TypeOK, Kinds
    <2> QED
        BY <1>1, <2>1 DEF StillInitialized, OnChain, TypeOK
<1> QED
    BY <1>2, <1>3, <1>4, <1>5, <1>6, <1>7

\* Approve, Reject and Sign: the operation moves on and the event is published.
LEMMA EventStep ==
    ASSUME IInv, NEW t \in Transfers, Approve(t) \/ Reject(t) \/ Sign(t)
    PROVE  IInv'
<1> USE DEF IInv
<1>1. PICK k \in EvidenceKinds :
        /\ \/ k = "approvals" /\ chain[t] = "INITIALIZED"
           \/ k = "rejections" /\ chain[t] = "INITIALIZED"
           \/ k = "confirmations" /\ chain[t] = "APPROVED"
        /\ chain' = [chain EXCEPT ![t] = StatusOf[k]]
        /\ sent' = [sent EXCEPT ![k] = @ \cup {t}]
        /\ queue' = [queue EXCEPT ![k] = @ \cup {t}]
        /\ UNCHANGED <<submits, batch, pc, row, table, todo, cur, op, made, repeats,
                       lost, raced, behind>>
    BY DEF Approve, Reject, Sign, ChainEvent, dbVars, localVars, historyVars,
           EvidenceKinds, StatusOf
<1>2. TypeOK'
    BY <1>1 DEF TypeOK, Kinds, EvidenceKinds, Status, StatusOf
<1>3. Bookkeeping'
    BY <1>1 DEF Bookkeeping
<1>4. Accounted'
    BY <1>1 DEF Accounted, TypeOK, Kinds, EvidenceKinds
<1>5. OnChain'
    BY <1>1 DEF OnChain, TypeOK, Kinds, EvidenceKinds, StatusOf
<1>6. MadeFollows' /\ StageFollows' /\ StatusFollowsEvidence'
    BY <1>1, Unmoved DEF dbVars, localVars, historyVars
<1>7. StillInitialized'
    BY <1>1 DEF StillInitialized, TypeOK, StatusOf
<1> QED
    BY <1>2, <1>3, <1>4, <1>5, <1>6, <1>7

\* Republish: a message that was published before waits once more.
LEMMA RepublishStep ==
    ASSUME IInv, NEW t \in Transfers, NEW k \in Kinds, Republish(k, t)
    PROVE  IInv'
<1> USE StatusAssumption DEF StatusAssumption, IInv
<1>1. /\ repeats < MaxRepeats
      /\ repeats' = repeats + 1
      /\ t \in sent[k]
      /\ queue' = [queue EXCEPT ![k] = @ \cup {t}]
      /\ UNCHANGED <<chain, submits, sent, batch, pc, row, table, todo, cur, op, made,
                     lost, raced, behind>>
    BY DEF Republish, chainVars, dbVars, localVars, historyVars
<1>2. TypeOK'
    BY <1>1 DEF TypeOK
<1>3. Bookkeeping' /\ OnChain' /\ StillInitialized'
    BY <1>1 DEF Bookkeeping, OnChain, StillInitialized
<1>4. Accounted'
    BY <1>1 DEF Accounted, TypeOK, Kinds, EvidenceKinds
<1>5. MadeFollows' /\ StageFollows' /\ StatusFollowsEvidence'
    BY <1>1, Unmoved DEF dbVars, localVars, historyVars
<1> QED
    BY <1>2, <1>3, <1>4, <1>5

\* Take: messages move from the queue into the batch of an idle handler.
LEMMA TakeStep ==
    ASSUME IInv, NEW k \in Kinds, Take(k) PROVE IInv'
<1> USE DEF IInv
<1>1. PICK b \in SUBSET queue[k] :
        /\ pc[k] = "idle"
        /\ batch' = [batch EXCEPT ![k] = b]
        /\ queue' = [queue EXCEPT ![k] = @ \ b]
        /\ todo' = IF k = "transfers" THEN b ELSE todo
        /\ pc' = [pc EXCEPT ![k] = "work"]
        /\ UNCHANGED <<chain, submits, sent, row, table, cur, op, made, repeats,
                       lost, raced, behind>>
    BY DEF Take, chainVars, dbVars, historyVars
<1>2. TypeOK'
    BY <1>1 DEF TypeOK, Bookkeeping, Kinds, EvidenceKinds
<1>3. Bookkeeping'
    BY <1>1 DEF Bookkeeping, TypeOK, Kinds, EvidenceKinds
<1>4. Accounted'
    BY <1>1 DEF Accounted, Bookkeeping, TypeOK, Kinds, EvidenceKinds
<1>5. OnChain' /\ MadeFollows' /\ StatusFollowsEvidence' /\ StillInitialized'
    BY <1>1 DEF OnChain, MadeFollows, StatusFollowsEvidence, StillInitialized
<1>6. StageFollows'
    BY <1>1 DEF StageFollows, TypeOK, Kinds
<1> QED
    BY <1>2, <1>3, <1>4, <1>5, <1>6

\* Apply: evidence is stored and the rows that exist follow it.
LEMMA ApplyStep ==
    ASSUME IInv, NEW k \in EvidenceKinds, Apply(k) PROVE IInv'
<1> USE DEF IInv
<1>1. /\ pc[k] = "work"
      /\ row' = [t \in Transfers |->
            IF t \in batch[k] /\ row[t] # "absent" THEN StatusOf[k] ELSE row[t]]
      /\ table' = [table EXCEPT ![k] = @ \cup batch[k]]
      /\ raced' = raced \cup (batch[k] \cap LookedUp(k))
      /\ behind' = behind \cup {t \in batch[k] : Evidence(table', t) # StatusOf[k]}
      /\ pc' = [pc EXCEPT ![k] = "ack"]
      /\ UNCHANGED <<chain, submits, sent, queue, batch, todo, cur, op, made, repeats, lost>>
    BY DEF Apply, chainVars, localVars
<1>2. k \in Kinds /\ k # "transfers" /\ StatusOf[k] \in Status
    BY DEF Kinds, EvidenceKinds, StatusOf, Status
<1>3. /\ batch[k] \subseteq Transfers /\ batch[k] \subseteq sent[k]
      /\ pc'["transfers"] = pc["transfers"]
      /\ table[k] \subseteq table'[k]
    BY <1>1, <1>2 DEF TypeOK, Accounted
<1>4. \A t \in Transfers \ batch[k] : Evidence(table', t) = Evidence(table, t)
    BY <1>1, EvidenceSame DEF TypeOK
<1>5. TypeOK'
    BY <1>1, <1>2, <1>3 DEF TypeOK
<1>6. Bookkeeping'
    BY <1>1, <1>2, <1>3 DEF Bookkeeping, TypeOK
<1>7. Accounted'
    BY <1>1, <1>2, <1>3 DEF Accounted, TypeOK, Kinds, EvidenceKinds, Status, StatusOf
<1>8. OnChain'
    BY <1>1 DEF OnChain
<1>9. MadeFollows'
    <2>1. DOMAIN made \subseteq LookedUp(k) /\ DOMAIN made \subseteq Transfers
        BY DEF LookedUp, TypeOK, Kinds
    <2> QED
        BY <1>1, <1>4, <2>1 DEF MadeFollows
<1>10. StageFollows'
    <2>1. k = "confirmations" /\ pc["transfers"] \in {"approvals", "rejections"} =>
            cur \subseteq LookedUp(k)
        BY DEF LookedUp
    <2>2. k = "approvals" /\ pc["transfers"] = "rejections" => cur \subseteq LookedUp(k)
        BY DEF LookedUp
    <2> QED
        BY <1>1, <1>3, <2>1, <2>2 DEF StageFollows, TypeOK, EvidenceKinds
<1>11. StatusFollowsEvidence'
    BY <1>1, <1>4 DEF StatusFollowsEvidence, TypeOK
<1>12. StillInitialized'
    <2>1. \A t \in batch[k] : ~(submits[t] = 1 /\ chain[t] = "INITIALIZED")
        BY <1>3 DEF OnChain, EvidenceKinds
    <2> QED
        BY <1>1, <2>1 DEF StillInitialized
<1> QED
    BY <1>5, <1>6, <1>7, <1>8, <1>9, <1>10, <1>11, <1>12

\* GetOperation: the operation of a transfer that was submitted has a status.
LEMMA GetOperationStep ==
    ASSUME IInv, GetOperation PROVE IInv'
<1> USE DEF IInv
<1>1. PICK t \in todo :
        /\ pc["transfers"] = "work"
        /\ cur' = {t}
        /\ todo' = todo \ {t}
        /\ op' = chain[t]
        /\ pc' = [pc EXCEPT !["transfers"] = "confirmations"]
        /\ UNCHANGED <<chain, submits, sent, queue, batch, row, table, made, repeats,
                       lost, raced, behind>>
    BY DEF GetOperation, chainVars, dbVars, historyVars
<1>2. t \in batch["transfers"] /\ t \in Transfers /\ t \in sent["transfers"]
    BY DEF TypeOK, Accounted, Kinds
<1>3. chain[t] \in Status
    BY <1>2 DEF OnChain, TypeOK
<1>4. TypeOK'
    BY <1>1, <1>2, <1>3 DEF TypeOK, Kinds, EvidenceKinds
<1>5. Bookkeeping'
    BY <1>1, <1>2, <1>3 DEF Bookkeeping, TypeOK, Kinds, EvidenceKinds
<1>6. Accounted'
    BY <1>1 DEF Accounted, TypeOK, Kinds, EvidenceKinds
<1>7. OnChain' /\ MadeFollows' /\ StatusFollowsEvidence'
    BY <1>1 DEF OnChain, MadeFollows, StatusFollowsEvidence
<1>8. StageFollows'
    BY <1>1 DEF StageFollows, TypeOK, Kinds
<1>9. StillInitialized'
    BY <1>1 DEF StillInitialized
<1> QED
    BY <1>4, <1>5, <1>6, <1>7, <1>8, <1>9

\* Make with a status that agrees with the evidence and, for a new operation, is
\* INITIALIZED.
LEMMA MakeStep ==
    ASSUME IInv, NEW s \in Status, Make(s), pc["transfers"] \in EvidenceKinds,
           \A t \in cur \ raced : Evidence(table, t) # "none" => s = Evidence(table, t),
           \A t \in cur : submits[t] = 1 /\ chain[t] = "INITIALIZED" => s = "INITIALIZED",
           UNCHANGED <<chainVars, queue, batch, dbVars, todo, repeats, historyVars>>
    PROVE  IInv'
<1> USE DEF IInv
<1>1. /\ made' = [t \in DOMAIN made \cup cur |-> IF t \in cur THEN s ELSE made[t]]
      /\ cur' = {}
      /\ op' = "none"
      /\ pc' = [pc EXCEPT !["transfers"] = "work"]
      /\ UNCHANGED <<chain, submits, sent, queue, batch, row, table, todo, repeats,
                     lost, raced, behind>>
    BY DEF Make, chainVars, dbVars, historyVars
<1>2. DOMAIN made' = DOMAIN made \cup cur
    BY <1>1
<1>3. TypeOK'
    BY <1>1, <1>2 DEF TypeOK, Kinds
<1>4. Bookkeeping'
    BY <1>1, <1>2 DEF Bookkeeping, TypeOK, Kinds, EvidenceKinds
<1>5. Accounted'
    BY <1>1 DEF Accounted, TypeOK, Kinds, EvidenceKinds
<1>6. OnChain' /\ StatusFollowsEvidence'
    BY <1>1 DEF OnChain, StatusFollowsEvidence
<1>7. MadeFollows' /\ StageFollows'
    BY <1>1, <1>2 DEF MadeFollows, StageFollows
<1>8. StillInitialized'
    BY <1>1, <1>2 DEF StillInitialized
<1> QED
    BY <1>3, <1>4, <1>5, <1>6, <1>7, <1>8

\* The look-ups: each one either makes the status or excludes one kind of evidence.
LEMMA LookStep ==
    ASSUME IInv, LookForConfirmations \/ LookForApprovals \/ LookForRejections
    PROVE  IInv'
<1> USE DEF IInv
<1>1. /\ pc["transfers"] \in EvidenceKinds
      /\ UNCHANGED <<chainVars, queue, batch, dbVars, todo, repeats, historyVars>>
    BY DEF LookForConfirmations, LookForApprovals, LookForRejections, Look, EvidenceKinds
<1>2. PICK t \in Transfers : cur = {t}
    BY <1>1 DEF Bookkeeping
<1>3. op \in Status
    BY <1>1 DEF Bookkeeping
<1>4. submits[t] = 1 /\ chain[t] = "INITIALIZED" =>
        op = "INITIALIZED" /\ \A k \in EvidenceKinds : t \notin table[k]
    BY <1>2 DEF StillInitialized, OnChain, Accounted, EvidenceKinds
<1>5. CASE \E k \in EvidenceKinds :
            /\ pc["transfers"] = k
            /\ cur \subseteq table[k]
            /\ Make(StatusOf[k])
    <2>1. PICK k \in EvidenceKinds :
            pc["transfers"] = k /\ cur \subseteq table[k] /\ Make(StatusOf[k])
        BY <1>5
    <2>2. StatusOf[k] \in Status
        BY DEF EvidenceKinds, StatusOf, Status
    <2>3. t \notin raced => Evidence(table, t) = StatusOf[k]
        BY <1>2, <2>1, EvidenceIs DEF StageFollows, EvidenceKinds, StatusOf
    <2> QED
        BY <1>1, <1>2, <1>4, <2>1, <2>2, <2>3, MakeStep
<1>6. CASE /\ pc["transfers"] = "rejections"
           /\ ~(cur \subseteq table["rejections"])
           /\ Make(op)
    <2>1. t \notin raced => Evidence(table, t) = "none"
        BY <1>2, <1>6, EvidenceIs DEF StageFollows
    <2> QED
        BY <1>1, <1>2, <1>3, <1>4, <1>6, <2>1, MakeStep
<1>7. CASE \E next \in {"approvals", "rejections"} :
            /\ pc' = [pc EXCEPT !["transfers"] = next]
            /\ pc["transfers"] = IF next = "approvals" THEN "confirmations" ELSE "approvals"
            /\ ~(cur \subseteq table[pc["transfers"]])
            /\ UNCHANGED <<cur, op, made>>
    <2>1. PICK next \in {"approvals", "rejections"} :
            /\ pc' = [pc EXCEPT !["transfers"] = next]
            /\ pc["transfers"] = IF next = "approvals" THEN "confirmations" ELSE "approvals"
            /\ t \notin table[pc["transfers"]]
        BY <1>2, <1>7
    <2>2. UNCHANGED <<chain, submits, sent, queue, batch, row, table, todo, cur, op, made,
                      repeats, lost, raced, behind>>
        BY <1>1, <1>7 DEF chainVars, dbVars, historyVars
    <2>3. TypeOK' /\ Bookkeeping'
        BY <2>1, <2>2 DEF TypeOK, Bookkeeping, Kinds, EvidenceKinds
    <2>4. Accounted'
        BY <2>1, <2>2 DEF Accounted, TypeOK, Kinds, EvidenceKinds
    <2>5. OnChain' /\ MadeFollows' /\ StatusFollowsEvidence' /\ StillInitialized'
        BY <2>2 DEF OnChain, MadeFollows, StatusFollowsEvidence, StillInitialized
    <2>6. StageFollows'
        BY <1>2, <2>1, <2>2 DEF StageFollows, TypeOK, Kinds
    <2> QED
        BY <2>3, <2>4, <2>5, <2>6
<1> QED
    BY <1>5, <1>6, <1>7
       DEF LookForConfirmations, LookForApprovals, LookForRejections, Look, EvidenceKinds,
           StatusOf

\* UpsertBatch: the rows get the statuses made.
LEMMA UpsertStep ==
    ASSUME IInv, UpsertBatch PROVE IInv'
<1> USE DEF IInv
<1>1. /\ pc["transfers"] = "work"
      /\ todo = {}
      /\ row' = [t \in Transfers |-> IF t \in DOMAIN made THEN made[t] ELSE row[t]]
      /\ made' = << >>
      /\ pc' = [pc EXCEPT !["transfers"] = "ack"]
      /\ UNCHANGED <<chain, submits, sent, queue, batch, table, todo, cur, op, repeats,
                     lost, raced, behind>>
    BY DEF UpsertBatch, chainVars, historyVars
<1>2. DOMAIN made' = {}
    BY <1>1
<1>3. batch["transfers"] = DOMAIN made /\ batch["transfers"] \subseteq Transfers
    BY <1>1 DEF Bookkeeping, TypeOK, Kinds, EvidenceKinds
<1>4. TypeOK'
    BY <1>1, <1>2 DEF TypeOK, Kinds
<1>5. Bookkeeping'
    BY <1>1, <1>2 DEF Bookkeeping, TypeOK, Kinds, EvidenceKinds
<1>6. Accounted'
    BY <1>1, <1>3 DEF Accounted, TypeOK, Kinds, EvidenceKinds, Status
<1>7. OnChain' /\ MadeFollows' /\ StageFollows'
    BY <1>1, <1>2, <1>3 DEF OnChain, MadeFollows, StageFollows, Bookkeeping, EvidenceKinds
<1>8. StatusFollowsEvidence'
    BY <1>1, <1>3 DEF StatusFollowsEvidence, MadeFollows
<1>9. StillInitialized'
    BY <1>1, <1>2, <1>3 DEF StillInitialized
<1> QED
    BY <1>4, <1>5, <1>6, <1>7, <1>8, <1>9

\* Ack: the batch was handled.
LEMMA AckStep ==
    ASSUME IInv, NEW k \in Kinds, Ack(k) PROVE IInv'
<1> USE DEF IInv
<1>1. /\ pc[k] = "ack"
      /\ pc' = [pc EXCEPT ![k] = "idle"]
      /\ batch' = [batch EXCEPT ![k] = {}]
      /\ UNCHANGED <<chain, submits, sent, queue, row, table, todo, cur, op, made,
                     repeats, lost, raced, behind>>
    BY DEF Ack, chainVars, dbVars, localVars, historyVars
<1>2. k = "transfers" => todo = {} /\ cur = {} /\ DOMAIN made = {}
    BY <1>1 DEF Bookkeeping, EvidenceKinds
<1>3. TypeOK'
    BY <1>1, <1>2 DEF TypeOK, Kinds
<1>4. Bookkeeping'
    BY <1>1, <1>2 DEF Bookkeeping, TypeOK, Kinds, EvidenceKinds
<1>5. Accounted'
    BY <1>1 DEF Accounted, TypeOK, Kinds, EvidenceKinds
<1>6. OnChain' /\ MadeFollows' /\ StatusFollowsEvidence' /\ StillInitialized'
    BY <1>1 DEF OnChain, MadeFollows, StatusFollowsEvidence, StillInitialized
<1>7. StageFollows'
    BY <1>1 DEF StageFollows, TypeOK, Kinds
<1> QED
    BY <1>3, <1>4, <1>5, <1>6, <1>7

\* Redeliver and GiveUp: the batch goes back to the queue or is lost, and so is
\* what the handler had in memory.
LEMMA FailStep ==
    ASSUME IInv, NEW k \in Kinds, Redeliver(k) \/ GiveUp(k) PROVE IInv'
<1> USE StatusAssumption DEF StatusAssumption, IInv
<1>1. /\ repeats < MaxRepeats
      /\ repeats' = repeats + 1
      /\ batch' = [batch EXCEPT ![k] = {}]
      /\ pc' = [pc EXCEPT ![k] = "idle"]
      /\ \/ queue' = [queue EXCEPT ![k] = @ \cup batch[k]] /\ lost' = lost
         \/ queue' = queue /\ lost' = lost \cup batch[k]
      /\ UNCHANGED <<chain, submits, sent, row, table, raced, behind>>
    BY DEF Redeliver, GiveUp, chainVars, dbVars, historyVars
<1>2. IF k = "transfers"
      THEN todo' = {} /\ cur' = {} /\ op' = "none" /\ made' = << >>
      ELSE UNCHANGED <<todo, cur, op, made>>
    BY DEF Redeliver, GiveUp, Forget, localVars
<1>3. k = "transfers" => DOMAIN made' = {}
    BY <1>2
<1>4. TypeOK'
    <2>1. /\ queue' \in [Kinds -> SUBSET Transfers]
          /\ batch' \in [Kinds -> SUBSET Transfers]
          /\ pc' \in [Kinds -> {"idle", "work", "ack"} \cup EvidenceKinds]
          /\ lost' \subseteq Transfers
          /\ repeats' \in 0..MaxRepeats
        BY <1>1 DEF TypeOK
    <2>2. CASE k = "transfers"
        BY <1>1, <1>2, <1>3, <2>1, <2>2 DEF TypeOK
    <2>3. CASE k # "transfers"
        BY <1>1, <1>2, <2>1, <2>3 DEF TypeOK, Kinds
    <2> QED
        BY <2>2, <2>3
<1>5. Bookkeeping'
    BY <1>1, <1>2, <1>3 DEF Bookkeeping, TypeOK, Kinds, EvidenceKinds
<1>6. Accounted'
    BY <1>1 DEF Accounted, TypeOK, Kinds, EvidenceKinds
<1>7. OnChain' /\ StatusFollowsEvidence'
    BY <1>1 DEF OnChain, StatusFollowsEvidence
<1>8. MadeFollows' /\ StageFollows' /\ StillInitialized'
    <2>1. CASE k = "transfers"
        BY <1>1, <1>2, <1>3, <2>1 DEF MadeFollows, StageFollows, StillInitialized
    <2>2. CASE k # "transfers"
        BY <1>1, <1>2, <2>2 DEF MadeFollows, StageFollows, StillInitialized, TypeOK, Kinds
    <2> QED
        BY <2>1, <2>2
<1> QED
    BY <1>4, <1>5, <1>6, <1>7, <1>8

------------------------------------------------------------------------------
\* No step invalidates the strengthened invariant.
LEMMA NextIInv == IInv /\ [Next]_vars => IInv'
<1> SUFFICES ASSUME IInv, [Next]_vars PROVE IInv'
    OBVIOUS
<1>1. CASE \E t \in Transfers : Submit(t)
    BY <1>1, SubmitStep
<1>2. CASE \E t \in Transfers : Approve(t) \/ Reject(t) \/ Sign(t)
    BY <1>2, EventStep
<1>3. CASE \E t \in Transfers, k \in Kinds : Republish(k, t)
    BY <1>3, RepublishStep
<1>4. CASE \E k \in Kinds : Take(k)
    BY <1>4, TakeStep
<1>5. CASE \E k \in Kinds : Ack(k)
    BY <1>5, AckStep
<1>6. CASE \E k \in Kinds : Redeliver(k) \/ GiveUp(k)
    BY <1>6, FailStep
<1>7. CASE \E k \in EvidenceKinds : Apply(k)
    BY <1>7, ApplyStep
<1>8. CASE GetOperation
    BY <1>8, GetOperationStep
<1>9. CASE LookForConfirmations \/ LookForApprovals \/ LookForRejections
    BY <1>9, LookStep
<1>10. CASE UpsertBatch
    BY <1>10, UpsertStep
<1>11. CASE UNCHANGED vars
    <2>1. UNCHANGED <<chain, submits, sent, queue, batch, pc, row, table, todo, cur, op,
                      made, repeats, lost, raced, behind>>
        BY <1>11 DEF vars, chainVars, dbVars, localVars, historyVars
    <2>2. TypeOK' /\ Bookkeeping' /\ Accounted' /\ OnChain' /\ StillInitialized'
        BY <2>1 DEF IInv, TypeOK, Bookkeeping, Accounted, OnChain, StillInitialized
    <2>3. MadeFollows' /\ StageFollows' /\ StatusFollowsEvidence'
        BY <2>1 DEF IInv, MadeFollows, StageFollows, StatusFollowsEvidence
    <2> QED
        BY <2>2, <2>3 DEF IInv
<1> QED
    BY <1>1, <1>2, <1>3, <1>4, <1>5, <1>6, <1>7, <1>8, <1>9, <1>10, <1>11 DEF Next

\* The strengthened invariant holds in every reachable state.
THEOREM Invariance == Spec => []IInv
BY InitIInv, NextIInv, PTL DEF Spec

\* Every variable keeps its type; in particular what the transfers indexer has in
\* memory belongs to the batch it handles, after crashes and failures as well.
THEOREM TypeCorrect == Spec => []TypeOK
<1>1. IInv => TypeOK
    BY DEF IInv
<1> QED
    BY <1>1, Invariance, PTL

\* The status of a row agrees with the strongest evidence stored, except for the
\* two races of the four indexers, however they interleave, fail and repeat.
THEOREM StatusIsEvidence == Spec => []StatusFollowsEvidence
<1>1. IInv => StatusFollowsEvidence
    BY DEF IInv
<1> QED
    BY <1>1, Invariance, PTL

\* When all messages are handled and none was given up, a transfer submitted once
\* has reached the status of its operation, with the same two exceptions.
THEOREM QuietStatusIsChain == Spec => []QuietIsChain
<1>1. IInv => QuietIsChain
    <2> SUFFICES ASSUME IInv, Quiet, NEW t \in Transfers \ (lost \cup raced \cup behind),
                        submits[t] = 1
                 PROVE  row[t] = chain[t]
        BY DEF QuietIsChain
    <2> USE DEF IInv
    <2>1. \A k \in Kinds : queue[k] = {} /\ batch[k] = {}
        BY DEF Quiet, Bookkeeping
    <2>2. \A k \in EvidenceKinds : t \in table[k] <=> t \in sent[k]
        BY <2>1 DEF Accounted, Kinds
    <2>3. row[t] # "absent"
        BY <2>1 DEF OnChain, Accounted, Kinds
    <2>4. /\ t \in table["approvals"] <=> chain[t] \in {"APPROVED", "SIGNED"}
          /\ t \in table["rejections"] <=> chain[t] = "NOT_APPROVED"
          /\ t \in table["confirmations"] <=> chain[t] = "SIGNED"
        BY <2>2 DEF OnChain, EvidenceKinds
    <2>5. chain[t] \in Status
        BY DEF TypeOK, OnChain
    <2>6. CASE chain[t] = "INITIALIZED"
        BY <2>3, <2>6 DEF StillInitialized
    <2>7. CASE chain[t] \in {"APPROVED", "NOT_APPROVED", "SIGNED"}
        <3>1. Evidence(table, t) = chain[t]
            BY <2>4, <2>7, EvidenceIs
        <3> QED
            BY <2>3, <2>7, <3>1 DEF StatusFollowsEvidence
    <2> QED
        BY <2>5, <2>6, <2>7 DEF Status
<1> QED
    BY <1>1, Invariance, PTL
================================================================================
