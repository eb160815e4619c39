--------------------------- MODULE BridgeProducer ---------------------------
(***************************************************************************)
(* A bridge events producer, services/bridge_producer, and the withdrawals *)
(* indexer behind its queue.  Horizon has one producer for each chain, of  *)
(* the kind of the chain: producers/rarimo, near, evm (four handlers like  *)
(* the one here, each with its cursor and its kind of event) and solana.   *)
(* What they do with the cursor differs, so that a kind is given by the    *)
(* plan of what it publishes and saves from where it stands.               *)
(*                                                                         *)
(* Withdrawals are numbered in the order of the chain.  The cursor of      *)
(* Solana is a transaction, 0 for none; that of the others is a block.     *)
(***************************************************************************)
EXTENDS Integers, Sequences, FiniteSets

CONSTANTS
    PageSize,           \* signatures in an answer of a Solana node
    MaxHeight,          \* bound: blocks of the chain
    MaxWithdrawals,     \* bound: withdrawals on the chain
    MaxFaults,          \* bound: failed calls and crashes
    None                \* no cursor saved, nothing to save

Kinds == {"rarimo", "near", "evm", "solana"}

VARIABLES
    kind,               \* the kind of the chain
    skip,               \* SkipCatchup of its configuration
    chain,              \* the block of each withdrawal
    height,             \* the latest block
    cursor,             \* the saved cursor
    initial,            \* the cursor a process uses where none is saved
    start,              \* the cursor Run has in hand
    pc,                 \* where Run stands
    plan,               \* what it will publish and then save, step by step
    published,          \* history: withdrawals published
    queue,              \* those in the queue
    table,              \* those with a row in public.withdrawals
    faults,             \* number of failed calls and crashes
    lost,               \* history: withdrawals in a batch that was given up
    passed,             \* history: withdrawals before an initial cursor
    newest,             \* history: the newest withdrawal of Solana's last page
    top                 \* history: the newest one of the pages it has ended

chainVars == <<kind, skip, chain, height>>
runVars == <<start, pc, plan>>
indexVars == <<queue, table, lost>>
vars == <<chainVars, cursor, initial, runVars, published, indexVars, faults, passed, newest, top>>

Withdrawals == 1..Len(chain)
Smaller(a, b) == IF a < b THEN a ELSE b
Larger(a, b) == IF a > b THEN a ELSE b

\* New of each producer: the last of the newest signatures, or the latest block.
InitialCursor(k, s, c, h) ==
    CASE k = "solana" /\ (~s \/ c = << >>) -> 0
      [] k = "solana" /\ s /\ c # << >> -> Larger(1, Len(c) - PageSize + 1)
      [] k # "solana" -> IF s THEN h ELSE 1

Init ==
    /\ kind \in Kinds /\ skip \in BOOLEAN
    /\ height = 1
    /\ chain \in UNION {[1..n -> {1}] : n \in 0..Smaller(2, MaxWithdrawals)}
    /\ cursor = None
    /\ initial = InitialCursor(kind, skip, chain, height)
    /\ start = None /\ pc = "idle" /\ plan = << >>
    /\ published = {}
    /\ queue = {} /\ table = {}
    /\ faults = 0 /\ lost = {}
    /\ passed = {w \in Withdrawals : kind # "solana" /\ chain[w] < initial}
    /\ newest = 0 /\ top = 0

NewBlock ==
    /\ height < MaxHeight
    /\ height' = height + 1
    /\ \E n \in 0..(MaxWithdrawals - Len(chain)) :
          chain' = chain \o [i \in 1..n |-> height + 1]
    /\ UNCHANGED <<kind, skip, cursor, initial, runVars, published, indexVars,
                   faults, passed, newest, top>>

-----------------------------------------------------------------------------
(* What a producer publishes and saves from where it stands *)

Do(publish, save) == [publish |-> publish, save |-> save]

\* producers/rarimo: the withdrawals of a block at once, then the next block.
PlanRarimo(from) ==
    IF from > height THEN << >>
    ELSE << Do({w \in Withdrawals : chain[w] = from}, from + 1) >>

\* Mutant: a block without withdrawals ends the run before its save.
PlanNearStops(from) ==
    LET of == {w \in Withdrawals : chain[w] = from}
        before == Cardinality({w \in Withdrawals : chain[w] < from})
    IN  [i \in 1..Cardinality(of) |->
            Do({before + i}, IF i = Cardinality(of) THEN from + 1 ELSE None)]

\* producers/near: the transactions of a block one by one, then the next block.
PlanNear(from) ==
    IF from > height THEN << >>
    ELSE LET of == {w \in Withdrawals : chain[w] = from}
             before == Cardinality({w \in Withdrawals : chain[w] < from})
         IN  IF of = {} THEN << Do({}, from + 1) >>
             ELSE [i \in 1..Cardinality(of) |->
                      Do({before + i}, IF i = Cardinality(of) THEN from + 1 ELSE None)]

\* Mutant: the cursor moves behind the block of the event.
PlanEvmAfter(from) ==
    LET before == Cardinality({w \in Withdrawals : chain[w] < from})
    IN  [i \in 1..(Len(chain) - before) |-> Do({before + i}, chain[before + i] + 1)]

\* producers/evm: each event from the cursor's block on, then its block.
PlanEvm(from) ==
    LET before == Cardinality({w \in Withdrawals : chain[w] < from})
    IN  [i \in 1..(Len(chain) - before) |-> Do({before + i}, chain[before + i])]

\* producers/solana: the newest transactions before the cursor, or the newest
\* of all, backwards, then the last of them.
PlanSolana(from) ==
    LET last == IF from = 0 THEN Len(chain) ELSE from - 1
        n == Smaller(PageSize, last)
    IN  [i \in 1..n |-> Do({last + 1 - i}, IF i = n THEN last + 1 - i ELSE None)]

Plan(from) ==
    CASE kind = "rarimo" -> PlanRarimo(from)
      [] kind = "near" -> PlanNear(from)
      [] kind = "evm" -> PlanEvm(from)
      [] kind = "solana" -> PlanSolana(from)

-----------------------------------------------------------------------------
(* Run *)

Leave == pc' = "idle" /\ plan' = << >> /\ start' = None
RunRest == UNCHANGED <<chainVars, initial, indexVars, passed>>

GetStartCursor ==
    /\ pc = "idle"
    /\ pc' = "fetch"
    /\ start' = IF cursor = None THEN initial ELSE cursor
    /\ UNCHANGED <<cursor, plan, published, faults, newest, top>> /\ RunRest

\* Nothing to do: Run returns, and is run again after the normal period.
Fetch ==
    /\ pc = "fetch"
    /\ IF Plan(start) = << >> THEN Leave
       ELSE pc' = "publish" /\ plan' = Plan(start) /\ UNCHANGED start
    /\ newest' = IF kind = "solana" /\ Plan(start) # << >>
                 THEN CHOOSE w \in Plan(start)[1].publish : TRUE ELSE newest
    /\ UNCHANGED <<cursor, published, faults, top>> /\ RunRest

\* What follows a step: the next one, or the end of the plan.  Rarimo and NEAR
\* go on from there, Solana from where it began, and EVM returns.
Proceed ==
    IF Len(plan) > 1 THEN pc' = "publish" /\ plan' = Tail(plan) /\ UNCHANGED start
    ELSE IF kind = "evm" THEN Leave
    ELSE /\ pc' = "fetch"
         /\ plan' = << >>
         /\ start' = IF kind = "solana" THEN start ELSE Head(plan).save

Publish ==
    /\ pc = "publish"
    /\ published' = published \cup Head(plan).publish
    /\ queue' = queue \cup Head(plan).publish
    /\ IF Head(plan).save = None THEN Proceed
       ELSE pc' = "save" /\ UNCHANGED <<start, plan>>
    /\ UNCHANGED <<chainVars, cursor, initial, table, lost, faults, passed, newest, top>>

SetStartCursor ==
    /\ pc = "save"
    /\ cursor' = Head(plan).save
    /\ top' = Larger(top, newest)
    /\ Proceed
    /\ UNCHANGED <<published, faults, newest>> /\ RunRest

\* The error is returned, but for the producer of Rarimo, which goes on.
SetStartCursorFails ==
    /\ pc = "save"
    /\ faults < MaxFaults
    /\ faults' = faults + 1
    /\ IF kind = "rarimo" THEN Proceed ELSE Leave
    /\ UNCHANGED <<cursor, published, newest, top>> /\ RunRest

CallFails ==
    /\ pc \in {"fetch", "publish"}
    /\ faults < MaxFaults
    /\ faults' = faults + 1
    /\ Leave
    /\ UNCHANGED <<cursor, published, newest, top>> /\ RunRest

\* The process is started again: New asks for the latest block or signatures.
Restart ==
    /\ faults < MaxFaults
    /\ faults' = faults + 1
    /\ Leave
    /\ initial' = InitialCursor(kind, skip, chain, height)
    /\ passed' = IF cursor # None \/ kind = "solana" THEN passed
                 ELSE passed \cup {w \in Withdrawals : chain[w] < initial'}
    /\ UNCHANGED <<chainVars, cursor, published, indexVars, newest, top>>

-----------------------------------------------------------------------------
(* The withdrawals indexer *)

Index(batch, ok) ==
    /\ batch # {} /\ batch \subseteq queue
    /\ queue' = queue \ batch
    /\ IF ok THEN table' = table \cup batch /\ UNCHANGED <<lost, faults>>
       ELSE /\ faults < MaxFaults /\ faults' = faults + 1
            /\ lost' = lost \cup batch /\ UNCHANGED table
    /\ UNCHANGED <<chainVars, cursor, initial, runVars, published, passed, newest, top>>

\* InsertBatchCtx: rows that are there are left as they are.
Handle == \E batch \in SUBSET queue : Index(batch, TRUE)

\* All attempts at a batch failed.
GiveUp == \E batch \in SUBSET queue : Index(batch, FALSE)

RunStep == GetStartCursor \/ Fetch \/ Publish \/ SetStartCursor

Next ==
    \/ NewBlock
    \/ GetStartCursor \/ Fetch \/ Publish \/ SetStartCursor
    \/ SetStartCursorFails \/ CallFails \/ Restart
    \/ Handle \/ GiveUp

\* Consume takes the messages in the order of the queue, and so all of them.
Fairness == WF_vars(RunStep) /\ WF_vars(Index(queue, TRUE))

Spec == Init /\ [][Next]_vars /\ Fairness
-----------------------------------------------------------------------------
(* Properties *)

TypeOK ==
    /\ kind \in Kinds /\ skip \in BOOLEAN
    /\ height \in 1..MaxHeight
    /\ chain \in Seq(1..height) /\ Len(chain) <= MaxWithdrawals
    /\ \A v, w \in Withdrawals : v < w => chain[v] <= chain[w]
    /\ LET Cursors == IF kind = "solana" THEN 0..Len(chain) ELSE 1..(height + 1)
       IN  /\ initial \in Cursors
           /\ {cursor, start} \subseteq Cursors \cup {None}
           /\ plan \in Seq([publish : SUBSET Withdrawals, save : Cursors \cup {None}])
    /\ pc \in {"idle", "fetch", "publish", "save"}
    /\ pc = "idle" <=> start = None
    /\ pc \in {"publish", "save"} <=> plan # << >>
    /\ queue \subseteq published /\ table \subseteq published
    /\ published \subseteq Withdrawals
    /\ faults \in 0..MaxFaults
    /\ lost \subseteq Withdrawals /\ passed \subseteq Withdrawals
    /\ {newest, top} \subseteq Withdrawals \cup {0}

\* Every withdrawal the saved cursor has left behind was published, whatever
\* failed, unless SkipCatchup passed over it.  Solana's cursor leaves behind
\* what lies between it and the newest transaction of the pages it has ended.
CursorCovered ==
    cursor # None => \A w \in Withdrawals :
        IF kind = "solana" THEN cursor <= w /\ w <= top => w \in published
        ELSE chain[w] < cursor => w \in published \cup passed

\* Every withdrawal has its row at last, unless it lies before an initial cursor
\* or its batch was given up; Solana's may not.
StoredAtLast ==
    kind # "solana" => \A w \in 1..MaxWithdrawals :
        w <= Len(chain) ~> w \in table \cup passed \cup lost

\* A withdrawal on Solana, where nothing is to be skipped and no batch is given
\* up, has its row at last.
SolanaStoredAtLast ==
    (kind = "solana" /\ ~skip) => \A w \in 1..MaxWithdrawals :
        w <= Len(chain) ~> w \in table \cup lost
=============================================================================
