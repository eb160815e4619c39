----------------------------- MODULE MCSideBySide -----------------------------
(***************************************************************************)
(* Seven components for TLC that have no state in common: GenesisSaver,    *)
(* BridgeProducer, CachedEvidence and TransferPages, and the endpoints of  *)
(* the API in TxBuilder, ItemRequests and WithdrawalStream.  In a          *)
(* behaviour one of them moves, one of those a run asks for, and the       *)
(* others stay in one initial state.                                       *)
(***************************************************************************)
EXTENDS GenesisSaver, TLC

CONSTANTS Components,      \* those of the seven that may move
          None, PageSize, MaxHeight, MaxWithdrawals, MaxFaults,
          EvidenceTables, UniqueTables, Operations, Callers, MaxRows,
          Times, Limit, Readers, MaxTransfers,
          Configured, MaxChanges, Origins, StreamTimes

ASSUME BridgeAssumption ==
    /\ {PageSize, MaxHeight} \subseteq Nat \ {0}
    /\ {MaxWithdrawals, MaxFaults} \subseteq Nat
    /\ None \notin Nat
ASSUME EvidenceAssumption == UniqueTables \subseteq EvidenceTables /\ MaxRows \in Nat \ {0}
ASSUME PagesAssumption == Times \subseteq Nat /\ Limit \in Nat \ {0} /\ MaxTransfers \in Nat
ASSUME BuilderAssumption ==
    \A c \in Configured : c \subseteq {"evm", "solana", "near", "rarimo", "other"}
ASSUME ItemAssumption == MaxChanges \in Nat
ASSUME StreamAssumption ==
    /\ StreamTimes \subseteq Nat /\ StreamTimes # {}
    /\ \E latest \in StreamTimes : \A t \in StreamTimes : t <= latest

VARIABLES moving,
          kind, skip, chain, height, cursor, initial, start, runAt, plan, published,
          queue, withdrawals, faults, lost, passed, newest, top,
          table, cached, request,
          time, sort, cache, reading, pageCursor, ended, seen, again, begun, known, retimed,
          chains, api, call, answer, nodeFailed,
          network, index, token, itemCall, step, found, type, uri, itemAnswer,
          changes, disturbed, missing,
          indexed, withdrawn, stream, transfer, event, told, connected, streamFaults

Bridge == INSTANCE BridgeProducer WITH pc <- runAt, table <- withdrawals
Evidence == INSTANCE CachedEvidence WITH Kinds <- EvidenceTables,
                                        Unique <- UniqueTables, Requests <- Callers
Pages == INSTANCE TransferPages WITH cursor <- pageCursor
Builder == INSTANCE TxBuilder
Item == INSTANCE ItemRequests WITH call <- itemCall, answer <- itemAnswer
Stream == INSTANCE WithdrawalStream WITH Times <- StreamTimes, faults <- streamFaults

bridgeVars == <<kind, skip, chain, height, cursor, initial, start, runAt, plan,
                published, queue, withdrawals, faults, lost, passed, newest, top>>
evidenceVars == <<table, cached, request>>
pageVars == <<time, sort, cache, reading, pageCursor, ended, seen, again, begun, known,
              retimed>>
builderVars == <<chains, api, call, answer, nodeFailed>>
itemVars == <<network, index, token, itemCall, step, found, type, uri, itemAnswer,
              changes, disturbed, missing>>
streamVars == <<indexed, withdrawn, stream, transfer, event, told, connected, streamFaults>>

\* The chains of configs/api.yaml without and with Rarimo, and another type.
MCConfigured ==
    {{"evm", "solana", "near"}, {"evm", "solana", "near", "rarimo"}, {"evm", "other"}}

InitAll ==
    /\ moving \in Components
    /\ Init /\ (moving # "genesis" => file = [there |-> FALSE, collections |-> {}, items |-> {}])
    /\ Bridge!Init /\ (moving # "bridge" => kind = "solana" /\ ~skip /\ chain = << >>)
    /\ Evidence!Init
    /\ Pages!Init /\ (moving # "pages" => sort.by = "id" /\ sort.descending)
    /\ Builder!Init /\ (moving # "builder" => chains = {"evm", "other"})
    /\ Item!Init
    /\ (moving # "item" =>
            /\ network = "other" /\ index = "none" /\ token = "none"
            /\ itemCall = [kind |-> "balance", tokenId |-> "none", account |-> "parses"])
    /\ Stream!Init

apiVars == <<builderVars, itemVars, streamVars>>
indexVars == <<vars, bridgeVars, evidenceVars, pageVars>>

GenesisMoves ==
    moving = "genesis" /\ UNCHANGED <<moving, bridgeVars, evidenceVars, pageVars, apiVars>>
BridgeMoves ==
    moving = "bridge" /\ UNCHANGED <<moving, vars, evidenceVars, pageVars, apiVars>>
EvidenceMoves ==
    moving = "evidence" /\ UNCHANGED <<moving, vars, bridgeVars, pageVars, apiVars>>
PagesMove ==
    moving = "pages" /\ UNCHANGED <<moving, vars, bridgeVars, evidenceVars, apiVars>>
BuilderMoves ==
    moving = "builder" /\ UNCHANGED <<moving, indexVars, itemVars, streamVars>>
ItemMoves ==
    moving = "item" /\ UNCHANGED <<moving, indexVars, builderVars, streamVars>>
StreamMoves ==
    moving = "stream" /\ UNCHANGED <<moving, indexVars, builderVars, itemVars>>

NextAny ==
    \/ GenesisMoves /\ Next
    \/ BridgeMoves /\ Bridge!Next
    \/ EvidenceMoves /\ Evidence!Next
    \/ PagesMove /\ Pages!Next
    \/ BuilderMoves /\ Builder!Next
    \/ ItemMoves /\ Item!Next
    \/ StreamMoves /\ Stream!Next

allVars == <<moving, indexVars, apiVars>>

SpecAll ==
    /\ InitAll /\ [][NextAny]_allVars
    /\ \A s \in Savers : WF_allVars(GenesisMoves /\ Step(s))
    /\ WF_allVars(BridgeMoves /\ Bridge!RunStep)
    /\ WF_allVars(BridgeMoves /\ Bridge!Index(queue, TRUE))
    /\ WF_allVars(StreamMoves /\ Stream!Serve)

\* Each of the seven components is well typed.
TypesOK ==
    /\ TypeOK /\ Bridge!TypeOK /\ Evidence!TypeOK /\ Pages!TypeOK
    /\ Builder!TypeOK /\ Item!TypeOK /\ Stream!TypeOK

\* The saved cursor leaves no withdrawal behind that was not published.
CursorCovered == Bridge!CursorCovered

\* Every withdrawal of a chain other than Solana has its row at last.
StoredAtLast == Bridge!StoredAtLast

\* A cached list of evidence is not empty and holds rows of its table.
CachedListSound == Evidence!CachedListSound

\* A walk by id, or by time where times follow ids, sees no transfer twice and
\* misses none but those newer than a page it was given.
WalkSeesAllOnce == Pages!WalkSeesAllOnce

\* A documented deposit is built, but for the named ones.
NotBuiltForAReason == Builder!NotBuiltForAReason

\* Nothing but an id that does not decode ends the handler of a deposit.
CrashOnlyOnUndecodedId == Builder!CrashOnlyOnUndecodedId

\* A request about an item is answered unless something went wrong.
ServedUnlessDisturbed == Item!ServedUnlessDisturbed

\* Not found is never said for a failure that may pass.
NotFoundOnlyIfMissing == Item!NotFoundOnlyIfMissing

\* A withdrawal told is lost to a listener only to a newer transfer.
LostOnlyToNewer == Stream!LostOnlyToNewer

\* A listener who stays is told of the withdrawal.
ListenerLearns == Stream!ListenerLearns
=============================================================================
