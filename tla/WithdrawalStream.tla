--------------------------- MODULE WithdrawalStream ---------------------------
(***************************************************************************)
(* GET /v1/transfers/{hash}/withdrawal/sse: every five seconds the newest  *)
(* transfer made by a transaction is looked up, then the withdrawal of its *)
(* origin, and what was found is written to the client as an event.  The   *)
(* indexers add transfers and withdrawals all the while, in any order.     *)
(*                                                                         *)
(* One transaction, whose transfers have different origins.                *)
(***************************************************************************)
EXTENDS Naturals

CONSTANTS
    Origins,            \* transfers the transaction makes
    Times,              \* times of the core transactions they were seen in
    MaxFaults           \* bound: failures of the storage

VARIABLES
    indexed,            \* times of the transfers in the storage, by origin
    withdrawn,          \* origins of the withdrawals in the storage
    stream,             \* "select", "withdrawal", "write", "asleep" or "closed"
    transfer,           \* the set of the transfer selected, or none
    event,              \* the event made
    told,               \* the event written last
    connected,          \* the client listens
    faults              \* history: failures of the storage

vars == <<indexed, withdrawn, stream, transfer, event, told, connected, faults>>

\* ToErrorResponse: an event with no withdrawal.
Error(error) == [withdrawal |-> {}, error |-> error]
NoEvent == Error("none")

Init ==
    /\ indexed = [o \in {} |-> 0] /\ withdrawn = {}
    /\ stream = "select" /\ transfer = {}
    /\ event = NoEvent /\ told = NoEvent
    /\ connected = TRUE /\ faults = 0

-----------------------------------------------------------------------------
(* The storage, as the indexers leave it *)

IndexTransfer(o) ==
    /\ o \notin DOMAIN indexed
    /\ \E t \in Times :
          indexed' = [p \in DOMAIN indexed \cup {o} |-> IF p = o THEN t ELSE indexed[p]]
    /\ UNCHANGED <<withdrawn, stream, transfer, event, told, connected, faults>>

\* The withdrawal may be seen before its deposit.
IndexWithdrawal(o) ==
    /\ o \notin withdrawn
    /\ withdrawn' = withdrawn \cup {o}
    /\ UNCHANGED <<indexed, stream, transfer, event, told, connected, faults>>

-----------------------------------------------------------------------------
(* The stream *)

\* Mutant: the order is the one of the rows.
Any == DOMAIN indexed

\* Sorted by "-time", which leaves the order of equal times to the storage.
Newest == {o \in DOMAIN indexed : \A p \in DOMAIN indexed : indexed[p] <= indexed[o]}

\* A failure to select transfers is a panic, which ends the stream.
SelectTransfer ==
    /\ stream = "select"
    /\ \/ /\ Newest = {}
          /\ event' = Error("notFound") /\ stream' = "write"
          /\ UNCHANGED <<transfer, faults>>
       \/ \E o \in Newest :
             /\ transfer' = {o} /\ stream' = "withdrawal"
             /\ UNCHANGED <<event, faults>>
       \/ /\ faults < MaxFaults
          /\ faults' = faults + 1 /\ stream' = "closed"
          /\ UNCHANGED <<transfer, event>>
    /\ UNCHANGED <<indexed, withdrawn, told, connected>>

\* A failure to select the withdrawal is an event of the stream.
SelectWithdrawal ==
    /\ stream = "withdrawal" /\ stream' = "write"
    /\ \/ /\ event' = IF transfer \subseteq withdrawn
                      THEN [withdrawal |-> transfer, error |-> "none"]
                      ELSE Error("notFound")
          /\ UNCHANGED faults
       \/ /\ faults < MaxFaults
          /\ faults' = faults + 1 /\ event' = Error("internal")
    /\ UNCHANGED <<indexed, withdrawn, transfer, told, connected>>

\* The context of the request is looked at after the event is flushed.
WriteEvent ==
    /\ stream = "write"
    /\ told' = IF connected THEN event ELSE told
    /\ stream' = IF connected THEN "asleep" ELSE "closed"
    /\ event' = NoEvent /\ transfer' = {}
    /\ UNCHANGED <<indexed, withdrawn, connected, faults>>

\* Mutant: the response is made once, before the loop.
WakeToWrite ==
    /\ stream = "asleep" /\ stream' = "write" /\ event' = told
    /\ UNCHANGED <<indexed, withdrawn, transfer, told, connected, faults>>

Wake ==
    /\ stream = "asleep" /\ stream' = "select"
    /\ UNCHANGED <<indexed, withdrawn, transfer, event, told, connected, faults>>

\* The client goes away, or asks again for a stream that was closed.
Disconnect ==
    /\ connected /\ connected' = FALSE
    /\ UNCHANGED <<indexed, withdrawn, stream, transfer, event, told, faults>>

Reconnect ==
    /\ stream = "closed"
    /\ stream' = "select" /\ connected' = TRUE
    /\ transfer' = {} /\ event' = NoEvent /\ told' = NoEvent
    /\ UNCHANGED <<indexed, withdrawn, faults>>

Serve == SelectTransfer \/ SelectWithdrawal \/ WriteEvent \/ Wake

Next ==
    \/ Serve \/ Disconnect \/ Reconnect
    \/ \E o \in Origins : IndexTransfer(o) \/ IndexWithdrawal(o)

\* The handler runs on as long as the process does; nobody has to connect.
Spec == Init /\ [][Next]_vars /\ WF_vars(Serve)

-----------------------------------------------------------------------------
Events == [withdrawal : SUBSET Origins, error : {"none", "notFound", "internal"}]

TypeOK ==
    /\ DOMAIN indexed \subseteq Origins /\ \A o \in DOMAIN indexed : indexed[o] \in Times
    /\ withdrawn \subseteq Origins
    /\ stream \in {"select", "withdrawal", "write", "asleep", "closed"}
    /\ transfer \subseteq Origins
    /\ event \in Events /\ told \in Events
    /\ connected \in BOOLEAN /\ faults \in 0..MaxFaults

\* A listener who was told of a withdrawal is told of none later only because
\* another transfer of the transaction was indexed that is at least as new.
LostOnlyToNewer ==
    [][told.withdrawal # {} /\ told'.error = "notFound" =>
          \A o \in told.withdrawal :
              \E p \in DOMAIN indexed \ {o} : indexed[p] >= indexed[o]]_vars

\* A listener who stays is told of the withdrawal at last, once every transfer
\* that the transaction made, and its withdrawal, are indexed.
ListenerLearns ==
    (DOMAIN indexed # {} /\ DOMAIN indexed \subseteq withdrawn)
        ~> \/ told.withdrawal # {} \/ ~connected \/ stream = "closed"
           \/ ~(DOMAIN indexed \subseteq withdrawn)
=============================================================================
