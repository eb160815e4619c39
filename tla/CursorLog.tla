------------------------------ MODULE CursorLog ------------------------------
(***************************************************************************)
(* What every cursor-driven producer of horizon-svc promises, stated       *)
(* without queues, retries or crashes.  A producer works through the units *)
(* 1..LastUnit (blocks of a chain, pages of a block range) and remembers   *)
(* in a durable cursor the first unit it still has to hand out.  Units may *)
(* be handed out again and in any order, but the cursor only ever moves    *)
(* forward, and only past units that have been handed out: at-least-once.  *)
(***************************************************************************)
EXTENDS Integers

CONSTANT LastUnit       \* the last unit there will ever be

VARIABLES
    done,               \* the units handed out at least once
    cursor              \* the durable cursor

vars == <<done, cursor>>

Init ==
    /\ done = {}
    /\ cursor = 1

\* Hand out some units; the ones handed out before stay handed out.
HandOut ==
    /\ done' \in SUBSET (1..LastUnit)
    /\ done \subseteq done'
    /\ UNCHANGED cursor

\* Move the cursor forward, past units that are all handed out.
Commit ==
    /\ cursor' \in (cursor + 1)..(LastUnit + 1)
    /\ 1..(cursor' - 1) \subseteq done
    /\ UNCHANGED done

Next == HandOut \/ Commit

Spec == Init /\ [][Next]_vars

\* No unit the cursor has passed was never handed out.
AtLeastOnce == 1..(cursor - 1) \subseteq done
==============================================================================
