--------------------------- MODULE MCTransferStatus ---------------------------
(* Instances of TransferStatus for TLC. *)
EXTENDS TransferStatus, TLC

Symmetry == Permutations(Transfers)

\* Two transfers, each submitted once, with one repeat; or one transfer that is
\* submitted twice, with two repeats.
Bounds ==
    \/ repeats <= 1 /\ \A t \in Transfers : submits[t] <= 1
    \/ Cardinality({t \in Transfers : submits[t] > 0}) <= 1
==============================================================================
