------------------------- MODULE MCBlockRangeProducer -------------------------
(* Instances of BlockRangeProducer for TLC. *)
EXTENDS BlockRangeProducer

\* One special-case range, above the first multi-block range's hole.
MCSpecialCaseBlocks == {[start |-> 2, end |-> 3]}

NoSpecialCaseBlocks == {}
==============================================================================
