------------------------------ MODULE MCConsumer ------------------------------
(* The instance of Consumer for TLC. *)
EXTENDS Consumer, TLC
==============================================================================
