-------------------------- MODULE MCBridgeProducer --------------------------
(* Instances of BridgeProducer for TLC. *)
EXTENDS BridgeProducer, TLC
=============================================================================
