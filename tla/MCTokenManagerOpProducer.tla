----------------------- MODULE MCTokenManagerOpProducer -----------------------
(* Instances of TokenManagerOpProducer for TLC. *)
EXTENDS TokenManagerOpProducer, TLC

\* A range of several blocks, with transactions in its first two, and a range of one.
R1 == [start |-> 1, end |-> 3]
R2 == [start |-> 4, end |-> 4]
MCRanges == {R1, R2}
MCHeights == R1 :> <<1, 2>> @@ R2 :> <<4>>
===============================================================================
