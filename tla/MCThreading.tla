------------------------------ MODULE MCThreading ------------------------------
(***************************************************************************)
(* Instances of Threading small enough for TLC.                            *)
(***************************************************************************)
EXTENDS Threading, TLC

(* Of a queue's items the first sorts last, the others alike.              *)
RankMC == [n \in 1..MaxPuts |-> IF n = 1 THEN 1 ELSE 0]

Symmetry == Permutations(Threads)
=============================================================================
