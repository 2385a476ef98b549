------------------------------ MODULE MCSyncQueue ------------------------------
(***************************************************************************)
(* Instances of SyncQueue small enough for TLC.                            *)
(***************************************************************************)
EXTENDS SyncQueue, TLC

(* Item 1 sorts last, the others alike: priorities that differ and tie.    *)
RankMC == [n \in 1..MaxPuts |-> IF n = 1 THEN 1 ELSE 0]

Symmetry == Permutations(Threads)
=============================================================================
