------------------------------ MODULE MCExecutor ------------------------------
(***************************************************************************)
(* Instances of Executor small enough for TLC.                             *)
(***************************************************************************)
EXTENDS Executor, TLC

Symmetry == Permutations(Workers) \cup Permutations(Clients)
            \cup Permutations(Futures) \cup Permutations(Callbacks)

(* AtRest is just what it says: no step of a worker or of a call is        *)
(* enabled.  No run lists it; put among the INVARIANTS of MCExecutor.cfg   *)
(* it holds in every state.                                                *)
Quiet == ~crashed /\ ~ENABLED ((\E w \in Workers : Work(w)) \/ (\E t \in Clients : GoOn(t)))
RestIsQuiet == AtRest <=> Quiet
=============================================================================
