----------------------------- MODULE MCClassLookup -----------------------------
(***************************************************************************)
(* Instances of ClassLookup small enough for TLC.                          *)
(***************************************************************************)
EXTENDS ClassLookup

(* Class 2 inherits from class 1.                                          *)
TwoClasses == << <<>>, <<1>> >>
=============================================================================
