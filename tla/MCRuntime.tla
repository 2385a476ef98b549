------------------------------- MODULE MCRuntime -------------------------------
(***************************************************************************)
(* Instances of Runtime small enough for TLC.                              *)
(***************************************************************************)
EXTENDS Runtime, TLC

CONSTANTS e1, e2, e3, e4, x, y, z, p, pa, pb, pc, m, none

(* Class 3 inherits from class 2 and class 1, and 2 from 1.                *)
ThreeClasses == << <<>>, <<1>>, <<2, 1>> >>

(* Three elements collide; so do two of the dict's keys.                   *)
FourHashes == e1 :> 1 @@ e2 :> 1 @@ e3 :> 1 @@ e4 :> 2
ThreeHashes == x :> 1 @@ y :> 1 @@ z :> 2

(* A package with a package of one module and a module in it, a module on  *)
(* its own, and one in that that is not there.                             *)
Tree == p :> Root @@ pa :> p @@ pb :> pa @@ pc :> p @@ m :> Root @@ none :> m
Names == p :> <<p>> @@ pa :> <<p, pa>> @@ pb :> <<p, pa, pb>> @@ pc :> <<p, pc>> @@ m :> <<m>>
         @@ none :> <<m, none>>

Interchangeable == Permutations(Lookers)
=============================================================================
