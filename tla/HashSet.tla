-------------------------------- MODULE HashSet --------------------------------
(***************************************************************************)
(* The set (object/set.go:1-101): a slice of elements and a map from each  *)
(* hash to where elements with that hash are.  Discard fills the hole with *)
(* the last element, whose place in its own bucket must follow it.         *)
(*                                                                         *)
(* Every method holds Set.mu, so it is one action.  Elements stand for     *)
(* classes of objects that compare equal; their hashes never change.       *)
(***************************************************************************)
EXTENDS Naturals, Sequences, SequencesExt

CONSTANTS Elements, HashOf

Buckets == {HashOf[e] : e \in Elements}

ASSUME HashOfAssumption == DOMAIN HashOf = Elements

VARIABLES
    items,    \* s.items
    places    \* s.index

setVars == <<items, places>>

Init == items = <<>> /\ places = [h \in Buckets |-> <<>>]

(* The n-th place in the bucket of e's hash leads to e.                    *)
LeadsTo(n, e) ==
    n \in DOMAIN places[HashOf[e]] /\ items[places[HashOf[e]][n]] = e

IsMember(e) == \E n \in DOMAIN places[HashOf[e]] : LeadsTo(n, e)

(* The first such n.                                                       *)
InBucket(e) == CHOOSE n \in DOMAIN places[HashOf[e]] :
    LeadsTo(n, e) /\ \A m \in 1..n - 1 : ~LeadsTo(m, e)

Add(e) ==
    /\ ~IsMember(e)         \* otherwise nothing changes
    /\ places' = [places EXCEPT ![HashOf[e]] = Append(@, Len(items) + 1)]
    /\ items' = Append(items, e)

\* Mutant of Follow: the bucket keeps the old place.
FollowNot(p, h, from, to) == p

(* The bucket of hash h after its element at `from' moved to `to'.         *)
Follow(p, h, from, to) == [p EXCEPT ![h] =
    [n \in DOMAIN @ |-> IF @[n] = from THEN to ELSE @[n]]]

Discard(e) ==
    /\ IsMember(e)
    /\ LET hole == places[HashOf[e]][InBucket(e)]
           last == Len(items)
           moved == items[last]
           rest == [places EXCEPT ![HashOf[e]] = RemoveAt(@, InBucket(e))]
       IN  /\ items' = Front([items EXCEPT ![hole] = moved])
           /\ places' = IF hole = last THEN rest ELSE Follow(rest, HashOf[moved], last, hole)

Next == \E e \in Elements : Add(e) \/ Discard(e)

Spec == Init /\ [][Next]_setVars

-----------------------------------------------------------------------------

(* The values of the variables.                                            *)
TypeOK == items \in Seq(Elements) /\ places \in [Buckets -> Seq(Nat \ {0})]

(* The map and the slice agree: each element is there once and its bucket, *)
(* and only that one, leads to it, once.  Otherwise add() would take an    *)
(* element twice, or discard() remove another one.                         *)
PlacesAreExact ==
    /\ \A m, n \in DOMAIN items : items[m] = items[n] => m = n
    /\ \A h \in Buckets :
          /\ \A m, n \in DOMAIN places[h] : places[h][m] = places[h][n] => m = n
          /\ \A n \in DOMAIN items :
                HashOf[items[n]] = h <=> \E j \in DOMAIN places[h] : places[h][j] = n
          /\ \A j \in DOMAIN places[h] : places[h][j] \in DOMAIN items
=============================================================================
