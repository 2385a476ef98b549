------------------------------ MODULE OrderedMap ------------------------------
(***************************************************************************)
(* What a dict promises: a mapping whose entries keep the order in which   *)
(* their keys were first set.  Setting a key that is there replaces its    *)
(* value in place; a key that was removed and is set again comes last.     *)
(***************************************************************************)
EXTENDS Naturals, Sequences, SequencesExt

CONSTANTS Keys, Vals

VARIABLE entries      \* the entries, [key, val], in order

Init == entries = <<>>

PlaceOf(k) == SelectInSeq(entries, LAMBDA e : e.key = k)    \* 0: not there

Set(k, v) ==
    LET n == PlaceOf(k) IN
    entries' = IF n = 0 THEN Append(entries, [key |-> k, val |-> v])
               ELSE [entries EXCEPT ![n].val = v]

Delete(k) == PlaceOf(k) # 0 /\ entries' = RemoveAt(entries, PlaceOf(k))

Clear == entries' = <<>>

Next == \/ \E k \in Keys : Delete(k) \/ \E v \in Vals : Set(k, v)
        \/ Clear

Spec == Init /\ [][Next]_entries
=============================================================================
