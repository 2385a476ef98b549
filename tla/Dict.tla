---------------------------------- MODULE Dict ----------------------------------
(***************************************************************************)
(* The dict (object/dict.go:164-330): two slices of keys and values in     *)
(* order of insertion, found through one map for str keys and one of hash  *)
(* buckets for all others.  A deletion leaves a tombstone; when too many   *)
(* have gathered, compact rebuilds everything.                             *)
(*                                                                         *)
(* Every method holds Dict.mu, so it is one action.  Keys stand for classes*)
(* of keys that compare equal, and their hashes never change or fail;      *)
(* instances of a str subclass, which equal a str and are yet found through*)
(* the buckets, are left out.                                              *)
(***************************************************************************)
EXTENDS Naturals, Sequences, SequencesExt, FiniteSets

CONSTANTS
    Strs, Others,   \* keys that are a str, and all others
    Hash,           \* Hash[k], for the others
    Vals,
    Deleted,        \* deletedKey, the tombstone
    Slack,          \* how many tombstones are always let be: 8 in the code
    MaxSlots        \* bound: how long the slices get

Keys == Strs \cup Others
Hashes == {Hash[k] : k \in Others}

(* What the module takes for granted of its constants; Runtime assumes it. *)
DictConstants ==
    /\ Strs \cap Others = {} /\ Deleted \notin Keys \cup Vals
    /\ DOMAIN Hash = Others /\ Slack \in Nat /\ MaxSlots \in Nat

VARIABLES
    keys, vals,   \* d.keys and d.vals, with tombstones
    index,        \* d.index: where each str key is, 0 if nowhere
    oHash,        \* d.oHash: for each hash, where keys with it are
    dead          \* d.dead: how many tombstones there are

vars == <<keys, vals, index, oHash, dead>>

NoIndex == [s \in Strs |-> 0]
NoHash == [h \in Hashes |-> <<>>]

Init ==
    /\ keys = <<>> /\ vals = <<>>
    /\ index = NoIndex /\ oHash = NoHash
    /\ dead = 0

-----------------------------------------------------------------------------

(* Where the bucket of k has it; 0 if nowhere.                             *)
InBucket(k) == SelectInSeq(oHash[Hash[k]], LAMBDA j : keys[j] = k)

(* Where the maps say that k is; 0 if nowhere.  Get and GetStr answer from *)
(* here, and so do Set, SetStr and Delete.                                 *)
Slot(k) ==
    IF k \in Strs THEN index[k]
    ELSE IF InBucket(k) = 0 THEN 0 ELSE oHash[Hash[k]][InBucket(k)]

(* A place for a key that was nowhere: at the end.                         *)
AddSlot(k, v) ==
    /\ Len(keys) < MaxSlots
    /\ keys' = Append(keys, k)
    /\ vals' = Append(vals, v)
    /\ IF k \in Strs
       THEN index' = [index EXCEPT ![k] = Len(keys) + 1] /\ UNCHANGED oHash
       ELSE /\ oHash' = [oHash EXCEPT ![Hash[k]] = Append(@, Len(keys) + 1)]
            /\ UNCHANGED index
    /\ UNCHANGED dead

(* Set; SetStr is the same for a str.                                      *)
Set(k, v) ==
    \/ Slot(k) = 0 /\ AddSlot(k, v)
    \/ /\ Slot(k) # 0
       /\ vals' = [vals EXCEPT ![Slot(k)] = v]
       /\ UNCHANGED <<keys, index, oHash, dead>>

(* The slots in S, first things first, as a loop over the slices meets     *)
(* them: each is preceded by those below it.                               *)
InOrder(S) ==
    LET UpTo(n) == {m \in S : m <= n}
    IN  [j \in 1..Cardinality(S) |-> CHOOSE n \in S : Cardinality(UpTo(n)) = j]

LiveSlots(ks) == InOrder({n \in DOMAIN ks : ks[n] # Deleted})

(* compact: the live entries move together and both maps are rebuilt.  Its *)
(* arguments are the slices that Delete has just put a tombstone in.       *)
Compact(ks, vs) ==
    LET live == LiveSlots(ks)
        Where(k) == SelectInSeq(live, LAMBDA n : ks[n] = k)
    IN  /\ keys' = [n \in DOMAIN live |-> ks[live[n]]]
        /\ vals' = [n \in DOMAIN live |-> vs[live[n]]]
        /\ index' = [s \in Strs |-> Where(s)]
        /\ oHash' = [h \in Hashes |->
                        InOrder({n \in DOMAIN live : /\ ks[live[n]] \in Others
                                                     /\ Hash[ks[live[n]]] = h})]
        /\ dead' = 0

\* Mutant of Forget: the position in the bucket is taken for the slot.
ForgetWrongPlace(k) ==
    IF k \in Strs
    THEN index' = [index EXCEPT ![k] = 0] /\ UNCHANGED oHash
    ELSE /\ oHash' = [oHash EXCEPT ![Hash[k]] = Tail(@)]
         /\ UNCHANGED index

(* The key leaves its map.                                                 *)
Forget(k) ==
    IF k \in Strs
    THEN index' = [index EXCEPT ![k] = 0] /\ UNCHANGED oHash
    ELSE /\ oHash' = [oHash EXCEPT ![Hash[k]] = RemoveAt(@, InBucket(k))]
         /\ UNCHANGED index

Delete(k) ==
    /\ Slot(k) # 0      \* otherwise it reports that there is no such key
    /\ LET ks == [keys EXCEPT ![Slot(k)] = Deleted]
           vs == [vals EXCEPT ![Slot(k)] = Deleted]
           many == dead + 1 > Slack /\ (dead + 1) * 2 > Len(keys)
       IN  \/ many /\ Compact(ks, vs)
           \/ /\ ~many
              /\ keys' = ks /\ vals' = vs /\ dead' = dead + 1
              /\ Forget(k)

Clear ==
    /\ keys' = <<>> /\ vals' = <<>>
    /\ index' = NoIndex /\ oHash' = NoHash
    /\ dead' = 0

Next == \/ \E k \in Keys : Delete(k) \/ \E v \in Vals : Set(k, v)
        \/ Clear

Spec == Init /\ [][Next]_vars

-----------------------------------------------------------------------------

(* The slices and the two maps together are an ordered mapping: no key     *)
(* twice, none lost or moved by tombstones, collisions and compaction, and *)
(* len() is the number of entries.                                         *)
Live == LiveSlots(keys)
Map == INSTANCE OrderedMap WITH
    entries <- [n \in DOMAIN Live |-> [key |-> keys[Live[n]], val |-> vals[Live[n]]]]
ImplementsMap == Map!Spec /\ [](Len(keys) - dead = Len(Live))
=============================================================================
