---------------------------- MODULE ContainerProofs ----------------------------
(***************************************************************************)
(* Proofs about the dict and the set, for every set of keys and every hash *)
(* function: the dict implements an ordered mapping, whatever deletions    *)
(* leave behind and compact moves, and the slice and the map of a set lead *)
(* to each other exactly.                                                  *)
(***************************************************************************)
EXTENDS Runtime, SequenceLemmas, FiniteSetTheorems

-----------------------------------------------------------------------------
(* Numbers in order *)

(* t is the numbers of S, each once, the smaller first.                    *)
Enumerates(t, S) ==
    /\ t \in Seq(Nat)
    /\ \A i, j \in 1..Len(t) : i < j => t[i] < t[j]
    /\ \A n : n \in S <=> \E i \in 1..Len(t) : t[i] = n

LEMMA Once ==
    ASSUME NEW S, NEW t, Enumerates(t, S)
    PROVE  /\ Len(t) \in Nat /\ DOMAIN t = 1..Len(t) /\ \A i \in 1..Len(t) : t[i] \in Nat
           /\ \A i, j \in 1..Len(t) : (i < j <=> t[i] < t[j]) /\ (i = j <=> t[i] = t[j])
<1>1. /\ Len(t) \in Nat /\ DOMAIN t = 1..Len(t) /\ \A i \in 1..Len(t) : t[i] \in Nat
  BY LenProperties, ElementOfSeq DEF Enumerates
<1>2. ASSUME NEW i \in 1..Len(t), NEW j \in 1..Len(t)
      PROVE  (i < j <=> t[i] < t[j]) /\ (i = j <=> t[i] = t[j])
  <2>1. /\ i < j => t[i] < t[j]
        /\ j < i => t[j] < t[i]
    BY DEF Enumerates
  <2>2. i \in Nat /\ j \in Nat /\ t[i] \in Nat /\ t[j] \in Nat
    BY <1>1
  <2>. QED  BY <2>1, <2>2
<1>. QED  BY <1>1, <1>2

LEMMA OneMore ==
    ASSUME NEW S, NEW t, NEW n \in Nat, Enumerates(t, S), \A m \in S : m < n
    PROVE  Enumerates(Append(t, n), S \cup {n})
<1>. DEFINE u == Append(t, n)
<1>0. PICK len \in Nat : len = Len(t)
  BY Once
<1>1. t \in Seq(Nat) /\ \A i \in 1..len : t[i] \in Nat /\ t[i] \in S
  BY <1>0, Once DEF Enumerates
<1>2. /\ u \in Seq(Nat) /\ Len(u) = len + 1 /\ u[len + 1] = n
      /\ \A i \in 1..len : u[i] = t[i]
  BY <1>0, <1>1, AppendProperties
<1>. HIDE DEF u
<1>3. ASSUME NEW i \in 1..len + 1, NEW j \in 1..len + 1, i < j  PROVE u[i] < u[j]
  <2>1. i \in 1..len
    BY <1>0, <1>3
  <2>2. CASE j = len + 1
    BY <1>1, <1>2, <2>1, <2>2
  <2>3. CASE j # len + 1
    <3>1. j \in 1..len
      BY <1>0, <2>3
    <3>. QED  BY <1>0, <1>2, <1>3, <2>1, <3>1 DEF Enumerates
  <2>. QED  BY <2>2, <2>3
<1>4. ASSUME NEW m  PROVE m \in S \cup {n} <=> \E i \in 1..len + 1 : u[i] = m
  <2>1. ASSUME m \in S  PROVE \E i \in 1..len + 1 : u[i] = m
    <3>1. PICK i \in 1..len : t[i] = m
      BY <1>0, <2>1 DEF Enumerates
    <3>2. i \in 1..len + 1
      BY <1>0
    <3>. QED  BY <1>2, <3>1, <3>2
  <2>2. len + 1 \in 1..len + 1
    BY <1>0
  <2>3. ASSUME NEW i \in 1..len + 1, u[i] = m  PROVE m \in S \cup {n}
    <3>1. CASE i = len + 1
      BY <1>2, <2>3, <3>1
    <3>2. CASE i # len + 1
      <4>1. i \in 1..len
        BY <1>0, <3>2
      <4>. QED  BY <1>1, <1>2, <2>3, <4>1
    <3>. QED  BY <3>1, <3>2
  <2>. QED  BY <1>2, <2>1, <2>2, <2>3
<1>5. Enumerates(u, S \cup {n})
  BY <1>2, <1>3, <1>4 DEF Enumerates
<1>. QED  BY <1>5 DEF u

LEMMA NoneInOrder == Enumerates(<<>>, {})
BY EmptySeq DEF Enumerates

LEMMA OneLess ==
    ASSUME NEW S, NEW t, Enumerates(t, S), NEW n \in 1..Len(t)
    PROVE  Enumerates(RemoveAt(t, n), S \ {t[n]})
<1>. DEFINE u == RemoveAt(t, n)
<1>0. PICK len \in Nat : len = Len(t)
  BY Once
<1>1. /\ u \in Seq(Nat) /\ Len(u) = len - 1
      /\ \A i \in 1..len - 1 : u[i] = IF i < n THEN t[i] ELSE t[i + 1]
  <2>1. t \in Seq(Nat)
    BY DEF Enumerates
  <2>2. /\ u \in Seq(Nat) /\ Len(u) = Len(t) - 1
        /\ \A i \in 1..Len(t) - 1 : u[i] = IF i < n THEN t[i] ELSE t[i + 1]
    BY <2>1, TakenAway
  <2>. QED  BY <1>0, <2>2
<1>. HIDE DEF u
<1>2. /\ n \in 1..len
      /\ \A i, j \in 1..len : (i < j <=> t[i] < t[j]) /\ (i = j <=> t[i] = t[j])
  BY <1>0, Once
<1>3. ASSUME NEW i \in 1..len - 1, NEW j \in 1..len - 1, i < j  PROVE u[i] < u[j]
  <2>. DEFINE a == IF i < n THEN i ELSE i + 1
              b == IF j < n THEN j ELSE j + 1
  <2>1. a \in 1..len /\ b \in 1..len /\ a < b
    BY <1>0, <1>2, <1>3
  <2>2. u[i] = t[a] /\ u[j] = t[b]
    BY <1>1
  <2>. HIDE DEF a, b
  <2>. QED  BY <1>2, <2>1, <2>2
<1>4. ASSUME NEW m  PROVE m \in S \ {t[n]} <=> \E i \in 1..len - 1 : u[i] = m
  <2>1. ASSUME m \in S, m # t[n]  PROVE \E i \in 1..len - 1 : u[i] = m
    <3>1. PICK a \in 1..len : t[a] = m
      BY <1>0, <2>1 DEF Enumerates
    <3>. DEFINE i == IF a < n THEN a ELSE a - 1
    <3>2. a # n
      BY <2>1, <3>1
    <3>3. i \in 1..len - 1 /\ (IF i < n THEN i ELSE i + 1) = a
      BY <1>0, <1>2, <3>2
    <3>4. u[i] = m
      BY <1>1, <3>1, <3>3
    <3>. HIDE DEF i
    <3>. QED  BY <3>3, <3>4
  <2>2. ASSUME NEW i \in 1..len - 1, u[i] = m  PROVE m \in S /\ m # t[n]
    <3>. DEFINE a == IF i < n THEN i ELSE i + 1
    <3>1. a \in 1..len /\ a # n
      BY <1>0, <1>2
    <3>2. t[a] = m
      BY <1>1, <2>2
    <3>. HIDE DEF a
    <3>. QED  BY <1>0, <1>2, <3>1, <3>2 DEF Enumerates
  <2>. QED  BY <2>1, <2>2
<1>5. Enumerates(u, S \ {t[n]})
  BY <1>1, <1>3, <1>4 DEF Enumerates
<1>. QED  BY <1>5 DEF u

(* Any set of numbers up to n can be put in order.                         *)
LEMMA Orderable ==
    ASSUME NEW n \in Nat, NEW S \in SUBSET (1..n)  PROVE \E t : Enumerates(t, S)
<1>. DEFINE CanOrder(m) == \A T \in SUBSET (1..m) : \E t : Enumerates(t, T)
            Bad == {m \in Nat : ~CanOrder(m)}
<1>1. ASSUME Bad # {}  PROVE FALSE
  <2>1. PICK c \in Bad : \A b \in Bad : ~(b < c)
    BY <1>1, LeastOne
  <2>2. PICK T \in SUBSET (1..c) : ~\E t : Enumerates(t, T)
    BY <2>1
  <2>3. CASE c = 0
    <3>1. T = {}
      BY <2>2, <2>3
    <3>. QED  BY <2>2, <3>1, NoneInOrder
  <2>4. CASE c # 0
    <3>1. c - 1 \in Nat /\ c - 1 < c /\ c \in Nat
      BY <2>1, <2>4
    <3>2. CanOrder(c - 1)
      BY <2>1, <3>1
    <3>3. T \ {c} \in SUBSET (1..c - 1)
      BY <2>2, <3>1
    <3>4. PICK t : Enumerates(t, T \ {c})
      BY <3>2, <3>3
    <3>5. c \in T
      <4>1. ASSUME c \notin T  PROVE T \ {c} = T
        BY <4>1
      <4>. QED  BY <2>2, <3>4, <4>1
    <3>6. \A m \in T \ {c} : m < c
      BY <3>1, <3>3
    <3>7. Enumerates(Append(t, c), (T \ {c}) \cup {c})
      BY <3>1, <3>4, <3>6, OneMore
    <3>8. (T \ {c}) \cup {c} = T
      BY <3>5
    <3>. QED  BY <2>2, <3>7, <3>8
  <2>. QED  BY <2>3, <2>4
<1>. QED  BY <1>1

(* There is only one order, and it is InOrder.                             *)
LEMMA FirstOnesOf ==
    ASSUME NEW S, NEW t, Enumerates(t, S), NEW j \in 0..Len(t)
    PROVE  Cardinality({t[i] : i \in 1..j}) = j
<1>. DEFINE f == [i \in 1..j |-> t[i]]
            U == {t[i] : i \in 1..j}
<1>1. j \in Nat /\ \A i \in 1..j : i \in 1..Len(t)
  BY Once
<1>2. \A a, b \in 1..j : f[a] = f[b] => a = b
  BY <1>1, Once
<1>3. f \in [1..j -> U] /\ \A u \in U : \E i \in 1..j : f[i] = u
  OBVIOUS
<1>4. f \in Bijection(1..j, U)
  BY <1>2, <1>3 DEF Bijection, Injection, Surjection, IsInjective
<1>5. ExistsBijection(1..j, U)
  BY <1>4 DEF ExistsBijection
<1>. QED  BY <1>1, <1>5, FS_CountingElements

LEMMA Ordered ==
    ASSUME NEW S, NEW t, Enumerates(t, S)
    PROVE  Cardinality(S) = Len(t) /\ Di!InOrder(S) = t
<1>0. /\ Len(t) \in Nat /\ DOMAIN t = 1..Len(t) /\ \A i \in 1..Len(t) : t[i] \in Nat
      /\ \A i, j \in 1..Len(t) : (i < j <=> t[i] < t[j]) /\ (i = j <=> t[i] = t[j])
  BY Once
<1>1. \A T : Di!Cardinality(T) = Cardinality(T)
  BY DEF Di!Cardinality, Cardinality
<1>2. Cardinality(S) = Len(t)
  <2>1. S = {t[i] : i \in 1..Len(t)}
    BY DEF Enumerates
  <2>2. Len(t) \in 0..Len(t)
    BY <1>0
  <2>3. Cardinality({t[i] : i \in 1..Len(t)}) = Len(t)
    BY <2>2, FirstOnesOf
  <2>. QED  BY <2>1, <2>3
<1>3. ASSUME NEW i \in 1..Len(t)  PROVE Cardinality({m \in S : m <= t[i]}) = i
  <2>1. {m \in S : m <= t[i]} = {t[k] : k \in 1..i}
    <3>1. ASSUME NEW m \in S, m <= t[i]  PROVE m \in {t[k] : k \in 1..i}
      <4>1. PICK k \in 1..Len(t) : t[k] = m
        BY DEF Enumerates
      <4>2. k \in 1..i
        <5>1. ~(t[i] < t[k])
          BY <1>0, <3>1, <4>1
        <5>2. ~(i < k)
          BY <1>0, <5>1
        <5>. QED  BY <1>0, <5>2
      <4>. QED  BY <4>1, <4>2
    <3>2. ASSUME NEW k \in 1..i  PROVE t[k] \in S /\ t[k] <= t[i]
      <4>1. k \in 1..Len(t) /\ ~(i < k)
        BY <1>0
      <4>2. ~(t[i] < t[k]) /\ t[i] \in Nat /\ t[k] \in Nat
        BY <1>0, <4>1
      <4>. QED  BY <4>1, <4>2 DEF Enumerates
    <3>. QED  BY <3>1, <3>2
  <2>2. i \in 0..Len(t)
    BY <1>0
  <2>. QED  BY <2>1, <2>2, FirstOnesOf
<1>4. ASSUME NEW j \in 1..Len(t)
      PROVE  (CHOOSE n \in S : Di!Cardinality({m \in S : m <= n}) = j) = t[j]
  <2>1. t[j] \in S /\ Di!Cardinality({m \in S : m <= t[j]}) = j
    BY <1>1, <1>3 DEF Enumerates
  <2>2. ASSUME NEW n \in S, Di!Cardinality({m \in S : m <= n}) = j  PROVE n = t[j]
    <3>1. PICK i \in 1..Len(t) : t[i] = n
      BY DEF Enumerates
    <3>2. i = j
      BY <1>1, <1>3, <2>2, <3>1
    <3>. QED  BY <3>1, <3>2
  <2>. QED  BY <2>1, <2>2
<1>5. Di!InOrder(S) = [j \in 1..Len(t) |-> t[j]]
  BY <1>1, <1>2, <1>4 DEF Di!InOrder
<1>6. t = [j \in 1..Len(t) |-> t[j]]
  BY LenProperties DEF Enumerates
<1>. QED  BY <1>2, <1>5, <1>6

LEMMA InOrderIs ==
    ASSUME NEW n \in Nat, NEW S \in SUBSET (1..n)
    PROVE  Enumerates(Di!InOrder(S), S)
BY Orderable, Ordered

-----------------------------------------------------------------------------
(* The dict *)

KeySet == Di!Keys \cup {Deleted}
ValSet == Vals \cup {Deleted}

LEMMA KeysAre ==
    /\ Strs \cap Others = {} /\ Deleted \notin Di!Keys /\ Di!Keys = Strs \cup Others
    /\ \A k \in Others : Hash[k] \in Di!Hashes
BY DictAssumption DEF Di!DictConstants, Di!Keys, Di!Hashes

Slots(ks) == {n \in DOMAIN ks : ks[n] # Deleted}
View(ks, vs) ==
    [n \in DOMAIN Di!LiveSlots(ks) |->
        [key |-> ks[Di!LiveSlots(ks)[n]], val |-> vs[Di!LiveSlots(ks)[n]]]]
Entries == View(keys, vals)

KeysOnce(ks) ==
    \A m, n \in DOMAIN ks : ks[m] # Deleted /\ ks[m] = ks[n] => m = n
IndexIs(ks, ix) ==
    \A s \in Strs : \A n \in Nat \ {0} : ix[s] = n <=> n \in DOMAIN ks /\ ks[n] = s
BucketsAre(ks, oh) ==
    \A h \in Di!Hashes :
        /\ Distinct(oh[h])
        /\ \A n : Has(oh[h], n) <=> n \in DOMAIN ks /\ ks[n] \in Others /\ Hash[ks[n]] = h

Tables(ks, vs, ix, oh) ==
    /\ ks \in Seq(KeySet) /\ vs \in Seq(ValSet) /\ Len(vs) = Len(ks)
    /\ ix \in [Strs -> Nat] /\ oh \in [Di!Hashes -> Seq(Nat)]
    /\ KeysOnce(ks)
    /\ IndexIs(ks, ix)
    /\ BucketsAre(ks, oh)

(* Every live slot is where its map leads, and nothing leads anywhere else;*)
(* what is not live is counted.                                            *)
DictInv ==
    /\ Tables(keys, vals, index, oHash)
    /\ dead \in Nat /\ Len(keys) - dead = Len(Di!LiveSlots(keys))

LEMMA LiveIs ==
    ASSUME NEW ks \in Seq(KeySet)
    PROVE  /\ Len(ks) \in Nat /\ DOMAIN ks = 1..Len(ks)
           /\ \A n \in 1..Len(ks) : ks[n] \in KeySet
           /\ Enumerates(Di!LiveSlots(ks), Slots(ks))
<1>1. Len(ks) \in Nat /\ DOMAIN ks = 1..Len(ks) /\ \A n \in 1..Len(ks) : ks[n] \in KeySet
  BY LenProperties, ElementOfSeq
<1>2. Slots(ks) \in SUBSET (1..Len(ks))
  BY <1>1 DEF Slots
<1>3. Di!LiveSlots(ks) = Di!InOrder(Slots(ks))
  BY DEF Di!LiveSlots, Slots
<1>. QED  BY <1>1, <1>2, <1>3, InOrderIs

LEMMA LeastIs ==
    ASSUME NEW I, I \subseteq Nat
    PROVE  /\ I # {} => Di!Min(I) \in I
           /\ I # {} => Di!Map!Min(I) \in I
<1>1. CASE I # {}
  <2>1. PICK c \in I : \A b \in I : ~(b < c)
    BY <1>1, LeastOne
  <2>2. \A b \in I : c <= b
    BY <2>1
  <2>. QED  BY <2>2 DEF Di!Min, Di!Map!Min
<1>. QED  BY <1>1

(* What the bucket says of a key.                                          *)
LEMMA InBucketIs ==
    ASSUME DictInv, NEW k \in Others
    PROVE  /\ Hash[k] \in Di!Hashes /\ oHash[Hash[k]] \in Seq(Nat)
           /\ \/ /\ Di!InBucket(k) = 0
                 /\ \A n \in DOMAIN keys : keys[n] # k
              \/ /\ Di!InBucket(k) \in 1..Len(oHash[Hash[k]])
                 /\ oHash[Hash[k]][Di!InBucket(k)] \in DOMAIN keys
                 /\ keys[oHash[Hash[k]][Di!InBucket(k)]] = k
<1>. DEFINE bucket == oHash[Hash[k]]
            I == {i \in 1..Len(bucket) : keys[bucket[i]] = k}
<1>1. Hash[k] \in Di!Hashes /\ bucket \in Seq(Nat)
  BY KeysAre DEF DictInv, Tables
<1>2. \A n : Has(bucket, n) <=> n \in DOMAIN keys /\ keys[n] \in Others /\ Hash[keys[n]] = Hash[k]
  BY <1>1 DEF DictInv, Tables, BucketsAre
<1>3. DOMAIN bucket = 1..Len(bucket) /\ Len(bucket) \in Nat
  BY <1>1, LenProperties
<1>4. Di!InBucket(k) = IF I # {} THEN Di!Min(I) ELSE 0
  BY DEF Di!InBucket, Di!SelectInSeq
<1>5. I \subseteq Nat
  BY <1>3
<1>6. CASE I = {}
  <2>1. ASSUME NEW n \in DOMAIN keys, keys[n] = k  PROVE FALSE
    BY <1>2, <1>3, <1>6, <2>1 DEF Has
  <2>. QED  BY <1>1, <1>4, <1>6, <2>1
<1>7. CASE I # {}
  <2>1. Di!InBucket(k) \in I
    BY <1>4, <1>5, <1>7, LeastIs
  <2>2. \A i \in 1..Len(bucket) : bucket[i] \in DOMAIN keys
    BY <1>2, <1>3 DEF Has
  <2>. QED  BY <1>1, <2>1, <2>2
<1>. QED  BY <1>6, <1>7

(* Slot leads to the key, or the key is nowhere.                           *)
LEMMA SlotIs ==
    ASSUME DictInv, NEW k \in Di!Keys
    PROVE  \/ Di!Slot(k) = 0 /\ \A n \in DOMAIN keys : keys[n] # k
           \/ Di!Slot(k) \in DOMAIN keys /\ keys[Di!Slot(k)] = k
<1>1. DOMAIN keys = 1..Len(keys)
  BY LiveIs DEF DictInv, Tables
<1>2. CASE k \in Strs
  <2>1. Di!Slot(k) = index[k] /\ index[k] \in Nat
    BY <1>2 DEF Di!Slot, DictInv, Tables
  <2>2. \A n \in Nat \ {0} : index[k] = n <=> n \in DOMAIN keys /\ keys[n] = k
    BY <1>2 DEF DictInv, Tables, IndexIs
  <2>3. CASE index[k] = 0
    BY <1>1, <2>1, <2>2, <2>3
  <2>4. CASE index[k] # 0
    BY <2>1, <2>2, <2>4
  <2>. QED  BY <2>3, <2>4
<1>3. CASE k \notin Strs
  <2>1. k \in Others
    BY <1>3, KeysAre
  <2>2. Di!Slot(k) = IF Di!InBucket(k) = 0 THEN 0 ELSE oHash[Hash[k]][Di!InBucket(k)]
    BY <1>3 DEF Di!Slot
  <2>3. CASE Di!InBucket(k) = 0
    BY <2>1, <2>2, <2>3, InBucketIs
  <2>4. CASE Di!InBucket(k) # 0
    BY <2>1, <2>2, <2>4, InBucketIs
  <2>. QED  BY <2>3, <2>4
<1>. QED  BY <1>2, <1>3

(* Where the abstract mapping has a key is where the live slot of it comes.*)
LEMMA PlaceIs ==
    ASSUME DictInv, NEW k \in Di!Keys
    PROVE  \/ Di!Map!PlaceOf(k) = 0 /\ Di!Slot(k) = 0
           \/ /\ Di!Slot(k) \in DOMAIN keys /\ keys[Di!Slot(k)] = k
              /\ Di!Map!PlaceOf(k) \in 1..Len(Di!LiveSlots(keys))
              /\ Di!LiveSlots(keys)[Di!Map!PlaceOf(k)] = Di!Slot(k)
<1>. DEFINE live == Di!LiveSlots(keys)
            I == {i \in 1..Len(Entries) : Entries[i].key = k}
<1>1. /\ keys \in Seq(KeySet) /\ DOMAIN keys = 1..Len(keys) /\ Enumerates(live, Slots(keys))
  BY LiveIs DEF DictInv, Tables
<1>. HIDE DEF live
<1>2. /\ Len(live) \in Nat /\ DOMAIN live = 1..Len(live)
      /\ \A i \in 1..Len(live) : live[i] \in Slots(keys)
  BY <1>1, Once DEF Enumerates
<1>3. Entries = [n \in 1..Len(live) |-> [key |-> keys[live[n]], val |-> vals[live[n]]]]
  BY <1>2 DEF Entries, View, live
<1>4. Len(Entries) = Len(live)
  BY <1>2, <1>3
<1>5. I = {i \in 1..Len(live) : keys[live[i]] = k}
  BY <1>3, <1>4
<1>6. Di!Map!PlaceOf(k) = IF I # {} THEN Di!Map!Min(I) ELSE 0
  BY DEF Di!Map!PlaceOf, Di!Map!SelectInSeq, Entries, View, Di!Live
<1>. HIDE DEF I
<1>7. I \subseteq Nat
  BY <1>2, <1>5
<1>8. k # Deleted
  BY KeysAre
<1>9. CASE Di!Slot(k) = 0
  <2>1. \A n \in DOMAIN keys : keys[n] # k
    BY <1>1, <1>9, SlotIs
  <2>2. I = {}
    BY <1>2, <1>5, <2>1 DEF Slots
  <2>. QED  BY <1>6, <1>9, <2>2
<1>10. CASE Di!Slot(k) # 0
  <2>1. Di!Slot(k) \in DOMAIN keys /\ keys[Di!Slot(k)] = k
    BY <1>10, SlotIs
  <2>2. Di!Slot(k) \in Slots(keys)
    BY <1>8, <2>1 DEF Slots
  <2>3. PICK i \in 1..Len(live) : live[i] = Di!Slot(k)
    BY <1>1, <2>2 DEF Enumerates
  <2>4. I # {}
    BY <1>5, <2>1, <2>3
  <2>5. Di!Map!PlaceOf(k) \in I
    BY <1>6, <1>7, <2>4, LeastIs
  <2>6. live[Di!Map!PlaceOf(k)] = Di!Slot(k)
    BY <1>2, <1>5, <1>8, <2>1, <2>5 DEF DictInv, Tables, KeysOnce, Slots
  <2>. QED  BY <1>5, <2>1, <2>5, <2>6 DEF live
<1>. QED  BY <1>9, <1>10

EntrySet == [key : KeySet, val : ValSet]

LEMMA ViewIs ==
    ASSUME NEW ks \in Seq(KeySet), NEW vs \in Seq(ValSet), Len(vs) = Len(ks),
           NEW live, live = Di!LiveSlots(ks)
    PROVE  /\ Len(live) \in Nat /\ DOMAIN live = 1..Len(live)
           /\ \A i \in 1..Len(live) : live[i] \in DOMAIN ks /\ ks[live[i]] # Deleted
           /\ View(ks, vs) = [n \in 1..Len(live) |-> [key |-> ks[live[n]], val |-> vs[live[n]]]]
           /\ View(ks, vs) \in Seq(EntrySet) /\ Len(View(ks, vs)) = Len(live)
<1>1. Enumerates(live, Slots(ks)) /\ DOMAIN ks = 1..Len(ks)
  BY LiveIs
<1>2. Len(live) \in Nat /\ DOMAIN live = 1..Len(live)
  BY <1>1, Once
<1>3. \A i \in 1..Len(live) : live[i] \in DOMAIN ks /\ ks[live[i]] # Deleted
  BY <1>1 DEF Enumerates, Slots
<1>4. View(ks, vs) = [n \in 1..Len(live) |-> [key |-> ks[live[n]], val |-> vs[live[n]]]]
  BY <1>2 DEF View
<1>5. \A i \in 1..Len(live) : [key |-> ks[live[i]], val |-> vs[live[i]]] \in EntrySet
  <2>1. \A n \in DOMAIN ks : ks[n] \in KeySet /\ vs[n] \in ValSet
    BY <1>1, ElementOfSeq
  <2>. QED  BY <1>3, <2>1 DEF EntrySet
<1>6. View(ks, vs) \in Seq(EntrySet)
  BY <1>2, <1>4, <1>5
<1>7. Len(View(ks, vs)) = Len(live)
  BY <1>2, <1>4
<1>. QED  BY <1>2, <1>3, <1>4, <1>6, <1>7

(* The invariant after a step.                                             *)
LEMMA DictNext ==
    ASSUME Tables(keys', vals', index', oHash'), dead' \in Nat,
           Len(keys') - dead' = Len(Di!LiveSlots(keys'))
    PROVE  DictInv' /\ Entries' = View(keys', vals')
<1>1. Tables(keys, vals, index, oHash)'
  BY DEF Tables, KeysOnce, IndexIs, BucketsAre, Distinct, Has
<1>2. (Len(keys) - dead = Len(Di!LiveSlots(keys)))'
  BY DEF Di!LiveSlots, Di!InOrder
<1>3. Entries' = View(keys', vals')
  BY DEF Entries, View, Di!LiveSlots, Di!InOrder
<1>. QED  BY <1>1, <1>2, <1>3 DEF DictInv

LEMMA ReplaceKeeps ==
    ASSUME DictInv, NEW k \in Di!Keys, NEW v \in Vals, Di!Slot(k) # 0,
           vals' = [vals EXCEPT ![Di!Slot(k)] = v],
           UNCHANGED <<keys, index, oHash, dead>>
    PROVE  DictInv' /\ Di!Map!Set(k, v)
<1>. DEFINE s == Di!Slot(k)
            p == Di!Map!PlaceOf(k)
            live == Di!LiveSlots(keys)
<1>1. /\ keys \in Seq(KeySet) /\ vals \in Seq(ValSet) /\ Len(vals) = Len(keys)
      /\ Len(keys) \in Nat /\ DOMAIN keys = 1..Len(keys) /\ Enumerates(live, Slots(keys))
  BY LiveIs DEF DictInv, Tables
<1>2. s \in DOMAIN keys /\ p \in 1..Len(live) /\ live[p] = s /\ p # 0
  BY PlaceIs, 0 \notin 1..Len(live)
<1>3. \A i \in 1..Len(live) : live[i] = s => i = p
  BY <1>1, <1>2, Once
<1>4. DOMAIN vals = 1..Len(keys)
  BY <1>1, LenProperties
<1>5. vals' \in Seq(ValSet) /\ Len(vals') = Len(keys')
  BY <1>1, <1>2, ExceptSeq DEF ValSet
<1>6. Tables(keys', vals', index', oHash') /\ DictInv'
  <2>1. Tables(keys, vals', index, oHash)
    BY <1>5 DEF DictInv, Tables
  <2>2. Tables(keys', vals', index', oHash')
    BY <2>1
  <2>3. dead' \in Nat /\ Len(keys') - dead' = Len(Di!LiveSlots(keys'))
    BY DEF DictInv
  <2>. QED  BY <2>2, <2>3, DictNext
<1>7. Entries' = View(keys, vals')
  BY <1>6, DictNext DEF DictInv
<1>. HIDE DEF s, p, live
<1>8. View(keys, vals') = [Entries EXCEPT ![p].val = v]
  <2>1. /\ Entries = [n \in 1..Len(live) |-> [key |-> keys[live[n]], val |-> vals[live[n]]]]
        /\ View(keys, vals') =
             [n \in 1..Len(live) |-> [key |-> keys[live[n]], val |-> vals'[live[n]]]]
        /\ \A i \in 1..Len(live) : live[i] \in DOMAIN keys
    <3>1. ASSUME NEW vs \in Seq(ValSet), Len(vs) = Len(keys)
          PROVE  /\ View(keys, vs) =
                       [n \in 1..Len(live) |-> [key |-> keys[live[n]], val |-> vs[live[n]]]]
                 /\ \A i \in 1..Len(live) : live[i] \in DOMAIN keys
      BY <1>1, <3>1, ViewIs DEF live
    <3>2. vals' \in Seq(ValSet) /\ Len(vals') = Len(keys)
      BY <1>5
    <3>3. View(keys, vals') =
             [n \in 1..Len(live) |-> [key |-> keys[live[n]], val |-> vals'[live[n]]]]
      BY <3>1, <3>2
    <3>. QED  BY <1>1, <3>1, <3>3 DEF Entries
  <2>2. ASSUME NEW n \in 1..Len(live)
        PROVE  [key |-> keys[live[n]], val |-> vals'[live[n]]]
                  = [Entries EXCEPT ![p].val = v][n]
    <3>1. CASE n = p
      <4>1. vals'[live[n]] = v
        BY <1>1, <1>2, <1>4, <3>1 DEF s
      <4>2. Entries[n] = [key |-> keys[live[n]], val |-> vals[live[n]]]
        BY <2>1
      <4>. QED  BY <1>2, <2>1, <3>1, <4>1, <4>2
    <3>2. CASE n # p
      <4>1. live[n] # s /\ live[n] \in DOMAIN vals
        BY <1>1, <1>3, <1>4, <2>1, <3>2
      <4>2. vals'[live[n]] = vals[live[n]]
        BY <4>1 DEF s
      <4>. QED  BY <1>2, <2>1, <3>2, <4>2
    <3>. QED  BY <3>1, <3>2
  <2>. QED  BY <1>2, <2>1, <2>2
<1>9. Entries' = IF p = 0 THEN Append(Entries, [key |-> k, val |-> v])
                 ELSE [Entries EXCEPT ![p].val = v]
  BY <1>2, <1>7, <1>8
<1>10. Di!Map!Set(k, v)
  BY <1>9 DEF Di!Map!Set, Entries, View, Di!Live, p
<1>. QED  BY <1>6, <1>10

LEMMA AddSlotKeeps ==
    ASSUME DictInv, NEW k \in Di!Keys, NEW v \in Vals, Di!Slot(k) = 0, Di!AddSlot(k, v)
    PROVE  DictInv' /\ Di!Map!Set(k, v)
<1>. DEFINE live == Di!LiveSlots(keys)
            len == Len(keys)
            ks == Append(keys, k)
            vs == Append(vals, v)
<1>1. /\ keys \in Seq(KeySet) /\ vals \in Seq(ValSet) /\ Len(vals) = len
      /\ len \in Nat /\ DOMAIN keys = 1..len /\ Enumerates(live, Slots(keys))
      /\ dead \in Nat /\ len - dead = Len(live)
      /\ index \in [Strs -> Nat] /\ oHash \in [Di!Hashes -> Seq(Nat)]
      /\ KeysOnce(keys) /\ IndexIs(keys, index) /\ BucketsAre(keys, oHash)
  BY LiveIs DEF DictInv, Tables
<1>2. /\ \A n \in DOMAIN keys : keys[n] # k
      /\ Di!Map!PlaceOf(k) = 0
  BY <1>1, SlotIs, PlaceIs
<1>3. k \in KeySet /\ v \in ValSet /\ k # Deleted /\ (k \in Others <=> k \notin Strs)
  BY KeysAre DEF KeySet, ValSet
<1>4. /\ keys' = ks /\ vals' = vs /\ dead' = dead
      /\ IF k \in Strs
         THEN index' = [index EXCEPT ![k] = len + 1] /\ oHash' = oHash
         ELSE /\ oHash' = [oHash EXCEPT ![Hash[k]] = Append(@, len + 1)]
              /\ index' = index
  BY DEF Di!AddSlot
<1>. HIDE DEF len
<1>5. /\ ks \in Seq(KeySet) /\ Len(ks) = len + 1 /\ ks[len + 1] = k
      /\ \A n \in 1..len : ks[n] = keys[n]
      /\ vs \in Seq(ValSet) /\ Len(vs) = len + 1 /\ vs[len + 1] = v
      /\ \A n \in 1..len : vs[n] = vals[n]
  BY <1>1, <1>3, AppendProperties DEF len
<1>6. DOMAIN ks = 1..len + 1
  BY <1>5, LenProperties
<1>. HIDE DEF ks, vs
<1>7. KeysOnce(ks)
  <2>1. ASSUME NEW m \in 1..len + 1, NEW n \in 1..len + 1, ks[m] # Deleted, ks[m] = ks[n]
        PROVE  m = n
    <3>1. \A i \in 1..len + 1 : i = len + 1 \/ i \in 1..len
      BY <1>1
    <3>2. CASE m = len + 1 \/ n = len + 1
      BY <1>1, <1>2, <1>5, <2>1, <3>1, <3>2
    <3>3. CASE m \in 1..len /\ n \in 1..len
      BY <1>1, <1>5, <2>1, <3>3 DEF KeysOnce
    <3>. QED  BY <3>1, <3>2, <3>3
  <2>. QED  BY <1>6, <2>1 DEF KeysOnce
<1>8. \A n : n \in DOMAIN ks <=> n \in DOMAIN keys \/ n = len + 1
  <2>1. 1..len + 1 = (1..len) \cup {len + 1}
    BY <1>1
  <2>. QED  BY <1>1, <1>6, <2>1
<1>9. \A n \in DOMAIN keys : ks[n] = keys[n] /\ n # len + 1 /\ n \in Nat
  BY <1>1, <1>5
<1>10. index' \in [Strs -> Nat] /\ IndexIs(ks, index')
  <2>1. CASE k \in Strs
    <3>1. index' \in [Strs -> Nat] /\ \A s \in Strs : index'[s] = IF s = k THEN len + 1 ELSE index[s]
      BY <1>1, <1>4, <2>1
    <3>2. ASSUME NEW s \in Strs, NEW n \in Nat \ {0}
          PROVE  index'[s] = n <=> n \in DOMAIN ks /\ ks[n] = s
      <4>1. CASE s = k
        BY <1>2, <1>5, <1>8, <1>9, <3>1, <4>1
      <4>2. CASE s # k
        <5>1. index[s] = n <=> n \in DOMAIN keys /\ keys[n] = s
          BY <1>1 DEF IndexIs
        <5>. QED  BY <1>5, <1>8, <1>9, <3>1, <4>2, <5>1
      <4>. QED  BY <4>1, <4>2
    <3>. QED  BY <3>1, <3>2 DEF IndexIs
  <2>2. CASE k \notin Strs
    <3>1. ASSUME NEW s \in Strs, NEW n \in Nat \ {0}
          PROVE  index[s] = n <=> n \in DOMAIN ks /\ ks[n] = s
      <4>1. index[s] = n <=> n \in DOMAIN keys /\ keys[n] = s
        BY <1>1 DEF IndexIs
      <4>. QED  BY <1>5, <1>8, <1>9, <2>2, <4>1
    <3>. QED  BY <1>1, <1>4, <2>2, <3>1 DEF IndexIs
  <2>. QED  BY <2>1, <2>2
<1>11. oHash' \in [Di!Hashes -> Seq(Nat)] /\ BucketsAre(ks, oHash')
  <2>0. \A n : ~(n \in DOMAIN keys /\ n = len + 1)
    BY <1>9
  <2>1. CASE k \in Strs
    <3>1. ASSUME NEW h \in Di!Hashes, NEW n
          PROVE  Has(oHash[h], n) <=>
                    n \in DOMAIN ks /\ ks[n] \in Others /\ Hash[ks[n]] = h
      <4>1. Has(oHash[h], n) <=> n \in DOMAIN keys /\ keys[n] \in Others /\ Hash[keys[n]] = h
        BY <1>1 DEF BucketsAre
      <4>. QED  BY <1>3, <1>5, <1>8, <1>9, <2>1, <4>1
    <3>. QED  BY <1>1, <1>4, <2>1, <3>1 DEF BucketsAre
  <2>2. CASE k \notin Strs
    <3>1. k \in Others /\ Hash[k] \in Di!Hashes
      BY <1>3, <2>2, KeysAre
    <3>2. /\ oHash[Hash[k]] \in Seq(Nat) /\ Distinct(oHash[Hash[k]]) /\ len + 1 \in Nat
          /\ ~Has(oHash[Hash[k]], len + 1)
      BY <1>1, <1>9, <3>1 DEF BucketsAre
    <3>3. /\ Append(oHash[Hash[k]], len + 1) \in Seq(Nat)
          /\ Distinct(Append(oHash[Hash[k]], len + 1))
          /\ \A n : Has(Append(oHash[Hash[k]], len + 1), n) <=>
                       Has(oHash[Hash[k]], n) \/ n = len + 1
      BY <3>2, Longer
    <3>4. /\ oHash' \in [Di!Hashes -> Seq(Nat)]
          /\ \A h \in Di!Hashes :
                oHash'[h] = IF h = Hash[k] THEN Append(oHash[Hash[k]], len + 1) ELSE oHash[h]
      BY <1>1, <1>4, <2>2, <3>1, <3>3
    <3>5. ASSUME NEW h \in Di!Hashes
          PROVE  /\ Distinct(oHash'[h])
                 /\ \A n : Has(oHash'[h], n) <=>
                       n \in DOMAIN ks /\ ks[n] \in Others /\ Hash[ks[n]] = h
      <4>1. /\ Distinct(oHash[h])
            /\ \A n : Has(oHash[h], n) <=>
                  n \in DOMAIN keys /\ keys[n] \in Others /\ Hash[keys[n]] = h
        BY <1>1 DEF BucketsAre
      <4>2. CASE h = Hash[k]
        <5>1. oHash'[h] = Append(oHash[h], len + 1)
          BY <3>4, <4>2
        <5>2. Distinct(oHash'[h])
          BY <3>3, <4>2, <5>1
        <5>3. \A n : Has(oHash'[h], n) <=> Has(oHash[h], n) \/ n = len + 1
          BY <3>3, <4>2, <5>1
        <5>. HIDE DEF ks
        <5>. QED  BY <1>5, <1>8, <1>9, <3>1, <4>1, <4>2, <5>2, <5>3
      <4>3. CASE h # Hash[k]
        <5>1. oHash'[h] = oHash[h]
          BY <3>4, <4>3
        <5>. QED  BY <1>5, <1>8, <1>9, <4>1, <4>3, <5>1
      <4>. QED  BY <4>2, <4>3
    <3>. QED  BY <3>4, <3>5 DEF BucketsAre
  <2>. QED  BY <2>1, <2>2
<1>12. Tables(keys', vals', index', oHash')
  BY <1>4, <1>5, <1>7, <1>10, <1>11 DEF Tables
<1>13. Enumerates(Append(live, len + 1), Slots(ks))
  <2>1. Slots(ks) = Slots(keys) \cup {len + 1}
    BY <1>3, <1>5, <1>8, <1>9 DEF Slots
  <2>2. \A m \in Slots(keys) : m < len + 1
    BY <1>1 DEF Slots
  <2>. QED  BY <1>1, <2>1, <2>2, OneMore
<1>14. Di!LiveSlots(ks) = Append(live, len + 1)
  BY <1>13, Ordered DEF Di!LiveSlots, Slots
<1>. HIDE DEF live
<1>15. /\ Len(live) \in Nat /\ DOMAIN live = 1..Len(live)
       /\ \A i \in 1..Len(live) : live[i] \in 1..len
       /\ Entries = [n \in 1..Len(live) |-> [key |-> keys[live[n]], val |-> vals[live[n]]]]
       /\ Entries \in Seq(EntrySet) /\ Len(Entries) = Len(live)
  BY <1>1, ViewIs DEF Entries, live
<1>16. Append(live, len + 1) \in Seq(Nat) /\ live \in Seq(Nat)
  BY <1>1, <1>13 DEF Enumerates
<1>17. /\ Len(Append(live, len + 1)) = Len(live) + 1
       /\ \A n \in 1..Len(live) : Append(live, len + 1)[n] = live[n]
       /\ Append(live, len + 1)[Len(live) + 1] = len + 1
  BY <1>1, <1>16, AppendProperties
<1>18. DictInv' /\ Entries' = View(ks, vs)
  <2>1. dead' \in Nat /\ Len(keys') - dead' = Len(Di!LiveSlots(keys'))
    BY <1>1, <1>4, <1>5, <1>14, <1>15, <1>17
  <2>. QED  BY <1>4, <1>12, <2>1, DictNext
<1>19. View(ks, vs) = Append(Entries, [key |-> k, val |-> v])
  <2>. DEFINE e == [key |-> k, val |-> v]
  <2>1. e \in EntrySet
    BY <1>3 DEF EntrySet
  <2>2. /\ Append(Entries, e) \in Seq(EntrySet) /\ Len(Append(Entries, e)) = Len(live) + 1
        /\ \A n \in 1..Len(live) : Append(Entries, e)[n] = Entries[n]
        /\ Append(Entries, e)[Len(live) + 1] = e
    BY <1>15, <2>1, AppendProperties
  <2>. DEFINE more == Append(live, len + 1)
  <2>3. /\ View(ks, vs) = [n \in 1..Len(live) + 1 |-> [key |-> ks[more[n]], val |-> vs[more[n]]]]
        /\ View(ks, vs) \in Seq(EntrySet) /\ Len(View(ks, vs)) = Len(live) + 1
    BY <1>5, <1>14, <1>17, ViewIs
  <2>. HIDE DEF more, e
  <2>4. ASSUME NEW n \in 1..Len(live) + 1  PROVE View(ks, vs)[n] = Append(Entries, e)[n]
    <3>1. CASE n = Len(live) + 1
      BY <1>5, <1>17, <2>2, <2>3, <3>1 DEF more, e
    <3>2. CASE n # Len(live) + 1
      <4>1. n \in 1..Len(live)
        BY <1>15, <3>2
      <4>. QED  BY <1>5, <1>15, <1>17, <2>2, <2>3, <4>1 DEF more
    <3>. QED  BY <3>1, <3>2
  <2>5. View(ks, vs) = Append(Entries, e)
    BY <2>2, <2>3, <2>4, SeqEqual
  <2>. QED  BY <2>5 DEF e
<1>20. Di!Map!Set(k, v)
  BY <1>2, <1>18, <1>19 DEF Di!Map!Set, Entries, View, Di!Live
<1>. QED  BY <1>18, <1>20

(* ks and vs are the slices with a tombstone at s, where k was.            *)
Tombstone(k, s, ks, vs) ==
    /\ s \in DOMAIN keys /\ keys[s] = k
    /\ ks \in Seq(KeySet) /\ vs \in Seq(ValSet)
    /\ Len(ks) = Len(keys) /\ Len(vs) = Len(keys) /\ DOMAIN ks = DOMAIN keys
    /\ \A n \in DOMAIN keys : ks[n] = IF n = s THEN Deleted ELSE keys[n]
    /\ KeysOnce(ks)
    /\ Len(Di!LiveSlots(keys)) - 1 = Len(Di!LiveSlots(ks))
    /\ Di!Map!PlaceOf(k) # 0
    /\ View(ks, vs) = Di!Map!RemoveAt(Entries, Di!Map!PlaceOf(k))

(* A tombstone takes a key out of what is live, and nothing else.          *)
LEMMA Buried ==
    ASSUME DictInv, NEW k \in Di!Keys, NEW s, s = Di!Slot(k), s # 0,
           NEW ks, ks = [keys EXCEPT ![s] = Deleted],
           NEW vs, vs = [vals EXCEPT ![s] = Deleted]
    PROVE  Tombstone(k, s, ks, vs)
<1>. DEFINE live == Di!LiveSlots(keys)
            p == Di!Map!PlaceOf(k)
            fewer == RemoveAt(live, p)
<1>1. /\ keys \in Seq(KeySet) /\ vals \in Seq(ValSet) /\ Len(vals) = Len(keys)
      /\ Len(keys) \in Nat /\ DOMAIN keys = 1..Len(keys) /\ Enumerates(live, Slots(keys))
      /\ KeysOnce(keys)
  BY LiveIs DEF DictInv, Tables
<1>2. s \in DOMAIN keys /\ keys[s] = k /\ p \in 1..Len(live) /\ live[p] = s
  BY PlaceIs
<1>3. /\ Len(live) \in Nat /\ DOMAIN live = 1..Len(live) /\ p # 0
      /\ live \in Seq(Nat)
  BY <1>1, <1>2, Once DEF Enumerates
<1>4. s \in 1..Len(keys) /\ s \in 1..Len(vals) /\ Deleted \in KeySet /\ Deleted \in ValSet
  BY <1>1, <1>2 DEF KeySet, ValSet
<1>5. ks \in Seq(KeySet) /\ Len(ks) = Len(keys)
  BY <1>1, <1>4, ExceptSeq
<1>6. vs \in Seq(ValSet) /\ Len(vs) = Len(keys)
  BY <1>1, <1>4, ExceptSeq
<1>7. DOMAIN ks = DOMAIN keys
  BY <1>1
<1>8. \A n \in DOMAIN keys : ks[n] = IF n = s THEN Deleted ELSE keys[n]
  BY <1>1
<1>9. \A n \in DOMAIN keys : n # s => vs[n] = vals[n]
  BY <1>1, LenProperties
<1>10. KeysOnce(ks)
  BY <1>1, <1>7, <1>8 DEF KeysOnce
<1>11. Slots(ks) = Slots(keys) \ {s}
  BY <1>7, <1>8 DEF Slots
<1>. HIDE DEF live, p
<1>12. Enumerates(fewer, Slots(ks))
  <2>1. Enumerates(fewer, Slots(keys) \ {live[p]})
    BY <1>1, <1>2, OneLess
  <2>. HIDE DEF fewer
  <2>. QED  BY <1>2, <1>11, <2>1
<1>13. Di!LiveSlots(ks) = fewer
  <2>1. Di!InOrder(Slots(ks)) = fewer
    BY <1>12, Ordered, Zenon
  <2>. QED  BY <2>1 DEF Di!LiveSlots, Slots
<1>14. /\ Len(fewer) = Len(live) - 1
       /\ \A i \in 1..Len(live) - 1 : fewer[i] = IF i < p THEN live[i] ELSE live[i + 1]
  BY <1>2, <1>3, TakenAway
<1>15. /\ \A i \in 1..Len(live) : live[i] \in DOMAIN keys
       /\ Entries = [n \in 1..Len(live) |-> [key |-> keys[live[n]], val |-> vals[live[n]]]]
       /\ Entries \in Seq(EntrySet) /\ Len(Entries) = Len(live)
  BY <1>1, ViewIs DEF Entries, live
<1>. HIDE DEF fewer
<1>16. /\ View(ks, vs) = [n \in 1..Len(fewer) |-> [key |-> ks[fewer[n]], val |-> vs[fewer[n]]]]
       /\ View(ks, vs) \in Seq(EntrySet) /\ Len(View(ks, vs)) = Len(fewer)
  <2>1. Len(vs) = Len(ks)
    BY <1>5, <1>6
  <2>2. ASSUME NEW a \in Seq(KeySet), NEW b \in Seq(ValSet), Len(b) = Len(a)
        PROVE  LET t == Di!LiveSlots(a) IN
               /\ View(a, b) = [n \in 1..Len(t) |-> [key |-> a[t[n]], val |-> b[t[n]]]]
               /\ View(a, b) \in Seq(EntrySet) /\ Len(View(a, b)) = Len(t)
    BY <2>2, ViewIs
  <2>3. LET t == Di!LiveSlots(ks) IN
        /\ View(ks, vs) = [n \in 1..Len(t) |-> [key |-> ks[t[n]], val |-> vs[t[n]]]]
        /\ View(ks, vs) \in Seq(EntrySet) /\ Len(View(ks, vs)) = Len(t)
    BY <1>5, <1>6, <2>1, <2>2
  <2>. QED  BY <1>13, <2>3
<1>17. /\ RemoveAt(Entries, p) \in Seq(EntrySet)
       /\ Len(RemoveAt(Entries, p)) = Len(live) - 1
       /\ \A i \in 1..Len(live) - 1 :
             RemoveAt(Entries, p)[i] = IF i < p THEN Entries[i] ELSE Entries[i + 1]
  <2>1. p \in 1..Len(Entries)
    BY <1>2, <1>15
  <2>. QED  BY <1>15, <2>1, TakenAway
<1>18. ASSUME NEW i \in 1..Len(live) - 1  PROVE View(ks, vs)[i] = RemoveAt(Entries, p)[i]
  <2>. DEFINE j == IF i < p THEN i ELSE i + 1
  <2>1. j \in 1..Len(live) /\ j # p
    BY <1>2, <1>3
  <2>2. fewer[i] = live[j] /\ RemoveAt(Entries, p)[i] = Entries[j]
    BY <1>14, <1>17
  <2>. HIDE DEF j
  <2>3. live[j] \in DOMAIN keys /\ live[j] # s
    BY <1>1, <1>2, <1>15, <2>1, Once
  <2>4. ks[live[j]] = keys[live[j]] /\ vs[live[j]] = vals[live[j]]
    BY <1>8, <1>9, <2>3
  <2>. QED  BY <1>14, <1>15, <1>16, <2>1, <2>2, <2>4
<1>19. View(ks, vs) = RemoveAt(Entries, p)
  BY <1>14, <1>16, <1>17, <1>18, SeqEqual
<1>20. Di!Map!RemoveAt(Entries, p) = RemoveAt(Entries, p)
  BY DEF Di!Map!RemoveAt, RemoveAt
<1>. QED  BY <1>2, <1>3, <1>5, <1>6, <1>7, <1>8, <1>10, <1>13, <1>14, <1>19, <1>20
          DEF live, p, Tombstone

LEMMA ForgetKeeps ==
    ASSUME DictInv, NEW k \in Di!Keys, NEW s, s = Di!Slot(k), s # 0,
           NEW ks, DOMAIN ks = DOMAIN keys, s \in DOMAIN keys, keys[s] = k,
           \A n \in DOMAIN keys : ks[n] = IF n = s THEN Deleted ELSE keys[n],
           Di!Forget(k)
    PROVE  /\ index' \in [Strs -> Nat] /\ oHash' \in [Di!Hashes -> Seq(Nat)]
           /\ IndexIs(ks, index') /\ BucketsAre(ks, oHash')
<1>1. /\ keys \in Seq(KeySet) /\ index \in [Strs -> Nat] /\ oHash \in [Di!Hashes -> Seq(Nat)]
      /\ KeysOnce(keys) /\ IndexIs(keys, index) /\ BucketsAre(keys, oHash)
  BY DEF DictInv, Tables
<1>2. /\ Strs \cap Others = {} /\ Deleted \notin Strs /\ Deleted \notin Others
      /\ (k \in Others <=> k \notin Strs) /\ k # Deleted
  BY KeysAre
<1>3. \A n \in DOMAIN keys : keys[n] = k => n = s
  BY <1>1, <1>2 DEF KeysOnce
<1>4. CASE k \in Strs
  <2>1. /\ oHash' = oHash /\ index' \in [Strs -> Nat]
        /\ \A t \in Strs : index'[t] = IF t = k THEN 0 ELSE index[t]
    <3>1. oHash' = oHash /\ index' = [index EXCEPT ![k] = 0]
      BY <1>4 DEF Di!Forget
    <3>2. 0 \in Nat
      OBVIOUS
    <3>. QED  BY <1>1, <1>4, <3>1, <3>2
  <2>2. ASSUME NEW t \in Strs, NEW n \in Nat \ {0}
        PROVE  index'[t] = n <=> n \in DOMAIN ks /\ ks[n] = t
    <3>1. index[t] = n <=> n \in DOMAIN keys /\ keys[n] = t
      BY <1>1 DEF IndexIs
    <3>. QED  BY <1>2, <1>3, <2>1, <3>1
  <2>3. ASSUME NEW h \in Di!Hashes, NEW n
        PROVE  Has(oHash[h], n) <=> n \in DOMAIN ks /\ ks[n] \in Others /\ Hash[ks[n]] = h
    <3>1. Has(oHash[h], n) <=> n \in DOMAIN keys /\ keys[n] \in Others /\ Hash[keys[n]] = h
      BY <1>1 DEF BucketsAre
    <3>. QED  BY <1>2, <1>4, <3>1
  <2>. QED  BY <1>1, <2>1, <2>2, <2>3 DEF IndexIs, BucketsAre
<1>5. CASE k \notin Strs
  <2>. DEFINE bucket == oHash[Hash[k]]
              pos == Di!InBucket(k)
  <2>1. /\ index' = index /\ oHash' = [oHash EXCEPT ![Hash[k]] = Di!RemoveAt(bucket, pos)]
    BY <1>5 DEF Di!Forget
  <2>2. Di!RemoveAt(bucket, pos) = RemoveAt(bucket, pos)
    BY DEF Di!RemoveAt, RemoveAt
  <2>3. /\ k \in Others /\ Hash[k] \in Di!Hashes /\ bucket \in Seq(Nat)
        /\ pos \in 1..Len(bucket) /\ bucket[pos] = s
    <3>1. /\ k \in Others /\ Hash[k] \in Di!Hashes /\ bucket \in Seq(Nat)
          /\ \/ pos = 0 /\ \A n \in DOMAIN keys : keys[n] # k
             \/ /\ pos \in 1..Len(bucket) /\ bucket[pos] \in DOMAIN keys
                /\ keys[bucket[pos]] = k
      BY <1>2, <1>5, InBucketIs
    <3>. QED  BY <1>3, <3>1
  <2>4. Distinct(bucket)
    BY <1>1, <2>3 DEF BucketsAre
  <2>. HIDE DEF pos, bucket
  <2>5. /\ RemoveAt(bucket, pos) \in Seq(Nat)
        /\ Distinct(RemoveAt(bucket, pos))
        /\ \A n : Has(RemoveAt(bucket, pos), n) <=> Has(bucket, n) /\ n # s
    BY <2>3, <2>4, TakenAwayOnce
  <2>6. /\ oHash' \in [Di!Hashes -> Seq(Nat)]
        /\ \A h \in Di!Hashes :
              oHash'[h] = IF h = Hash[k] THEN RemoveAt(bucket, pos) ELSE oHash[h]
    BY <1>1, <2>1, <2>2, <2>3, <2>5
  <2>7. ASSUME NEW h \in Di!Hashes
        PROVE  /\ Distinct(oHash'[h])
               /\ \A n : Has(oHash'[h], n) <=>
                     n \in DOMAIN ks /\ ks[n] \in Others /\ Hash[ks[n]] = h
    <3>1. /\ Distinct(oHash[h])
          /\ \A n : Has(oHash[h], n) <=>
                n \in DOMAIN keys /\ keys[n] \in Others /\ Hash[keys[n]] = h
      BY <1>1 DEF BucketsAre
    <3>2. /\ Distinct(oHash'[h])
          /\ \A n : Has(oHash'[h], n) <=> Has(oHash[h], n) /\ ~(h = Hash[k] /\ n = s)
      <4>1. CASE h = Hash[k]
        BY <2>5, <2>6, <4>1 DEF bucket
      <4>2. CASE h # Hash[k]
        <5>1. oHash'[h] = oHash[h]
          BY <2>6, <4>2
        <5>. QED  BY <3>1, <4>2, <5>1
      <4>. QED  BY <4>1, <4>2
    <3>3. ASSUME NEW n
          PROVE  Has(oHash'[h], n) <=>
                    n \in DOMAIN ks /\ ks[n] \in Others /\ Hash[ks[n]] = h
      <4>1. CASE n = s
        BY <1>2, <3>1, <3>2, <4>1
      <4>2. CASE n # s
        BY <3>1, <3>2, <4>2
      <4>. QED  BY <4>1, <4>2
    <3>. QED  BY <3>2, <3>3
  <2>8. ASSUME NEW t \in Strs, NEW n \in Nat \ {0}
        PROVE  index[t] = n <=> n \in DOMAIN ks /\ ks[n] = t
    <3>1. index[t] = n <=> n \in DOMAIN keys /\ keys[n] = t
      BY <1>1 DEF IndexIs
    <3>. QED  BY <1>2, <1>5, <3>1
  <2>. QED  BY <1>1, <2>1, <2>6, <2>7, <2>8 DEF IndexIs, BucketsAre
<1>. QED  BY <1>4, <1>5

(* What compact makes of two slices.                                       *)
LEMMA CompactIs ==
    ASSUME NEW ks \in Seq(KeySet), NEW vs \in Seq(ValSet), Len(vs) = Len(ks),
           KeysOnce(ks), Di!Compact(ks, vs)
    PROVE  /\ Tables(keys', vals', index', oHash')
           /\ dead' = 0 /\ Len(keys') \in Nat
           /\ Len(keys') = Len(Di!LiveSlots(keys'))
           /\ View(keys', vals') = View(ks, vs)
<1>. DEFINE live == Di!LiveSlots(ks)
            Where(t) == Di!SelectInSeq(live, LAMBDA n : ks[n] = t)
            Those(h) == {n \in DOMAIN live : ks[live[n]] \in Others /\ Hash[ks[live[n]]] = h}
<1>1. /\ keys' = [n \in DOMAIN live |-> ks[live[n]]]
      /\ vals' = [n \in DOMAIN live |-> vs[live[n]]]
      /\ index' = [t \in Strs |-> Where(t)]
      /\ oHash' = [h \in Di!Hashes |-> Di!InOrder(Those(h))]
      /\ dead' = 0
  BY DEF Di!Compact
<1>. HIDE DEF live
<1>2. /\ Len(live) \in Nat /\ DOMAIN live = 1..Len(live)
      /\ \A i \in 1..Len(live) : live[i] \in DOMAIN ks /\ ks[live[i]] # Deleted
      /\ View(ks, vs) = [n \in 1..Len(live) |-> [key |-> ks[live[n]], val |-> vs[live[n]]]]
  BY ViewIs DEF live
<1>3. \A i, j \in 1..Len(live) : live[i] = live[j] => i = j
  <2>1. Enumerates(live, Slots(ks))
    BY LiveIs DEF live
  <2>. QED  BY <2>1, Once
<1>4. \A i \in 1..Len(live) : ks[live[i]] \in KeySet /\ vs[live[i]] \in ValSet
  <2>1. DOMAIN ks = 1..Len(ks) /\ \A n \in 1..Len(ks) : ks[n] \in KeySet /\ vs[n] \in ValSet
    BY LenProperties, ElementOfSeq
  <2>. QED  BY <1>2, <2>1
<1>. DEFINE len == Len(live)
<1>5. /\ keys' \in Seq(KeySet) /\ Len(keys') = len /\ DOMAIN keys' = 1..len
      /\ \A n \in 1..len : keys'[n] = ks[live[n]]
  BY <1>1, <1>2, <1>4
<1>6. /\ vals' \in Seq(ValSet) /\ Len(vals') = len
      /\ \A n \in 1..len : vals'[n] = vs[live[n]]
  BY <1>1, <1>2, <1>4
<1>7. KeysOnce(keys')
  BY <1>2, <1>3, <1>5 DEF KeysOnce
<1>8. ASSUME NEW t \in Strs
      PROVE  /\ Where(t) \in Nat
             /\ \A n \in Nat \ {0} : Where(t) = n <=> n \in 1..len /\ ks[live[n]] = t
  <2>. DEFINE I == {n \in 1..Len(live) : ks[live[n]] = t}
  <2>1. Where(t) = IF I # {} THEN Di!Min(I) ELSE 0
    BY DEF Di!SelectInSeq
  <2>2. I \subseteq Nat /\ \A m, n \in I : m = n
    <3>1. ASSUME NEW m \in I, NEW n \in I  PROVE m = n
      <4>1. /\ m \in 1..Len(live) /\ n \in 1..Len(live) /\ ks[live[m]] = ks[live[n]]
        OBVIOUS
      <4>2. live[m] = live[n]
        BY <1>2, <4>1 DEF KeysOnce
      <4>. QED  BY <1>3, <4>1, <4>2
    <3>2. I \subseteq Nat
      BY <1>2
    <3>. QED  BY <3>1, <3>2
  <2>. HIDE DEF Where
  <2>3. CASE I = {}
    BY <2>1, <2>3
  <2>4. CASE I # {}
    <3>. HIDE DEF I
    <3>1. Where(t) \in I
      BY <2>1, <2>2, <2>4, LeastIs
    <3>. QED  BY <1>2, <2>2, <3>1 DEF I
  <2>. QED  BY <2>3, <2>4
<1>9. index' \in [Strs -> Nat] /\ IndexIs(keys', index')
  <2>. HIDE DEF Where
  <2>1. index' \in [Strs -> Nat]
    BY <1>1, <1>8
  <2>2. ASSUME NEW t \in Strs, NEW n \in Nat \ {0}
        PROVE  index'[t] = n <=> n \in DOMAIN keys' /\ keys'[n] = t
    <3>1. index'[t] = Where(t)
      BY <1>1
    <3>2. Where(t) = n <=> n \in 1..len /\ ks[live[n]] = t
      BY <1>8
    <3>. QED  BY <1>5, <3>1, <3>2
  <2>. QED  BY <2>1, <2>2 DEF IndexIs
<1>10. ASSUME NEW h \in Di!Hashes
       PROVE  /\ oHash'[h] \in Seq(Nat) /\ Distinct(oHash'[h])
              /\ \A n : Has(oHash'[h], n) <=>
                    n \in DOMAIN keys' /\ keys'[n] \in Others /\ Hash[keys'[n]] = h
  <2>1. Those(h) \in SUBSET (1..len) /\ oHash'[h] = Di!InOrder(Those(h))
    BY <1>1, <1>2
  <2>2. Enumerates(oHash'[h], Those(h))
    BY <1>2, <2>1, InOrderIs
  <2>3. \A n : n \in Those(h) <=>
            n \in DOMAIN keys' /\ keys'[n] \in Others /\ Hash[keys'[n]] = h
    BY <1>2, <1>5
  <2>4. Distinct(oHash'[h])
    BY <2>2, Once DEF Distinct
  <2>5. \A n : Has(oHash'[h], n) <=> n \in Those(h)
    BY <2>2, Once DEF Enumerates, Has
  <2>. QED  BY <2>2, <2>3, <2>4, <2>5 DEF Enumerates
<1>11. oHash' \in [Di!Hashes -> Seq(Nat)] /\ BucketsAre(keys', oHash')
  BY <1>1, <1>10 DEF BucketsAre
<1>12. Tables(keys', vals', index', oHash')
  BY <1>5, <1>6, <1>7, <1>9, <1>11 DEF Tables
<1>. DEFINE all == [n \in 1..len |-> n]
<1>13. Enumerates(all, Slots(keys'))
  <2>1. all \in Seq(Nat) /\ Len(all) = len
    BY <1>2
  <2>2. Slots(keys') = 1..len
    BY <1>2, <1>5 DEF Slots
  <2>. QED  BY <2>1, <2>2 DEF Enumerates
<1>14. Di!LiveSlots(keys') = all
  BY <1>13, Ordered DEF Di!LiveSlots, Slots
<1>15. View(keys', vals') = View(ks, vs)
  BY <1>2, <1>5, <1>6, <1>14 DEF View
<1>. QED  BY <1>1, <1>2, <1>5, <1>12, <1>14, <1>15

LEMMA DeleteKeeps ==
    ASSUME DictInv, NEW k \in Di!Keys, Di!Delete(k)
    PROVE  DictInv' /\ Di!Map!Delete(k)
<1>. DEFINE s == Di!Slot(k)
            ks == [keys EXCEPT ![s] = Deleted]
            vs == [vals EXCEPT ![s] = Deleted]
<1>1. /\ s # 0
      /\ \/ Di!Compact(ks, vs)
         \/ keys' = ks /\ vals' = vs /\ dead' = dead + 1 /\ Di!Forget(k)
  BY DEF Di!Delete
<1>2. Tombstone(k, s, ks, vs)
  BY <1>1, Buried
<1>. USE DEF Tombstone
<1>3. DictInv' /\ Entries' = View(ks, vs)
  <2>1. CASE Di!Compact(ks, vs)
    <3>. HIDE DEF ks, vs
    <3>1. /\ Tables(keys', vals', index', oHash')
          /\ dead' = 0 /\ Len(keys') \in Nat
          /\ Len(keys') = Len(Di!LiveSlots(keys'))
          /\ View(keys', vals') = View(ks, vs)
      BY <1>2, <2>1, CompactIs
    <3>. QED  BY <3>1, DictNext
  <2>2. CASE keys' = ks /\ vals' = vs /\ dead' = dead + 1 /\ Di!Forget(k)
    <3>. HIDE DEF ks, vs, s
    <3>1. /\ index' \in [Strs -> Nat] /\ oHash' \in [Di!Hashes -> Seq(Nat)]
          /\ IndexIs(ks, index') /\ BucketsAre(ks, oHash')
      BY <1>1, <1>2, <2>2, ForgetKeeps DEF s
    <3>2. Tables(keys', vals', index', oHash')
      BY <1>2, <2>2, <3>1 DEF Tables
    <3>3. /\ dead \in Nat /\ Len(keys) \in Nat /\ Len(keys) - dead = Len(Di!LiveSlots(keys))
      BY LiveIs DEF DictInv, Tables
    <3>4. dead' \in Nat /\ Len(keys') - dead' = Len(Di!LiveSlots(keys'))
      BY <1>2, <2>2, <3>3
    <3>. QED  BY <2>2, <3>2, <3>4, DictNext
  <2>. QED  BY <1>1, <2>1, <2>2
<1>4. Di!Map!Delete(k)
  BY <1>2, <1>3 DEF Di!Map!Delete, Entries, View, Di!Live
<1>. QED  BY <1>3, <1>4

LEMMA EmptyDict ==
    /\ Tables(<<>>, <<>>, Di!NoIndex, Di!NoHash)
    /\ Di!LiveSlots(<<>>) = <<>> /\ View(<<>>, <<>>) = <<>>
<1>1. <<>> \in Seq(KeySet) /\ <<>> \in Seq(ValSet) /\ Len(<<>>) = 0 /\ DOMAIN <<>> = {}
  BY EmptySeq
<1>2. Tables(<<>>, <<>>, Di!NoIndex, Di!NoHash)
  <2>1. Di!NoIndex \in [Strs -> Nat] /\ \A t \in Strs : Di!NoIndex[t] = 0
    BY DEF Di!NoIndex
  <2>2. Di!NoHash \in [Di!Hashes -> Seq(Nat)] /\ \A h \in Di!Hashes : Di!NoHash[h] = <<>>
    BY EmptySeq DEF Di!NoHash
  <2>. QED  BY <1>1, <2>1, <2>2 DEF Tables, KeysOnce, IndexIs, BucketsAre, Distinct, Has
<1>3. Di!LiveSlots(<<>>) = <<>>
  <2>1. Slots(<<>>) = {}
    BY <1>1 DEF Slots
  <2>2. Di!InOrder({}) = <<>>
    BY NoneInOrder, Ordered
  <2>. QED  BY <2>1, <2>2 DEF Di!LiveSlots, Slots
<1>4. View(<<>>, <<>>) = <<>>
  <2>1. ASSUME NEW t, t = <<>>  PROVE View(t, t) \in Seq(EntrySet) /\ Len(View(t, t)) = 0
    <3>1. t \in Seq(KeySet) /\ t \in Seq(ValSet) /\ Di!LiveSlots(t) = t /\ Len(t) = 0
      BY <1>1, <1>3, <2>1
    <3>. HIDE <2>1
    <3>. QED  BY <3>1, ViewIs
  <2>2. View(<<>>, <<>>) \in Seq(EntrySet) /\ Len(View(<<>>, <<>>)) = 0
    BY <2>1
  <2>3. \A e \in Seq(EntrySet) : Len(e) = 0 => e = <<>>
    BY EmptySeq
  <2>. QED  BY <2>2, <2>3
<1>. QED  BY <1>2, <1>3, <1>4

LEMMA DictCreated == ASSUME Di!Init  PROVE DictInv /\ Di!Map!Init
<1>1. /\ keys = <<>> /\ vals = <<>> /\ index = Di!NoIndex /\ oHash = Di!NoHash /\ dead = 0
  BY DEF Di!Init
<1>2. Entries = <<>>
  BY <1>1, EmptyDict DEF Entries
<1>3. DictInv
  BY <1>1, EmptyDict, EmptySeq DEF DictInv
<1>. QED  BY <1>2, <1>3 DEF Di!Map!Init, Entries, View, Di!Live

LEMMA DictKept == ASSUME DictInv, Di!Next  PROVE DictInv' /\ Di!Map!Next
<1>1. ASSUME NEW k \in Di!Keys, NEW v \in Vals, Di!Set(k, v)
      PROVE  DictInv' /\ Di!Map!Set(k, v)
  BY <1>1, AddSlotKeeps, ReplaceKeeps DEF Di!Set
<1>2. ASSUME Di!Clear  PROVE DictInv' /\ Di!Map!Clear
  <2>1. /\ keys' = <<>> /\ vals' = <<>> /\ index' = Di!NoIndex /\ oHash' = Di!NoHash
        /\ dead' = 0
    BY <1>2 DEF Di!Clear
  <2>2. /\ Tables(keys', vals', index', oHash') /\ dead' \in Nat
        /\ Len(keys') - dead' = Len(Di!LiveSlots(keys'))
    BY <2>1, EmptyDict, EmptySeq
  <2>3. DictInv' /\ Entries' = <<>>
    BY <2>1, <2>2, DictNext, EmptyDict
  <2>. QED  BY <2>3 DEF Di!Map!Clear, Entries, View, Di!Live
<1>. QED  BY <1>1, <1>2, DeleteKeeps DEF Di!Next, Di!Map!Next

LEMMA DictStep == ASSUME DictInv, [Step]_runtime  PROVE DictInv' /\ [Di!Map!Next]_Entries
<1>1. CASE Di!Next
  BY <1>1, DictKept
<1>2. CASE UNCHANGED mapping
  <2>1. UNCHANGED <<keys, vals, index, oHash, dead>>
    BY <1>2 DEF mapping
  <2>2. DictInv' /\ Entries' = View(keys', vals')
    <3>1. /\ Tables(keys', vals', index', oHash') /\ dead' \in Nat
          /\ Len(keys') - dead' = Len(Di!LiveSlots(keys'))
      BY <2>1 DEF DictInv
    <3>. QED  BY <3>1, DictNext
  <2>. QED  BY <2>1, <2>2 DEF Entries
<1>. QED  BY <1>1, <1>2 DEF Step, runtime

(* The dict implements an ordered mapping: however deletions leave         *)
(* tombstones, keys collide and compact moves the rest, what is in it is   *)
(* the entries in the order in which their keys came, and its length is    *)
(* their number; for every set of keys, hash function and threshold.       *)
THEOREM DictIsAMap == RuntimeSpec => ImplementsMap
<1>. DEFINE LengthIs == Len(keys) - dead = Len(Di!Live)
<1>1. ASSUME Create  PROVE DictInv /\ Di!Map!Init
  BY <1>1, DictCreated DEF Create
<1>2. ASSUME DictInv, [Step]_runtime  PROVE DictInv' /\ [Di!Map!Next]_Entries
  BY <1>2, DictStep
<1>3. ASSUME DictInv  PROVE LengthIs
  BY <1>3 DEF DictInv, Di!Live
<1>. QED  BY <1>1, <1>2, <1>3, PTL
          DEF ImplementsMap, Di!ImplementsMap, Di!Map!Spec, RuntimeSpec, Entries, View, Di!Live

-----------------------------------------------------------------------------
(* The set *)

USE HashOfAssumption

IInv == TypeOK /\ PlacesAreExact

(* Bucket h holds the places of the elements with hash h, each once.       *)
Exact(h) ==
    /\ Distinct(places[h])
    /\ \A n : Has(places[h], n) <=> n \in DOMAIN items /\ HashOf[items[n]] = h

(* PlacesAreExact, put so that the lemmas on sequences apply.              *)
LEMMA Restated ==
    ASSUME TypeOK
    PROVE  PlacesAreExact <=> Distinct(items) /\ \A h \in Buckets : Exact(h)
<1>1. ASSUME PlacesAreExact  PROVE Distinct(items) /\ \A h \in Buckets : Exact(h)
  BY <1>1 DEF PlacesAreExact, Distinct, Has, Exact
<1>2. ASSUME Distinct(items), \A h \in Buckets : Exact(h)  PROVE PlacesAreExact
  BY <1>2 DEF PlacesAreExact, Distinct, Has, Exact
<1>. QED  BY <1>1, <1>2

LEMMA RestatedNext ==
    ASSUME TypeOK'
    PROVE  PlacesAreExact' <=> Distinct(items)' /\ \A h \in Buckets : Exact(h)'
<1>1. ASSUME PlacesAreExact'  PROVE Distinct(items)' /\ \A h \in Buckets : Exact(h)'
  BY <1>1 DEF PlacesAreExact, Distinct, Has, Exact
<1>2. ASSUME Distinct(items)', \A h \in Buckets : Exact(h)'  PROVE PlacesAreExact'
  BY <1>2 DEF PlacesAreExact, Distinct, Has, Exact
<1>. QED  BY <1>1, <1>2

(* A new element: no place of its bucket leads to it, so it is nowhere.    *)
LEMMA AddKeeps ==
    ASSUME IInv, NEW e \in Elements, Add(e)
    PROVE  IInv'
<1>. DEFINE h == HashOf[e]
            new == Len(items) + 1
<1>1. /\ Distinct(items) /\ \A g \in Buckets : Exact(g)
      /\ items \in Seq(Elements) /\ h \in Buckets
      /\ \A g \in Buckets : places[g] \in Seq(Nat \ {0})
  BY Restated DEF IInv, TypeOK, Buckets
<1>2. /\ DOMAIN items = 1..Len(items) /\ Len(items) \in Nat
      /\ new \in Nat \ {0} /\ new \notin DOMAIN items
  BY <1>1, LenProperties
<1>3. ~Has(items, e)
  <2>1. ASSUME NEW n \in DOMAIN items, items[n] = e  PROVE FALSE
    <3>1. Has(places[h], n)
      BY <1>1, <2>1 DEF Exact
    <3>2. PICK j \in DOMAIN places[h] : places[h][j] = n
      BY <3>1 DEF Has
    <3>. QED  BY <2>1, <3>2 DEF Add, IsMember, LeadsTo
  <2>. QED  BY <2>1 DEF Has
<1>4. \A g \in Buckets : ~Has(places[g], new)
  BY <1>1, <1>2 DEF Exact
<1>5. /\ items' \in Seq(Elements) /\ Distinct(items)'
      /\ DOMAIN items' = 1..new /\ items'[new] = e
      /\ \A n \in DOMAIN items : items'[n] = items[n]
  <2>1. items' = Append(items, e)
    BY DEF Add
  <2>2. /\ items' \in Seq(Elements) /\ Len(items') = new /\ items'[new] = e
        /\ \A n \in DOMAIN items : items'[n] = items[n]
    BY <1>1, <1>2, <2>1, AppendProperties
  <2>3. Distinct(items')
    BY <1>1, <1>3, <2>1, Longer
  <2>. QED  BY <2>2, <2>3, LenProperties DEF Distinct
<1>6. /\ Append(places[h], new) \in Seq(Nat \ {0})
      /\ Distinct(Append(places[h], new))
      /\ \A v : Has(Append(places[h], new), v) <=> Has(places[h], v) \/ v = new
  BY <1>1, <1>2, <1>4, Longer DEF Exact
<1>7. \A g \in Buckets :
         places'[g] = IF g = h THEN Append(places[h], new) ELSE places[g]
  BY <1>1 DEF Add, IInv, TypeOK
<1>8. TypeOK'
  BY <1>1, <1>5, <1>6 DEF Add, IInv, TypeOK
<1>9. ASSUME NEW g \in Buckets  PROVE Exact(g)'
  <2>1. \A n : n \in DOMAIN items' <=> n \in DOMAIN items \/ n = new
    BY <1>2, <1>5
  <2>2. CASE g = h
    <3>. DEFINE b == Append(places[h], new)
    <3>1. places'[g] = b /\ Distinct(b)
      BY <1>6, <1>7, <2>2
    <3>2. \A n : Has(b, n) <=> (n \in DOMAIN items /\ HashOf[items[n]] = h) \/ n = new
      BY <1>1, <1>6 DEF Exact
    <3>. HIDE DEF b
    <3>3. \A n : Has(b, n) <=> n \in DOMAIN items' /\ HashOf[items'[n]] = h
      BY <1>2, <1>5, <2>1, <3>2
    <3>. QED  BY <2>2, <3>1, <3>3 DEF Exact, Distinct, Has
  <2>3. CASE g # h
    BY <1>1, <1>2, <1>5, <1>7, <2>1, <2>3 DEF Exact, Distinct, Has
  <2>. QED  BY <2>2, <2>3
<1>. QED  BY <1>5, <1>8, <1>9, RestatedNext DEF IInv

(* What discard finds in the bucket leads to the element: nothing before   *)
(* it does, since the element is in the slice only once.                   *)
LEMMA Found ==
    ASSUME IInv, NEW e \in Elements, IsMember(e)
    PROVE  LeadsTo(InBucket(e), e)
<1>1. PICK n \in DOMAIN places[HashOf[e]] : LeadsTo(n, e)
  BY DEF IsMember
<1>2. /\ places[HashOf[e]] \in Seq(Nat \ {0})
      /\ HashOf[e] \in Buckets
  BY DEF IInv, TypeOK, Buckets
<1>3. n \in Nat
  BY <1>2, LenProperties
<1>4. ASSUME NEW m \in 1..n - 1, LeadsTo(m, e)  PROVE FALSE
  BY <1>1, <1>2, <1>3, <1>4 DEF IInv, PlacesAreExact, LeadsTo
<1>. QED  BY <1>1, <1>4 DEF InBucket

(* The indices below the last one.                                         *)
LEMMA BelowTheLast ==
    ASSUME NEW length \in Nat, NEW hole \in 1..length
    PROVE  /\ length - 1 \in Nat
           /\ \A n \in 1..length - 1 : n \in 1..length /\ n # length
OBVIOUS

(* The slice after discard: the last element is where the hole was.        *)
LEMMA Filled ==
    ASSUME NEW s \in Seq(Elements), NEW hole \in 1..Len(s), Distinct(s)
    PROVE  /\ Front([s EXCEPT ![hole] = s[Len(s)]]) \in Seq(Elements)
           /\ Distinct(Front([s EXCEPT ![hole] = s[Len(s)]]))
           /\ DOMAIN Front([s EXCEPT ![hole] = s[Len(s)]]) = 1..Len(s) - 1
           /\ \A n \in 1..Len(s) - 1 :
                 Front([s EXCEPT ![hole] = s[Len(s)]])[n] =
                    IF n = hole THEN s[Len(s)] ELSE s[n]
<1>. DEFINE u == [s EXCEPT ![hole] = s[Len(s)]]
            k == Len(s) - 1
            t == SubSeq(u, 1, k)
<1>1. /\ Len(s) \in Nat /\ DOMAIN s = 1..Len(s)
      /\ \A n \in 1..Len(s) : s[n] \in Elements
  BY LenProperties, ElementOfSeq
<1>2. /\ Len(s) \in 1..Len(s)
      /\ \A n \in 1..Len(s) : u[n] = IF n = hole THEN s[Len(s)] ELSE s[n]
  BY <1>1
<1>3. Len(u) = Len(s)
  BY <1>1, <1>2, ExceptSeq
<1>4. Front(u) = t
  <2>1. Front(u) = SubSeq(u, 1, Len(u) - 1)
    BY DEF Front
  <2>. QED  BY <1>3, <2>1
<1>5. k \in Nat /\ \A n \in 1..k : n \in 1..Len(s) /\ n # Len(s)
  BY <1>1, BelowTheLast
<1>. HIDE DEF u
<1>6. \A n \in 1..k : u[n] \in Elements
  BY <1>1, <1>2
<1>. HIDE DEF k
<1>7. /\ t \in Seq(Elements) /\ Len(t) = k
      /\ \A n \in 1..k : t[n] = u[n]
  BY <1>5, <1>6, ButLast
<1>. HIDE DEF t
<1>8. DOMAIN t = 1..k
  BY <1>7, LenProperties
<1>9. \A n \in 1..k : t[n] = IF n = hole THEN s[Len(s)] ELSE s[n]
  BY <1>2, <1>5, <1>7
<1>10. Distinct(t)
  <2>1. ASSUME NEW m \in 1..k, NEW n \in 1..k, t[m] = t[n]
        PROVE  m = n
    <3>1. /\ m \in DOMAIN s /\ n \in DOMAIN s /\ Len(s) \in DOMAIN s
          /\ m # Len(s) /\ n # Len(s)
      BY <1>1, <1>2, <1>5
    <3>2. \A i, j \in DOMAIN s : s[i] = s[j] => i = j
      BY DEF Distinct
    <3>3. /\ t[m] = IF m = hole THEN s[Len(s)] ELSE s[m]
          /\ t[n] = IF n = hole THEN s[Len(s)] ELSE s[n]
      BY <1>9
    <3>. QED  BY <2>1, <3>1, <3>2, <3>3
  <2>. QED  BY <1>8, <2>1 DEF Distinct
<1>. QED  BY <1>4, <1>7, <1>8, <1>9, <1>10 DEF u, k

(* The bucket of the element loses the hole; then the bucket of the last   *)
(* element, which may be the same one, leads to the hole instead of the    *)
(* end of the slice.                                                       *)
LEMMA DiscardKeeps ==
    ASSUME IInv, NEW e \in Elements, Discard(e)
    PROVE  IInv'
<1>. DEFINE h == HashOf[e]
            hole == places[h][InBucket(e)]
            last == Len(items)
            moved == items[last]
            rest == [places EXCEPT ![h] = RemoveAt(@, InBucket(e))]
<1>1. /\ Distinct(items) /\ \A g \in Buckets : Exact(g)
      /\ items \in Seq(Elements) /\ h \in Buckets
      /\ places \in [Buckets -> Seq(Nat \ {0})]
  BY Restated DEF IInv, TypeOK, Buckets
<1>2. DOMAIN items = 1..last /\ last \in Nat
  BY <1>1, LenProperties
<1>3. /\ InBucket(e) \in 1..Len(places[h])
      /\ hole \in 1..last /\ items[hole] = e
  <2>1. InBucket(e) \in DOMAIN places[h] /\ items[hole] = e
    BY Found DEF Discard, LeadsTo
  <2>2. Has(places[h], hole)
    BY <2>1 DEF Has
  <2>. QED  BY <1>1, <1>2, <2>1, <2>2, LenProperties DEF Exact
<1>4. /\ items' = Front([items EXCEPT ![hole] = moved])
      /\ places' = IF hole = last THEN rest
                   ELSE Follow(rest, HashOf[moved], last, hole)
  BY DEF Discard
<1>5. last \in 1..last /\ moved \in Elements /\ HashOf[moved] \in Buckets
  BY <1>1, <1>2, <1>3, ElementOfSeq DEF Buckets
<1>6. /\ items' \in Seq(Elements) /\ Distinct(items')
      /\ DOMAIN items' = 1..last - 1
      /\ \A n \in 1..last - 1 : items'[n] = IF n = hole THEN moved ELSE items[n]
  <2>1. /\ Front([items EXCEPT ![hole] = items[last]]) \in Seq(Elements)
        /\ Distinct(Front([items EXCEPT ![hole] = items[last]]))
        /\ DOMAIN Front([items EXCEPT ![hole] = items[last]]) = 1..last - 1
        /\ \A n \in 1..last - 1 :
              Front([items EXCEPT ![hole] = items[last]])[n] =
                 IF n = hole THEN items[last] ELSE items[n]
    <3>. HIDE DEF hole
    <3>. QED  BY <1>1, <1>3, Filled
  <2>. HIDE DEF hole, last
  <2>. QED  BY <1>4, <2>1
<1>7. /\ RemoveAt(places[h], InBucket(e)) \in Seq(Nat \ {0})
      /\ Distinct(RemoveAt(places[h], InBucket(e)))
      /\ \A v : Has(RemoveAt(places[h], InBucket(e)), v) <=>
                   Has(places[h], v) /\ v # hole
  BY <1>1, <1>3, TakenAwayOnce DEF Exact
<1>8. /\ rest \in [Buckets -> Seq(Nat \ {0})]
      /\ \A g \in Buckets :
            rest[g] = IF g = h THEN RemoveAt(places[h], InBucket(e)) ELSE places[g]
  BY <1>1, <1>7
<1>. HIDE DEF hole, last, moved, rest
<1>9. \A g \in Buckets :
         /\ Distinct(rest[g])
         /\ \A v : Has(rest[g], v) <=> v \in 1..last /\ HashOf[items[v]] = g /\ v # hole
  <2>1. ASSUME NEW g \in Buckets, g = h
        PROVE  /\ Distinct(rest[g])
               /\ \A v : Has(rest[g], v) <=>
                            v \in 1..last /\ HashOf[items[v]] = g /\ v # hole
    BY <1>1, <1>2, <1>7, <1>8, <2>1 DEF Exact
  <2>2. ASSUME NEW g \in Buckets, g # h
        PROVE  /\ Distinct(rest[g])
               /\ \A v : Has(rest[g], v) <=>
                            v \in 1..last /\ HashOf[items[v]] = g /\ v # hole
    BY <1>1, <1>2, <1>3, <1>8, <2>2 DEF Exact
  <2>. QED  BY <2>1, <2>2
<1>10. CASE hole = last
  <2>1. places' = rest
    BY <1>4, <1>10
  <2>2. TypeOK'
    BY <1>6, <1>8, <2>1 DEF TypeOK
  <2>3. ASSUME NEW g \in Buckets
        PROVE  \A v : Has(rest[g], v) <=> v \in DOMAIN items' /\ HashOf[items'[v]] = g
    <3>1. \A v : v \in 1..last /\ v # hole <=> v \in 1..last - 1
      BY <1>2, <1>10
    <3>2. \A v \in 1..last - 1 : v # hole /\ items'[v] = items[v]
      BY <1>6, <3>1
    <3>. QED  BY <1>6, <1>9, <3>1, <3>2
  <2>4. ASSUME NEW g \in Buckets  PROVE Exact(g)'
    BY <1>9, <2>1, <2>3 DEF Exact, Distinct, Has
  <2>. QED  BY <1>6, <2>2, <2>4, RestatedNext DEF IInv, Distinct
<1>11. CASE hole # last
  <2>. DEFINE g2 == HashOf[moved]
              b == Rename(rest[g2], last, hole)
  <2>1. \A g \in Buckets : places'[g] = IF g = g2 THEN b ELSE rest[g]
    BY <1>4, <1>5, <1>8, <1>11 DEF Follow, Rename
  <2>2. Has(rest[g2], last) /\ ~Has(rest[g2], hole)
    BY <1>5, <1>9, <1>11 DEF moved
  <2>3. /\ b \in Seq(Nat \ {0}) /\ Distinct(b)
        /\ \A v : Has(b, v) <=> v = hole \/ (Has(rest[g2], v) /\ v # last)
    <3>1. last \in Nat \ {0} /\ hole \in Nat \ {0}
      BY <1>2, <1>3, <1>5
    <3>2. rest[g2] \in Seq(Nat \ {0}) /\ Distinct(rest[g2])
      BY <1>5, <1>8, <1>9
    <3>. DEFINE r == rest[g2]
    <3>3. /\ r \in Seq(Nat \ {0}) /\ Distinct(r)
          /\ Has(r, last) /\ ~Has(r, hole)
      BY <2>2, <3>2
    <3>. HIDE DEF r
    <3>4. /\ Rename(r, last, hole) \in Seq(Nat \ {0}) /\ Distinct(Rename(r, last, hole))
          /\ \A v : Has(Rename(r, last, hole), v) <=> v = hole \/ (Has(r, v) /\ v # last)
      BY <3>1, <3>3, Renamed
    <3>. QED  BY <3>4 DEF r
  <2>4. places' \in [Buckets -> Seq(Nat \ {0})]
    <3>1. places' = [rest EXCEPT ![g2] = b]
      BY <1>4, <1>5, <1>8, <1>11 DEF Follow, Rename
    <3>. HIDE DEF b
    <3>. QED  BY <1>5, <1>8, <2>3, <3>1
  <2>5. TypeOK'
    BY <1>6, <2>4 DEF TypeOK
  <2>. HIDE DEF b
  <2>6. /\ hole \in 1..last - 1
         /\ \A v : v \in 1..last - 1 <=> v \in 1..last /\ v # last
    BY <1>2, <1>3, <1>11
  <2>7. ASSUME NEW g \in Buckets, g = g2
        PROVE  \A v : Has(b, v) <=> v \in DOMAIN items' /\ HashOf[items'[v]] = g
    <3>1. \A v : Has(b, v) <=>
               v = hole \/ (v \in 1..last /\ HashOf[items[v]] = g2 /\ v # hole /\ v # last)
      BY <1>5, <1>9, <2>3
    <3>. QED  BY <1>6, <2>6, <2>7, <3>1
  <2>8. ASSUME NEW g \in Buckets, g # g2
        PROVE  \A v : Has(rest[g], v) <=> v \in DOMAIN items' /\ HashOf[items'[v]] = g
    <3>1. \A v : Has(rest[g], v) <=>
               v \in 1..last /\ HashOf[items[v]] = g /\ v # hole
      BY <1>9
    <3>2. HashOf[items[last]] # g
      BY <2>8 DEF moved
    <3>. QED  BY <1>6, <2>6, <2>8, <3>1, <3>2
  <2>9. ASSUME NEW g \in Buckets  PROVE Exact(g)'
    <3>1. CASE g = g2
      BY <2>1, <2>3, <2>7, <3>1 DEF Exact, Distinct, Has
    <3>2. CASE g # g2
      BY <1>9, <2>1, <2>8, <3>2 DEF Exact, Distinct, Has
    <3>. QED  BY <3>1, <3>2
  <2>. QED  BY <1>6, <2>5, <2>9, RestatedNext DEF IInv, Distinct
<1>. QED  BY <1>10, <1>11

-----------------------------------------------------------------------------

(* IInv is an invariant: it holds at first and every step preserves it.    *)
THEOREM Invariance == Spec => []IInv
<1>1. Init => IInv
  BY EmptySeq DEF Init, IInv, TypeOK, PlacesAreExact
<1>2. IInv /\ [Next]_setVars => IInv'
  <2> SUFFICES ASSUME IInv, [Next]_setVars
               PROVE  IInv'
    OBVIOUS
  <2>1. CASE UNCHANGED setVars
    BY <2>1 DEF setVars, IInv, TypeOK, PlacesAreExact
  <2>2. ASSUME NEW e \in Elements, Add(e)
        PROVE  IInv'
    BY <2>2, AddKeeps
  <2>3. ASSUME NEW e \in Elements, Discard(e)
        PROVE  IInv'
    BY <2>3, DiscardKeeps
  <2> QED
    BY <2>1, <2>2, <2>3 DEF Next
<1> QED
  BY <1>1, <1>2, PTL DEF Spec

(* Slice and buckets of a set lead to each other exactly, after any        *)
(* sequence of add and discard.                                            *)
THEOREM Exactness == Spec => []PlacesAreExact
<1>1. IInv => PlacesAreExact
  BY DEF IInv
<1> QED
  BY <1>1, Invariance, PTL

(* And so it is in the interpreter, where no step of another part touches  *)
(* the set.                                                                *)
THEOREM SetsAreExact == RuntimeSpec => []PlacesAreExact
<1>1. Create => Init
  BY DEF Create
<1>2. [Step]_runtime => [Next]_setVars
  BY DEF Step, runtime
<1> QED
  BY <1>1, <1>2, Exactness, PTL DEF RuntimeSpec, Spec
================================================================================
