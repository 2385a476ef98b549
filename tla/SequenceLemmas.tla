---------------------------- MODULE SequenceLemmas ----------------------------
(***************************************************************************)
(* What the operators on sequences that the modules are built from return: *)
(* a sequence without its n-th element, with one element more, with one    *)
(* value renamed, without its end or without its beginning, or joined to   *)
(* another; and that every set of numbers that is not empty has a least    *)
(* one.                                                                    *)
(***************************************************************************)
EXTENDS Integers, SequencesExt, SequenceTheorems, WellFoundedInduction, TLAPS

Distinct(s) == \A m, n \in DOMAIN s : s[m] = s[n] => m = n
Has(s, v) == \E n \in DOMAIN s : s[n] = v
Rename(s, from, to) == [n \in DOMAIN s |-> IF s[n] = from THEN to ELSE s[n]]

(* A sequence without its n-th element.                                    *)
LEMMA TakenAway ==
    ASSUME NEW S, NEW s \in Seq(S), NEW n \in 1..Len(s)
    PROVE  /\ RemoveAt(s, n) \in Seq(S)
           /\ Len(RemoveAt(s, n)) = Len(s) - 1
           /\ \A i \in 1..Len(s) - 1 :
                 RemoveAt(s, n)[i] = IF i < n THEN s[i] ELSE s[i + 1]
<1>. DEFINE a == SubSeq(s, 1, n - 1)
            b == SubSeq(s, n + 1, Len(s))
<1>0. Len(s) \in Nat /\ \A i \in 1..Len(s) : s[i] \in S
  BY LenProperties, ElementOfSeq
<1>1. a \in Seq(S) /\ Len(a) = n - 1 /\ \A i \in 1..n - 1 : a[i] = s[i]
  BY <1>0, SubSeqProperties
<1>2. /\ b \in Seq(S) /\ Len(b) = Len(s) - n
      /\ \A i \in 1..Len(s) - n : b[i] = s[n + i]
  <2>1. \A i \in n + 1..Len(s) : s[i] \in S
    BY <1>0
  <2>2. /\ b \in Seq(S)
        /\ Len(b) = IF n + 1 <= Len(s) THEN Len(s) - (n + 1) + 1 ELSE 0
        /\ \A i \in 1..Len(s) - (n + 1) + 1 : b[i] = s[(n + 1) + i - 1]
    BY <1>0, <2>1, SubSeqProperties, n + 1 \in Int, Len(s) \in Int
  <2>3. Len(b) = Len(s) - n
    BY <1>0, <2>2
  <2>4. \A i \in 1..Len(s) - n : b[i] = s[n + i]
    <3>1. \A i \in Int : (n + 1) + i - 1 = n + i
      OBVIOUS
    <3>2. Len(s) - (n + 1) + 1 = Len(s) - n
      BY <1>0
    <3>. QED  BY <2>2, <3>1, <3>2
  <2>. QED  BY <2>2, <2>3, <2>4
<1>. HIDE DEF a, b
<1>3. /\ a \o b \in Seq(S) /\ Len(a \o b) = Len(a) + Len(b)
      /\ \A i \in 1..Len(a) + Len(b) :
            (a \o b)[i] = IF i <= Len(a) THEN a[i] ELSE b[i - Len(a)]
  BY <1>1, <1>2, ConcatProperties
<1>4. Len(a \o b) = Len(s) - 1
  BY <1>0, <1>1, <1>2, <1>3
<1>5. ASSUME NEW i \in 1..Len(s) - 1
      PROVE  (a \o b)[i] = IF i < n THEN s[i] ELSE s[i + 1]
  <2>1. CASE i < n
    <3>1. (a \o b)[i] = a[i]
      BY <1>0, <1>1, <1>2, <1>3, <2>1
    <3>. QED  BY <1>1, <2>1, <3>1
  <2>2. CASE i >= n
    <3>1. (a \o b)[i] = b[i - (n - 1)]
      BY <1>0, <1>1, <1>2, <1>3, <2>2
    <3>2. i - (n - 1) \in 1..Len(s) - n
      BY <1>0, <2>2
    <3>3. n + (i - (n - 1)) = i + 1
      OBVIOUS
    <3>. QED  BY <1>2, <2>2, <3>1, <3>2, <3>3
  <2>3. i < n \/ i >= n
    BY <1>0
  <2>. QED  BY <2>1, <2>2, <2>3
<1>. QED  BY <1>3, <1>4, <1>5 DEF RemoveAt, a, b

(* What it has: all the values but the one taken away.                     *)
LEMMA TakenAwayOnce ==
    ASSUME NEW S, NEW s \in Seq(S), NEW n \in 1..Len(s), Distinct(s)
    PROVE  /\ RemoveAt(s, n) \in Seq(S)
           /\ Distinct(RemoveAt(s, n))
           /\ \A v : Has(RemoveAt(s, n), v) <=> Has(s, v) /\ v # s[n]
<1>. DEFINE r == RemoveAt(s, n)
<1>1. /\ r \in Seq(S)
      /\ Len(r) = Len(s) - 1
      /\ \A i \in 1..Len(s) - 1 : r[i] = IF i < n THEN s[i] ELSE s[i + 1]
  BY TakenAway
<1>2. /\ Len(s) \in Nat /\ DOMAIN s = 1..Len(s)
      /\ DOMAIN r = 1..Len(s) - 1
  BY <1>1, LenProperties
<1>. HIDE DEF r
<1>3. Distinct(r)
  BY <1>1, <1>2 DEF Distinct
<1>4. ASSUME NEW v, Has(r, v)  PROVE Has(s, v) /\ v # s[n]
  <2>1. PICK i \in 1..Len(s) - 1 : r[i] = v
    BY <1>2, <1>4 DEF Has
  <2>2. PICK j \in 1..Len(s) : j # n /\ s[j] = v
    <3>1. CASE i < n
      BY <1>1, <1>2, <2>1, <3>1
    <3>2. CASE i >= n
      <4>1. i + 1 \in 1..Len(s) /\ i + 1 # n /\ r[i] = s[i + 1]
        BY <1>1, <1>2, <3>2
      <4>. QED  BY <2>1, <4>1
    <3>. QED  BY <1>2, <3>1, <3>2
  <2>. QED  BY <1>2, <2>2 DEF Distinct, Has
<1>5. ASSUME NEW v, Has(s, v), v # s[n]  PROVE Has(r, v)
  <2>1. PICK i \in 1..Len(s) : s[i] = v
    BY <1>2, <1>5 DEF Has
  <2>2. CASE i < n
    <3>1. i \in 1..Len(s) - 1 /\ r[i] = v
      BY <1>1, <1>2, <2>1, <2>2
    <3>. QED  BY <1>2, <3>1 DEF Has
  <2>3. CASE i > n
    <3>1. i - 1 \in 1..Len(s) - 1 /\ ~(i - 1 < n) /\ (i - 1) + 1 = i
      BY <1>2, <2>1, <2>3
    <3>2. r[i - 1] = v
      BY <1>1, <2>1, <3>1
    <3>. QED  BY <1>2, <3>1, <3>2 DEF Has
  <2>. QED  BY <1>5, <2>1, <2>2, <2>3
<1>. QED  BY <1>1, <1>3, <1>4, <1>5 DEF r

(* A sequence with one element more.                                       *)
LEMMA Longer ==
    ASSUME NEW S, NEW s \in Seq(S), NEW e \in S, Distinct(s), ~Has(s, e)
    PROVE  /\ Append(s, e) \in Seq(S)
           /\ Distinct(Append(s, e))
           /\ \A v : Has(Append(s, e), v) <=> Has(s, v) \/ v = e
<1>1. /\ Append(s, e) \in Seq(S)
      /\ Len(Append(s, e)) = Len(s) + 1
      /\ \A i \in 1..Len(s) : Append(s, e)[i] = s[i]
      /\ Append(s, e)[Len(s) + 1] = e
  BY AppendProperties
<1>2. /\ Len(s) \in Nat /\ DOMAIN s = 1..Len(s)
      /\ DOMAIN Append(s, e) = 1..Len(s) + 1
  BY <1>1, LenProperties
<1>3. \A i \in 1..Len(s) + 1 : i \in 1..Len(s) \/ i = Len(s) + 1
  BY <1>2
<1>4. Distinct(Append(s, e))
  BY <1>1, <1>2, <1>3 DEF Distinct, Has
<1>5. ASSUME NEW v, Has(Append(s, e), v)  PROVE Has(s, v) \/ v = e
  BY <1>1, <1>2, <1>3, <1>5 DEF Has
<1>6. ASSUME NEW v, Has(s, v) \/ v = e  PROVE Has(Append(s, e), v)
  <2>1. Len(s) + 1 \in 1..Len(s) + 1 /\ \A i \in 1..Len(s) : i \in 1..Len(s) + 1
    BY <1>2
  <2>. QED  BY <1>1, <1>2, <1>6, <2>1 DEF Has
<1>. QED  BY <1>1, <1>4, <1>5, <1>6

(* A sequence with one value renamed to a new one.                         *)
LEMMA Renamed ==
    ASSUME NEW S, NEW s \in Seq(S), NEW from \in S, NEW to \in S,
           Distinct(s), Has(s, from), ~Has(s, to)
    PROVE  /\ Rename(s, from, to) \in Seq(S)
           /\ Distinct(Rename(s, from, to))
           /\ \A v : Has(Rename(s, from, to), v) <=>
                        v = to \/ (Has(s, v) /\ v # from)
<1>. DEFINE r == [n \in DOMAIN s |-> IF s[n] = from THEN to ELSE s[n]]
<1>1. DOMAIN s = 1..Len(s) /\ Len(s) \in Nat /\ \A n \in DOMAIN s : s[n] \in S
  BY LenProperties, ElementOfSeq
<1>2. \A n \in 1..Len(s) : (IF s[n] = from THEN to ELSE s[n]) \in S
  BY <1>1
<1>3. r \in Seq(S)
  <2>1. r = [n \in 1..Len(s) |-> IF s[n] = from THEN to ELSE s[n]]
    BY <1>1
  <2>2. r \in [1..Len(s) -> S]
    BY <1>2, <2>1
  <2>. QED  BY <1>1, <2>2, SeqDef
<1>4. Distinct(r)
  BY DEF Distinct, Has
<1>5. ASSUME NEW v, Has(r, v)  PROVE v = to \/ (Has(s, v) /\ v # from)
  BY <1>5 DEF Has
<1>6. ASSUME NEW v, v = to \/ (Has(s, v) /\ v # from)  PROVE Has(r, v)
  <2>1. CASE v = to
    <3>1. PICK n \in DOMAIN s : s[n] = from
      BY DEF Has
    <3>2. n \in DOMAIN r /\ r[n] = to
      BY <3>1
    <3>. QED  BY <2>1, <3>2 DEF Has
  <2>2. CASE Has(s, v) /\ v # from
    <3>1. PICK n \in DOMAIN s : s[n] = v
      BY <2>2 DEF Has
    <3>2. n \in DOMAIN r /\ r[n] = v
      BY <2>2, <3>1
    <3>. QED  BY <3>2 DEF Has
  <2>. QED  BY <1>6, <2>1, <2>2
<1>. QED  BY <1>3, <1>4, <1>5, <1>6 DEF Rename

(* A sequence without its end.                                             *)
LEMMA ButLast ==
    ASSUME NEW S, NEW u, NEW n \in Nat, \A i \in 1..n : u[i] \in S
    PROVE  /\ SubSeq(u, 1, n) \in Seq(S)
           /\ Len(SubSeq(u, 1, n)) = n
           /\ \A i \in 1..n : SubSeq(u, 1, n)[i] = u[i]
<1>. DEFINE t == SubSeq(u, 1, n)
<1>1. /\ t \in Seq(S)
      /\ Len(t) = IF 1 <= n THEN n - 1 + 1 ELSE 0
      /\ \A i \in 1..n - 1 + 1 : t[i] = u[1 + i - 1]
  BY SubSeqProperties, 1 \in Int, n \in Int
<1>. HIDE DEF t
<1>2. Len(t) = n
  BY <1>1
<1>3. ASSUME NEW i \in 1..n  PROVE t[i] = u[i]
  <2>1. i \in 1..n - 1 + 1 /\ 1 + i - 1 = i
    OBVIOUS
  <2>. QED  BY <1>1, <2>1
<1>. QED  BY <1>1, <1>2, <1>3 DEF t

(* A sequence without its first k elements.                                *)
LEMMA Dropped ==
    ASSUME NEW S, NEW s \in Seq(S), NEW k \in 0..Len(s)
    PROVE  /\ SubSeq(s, k + 1, Len(s)) \in Seq(S)
           /\ Len(SubSeq(s, k + 1, Len(s))) = Len(s) - k
           /\ \A i \in 1..Len(s) - k : SubSeq(s, k + 1, Len(s))[i] = s[k + i]
<1>. DEFINE t == SubSeq(s, k + 1, Len(s))
<1>1. Len(s) \in Nat /\ \A i \in 1..Len(s) : s[i] \in S
  BY LenProperties, ElementOfSeq
<1>2. \A i \in k + 1..Len(s) : s[i] \in S
  BY <1>1
<1>3. /\ t \in Seq(S)
      /\ Len(t) = IF k + 1 <= Len(s) THEN Len(s) - (k + 1) + 1 ELSE 0
      /\ \A i \in 1..Len(s) - (k + 1) + 1 : t[i] = s[(k + 1) + i - 1]
  BY <1>1, <1>2, SubSeqProperties, k + 1 \in Int, Len(s) \in Int
<1>. HIDE DEF t
<1>4. Len(t) = Len(s) - k
  BY <1>1, <1>3
<1>5. ASSUME NEW i \in 1..Len(s) - k  PROVE t[i] = s[k + i]
  <2>1. i \in 1..Len(s) - (k + 1) + 1 /\ (k + 1) + i - 1 = k + i
    BY <1>1
  <2>. QED  BY <1>3, <2>1
<1>. QED  BY <1>3, <1>4, <1>5 DEF t

(* What is left of a sequence without repetitions.                         *)
LEMMA DroppedOnce ==
    ASSUME NEW S, NEW s \in Seq(S), NEW k \in 0..Len(s), Distinct(s)
    PROVE  /\ SubSeq(s, k + 1, Len(s)) \in Seq(S)
           /\ Distinct(SubSeq(s, k + 1, Len(s)))
           /\ \A v : Has(s, v) <=>
                 \/ Has(SubSeq(s, k + 1, Len(s)), v)
                 \/ \E j \in 1..k : s[j] = v
           /\ \A v : ~ (/\ Has(SubSeq(s, k + 1, Len(s)), v)
                        /\ \E j \in 1..k : s[j] = v)
<1>. DEFINE t == SubSeq(s, k + 1, Len(s))
<1>1. /\ t \in Seq(S) /\ Len(t) = Len(s) - k
      /\ \A i \in 1..Len(s) - k : t[i] = s[k + i]
  BY Dropped
<1>. HIDE DEF t
<1>2. /\ Len(s) \in Nat /\ DOMAIN s = 1..Len(s) /\ DOMAIN t = 1..Len(s) - k
  BY <1>1, LenProperties
<1>3. \A i \in 1..Len(s) - k : k + i \in 1..Len(s) /\ k + i \notin 1..k
  BY <1>2
<1>4. \A j \in 1..Len(s) : j \in 1..k \/ (j - k \in 1..Len(s) - k /\ k + (j - k) = j)
  BY <1>2
<1>5. Distinct(t)
  <2>1. ASSUME NEW m \in 1..Len(s) - k, NEW n \in 1..Len(s) - k, t[m] = t[n]
        PROVE  m = n
    <3>1. s[k + m] = s[k + n]
      BY <1>1, <2>1
    <3>2. k + m = k + n
      BY <1>2, <1>3, <3>1 DEF Distinct
    <3>. QED  BY <3>2
  <2>. QED  BY <1>2, <2>1 DEF Distinct
<1>6. ASSUME NEW v  PROVE Has(t, v) <=> \E i \in 1..Len(s) - k : s[k + i] = v
  BY <1>1, <1>2 DEF Has
<1>7. ASSUME NEW v, Has(s, v)  PROVE Has(t, v) \/ \E j \in 1..k : s[j] = v
  <2>1. PICK j \in 1..Len(s) : s[j] = v
    BY <1>2, <1>7 DEF Has
  <2>. QED  BY <1>4, <1>6, <2>1
<1>8. ASSUME NEW v, Has(t, v) \/ \E j \in 1..k : s[j] = v  PROVE Has(s, v)
  <2>1. \A j \in 1..k : j \in 1..Len(s)
    BY <1>2
  <2>. QED  BY <1>2, <1>3, <1>6, <1>8, <2>1 DEF Has
<1>9. ASSUME NEW v, Has(t, v), NEW j \in 1..k, s[j] = v  PROVE FALSE
  <2>1. PICK i \in 1..Len(s) - k : s[k + i] = v
    BY <1>6, <1>9
  <2>2. j \in 1..Len(s)
    BY <1>2
  <2>. QED  BY <1>2, <1>3, <1>9, <2>1, <2>2 DEF Distinct
<1>. QED  BY <1>1, <1>5, <1>7, <1>8, <1>9 DEF t

(* A longer sequence, repetitions or not.                                  *)
LEMMA AtTheEnd ==
    ASSUME NEW S, NEW s \in Seq(S), NEW e \in S
    PROVE  /\ Append(s, e) \in Seq(S)
           /\ Len(Append(s, e)) = Len(s) + 1
           /\ \A v : Has(Append(s, e), v) <=> Has(s, v) \/ v = e
<1>1. /\ Append(s, e) \in Seq(S) /\ Len(Append(s, e)) = Len(s) + 1
      /\ \A i \in 1..Len(s) : Append(s, e)[i] = s[i]
      /\ Append(s, e)[Len(s) + 1] = e
  BY AppendProperties
<1>2. /\ Len(s) \in Nat
      /\ DOMAIN s = 1..Len(s) /\ DOMAIN Append(s, e) = 1..Len(s) + 1
  BY <1>1, LenProperties
<1>. QED  BY <1>1, <1>2 DEF Has

(* What a queue holds is its head and the rest.                            *)
LEMMA HeadAndTail ==
    ASSUME NEW S, NEW s \in Seq(S), s # <<>>
    PROVE  /\ Head(s) \in S /\ Tail(s) \in Seq(S)
           /\ Len(Tail(s)) = Len(s) - 1
           /\ \A v : Has(s, v) <=> v = Head(s) \/ Has(Tail(s), v)
           /\ Distinct(s) => Distinct(Tail(s)) /\ ~Has(Tail(s), Head(s))
<1>1. /\ Head(s) = s[1] /\ Head(s) \in S /\ Tail(s) \in Seq(S)
      /\ Len(Tail(s)) = Len(s) - 1
      /\ \A i \in 1..Len(s) - 1 : Tail(s)[i] = s[i + 1]
  BY HeadTailProperties
<1>2. /\ Len(s) \in Nat /\ Len(s) # 0
      /\ DOMAIN s = 1..Len(s) /\ DOMAIN Tail(s) = 1..Len(s) - 1
  BY <1>1, LenProperties, EmptySeq
<1>3. \A v : Has(Tail(s), v) <=> \E i \in 2..Len(s) : s[i] = v
  <2>1. \A v : \A i \in 2..Len(s) : s[i] = v => i - 1 \in 1..Len(s) - 1 /\ Tail(s)[i - 1] = v
    BY <1>1, <1>2
  <2>2. \A i \in 1..Len(s) - 1 : i + 1 \in 2..Len(s) /\ Tail(s)[i] = s[i + 1]
    BY <1>1, <1>2
  <2>. QED  BY <1>2, <2>1, <2>2 DEF Has
<1>4. \A v : Has(s, v) <=> v = Head(s) \/ Has(Tail(s), v)
  BY <1>1, <1>2, <1>3 DEF Has
<1>5. ASSUME Distinct(s)  PROVE Distinct(Tail(s)) /\ ~Has(Tail(s), Head(s))
  <2>1. ~Has(Tail(s), Head(s))
    BY <1>1, <1>2, <1>3, <1>5 DEF Distinct
  <2>2. ASSUME NEW i \in 1..Len(s) - 1, NEW j \in 1..Len(s) - 1, Tail(s)[i] = Tail(s)[j]
        PROVE  i = j
    BY <1>1, <1>2, <1>5, <2>2 DEF Distinct
  <2>. QED  BY <1>2, <2>1, <2>2 DEF Distinct
<1>. QED  BY <1>1, <1>4, <1>5

(* A sequence with an element in front, and two sequences joined.          *)
LEMMA InFront ==
    ASSUME NEW S, NEW e \in S, NEW s \in Seq(S)
    PROVE  /\ <<e>> \o s \in Seq(S) /\ Len(<<e>> \o s) = Len(s) + 1
           /\ (<<e>> \o s)[1] = e
           /\ \A i \in 1..Len(s) : (<<e>> \o s)[i + 1] = s[i]
           /\ \A v : Has(<<e>> \o s, v) <=> v = e \/ Has(s, v)
           /\ Distinct(s) /\ ~Has(s, e) => Distinct(<<e>> \o s)
<1>. DEFINE t == <<e>> \o s
<1>1. <<e>> \in Seq(S) /\ Len(<<e>>) = 1 /\ <<e>>[1] = e
  OBVIOUS
<1>2. /\ t \in Seq(S) /\ Len(t) = 1 + Len(s)
      /\ \A i \in 1..1 + Len(s) : t[i] = IF i <= 1 THEN <<e>>[i] ELSE s[i - 1]
  <2>1. /\ <<e>> \o s \in Seq(S) /\ Len(<<e>> \o s) = Len(<<e>>) + Len(s)
        /\ \A i \in 1..Len(<<e>>) + Len(s) :
              (<<e>> \o s)[i] = IF i <= Len(<<e>>) THEN <<e>>[i] ELSE s[i - Len(<<e>>)]
    BY <1>1, ConcatProperties
  <2>. QED  BY <1>1, <2>1
<1>3. /\ Len(s) \in Nat /\ DOMAIN s = 1..Len(s) /\ DOMAIN t = 1..1 + Len(s)
  BY <1>2, LenProperties
<1>. HIDE DEF t
<1>4. t[1] = e /\ \A i \in 1..Len(s) : t[i + 1] = s[i]
  BY <1>1, <1>2, <1>3
<1>5. \A j \in 1..Len(s) + 1 : j = 1 \/ \E i \in 1..Len(s) : j = i + 1
  <2>1. \A j \in 1..Len(s) + 1 : j # 1 => j - 1 \in 1..Len(s) /\ j = (j - 1) + 1
    BY <1>3
  <2>. QED  BY <2>1
<1>6. \A v : Has(t, v) <=> v = e \/ Has(s, v)
  <2>1. ASSUME NEW v, Has(t, v)  PROVE v = e \/ Has(s, v)
    <3>1. PICK j \in 1..Len(s) + 1 : t[j] = v
      BY <1>3, <2>1 DEF Has
    <3>2. CASE j = 1
      BY <1>4, <3>1, <3>2
    <3>3. CASE \E i \in 1..Len(s) : j = i + 1
      BY <1>3, <1>4, <3>1, <3>3 DEF Has
    <3>. QED  BY <1>5, <3>2, <3>3
  <2>2. Has(t, e)
    BY <1>3, <1>4 DEF Has
  <2>3. ASSUME NEW v, Has(s, v)  PROVE Has(t, v)
    <3>1. PICK i \in 1..Len(s) : s[i] = v
      BY <1>3, <2>3 DEF Has
    <3>2. i + 1 \in DOMAIN t
      BY <1>3
    <3>. QED  BY <1>4, <3>1, <3>2 DEF Has
  <2>. QED  BY <2>1, <2>2, <2>3
<1>7. ASSUME Distinct(s), ~Has(s, e)  PROVE Distinct(t)
  <2> SUFFICES ASSUME NEW m \in 1..Len(s) + 1, NEW n \in 1..Len(s) + 1, t[m] = t[n]
               PROVE  m = n
    BY <1>3 DEF Distinct
  <2>1. CASE m = 1 /\ n = 1
    BY <2>1
  <2>2. ASSUME NEW i \in 1..Len(s), t[i + 1] = t[1]  PROVE FALSE
    BY <1>3, <1>4, <1>7, <2>2 DEF Has
  <2>3. ASSUME NEW i \in 1..Len(s), NEW j \in 1..Len(s), t[i + 1] = t[j + 1]  PROVE i = j
    BY <1>3, <1>4, <1>7, <2>3 DEF Distinct
  <2>. QED  BY <1>5, <2>1, <2>2, <2>3
<1>. QED  BY <1>2, <1>3, <1>4, <1>6, <1>7 DEF t

LEMMA Joined ==
    ASSUME NEW S, NEW s \in Seq(S), NEW t \in Seq(S)
    PROVE  /\ s \o t \in Seq(S)
           /\ \A v : Has(s \o t, v) <=> Has(s, v) \/ Has(t, v)
<1>. DEFINE u == s \o t
<1>1. /\ u \in Seq(S) /\ Len(u) = Len(s) + Len(t)
      /\ \A i \in 1..Len(s) + Len(t) : u[i] = IF i <= Len(s) THEN s[i] ELSE t[i - Len(s)]
  BY ConcatProperties
<1>2. /\ Len(s) \in Nat /\ DOMAIN s = 1..Len(s) /\ Len(t) \in Nat /\ DOMAIN t = 1..Len(t)
      /\ DOMAIN u = 1..Len(s) + Len(t)
  BY <1>1, LenProperties
<1>. HIDE DEF u
<1>3. \A i \in 1..Len(s) : i \in DOMAIN u /\ u[i] = s[i]
  BY <1>1, <1>2
<1>4. ASSUME NEW i \in 1..Len(t)
      PROVE  Len(s) + i \in DOMAIN u /\ u[Len(s) + i] = t[i]
  <2>1. /\ Len(s) + i \in 1..Len(s) + Len(t)
        /\ ~(Len(s) + i <= Len(s)) /\ (Len(s) + i) - Len(s) = i
    BY <1>2
  <2>. QED  BY <1>1, <1>2, <2>1
<1>5. \A i \in DOMAIN u : \/ i \in 1..Len(s) /\ u[i] = s[i]
                          \/ i - Len(s) \in 1..Len(t) /\ u[i] = t[i - Len(s)]
  BY <1>1, <1>2
<1>6. \A v : Has(u, v) <=> Has(s, v) \/ Has(t, v)
  BY <1>2, <1>3, <1>4, <1>5 DEF Has
<1>. QED  BY <1>1, <1>6 DEF u

(* A set of numbers has a least one: what the proofs use for induction.    *)
LEMMA LeastOne ==
    ASSUME NEW T, T \subseteq Nat, T # {}
    PROVE  \E c \in T : \A b \in T : ~(b < c)
<1>1. \E c \in T : \A b \in T : ~(<<b, c>> \in OpToRel(<, Nat))
  BY NatLessThanWellFounded, WFMin
<1>. QED  BY <1>1 DEF OpToRel
===============================================================================
