--------------------------- MODULE InterpreterProofs ---------------------------
(***************************************************************************)
(* Proofs about what the interpreter itself looks up in caches, for every  *)
(* value of the constants: a module that sys.modules holds is whole unless *)
(* its body is still running, and a class's attribute cache never answers  *)
(* with what an assignment has replaced; and about the order in which it   *)
(* looks a class's attributes up, which is sound for every hierarchy.      *)
(***************************************************************************)
EXTENDS Runtime, SequenceLemmas, FiniteSetTheorems, WellFoundedInduction

-----------------------------------------------------------------------------
(* Imports *)

Call == [mod : Modules, quiet : BOOLEAN]
Entry == [kind : {"import"}, todo : Seq(Call)]
         \cup [kind : {"body"}, mod : Modules, obj : Nat, pkg : Nat]

(* b may be loaded after a: what it needs a has loaded, or already had.    *)
Follows(a, b) ==
    \/ Parent[b.mod] = Root
    \/ Parent[b.mod] = Parent[a.mod]
    \/ Parent[b.mod] = a.mod /\ ~a.quiet

(* From place n of the stack up module p is there to stay: it is whole, or *)
(* its body is further down.                                               *)
Stays(s, c, w, n, p) ==
    /\ c[p] # 0
    /\ \/ c[p] \in w
       \/ \E j \in 1..n - 1 : s[j].kind = "body" /\ s[j].mod = p

ImportAt(s, c, w, n, f) ==
    /\ \A k \in 1..Len(f.todo) - 1 : Follows(f.todo[k], f.todo[k + 1])
    /\ f.todo # <<>> /\ Parent[Head(f.todo).mod] # Root =>
          Stays(s, c, w, n, Parent[Head(f.todo).mod])

BodyAt(s, c, w, n, f) ==
    /\ n > 1 /\ s[n - 1].kind = "import"
    /\ s[n - 1].todo # <<>> /\ Head(s[n - 1].todo).mod = f.mod
    /\ f.obj = c[f.mod] /\ f.obj # 0 /\ f.obj \notin w
    /\ Parent[f.mod] # Root =>
          f.pkg = c[Parent[f.mod]] /\ Stays(s, c, w, n, Parent[f.mod])
    /\ \A j \in 1..n - 1 : s[j].kind = "body" => s[j].mod # f.mod

(* An entry f at place n, given the entries below.                         *)
EntryAt(s, c, w, n, f) ==
    /\ f.kind = "import" => ImportAt(s, c, w, n, f)
    /\ f.kind = "body" => BodyAt(s, c, w, n, f)

Sane(s, c, w) ==
    /\ s \in Seq(Entry)
    /\ \A n \in 1..Len(s) : EntryAt(s, c, w, n, s[n])

(* Objects are numbered, so no two modules have the same.                  *)
Objects(c, w, mk) ==
    /\ c \in [Modules -> Nat]
    /\ \A m \in Modules : c[m] \in 0..mk
    /\ \A m, n \in Modules : c[m] = c[n] /\ c[m] # 0 => m = n
    /\ w \subseteq 1..mk

(* The body of m runs, for object o.                                       *)
Runs(s, m, o) ==
    \E n \in 1..Len(s) : s[n].kind = "body" /\ s[n].mod = m /\ s[n].obj = o

(* A module in the cache is whole or its body runs.                        *)
Accounted(s, c, w) == \A m \in Modules : c[m] # 0 => c[m] \in w \/ Runs(s, m, c[m])

ImportInv ==
    /\ made \in Nat
    /\ Objects(modules, whole, made)
    /\ Sane(stack, modules, whole)
    /\ Accounted(stack, modules, whole)
    /\ \A m \in Modules : <<0, m>> \notin bound
    /\ \A m \in Modules :
          ~lost /\ Parent[m] # Root /\ modules[m] \in whole =>
             <<modules[Parent[m]], m>> \in bound

LEMMA ParentsAre ==
    ASSUME NEW m \in Modules
    PROVE  Parent[m] # Root => Parent[m] \in Modules /\ Parent[m] # m
BY ImportAssumption DEF Im!ImportConstants

LEMMA NamesAre ==
    ASSUME NEW m \in Modules
    PROVE  /\ Dotted[m] \in Seq(Modules) /\ Dotted[m] # <<>>
           /\ Parent[Dotted[m][1]] = Root /\ Dotted[m][Len(Dotted[m])] = m
           /\ \A n \in 1..Len(Dotted[m]) - 1 : Parent[Dotted[m][n + 1]] = Dotted[m][n]
BY ImportAssumption DEF Im!ImportConstants

LEMMA EntriesAre ==
    ASSUME NEW f \in Entry
    PROVE  /\ f.kind = "import" => f.todo \in Seq(Call)
           /\ f.kind = "body" => f.mod \in Modules /\ f.obj \in Nat /\ f.pkg \in Nat
           /\ f.kind \in {"import", "body"}
BY DEF Entry

LEMMA HeadIsCall ==
    ASSUME NEW t \in Seq(Call), t # <<>>
    PROVE  /\ Head(t) \in Call /\ Head(t) = t[1] /\ Head(t).mod \in Modules
           /\ Head(t).quiet \in BOOLEAN
           /\ Len(t) \in Nat \ {0} /\ Tail(t) \in Seq(Call) /\ Len(Tail(t)) = Len(t) - 1
           /\ \A k \in 1..Len(t) - 1 : Tail(t)[k] = t[k + 1]
<1>1. Len(t) \in Nat \ {0} /\ Head(t) = t[1] /\ t[1] \in Call
  BY EmptySeq, LenProperties, ElementOfSeq
<1>2. Tail(t) \in Seq(Call) /\ Len(Tail(t)) = Len(t) - 1
      /\ \A k \in 1..Len(t) - 1 : Tail(t)[k] = t[k + 1]
  BY <1>1, HeadTailProperties
<1>. QED  BY <1>1, <1>2 DEF Call

(* What an entry is depends on the entries below it only.                  *)
LEMMA SameBelow ==
    ASSUME NEW s, NEW r, NEW c, NEW w, NEW n \in Nat \ {0}, NEW f,
           \A j \in 1..n - 1 : r[j] = s[j], EntryAt(s, c, w, n, f)
    PROVE  EntryAt(r, c, w, n, f)
<1>1. n > 1 => n - 1 \in 1..n - 1
  OBVIOUS
<1>2. \A p : Stays(s, c, w, n, p) => Stays(r, c, w, n, p)
  BY DEF Stays
<1>3. n > 1 => r[n - 1] = s[n - 1]
  BY <1>1
<1>4. f.kind = "import" => ImportAt(r, c, w, n, f)
  BY <1>2 DEF EntryAt, ImportAt
<1>5. f.kind = "body" => BodyAt(r, c, w, n, f)
  BY <1>2, <1>3 DEF EntryAt, BodyAt
<1>. QED  BY <1>4, <1>5 DEF EntryAt

(* The stack without its top.                                              *)
LEMMA EntryGone ==
    ASSUME NEW s \in Seq(Entry), NEW c, NEW w, Sane(s, c, w), s # <<>>
    PROVE  /\ Sane(Im!Front(s), c, w) /\ Im!Front(s) \in Seq(Entry) /\ Len(s) \in Nat \ {0}
           /\ Len(Im!Front(s)) = Len(s) - 1
           /\ \A i \in 1..Len(s) - 1 : Im!Front(s)[i] = s[i]
           /\ Im!Last(s) = s[Len(s)] /\ Im!Last(s) \in Entry
           /\ EntryAt(s, c, w, Len(s), s[Len(s)])
<1>1. Len(s) \in Nat \ {0} /\ \A i \in 1..Len(s) : s[i] \in Entry
  BY ElementOfSeq, LenProperties, EmptySeq
<1>. DEFINE n == Len(s) - 1
            r == SubSeq(s, 1, n)
<1>2. n \in Nat /\ \A i \in 1..n : s[i] \in Entry
  BY <1>1
<1>3. r \in Seq(Entry) /\ Len(r) = n /\ \A i \in 1..n : r[i] = s[i]
  <2>. HIDE DEF n
  <2>. QED  BY <1>2, ButLast
<1>4. Im!Front(s) = r
  BY DEF Im!Front
<1>. HIDE DEF r
<1>5. ASSUME NEW i \in 1..n  PROVE EntryAt(r, c, w, i, r[i])
  <2>1. i \in 1..Len(s) /\ i \in Nat \ {0} /\ r[i] = s[i]
        /\ \A j \in 1..i - 1 : r[j] = s[j]
    BY <1>1, <1>3
  <2>2. EntryAt(s, c, w, i, r[i])
    BY <2>1 DEF Sane
  <2>. QED  BY <2>1, <2>2, SameBelow
<1>6. EntryAt(s, c, w, Len(s), s[Len(s)])
  BY <1>1 DEF Sane
<1>. QED  BY <1>1, <1>3, <1>4, <1>5, <1>6 DEF Sane, Im!Last

(* The stack with another entry on top.                                    *)
LEMMA EntryOn ==
    ASSUME NEW s \in Seq(Entry), NEW c, NEW w, Sane(s, c, w), NEW f \in Entry,
           EntryAt(s, c, w, Len(s) + 1, f)
    PROVE  /\ Sane(Append(s, f), c, w) /\ Append(s, f) \in Seq(Entry)
           /\ Len(Append(s, f)) = Len(s) + 1 /\ Append(s, f)[Len(s) + 1] = f
           /\ \A i \in 1..Len(s) : Append(s, f)[i] = s[i]
<1>1. /\ Append(s, f) \in Seq(Entry) /\ Len(Append(s, f)) = Len(s) + 1 /\ Len(s) \in Nat
      /\ \A i \in 1..Len(s) : Append(s, f)[i] = s[i]
      /\ Append(s, f)[Len(s) + 1] = f
  BY AppendProperties, LenProperties
<1>. DEFINE r == Append(s, f)
<1>. HIDE DEF r
<1>2. ASSUME NEW i \in 1..Len(s) + 1  PROVE EntryAt(r, c, w, i, r[i])
  <2>1. i \in Nat \ {0} /\ \A j \in 1..i - 1 : r[j] = s[j]
    BY <1>1 DEF r
  <2>2. EntryAt(s, c, w, i, r[i])
    <3>1. CASE i = Len(s) + 1
      BY <1>1, <3>1 DEF r
    <3>2. CASE i # Len(s) + 1
      BY <1>1, <3>2 DEF r, Sane
    <3>. QED  BY <3>1, <3>2
  <2>. QED  BY <2>1, <2>2, SameBelow
<1>. QED  BY <1>1, <1>2 DEF r, Sane

(* The cache changes where the stack does not look.                        *)
LEMMA SaneStill ==
    ASSUME NEW s \in Seq(Entry), NEW c, NEW w, Sane(s, c, w), NEW d, NEW v,
           \A n \in 1..Len(s), p \in Modules :
              Stays(s, c, w, n, p) => d[p] = c[p] /\ Stays(s, d, v, n, p),
           \A n \in 1..Len(s) :
              s[n].kind = "body" /\ s[n].obj # 0 /\ s[n].obj \notin w /\ s[n].obj = c[s[n].mod] =>
                 d[s[n].mod] = c[s[n].mod] /\ s[n].obj \notin v
    PROVE  Sane(s, d, v)
<1> SUFFICES ASSUME NEW n \in 1..Len(s)  PROVE EntryAt(s, d, v, n, s[n])
  BY DEF Sane
<1>1. s[n] \in Entry /\ EntryAt(s, c, w, n, s[n])
  BY ElementOfSeq DEF Sane
<1>2. CASE s[n].kind = "import"
  <2>1. s[n].todo \in Seq(Call) /\ s[n].kind # "body" /\ ImportAt(s, c, w, n, s[n])
    BY <1>1, <1>2, EntriesAre DEF EntryAt
  <2>2. ASSUME s[n].todo # <<>>, Parent[Head(s[n].todo).mod] # Root
        PROVE  Stays(s, d, v, n, Parent[Head(s[n].todo).mod])
    <3>1. Parent[Head(s[n].todo).mod] \in Modules
      BY <2>1, <2>2, HeadIsCall, ParentsAre
    <3>2. Stays(s, c, w, n, Parent[Head(s[n].todo).mod])
      BY <2>1, <2>2 DEF ImportAt
    <3>. QED  BY <3>1, <3>2
  <2>. QED  BY <2>1, <2>2 DEF EntryAt, ImportAt
<1>3. CASE s[n].kind = "body"
  <2>1. s[n].mod \in Modules /\ s[n].kind # "import" /\ BodyAt(s, c, w, n, s[n])
    BY <1>1, <1>3, EntriesAre DEF EntryAt
  <2>2. d[s[n].mod] = c[s[n].mod] /\ s[n].obj \notin v
    BY <1>3, <2>1 DEF BodyAt
  <2>3. ASSUME Parent[s[n].mod] # Root
        PROVE  d[Parent[s[n].mod]] = c[Parent[s[n].mod]] /\ Stays(s, d, v, n, Parent[s[n].mod])
    <3>1. Parent[s[n].mod] \in Modules
      BY <2>1, <2>3, ParentsAre
    <3>2. Stays(s, c, w, n, Parent[s[n].mod])
      BY <2>1, <2>3 DEF BodyAt
    <3>. QED  BY <3>1, <3>2
  <2>. QED  BY <2>1, <2>2, <2>3 DEF EntryAt, BodyAt
<1>. QED  BY <1>1, <1>2, <1>3, EntriesAre

(* A module enters the cache.                                              *)
LEMMA ModuleComes ==
    ASSUME NEW s \in Seq(Entry), NEW c \in [Modules -> Nat], NEW w, Sane(s, c, w),
           NEW m \in Modules, c[m] = 0, NEW o
    PROVE  Sane(s, [c EXCEPT ![m] = o], w)
<1>. DEFINE d == [c EXCEPT ![m] = o]
<1>1. \A p \in Modules : p # m => d[p] = c[p]
  OBVIOUS
<1>. HIDE DEF d
<1>2. ASSUME NEW n \in 1..Len(s), NEW p \in Modules, Stays(s, c, w, n, p)
      PROVE  d[p] = c[p] /\ Stays(s, d, w, n, p)
  BY <1>1, <1>2 DEF Stays
<1>3. ASSUME NEW n \in 1..Len(s), s[n].kind = "body", s[n].obj # 0, s[n].obj = c[s[n].mod]
      PROVE  d[s[n].mod] = c[s[n].mod]
  <2>1. s[n] \in Entry
    BY ElementOfSeq
  <2>2. s[n].mod \in Modules
    BY <1>3, <2>1, EntriesAre
  <2>. QED  BY <1>1, <1>3, <2>2
<1>4. \A n \in 1..Len(s) :
         s[n].kind = "body" /\ s[n].obj # 0 /\ s[n].obj \notin w /\ s[n].obj = c[s[n].mod] =>
            d[s[n].mod] = c[s[n].mod] /\ s[n].obj \notin w
  BY <1>3
<1>5. Sane(s, d, w)
  BY <1>2, <1>4, SaneStill
<1>. QED  BY <1>5 DEF d

(* A module whose body is not below becomes whole, or leaves the cache.    *)
LEMMA ModuleChanges ==
    ASSUME NEW s \in Seq(Entry), NEW c, NEW w, NEW mk, Objects(c, w, mk), Sane(s, c, w),
           NEW m \in Modules, c[m] # 0, c[m] \notin w,
           \A n \in 1..Len(s) : s[n].kind = "body" => s[n].mod # m
    PROVE  Sane(s, c, w \cup {c[m]}) /\ Sane(s, [c EXCEPT ![m] = 0], w)
<1>1. ASSUME NEW n \in 1..Len(s), s[n].kind = "body"
      PROVE  s[n].mod \in Modules /\ s[n].mod # m
  <2>1. s[n] \in Entry
    BY ElementOfSeq
  <2>. QED  BY <1>1, <2>1, EntriesAre
<1>2. c \in [Modules -> Nat] /\ \A k \in Modules : c[k] = c[m] => k = m
  BY DEF Objects
<1>. DEFINE d == [c EXCEPT ![m] = 0]
            v == w \cup {c[m]}
<1>3. \A p \in Modules : p # m => d[p] = c[p]
  BY <1>2
<1>4. Len(s) \in Nat
  BY LenProperties
<1>. HIDE DEF d
<1>5. ASSUME NEW n \in 1..Len(s), NEW p \in Modules, Stays(s, c, w, n, p)
      PROVE  p # m /\ Stays(s, c, v, n, p)
  <2>1. \A j \in 1..n - 1 : j \in 1..Len(s)
    BY <1>4
  <2>2. p # m
    BY <1>5, <2>1 DEF Stays
  <2>. QED  BY <1>5, <2>2 DEF Stays
<1>6. Sane(s, c, v)
  <2>1. \A n \in 1..Len(s) :
           s[n].kind = "body" /\ s[n].obj \notin w /\ s[n].obj = c[s[n].mod] =>
              s[n].obj \notin v
    BY <1>1, <1>2
  <2>. HIDE DEF v
  <2>. QED  BY <1>5, <2>1, SaneStill
<1>7. Sane(s, d, w)
  <2>1. ASSUME NEW n \in 1..Len(s), NEW p \in Modules, Stays(s, c, w, n, p)
        PROVE  d[p] = c[p] /\ Stays(s, d, w, n, p)
    BY <1>3, <1>5, <2>1 DEF Stays
  <2>2. \A n \in 1..Len(s) : s[n].kind = "body" => d[s[n].mod] = c[s[n].mod]
    BY <1>1, <1>3
  <2>. QED  BY <2>1, <2>2, SaneStill
<1>. QED  BY <1>6, <1>7 DEF d

(* A load is over, and the next of the statement can begin.                *)
LEMMA LoadOver ==
    ASSUME NEW s \in Seq(Entry), NEW c, NEW w, Sane(s, c, w), s # <<>>,
           Im!Last(s).kind = "import", Im!Last(s).todo # <<>>,
           \/ Head(Im!Last(s).todo).quiet
           \/ Stays(s, c, w, Len(s), Head(Im!Last(s).todo).mod)
    PROVE  /\ Sane(Im!Done(s), c, w) /\ Im!Done(s) \in Seq(Entry)
           /\ \A m, o : Runs(s, m, o) => Runs(Im!Done(s), m, o)
<1>. DEFINE f == Im!Last(s)
            g == [f EXCEPT !.todo = Tail(@)]
            r == Im!Front(s)
<1>1. /\ Sane(r, c, w) /\ r \in Seq(Entry) /\ Len(s) \in Nat \ {0} /\ Len(r) = Len(s) - 1
      /\ \A i \in 1..Len(s) - 1 : r[i] = s[i]
      /\ f = s[Len(s)] /\ f \in Entry /\ EntryAt(s, c, w, Len(s), f)
  BY EntryGone
<1>2. Im!Done(s) = Append(r, g)
  BY DEF Im!Done
<1>. HIDE DEF r
<1>3. /\ f.todo \in Seq(Call) /\ ImportAt(s, c, w, Len(s), f)
      /\ f \in [kind : {"import"}, todo : Seq(Call)]
  BY <1>1, EntriesAre DEF EntryAt, Entry
<1>4. g \in [kind : {"import"}, todo : Seq(Call)] /\ g.todo = Tail(f.todo) /\ g.kind = "import"
  BY <1>3, HeadIsCall
<1>. HIDE DEF g
<1>5. EntryAt(s, c, w, Len(s), g)
  <2>1. PICK t \in Seq(Call) : t = f.todo /\ t # <<>>
    BY <1>3
  <2>2. /\ Head(t) = t[1] /\ Len(t) \in Nat \ {0} /\ Tail(t) \in Seq(Call)
        /\ Len(Tail(t)) = Len(t) - 1 /\ t[1] \in Call
        /\ \A k \in 1..Len(t) - 1 : Tail(t)[k] = t[k + 1]
    BY HeadIsCall, <2>1
  <2>3. \A k \in 1..Len(t) - 1 : Follows(t[k], t[k + 1])
    BY <1>3, <2>1 DEF ImportAt
  <2>4. ASSUME NEW k \in 1..Len(Tail(t)) - 1  PROVE Follows(Tail(t)[k], Tail(t)[k + 1])
    <3>1. k \in 1..Len(t) - 1 /\ k + 1 \in 1..Len(t) - 1
      BY <2>2
    <3>. QED  BY <2>2, <2>3, <3>1
  <2>5. ASSUME Tail(t) # <<>>, Parent[Head(Tail(t)).mod] # Root
        PROVE  Stays(s, c, w, Len(s), Parent[Head(Tail(t)).mod])
    <3>1. Head(Tail(t)) = Tail(t)[1] /\ Len(Tail(t)) \in Nat \ {0}
      BY <2>2, <2>5, HeadIsCall
    <3>2. 1 \in 1..Len(t) - 1 /\ Head(Tail(t)) = t[2]
      BY <2>2, <3>1
    <3>3. Follows(t[1], t[2])
      BY <2>3, <3>2
    <3>4. CASE Parent[t[2].mod] = Parent[t[1].mod]
      BY <1>3, <2>1, <2>2, <2>5, <3>2, <3>4 DEF ImportAt
    <3>5. CASE Parent[t[2].mod] = t[1].mod /\ ~t[1].quiet
      BY <2>1, <2>2, <3>2, <3>5
    <3>. QED  BY <2>5, <3>2, <3>3, <3>4, <3>5 DEF Follows
  <2>. QED  BY <1>4, <2>1, <2>4, <2>5 DEF EntryAt, ImportAt
<1>6. EntryAt(r, c, w, Len(r) + 1, g) /\ g \in Entry
  <2>1. EntryAt(r, c, w, Len(s), g)
    BY <1>1, <1>5, SameBelow
  <2>. QED  BY <1>1, <1>4, <2>1 DEF Entry
<1>7. /\ Sane(Append(r, g), c, w) /\ Append(r, g) \in Seq(Entry)
      /\ Len(Append(r, g)) = Len(r) + 1
      /\ \A i \in 1..Len(r) : Append(r, g)[i] = r[i]
  BY <1>1, <1>6, EntryOn
<1>8. ASSUME NEW m, NEW o, Runs(s, m, o)  PROVE Runs(Append(r, g), m, o)
  <2>1. PICK n \in 1..Len(s) : s[n].kind = "body" /\ s[n].mod = m /\ s[n].obj = o
    BY <1>8 DEF Runs
  <2>2. n \in 1..Len(r) /\ n \in 1..Len(r) + 1
    BY <1>1, <2>1
  <2>. QED  BY <1>1, <1>7, <2>1, <2>2 DEF Runs
<1>. QED  BY <1>2, <1>7, <1>8

(* A load has failed: the statement goes on after a quiet one, or is left. *)
LEMMA LoadFailed ==
    ASSUME NEW s \in Seq(Entry), NEW c, NEW w, Sane(s, c, w), s # <<>>,
           Im!Last(s).kind = "import", Im!Last(s).todo # <<>>
    PROVE  /\ Sane(Im!Failed(s), c, w) /\ Im!Failed(s) \in Seq(Entry)
           /\ \A m, o : Runs(s, m, o) => Runs(Im!Failed(s), m, o)
<1>1. CASE Head(Im!Last(s).todo).quiet
  BY <1>1, LoadOver DEF Im!Failed
<1>2. CASE ~Head(Im!Last(s).todo).quiet
  <2>1. Im!Failed(s) = Im!Front(s)
    BY <1>2 DEF Im!Failed
  <2>2. /\ Sane(Im!Front(s), c, w) /\ Im!Front(s) \in Seq(Entry) /\ Len(s) \in Nat \ {0}
        /\ Len(Im!Front(s)) = Len(s) - 1
        /\ \A i \in 1..Len(s) - 1 : Im!Front(s)[i] = s[i]
        /\ Im!Last(s) = s[Len(s)]
    BY EntryGone
  <2>3. ASSUME NEW m, NEW o, Runs(s, m, o)  PROVE Runs(Im!Front(s), m, o)
    <3>1. PICK n \in 1..Len(s) : s[n].kind = "body" /\ s[n].mod = m /\ s[n].obj = o
      BY <2>3 DEF Runs
    <3>2. n # Len(s)
      BY <2>2, <3>1
    <3>3. n \in 1..Len(Im!Front(s)) /\ Im!Front(s)[n] = s[n]
      BY <2>2, <3>1, <3>2
    <3>. QED  BY <3>1, <3>3 DEF Runs
  <2>. QED  BY <2>1, <2>2, <2>3
<1>. QED  BY <1>1, <1>2

(* A statement begins.                                                     *)
LEMMA StatementOn ==
    ASSUME NEW s \in Seq(Entry), NEW c, NEW w, Sane(s, c, w), NEW t \in Seq(Call), t # <<>>,
           Parent[t[1].mod] = Root, \A k \in 1..Len(t) - 1 : Follows(t[k], t[k + 1])
    PROVE  LET r == Append(s, [kind |-> "import", todo |-> t]) IN
           /\ Sane(r, c, w) /\ \A m, o : Runs(s, m, o) => Runs(r, m, o)
<1>. DEFINE f == [kind |-> "import", todo |-> t]
<1>1. f \in Entry /\ f.kind = "import" /\ f.todo = t /\ Head(t) = t[1]
  BY HeadIsCall DEF Entry
<1>. HIDE DEF f
<1>2. EntryAt(s, c, w, Len(s) + 1, f)
  BY <1>1 DEF EntryAt, ImportAt
<1>3. /\ Sane(Append(s, f), c, w)
      /\ Len(Append(s, f)) = Len(s) + 1
      /\ \A i \in 1..Len(s) : Append(s, f)[i] = s[i]
  BY <1>1, <1>2, EntryOn
<1>4. ASSUME NEW m, NEW o, Runs(s, m, o)  PROVE Runs(Append(s, f), m, o)
  <2>1. \A n \in 1..Len(s) : n \in 1..Len(s) + 1
    BY LenProperties
  <2>. QED  BY <1>3, <1>4, <2>1 DEF Runs
<1>. QED  BY <1>3, <1>4 DEF f

InOrder(t) ==
    /\ t \in Seq(Call) /\ t # <<>> /\ Parent[t[1].mod] = Root
    /\ \A k \in 1..Len(t) - 1 : Follows(t[k], t[k + 1])

LEMMA CallsAre ==
    ASSUME NEW p \in Modules
    PROVE  /\ Im!Load(p) \in Call /\ Im!TryLoad(p) \in Call
           /\ Im!Load(p).mod = p /\ Im!TryLoad(p).mod = p /\ ~Im!Load(p).quiet
BY DEF Im!Load, Im!TryLoad, Call

(* A name is loaded from the outermost package to the module itself.       *)
LEMMA ChainIs ==
    ASSUME NEW m \in Modules, NEW t, t = Im!Chain(m)
    PROVE  InOrder(t) /\ t[Len(t)] = Im!Load(m)
<1>. DEFINE d == Dotted[m]
<1>1. /\ d \in Seq(Modules) /\ d # <<>> /\ Parent[d[1]] = Root /\ d[Len(d)] = m
      /\ \A n \in 1..Len(d) - 1 : Parent[d[n + 1]] = d[n]
  BY NamesAre
<1>2. t = [n \in DOMAIN d |-> Im!Load(d[n])]
  BY DEF Im!Chain
<1>. HIDE DEF d
<1>3. PICK len \in Nat \ {0} : /\ len = Len(d) /\ DOMAIN d = 1..len
                              /\ \A n \in 1..len : d[n] \in Modules
  BY <1>1, LenProperties, ElementOfSeq, EmptySeq
<1>4. t = [n \in 1..len |-> Im!Load(d[n])] /\ \A n \in 1..len : t[n] = Im!Load(d[n])
  BY <1>2, <1>3
<1>5. t \in Seq(Call) /\ Len(t) = len
  <2>1. \A n \in 1..len : Im!Load(d[n]) \in Call
    BY <1>3, CallsAre
  <2>. HIDE DEF Call
  <2>2. t \in [1..len -> Call]
    BY <1>4, <2>1
  <2>. QED  BY <2>2, LenProperties, SeqDef
<1>6. t # <<>> /\ 1 \in 1..len /\ len \in 1..len
  BY <1>3, <1>5, EmptySeq
<1>7. Parent[t[1].mod] = Root /\ t[len] = Im!Load(m)
  BY <1>1, <1>3, <1>4, <1>6, CallsAre
<1>8. ASSUME NEW k \in 1..len - 1  PROVE Follows(t[k], t[k + 1])
  <2>1. k \in 1..len /\ k + 1 \in 1..len
    BY <1>3
  <2>2. /\ t[k] = Im!Load(d[k]) /\ t[k + 1] = Im!Load(d[k + 1])
        /\ d[k] \in Modules /\ d[k + 1] \in Modules /\ Parent[d[k + 1]] = d[k]
    BY <1>1, <1>3, <1>4, <2>1
  <2>. QED  BY <2>2, CallsAre DEF Follows
<1>. QED  BY <1>3, <1>5, <1>6, <1>7, <1>8 DEF InOrder

(* After a package come the two tries at one of its submodules.            *)
LEMMA TryIsOrdered ==
    ASSUME NEW m \in Modules, Parent[m] # Root, NEW u, u = Im!Chain(Parent[m]),
           NEW v, v = <<Im!TryLoad(m), Im!Load(m)>>
    PROVE  InOrder(u \o v)
<1>1. Parent[m] \in Modules
  BY ParentsAre
<1>2. /\ u \in Seq(Call) /\ u # <<>> /\ Parent[u[1].mod] = Root
      /\ \A k \in 1..Len(u) - 1 : Follows(u[k], u[k + 1])
      /\ u[Len(u)] = Im!Load(Parent[m])
  BY <1>1, ChainIs DEF InOrder
<1>3. PICK len \in Nat \ {0} : len = Len(u)
  BY <1>2, LenProperties, EmptySeq
<1>4. v \in Seq(Call) /\ Len(v) = 2 /\ v[1] = Im!TryLoad(m) /\ v[2] = Im!Load(m)
  <2>1. PICK a \in Call, b \in Call : a = Im!TryLoad(m) /\ b = Im!Load(m)
    BY CallsAre
  <2>2. /\ <<a, b>> \in Seq(Call) /\ Len(<<a, b>>) = 2
        /\ <<a, b>>[1] = a /\ <<a, b>>[2] = b
    OBVIOUS
  <2>. QED  BY <2>1, <2>2
<1>5. /\ u \o v \in Seq(Call) /\ Len(u \o v) = len + 2
      /\ \A i \in 1..len + 2 : (u \o v)[i] = IF i <= len THEN u[i] ELSE v[i - len]
  BY <1>2, <1>3, <1>4, ConcatProperties
<1>6. /\ (u \o v)[1] = u[1] /\ (u \o v)[len] = u[len]
      /\ (u \o v)[len + 1] = v[1] /\ (u \o v)[len + 2] = v[2]
      /\ u \o v # <<>>
  BY <1>3, <1>5, EmptySeq
<1>7. Follows(u[len], v[1]) /\ Follows(v[1], v[2])
  BY <1>1, <1>2, <1>3, <1>4, CallsAre DEF Follows
<1>8. ASSUME NEW k \in 1..len + 1  PROVE Follows((u \o v)[k], (u \o v)[k + 1])
  <2>1. CASE k \in 1..len - 1
    <3>1. (u \o v)[k] = u[k] /\ (u \o v)[k + 1] = u[k + 1]
      BY <1>3, <1>5, <2>1
    <3>. QED  BY <1>2, <1>3, <2>1, <3>1
  <2>2. CASE k = len
    BY <1>6, <1>7, <2>2
  <2>3. CASE k = len + 1
    <3>1. k + 1 = len + 2
      BY <1>3, <2>3
    <3>. QED  BY <1>6, <1>7, <2>3, <3>1
  <2>. QED  BY <1>3, <2>1, <2>2, <2>3
<1>9. Len(u \o v) - 1 = len + 1
  BY <1>3, <1>5
<1>. QED  BY <1>2, <1>5, <1>6, <1>8, <1>9 DEF InOrder

LEMMA ChainsAreOrdered ==
    ASSUME NEW m \in Modules
    PROVE  /\ InOrder(Im!Chain(m))
           /\ Parent[m] # Root =>
                 InOrder(Im!Chain(Parent[m]) \o <<Im!TryLoad(m), Im!Load(m)>>)
BY ChainIs, TryIsOrdered

-----------------------------------------------------------------------------

(* A step that changes the stack only, and ends no body.                   *)
LEMMA StackOnly ==
    ASSUME ImportInv, Sane(stack', modules, whole),
           \A m, o : Runs(stack, m, o) => Runs(stack', m, o),
           UNCHANGED <<modules, made, whole, bound, lost>>
    PROVE  ImportInv'
<1>1. Accounted(stack', modules, whole)
  BY DEF ImportInv, Accounted
<1>. QED  BY <1>1 DEF ImportInv

LEMMA StackIs ==
    ASSUME ImportInv
    PROVE  stack \in Seq(Entry) /\ Sane(stack, modules, whole)
           /\ Objects(modules, whole, made) /\ modules \in [Modules -> Nat]
           /\ made \in Nat
BY DEF ImportInv, Sane, Objects

LEMMA StatementKeeps ==
    ASSUME ImportInv, NEW m \in Modules, Im!ImportName(m) \/ Im!ImportFrom(m)
    PROVE  ImportInv'
<1>. DEFINE one == Im!Chain(m)
            two == Im!Chain(Parent[m]) \o <<Im!TryLoad(m), Im!Load(m)>>
<1>0. \/ stack' = Append(stack, [kind |-> "import", todo |-> one])
      \/ Parent[m] # Root /\ stack' = Append(stack, [kind |-> "import", todo |-> two])
  BY DEF Im!ImportName, Im!ImportFrom, Im!Statement
<1>1. InOrder(one) /\ (Parent[m] # Root => InOrder(two))
  BY ChainsAreOrdered
<1>. HIDE DEF one, two
<1>2. PICK t : InOrder(t) /\ stack' = Append(stack, [kind |-> "import", todo |-> t])
  BY <1>0, <1>1
<1>3. Sane(stack', modules, whole) /\ \A p, o : Runs(stack, p, o) => Runs(stack', p, o)
  BY <1>2, StackIs, StatementOn DEF InOrder
<1>4. UNCHANGED <<modules, made, whole, bound, lost>>
  BY DEF Im!ImportName, Im!ImportFrom
<1>. QED  BY <1>3, <1>4, StackOnly

(* The statement on top, and its first load.                               *)
LEMMA TopLoads ==
    ASSUME ImportInv, Im!Loading
    PROVE  /\ stack # <<>> /\ Im!Last(stack).kind = "import" /\ Im!Last(stack).todo # <<>>
           /\ Im!Last(stack) = stack[Len(stack)] /\ Len(stack) \in Nat \ {0}
           /\ Im!This = Head(Im!Last(stack).todo) /\ Im!This.mod \in Modules
           /\ Parent[Im!This.mod] # Root =>
                 Stays(stack, modules, whole, Len(stack), Parent[Im!This.mod])
<1>1. /\ stack # <<>> /\ Im!Last(stack).kind = "import" /\ Im!Last(stack).todo # <<>>
      /\ Im!This = Head(Im!Last(stack).todo)
  BY DEF Im!Loading, Im!Top, Im!This
<1>2. /\ Im!Last(stack) = stack[Len(stack)] /\ Len(stack) \in Nat \ {0}
      /\ Im!Last(stack) \in Entry
      /\ EntryAt(stack, modules, whole, Len(stack), stack[Len(stack)])
  BY <1>1, StackIs, EntryGone
<1>3. Im!Last(stack).todo \in Seq(Call)
  BY <1>1, <1>2, EntriesAre
<1>4. Im!This.mod \in Modules
  BY <1>1, <1>3, HeadIsCall
<1>5. ImportAt(stack, modules, whole, Len(stack), Im!Last(stack))
  BY <1>1, <1>2 DEF EntryAt
<1>. QED  BY <1>1, <1>2, <1>4, <1>5 DEF ImportAt

LEMMA LoadCachedKeeps ==
    ASSUME ImportInv, Im!LoadCached  PROVE ImportInv'
<1>1. /\ Im!Loading /\ modules[Im!This.mod] # 0 /\ stack' = Im!Done(stack)
      /\ UNCHANGED <<modules, made, whole, bound, lost>>
  BY DEF Im!LoadCached
<1>2. /\ stack # <<>> /\ Im!Last(stack).kind = "import" /\ Im!Last(stack).todo # <<>>
      /\ Im!Last(stack) = stack[Len(stack)] /\ Len(stack) \in Nat \ {0}
      /\ Im!This = Head(Im!Last(stack).todo) /\ Im!This.mod \in Modules
  BY <1>1, TopLoads
<1>3. Stays(stack, modules, whole, Len(stack), Im!This.mod)
  <2>1. modules[Im!This.mod] \in whole \/ Runs(stack, Im!This.mod, modules[Im!This.mod])
    BY <1>1, <1>2 DEF ImportInv, Accounted
  <2>2. ASSUME Runs(stack, Im!This.mod, modules[Im!This.mod])
        PROVE  \E j \in 1..Len(stack) - 1 :
                  stack[j].kind = "body" /\ stack[j].mod = Im!This.mod
    <3>1. PICK j \in 1..Len(stack) : stack[j].kind = "body" /\ stack[j].mod = Im!This.mod
      BY <2>2 DEF Runs
    <3>2. j # Len(stack)
      BY <1>2, <3>1
    <3>. QED  BY <1>2, <3>1, <3>2
  <2>. QED  BY <1>1, <2>1, <2>2 DEF Stays
<1>4. /\ Sane(stack', modules, whole)
      /\ \A m, o : Runs(stack, m, o) => Runs(stack', m, o)
  BY <1>1, <1>2, <1>3, StackIs, LoadOver
<1>. QED  BY <1>1, <1>4, StackOnly

LEMMA LoadFailsKeeps ==
    ASSUME ImportInv, Im!LoadFails  PROVE ImportInv'
<1>1. /\ Im!Loading /\ stack' = Im!Failed(stack)
      /\ UNCHANGED <<modules, made, whole, bound, lost>>
  BY DEF Im!LoadFails
<1>2. /\ Sane(stack', modules, whole)
      /\ \A m, o : Runs(stack, m, o) => Runs(stack', m, o)
  BY <1>1, TopLoads, StackIs, LoadFailed
<1>. QED  BY <1>1, <1>2, StackOnly

LEMMA StatementEndsKeeps ==
    ASSUME ImportInv, Im!StatementEnds  PROVE ImportInv'
<1>1. /\ stack # <<>> /\ Im!Last(stack).kind = "import" /\ stack' = Im!Front(stack)
      /\ UNCHANGED <<modules, made, whole, bound, lost>>
  BY DEF Im!StatementEnds, Im!Top
<1>2. /\ Sane(stack', modules, whole) /\ Len(stack) \in Nat \ {0}
      /\ Len(stack') = Len(stack) - 1
      /\ \A i \in 1..Len(stack) - 1 : stack'[i] = stack[i]
      /\ Im!Last(stack) = stack[Len(stack)]
  BY <1>1, StackIs, EntryGone
<1>3. ASSUME NEW m, NEW o, Runs(stack, m, o)  PROVE Runs(stack', m, o)
  <2>1. PICK n \in 1..Len(stack) :
                stack[n].kind = "body" /\ stack[n].mod = m /\ stack[n].obj = o
    BY <1>3 DEF Runs
  <2>2. n # Len(stack)
    BY <1>1, <1>2, <2>1
  <2>3. n \in 1..Len(stack') /\ stack'[n] = stack[n]
    BY <1>2, <2>1, <2>2
  <2>. QED  BY <2>1, <2>3 DEF Runs
<1>. QED  BY <1>1, <1>2, <1>3, StackOnly

LEMMA LoadExecKeeps ==
    ASSUME ImportInv, Im!LoadExec  PROVE ImportInv'
<1>. DEFINE m == Im!This.mod
            o == made + 1
            f == [kind |-> "body", mod |-> m, obj |-> o,
                  pkg |-> IF Parent[m] = Root THEN 0 ELSE modules[Parent[m]]]
<1>1. /\ Im!Loading /\ modules[m] = 0 /\ made' = o
      /\ modules' = [modules EXCEPT ![m] = o] /\ stack' = Append(stack, f)
      /\ UNCHANGED <<whole, bound, lost>>
  BY DEF Im!LoadExec
<1>2. /\ stack # <<>> /\ Im!Last(stack).kind = "import" /\ Im!Last(stack).todo # <<>>
      /\ Im!Last(stack) = stack[Len(stack)] /\ Len(stack) \in Nat \ {0}
      /\ Head(Im!Last(stack).todo).mod = m /\ m \in Modules
      /\ Parent[m] # Root => Stays(stack, modules, whole, Len(stack), Parent[m])
  BY <1>1, TopLoads
<1>3. /\ stack \in Seq(Entry) /\ Sane(stack, modules, whole) /\ Objects(modules, whole, made)
      /\ modules \in [Modules -> Nat] /\ made \in Nat
      /\ \A k \in Modules : modules[k] \in 0..made
      /\ \A k, n \in Modules : modules[k] = modules[n] /\ modules[k] # 0 => k = n
      /\ whole \subseteq 1..made
  BY StackIs DEF Objects
<1>. HIDE DEF m
<1>4. o \in Nat /\ o # 0 /\ o \notin whole /\ \A k \in Modules : modules[k] # o
  BY <1>3
<1>5. Parent[m] # Root => Parent[m] \in Modules /\ modules[Parent[m]] \in Nat
                          /\ modules[Parent[m]] # 0 /\ Parent[m] # m
  BY <1>1, <1>2, <1>3, ParentsAre DEF Stays
<1>6. /\ f \in Entry /\ f.kind = "body" /\ f.mod = m /\ f.obj = o
      /\ Parent[m] # Root => f.pkg = modules[Parent[m]]
  BY <1>2, <1>4, <1>5 DEF Entry
<1>7. /\ modules'[m] = o /\ \A k \in Modules : k # m => modules'[k] = modules[k]
      /\ modules' \in [Modules -> Nat]
  BY <1>1, <1>2, <1>3, <1>4
<1>. HIDE DEF f, o
<1>8. Sane(stack, modules', whole)
  BY <1>1, <1>2, <1>3, ModuleComes
<1>9. ASSUME NEW j \in 1..Len(stack), stack[j].kind = "body"  PROVE stack[j].mod # m
  <2>1. BodyAt(stack, modules, whole, j, stack[j])
    BY <1>3, <1>9 DEF Sane, EntryAt
  <2>. QED  BY <1>1, <2>1 DEF BodyAt
<1>10. EntryAt(stack, modules', whole, Len(stack) + 1, f)
  <2>1. /\ Len(stack) + 1 > 1 /\ Len(stack) + 1 - 1 = Len(stack)
        /\ \A j \in 1..Len(stack) - 1 : j \in 1..Len(stack)
    BY <1>2
  <2>2. ASSUME Parent[m] # Root
        PROVE  f.pkg = modules'[Parent[m]] /\ Stays(stack, modules', whole, Len(stack) + 1, Parent[m])
    BY <1>2, <1>5, <1>6, <1>7, <2>1, <2>2 DEF Stays
  <2>3. BodyAt(stack, modules', whole, Len(stack) + 1, f)
    BY <1>2, <1>4, <1>6, <1>7, <1>9, <2>1, <2>2 DEF BodyAt
  <2>. QED  BY <1>6, <2>3 DEF EntryAt
<1>11. /\ Sane(stack', modules', whole) /\ Len(stack') = Len(stack) + 1
       /\ stack'[Len(stack) + 1] = f /\ \A i \in 1..Len(stack) : stack'[i] = stack[i]
  BY <1>1, <1>3, <1>6, <1>8, <1>10, EntryOn
<1>12. Objects(modules', whole, o)
  <2>1. \A k \in Modules : modules'[k] \in 0..o
    BY <1>3, <1>4, <1>7 DEF o
  <2>2. whole \subseteq 1..o
    BY <1>3 DEF o
  <2>3. \A k, n \in Modules : modules'[k] = modules'[n] /\ modules'[k] # 0 => k = n
    BY <1>3, <1>4, <1>7
  <2>. QED  BY <1>7, <2>1, <2>2, <2>3 DEF Objects
<1>13. ASSUME NEW k \in Modules, modules'[k] # 0
       PROVE  modules'[k] \in whole \/ Runs(stack', k, modules'[k])
  <2>1. CASE k = m
    <3>1. Len(stack) + 1 \in 1..Len(stack')
      BY <1>2, <1>11
    <3>. QED  BY <1>6, <1>7, <1>11, <2>1, <3>1 DEF Runs
  <2>2. CASE k # m
    <3>1. modules[k] \in whole \/ Runs(stack, k, modules[k])
      BY <1>7, <1>13, <2>2 DEF ImportInv, Accounted
    <3>2. \A n \in 1..Len(stack) : n \in 1..Len(stack')
      BY <1>2, <1>11
    <3>. QED  BY <1>7, <1>11, <2>2, <3>1, <3>2 DEF Runs
  <2>. QED  BY <2>1, <2>2
<1>14. ASSUME NEW k \in Modules, ~lost, Parent[k] # Root, modules'[k] \in whole
       PROVE  <<modules'[Parent[k]], k>> \in bound
  <2>1. k # m /\ modules[k] \in whole
    BY <1>4, <1>7, <1>14
  <2>2. <<modules[Parent[k]], k>> \in bound /\ <<0, k>> \notin bound
    BY <1>14, <2>1 DEF ImportInv
  <2>3. Parent[k] \in Modules /\ Parent[k] # m
    BY <1>1, <1>14, <2>2, ParentsAre
  <2>. QED  BY <1>7, <2>2, <2>3
<1>. QED  BY <1>1, <1>3, <1>4, <1>11, <1>12, <1>13, <1>14 DEF ImportInv, Accounted

(* The body on top, the stack under it, and the load that it was run for.  *)
LEMMA TopBody ==
    ASSUME ImportInv, stack # <<>>, Im!Top.kind = "body",
           NEW under, under = Im!Front(stack), NEW x, x = Im!Top.mod
    PROVE  /\ x \in Modules /\ Im!Top.obj = modules[x] /\ modules[x] # 0
           /\ modules[x] \notin whole
           /\ Parent[x] # Root => Im!Top.pkg = modules[Parent[x]] /\ Im!Top.pkg # 0
           /\ under \in Seq(Entry) /\ Sane(under, modules, whole) /\ under # <<>>
           /\ Im!Last(under).kind = "import" /\ Im!Last(under).todo # <<>>
           /\ Head(Im!Last(under).todo).mod = x
           /\ \A n \in 1..Len(under) : under[n].kind = "body" => under[n].mod # x
           /\ \A m, o : Runs(stack, m, o) => (m = x /\ o = modules[x]) \/ Runs(under, m, o)
<1>1. /\ Sane(under, modules, whole) /\ under \in Seq(Entry) /\ Len(stack) \in Nat \ {0}
      /\ Len(under) = Len(stack) - 1
      /\ \A i \in 1..Len(stack) - 1 : under[i] = stack[i]
      /\ Im!Top = stack[Len(stack)] /\ Im!Top \in Entry
      /\ EntryAt(stack, modules, whole, Len(stack), stack[Len(stack)])
  BY StackIs, EntryGone DEF Im!Top
<1>2. BodyAt(stack, modules, whole, Len(stack), Im!Top) /\ x \in Modules
  BY <1>1, EntriesAre DEF EntryAt
<1>3. /\ Len(stack) > 1 /\ stack[Len(stack) - 1].kind = "import"
      /\ stack[Len(stack) - 1].todo # <<>> /\ Head(stack[Len(stack) - 1].todo).mod = x
      /\ Im!Top.obj = modules[x] /\ Im!Top.obj # 0 /\ Im!Top.obj \notin whole
      /\ Parent[x] # Root => Im!Top.pkg = modules[Parent[x]] /\ modules[Parent[x]] # 0
      /\ \A j \in 1..Len(stack) - 1 : stack[j].kind = "body" => stack[j].mod # x
  BY <1>2 DEF BodyAt, Stays
<1>4. under # <<>> /\ Len(stack) - 1 \in 1..Len(stack) - 1
  BY <1>1, <1>3, EmptySeq
<1>5. Im!Last(under) = stack[Len(stack) - 1]
  BY <1>1, <1>4 DEF Im!Last
<1>6. ASSUME NEW m, NEW o, Runs(stack, m, o)
      PROVE  (m = x /\ o = modules[x]) \/ Runs(under, m, o)
  <2>1. PICK n \in 1..Len(stack) :
                stack[n].kind = "body" /\ stack[n].mod = m /\ stack[n].obj = o
    BY <1>6 DEF Runs
  <2>2. CASE n = Len(stack)
    BY <1>1, <1>3, <2>1, <2>2
  <2>3. CASE n # Len(stack)
    <3>1. n \in 1..Len(under) /\ under[n] = stack[n]
      BY <1>1, <2>1, <2>3
    <3>. QED  BY <2>1, <3>1 DEF Runs
  <2>. QED  BY <2>2, <2>3
<1>. QED  BY <1>1, <1>2, <1>3, <1>4, <1>5, <1>6

LEMMA BodyEndsKeeps ==
    ASSUME ImportInv, Im!BodyEnds  PROVE ImportInv'
<1>. DEFINE x == Im!Top.mod
            under == Im!Front(stack)
<1>1. /\ stack # <<>> /\ Im!Top.kind = "body" /\ whole' = whole \cup {Im!Top.obj}
      /\ bound' = IF Im!Top.pkg = 0 THEN bound ELSE bound \cup {<<Im!Top.pkg, x>>}
      /\ stack' = Im!Done(under)
      /\ modules' = modules /\ made' = made /\ lost' = lost
  BY DEF Im!BodyEnds
<1>2. /\ x \in Modules /\ Im!Top.obj = modules[x] /\ modules[x] # 0
      /\ modules[x] \notin whole
      /\ Parent[x] # Root => Im!Top.pkg = modules[Parent[x]] /\ Im!Top.pkg # 0
      /\ under \in Seq(Entry) /\ Sane(under, modules, whole) /\ under # <<>>
      /\ Im!Last(under).kind = "import" /\ Im!Last(under).todo # <<>>
      /\ Head(Im!Last(under).todo).mod = x
      /\ \A n \in 1..Len(under) : under[n].kind = "body" => under[n].mod # x
      /\ \A m, o : Runs(stack, m, o) => (m = x /\ o = modules[x]) \/ Runs(under, m, o)
  BY <1>1, TopBody
<1>3. Objects(modules, whole, made) /\ made \in Nat
  BY StackIs
<1>. HIDE DEF x, under
<1>4. whole' = whole \cup {modules[x]}
  BY <1>1, <1>2
<1>5. Sane(under, modules, whole')
  BY <1>2, <1>3, <1>4, ModuleChanges
<1>6. Stays(under, modules, whole', Len(under), x)
  BY <1>2, <1>4 DEF Stays
<1>7. Sane(stack', modules, whole') /\ \A m, o : Runs(under, m, o) => Runs(stack', m, o)
  BY <1>1, <1>2, <1>5, <1>6, LoadOver
<1>8. Objects(modules, whole', made)
  <2>1. modules[x] \in 1..made
    BY <1>2, <1>3 DEF Objects
  <2>. QED  BY <1>3, <1>4, <2>1 DEF Objects
<1>9. Accounted(stack', modules, whole')
  BY <1>2, <1>4, <1>7 DEF ImportInv, Accounted
<1>10. \A m \in Modules : <<0, m>> \notin bound'
  BY <1>1 DEF ImportInv
<1>11. ASSUME NEW k \in Modules, ~lost, Parent[k] # Root, modules[k] \in whole'
       PROVE  <<modules[Parent[k]], k>> \in bound'
  <2>1. CASE modules[k] \in whole
    BY <1>1, <1>11, <2>1 DEF ImportInv
  <2>2. CASE modules[k] = modules[x]
    <3>1. k = x
      BY <1>2, <1>3, <2>2 DEF Objects
    <3>. QED  BY <1>1, <1>2, <1>11, <3>1
  <2>. QED  BY <1>4, <1>11, <2>1, <2>2
<1>. QED  BY <1>1, <1>3, <1>7, <1>8, <1>9, <1>10, <1>11 DEF ImportInv

LEMMA BodyRaisesKeeps ==
    ASSUME ImportInv, Im!BodyRaises  PROVE ImportInv'
<1>. DEFINE x == Im!Top.mod
            under == Im!Front(stack)
<1>1. /\ stack # <<>> /\ Im!Top.kind = "body" /\ modules' = [modules EXCEPT ![x] = 0]
      /\ lost' = (lost \/ \E m \in Modules : Parent[m] = x /\ modules[m] \in whole)
      /\ stack' = Im!Failed(under)
      /\ made' = made /\ whole' = whole /\ bound' = bound
  BY DEF Im!BodyRaises
<1>2. /\ x \in Modules /\ modules[x] # 0 /\ modules[x] \notin whole
      /\ under \in Seq(Entry) /\ Sane(under, modules, whole) /\ under # <<>>
      /\ Im!Last(under).kind = "import" /\ Im!Last(under).todo # <<>>
      /\ \A n \in 1..Len(under) : under[n].kind = "body" => under[n].mod # x
      /\ \A m, o : Runs(stack, m, o) => (m = x /\ o = modules[x]) \/ Runs(under, m, o)
  BY <1>1, TopBody
<1>3. Objects(modules, whole, made) /\ made \in Nat /\ modules \in [Modules -> Nat]
  BY StackIs
<1>. HIDE DEF x, under
<1>4. Sane(under, modules', whole)
  BY <1>1, <1>2, <1>3, ModuleChanges
<1>5. Sane(stack', modules', whole) /\ \A m, o : Runs(under, m, o) => Runs(stack', m, o)
  BY <1>1, <1>2, <1>4, LoadFailed
<1>6. /\ modules'[x] = 0 /\ \A k \in Modules : k # x => modules'[k] = modules[k]
      /\ modules' \in [Modules -> Nat]
  BY <1>1, <1>2, <1>3
<1>7. Objects(modules', whole, made)
  BY <1>3, <1>6 DEF Objects
<1>8. Accounted(stack', modules', whole)
  BY <1>2, <1>5, <1>6 DEF ImportInv, Accounted
<1>9. ASSUME NEW k \in Modules, ~lost', Parent[k] # Root, modules'[k] \in whole
      PROVE  <<modules'[Parent[k]], k>> \in bound
  <2>1. k # x /\ modules[k] \in whole
    BY <1>3, <1>6, <1>9 DEF Objects
  <2>2. Parent[k] # x /\ Parent[k] \in Modules /\ ~lost
    BY <1>1, <1>9, <2>1, ParentsAre
  <2>. QED  BY <1>6, <1>9, <2>1, <2>2 DEF ImportInv
<1>. QED  BY <1>1, <1>3, <1>5, <1>7, <1>8, <1>9 DEF ImportInv

-----------------------------------------------------------------------------

LEMMA ImportsCreated == ASSUME Im!Init  PROVE ImportInv
<1>1. /\ modules = [m \in Modules |-> 0] /\ stack = <<>> /\ made = 0
      /\ whole = {} /\ bound = {} /\ lost = FALSE
  BY DEF Im!Init
<1>2. <<>> \in Seq(Entry) /\ Len(<<>>) = 0 /\ 0 \in Nat /\ 0 \in 0..0
  BY EmptySeq
<1>. QED  BY <1>1, <1>2 DEF ImportInv, Objects, Sane, Accounted

LEMMA ImportsKept == ASSUME ImportInv, Im!Next  PROVE ImportInv'
BY StatementKeeps, LoadCachedKeeps, LoadFailsKeeps, LoadExecKeeps, StatementEndsKeeps,
   BodyEndsKeeps, BodyRaisesKeeps DEF Im!Next

LEMMA ImportsInvariant == RuntimeSpec => []ImportInv
<1>1. Create => ImportInv
  BY ImportsCreated DEF Create
<1>2. ImportInv /\ [Step]_runtime => ImportInv'
  <2> SUFFICES ASSUME ImportInv, [Step]_runtime  PROVE ImportInv'
    OBVIOUS
  <2>1. CASE Im!Next
    BY <2>1, ImportsKept
  <2>2. CASE UNCHANGED imports
    BY <2>2 DEF imports, ImportInv
  <2>. QED  BY <2>1, <2>2 DEF Step, runtime
<1>. QED  BY <1>1, <1>2, PTL DEF RuntimeSpec

(* A module that can be seen half-made is one whose body runs, whatever    *)
(* imports what, in whatever circle, and whoever fails; what is whole is an*)
(* attribute of its package, unless the package failed after it (loadChain,*)
(* execModuleAs and importName in vm/imports.go).                          *)
THEOREM ModulesAreWhole == RuntimeSpec => []CacheIsWhole
<1>1. ImportInv => CacheIsWhole
  <2> SUFFICES ASSUME ImportInv  PROVE Im!CacheIsWhole
    BY DEF CacheIsWhole
  <2>1. /\ stack \in Seq(Entry) /\ DOMAIN stack = 1..Len(stack) /\ Len(stack) \in Nat
        /\ Sane(stack, modules, whole)
    BY StackIs, LenProperties
  <2>2. ASSUME NEW m \in Modules, modules[m] # 0
        PROVE  \/ modules[m] \in whole
               \/ \E n \in Im!Bodies : stack[n].mod = m /\ stack[n].obj = modules[m]
    BY <2>1, <2>2 DEF ImportInv, Accounted, Runs, Im!Bodies
  <2>3. ASSUME NEW n \in Im!Bodies
        PROVE  n \in 1..Len(stack) /\ BodyAt(stack, modules, whole, n, stack[n])
    BY <2>1, <2>3 DEF Im!Bodies, Sane, EntryAt
  <2>4. ASSUME NEW k \in Im!Bodies, NEW n \in Im!Bodies, stack[k].mod = stack[n].mod
        PROVE  k = n
    <3>1. stack[k].kind = "body" /\ stack[n].kind = "body"
      BY DEF Im!Bodies
    <3>2. ~(k < n) /\ ~(n < k)
      BY <2>3, <2>4, <3>1 DEF BodyAt
    <3>. QED  BY <2>3, <3>2
  <2>5. ASSUME NEW n \in Im!Bodies, Parent[stack[n].mod] # Root
        PROVE  stack[n].pkg # 0 /\ stack[n].pkg = modules[Parent[stack[n].mod]]
    BY <2>3, <2>5 DEF BodyAt, Stays
  <2>. QED  BY <2>2, <2>4, <2>5 DEF ImportInv, Im!CacheIsWhole
<1>. QED  BY <1>1, ImportsInvariant, PTL

-----------------------------------------------------------------------------
(* The order of classes *)

(* A hierarchy as class statements make it: the bases of a class are       *)
(* classes before it, none of them twice.                                  *)
Grown(bs) ==
    /\ bs \in Seq(Seq(Nat))
    /\ \A c \in 1..Len(bs) :
          Distinct(bs[c]) /\ \A n \in 1..Len(bs[c]) : bs[c][n] \in 1..c - 1

ClosedIn(bs, S) == \A x \in S : \A n \in 1..Len(bs[x]) : bs[x][n] \in S

(* The class and everything it inherits from, without recursion: what      *)
(* every set has that has the class and the bases of its members.          *)
Reach(bs, c) ==
    {x \in 1..Len(bs) : \A S \in SUBSET (1..Len(bs)) : ClosedIn(bs, S) /\ c \in S => x \in S}

ListsOf(bs, ms, c) == Append([n \in 1..Len(bs[c]) |-> ms[bs[c][n]]], bs[c])

(* Some order of the members of P respects every list.                     *)
Agreeable(P, lists) ==
    \A S \in SUBSET P :
        S # {} => \E x \in S : \A n \in 1..Len(lists) :
                                   \A y \in S : ~Co!Before(lists[n], y, x)

Keeps(s, lists) ==
    \A n \in 1..Len(lists) : \A x, y : Co!Before(lists[n], x, y) => Co!Before(s, x, y)

SoundOrder(A, lists, c, s) ==
    /\ s \in Seq(Nat) /\ s # <<>> /\ s[1] = c /\ Distinct(s)
    /\ \A x : Has(s, x) <=> x \in A
    /\ Agreeable(A \ {c}, lists) => Keeps(s, lists)

(* r is what is left of the list l once o has been picked: the rest of it, *)
(* and o has exactly what came before that, in the order of l.             *)
Rest(l, r, o) ==
    \E k \in Nat :
        /\ Len(l) = k + Len(r)
        /\ \A j \in 1..Len(r) : r[j] = l[k + j]
        /\ \A i \in 1..Len(l) : Has(o, l[i]) <=> i <= k
        /\ \A i, j \in 1..Len(l) : i < j /\ j <= k => Co!Before(o, l[i], l[j])

MergeInv(lists, w, o) ==
    /\ w \in Seq(Seq(Nat)) /\ Len(w) = Len(lists)
    /\ \A n \in 1..Len(lists) : Rest(lists[n], w[n], o)
    /\ \A x : Has(o, x) => \E n \in 1..Len(lists) : Has(lists[n], x)

(* The walk from c has seen o and has the calls t to come: every base of a *)
(* class it has seen is seen or to come.                                   *)
WalkInv(bs, c, o, t) ==
    /\ t \in Seq(Nat)
    /\ \A x : Has(o, x) \/ Has(t, x) => x \in Reach(bs, c)
    /\ IF o = <<>> THEN t = <<c>> ELSE o[1] = c
    /\ \A x : Has(o, x) => \A n \in 1..Len(bs[x]) : Has(o, bs[x][n]) \/ Has(t, bs[x][n])

Newest(bs, ms, w, o, t) ==
    LET c == Len(bs)
        lists == ListsOf(bs, ms, c)
    IN  /\ Len(ms) < c
        /\ o \in Seq(Nat) /\ Distinct(o)
        /\ w # <<>> => t = <<>> /\ MergeInv(lists, w, o)
        /\ w = <<>> => ~Agreeable(Reach(bs, c) \ {c}, lists) /\ WalkInv(bs, c, o, t)

Ordered(bs, ms) ==
    /\ Grown(bs)
    /\ ms \in Seq(Seq(Nat)) /\ Len(ms) <= Len(bs) /\ Len(bs) <= Len(ms) + 1
    /\ \A c \in 1..Len(ms) : SoundOrder(Reach(bs, c), ListsOf(bs, ms, c), c, ms[c])

OrderInv ==
    /\ Ordered(bases, mro)
    /\ \/ working = <<>> /\ out = <<>> /\ toVisit = <<>>
       \/ Len(bases[Len(bases)]) > 1 /\ Newest(bases, mro, working, out, toVisit)

(* What was called Ancestors is that set.                                  *)
Handed(f, bs, c) == {c} \cup UNION {f[b] : b \in Co!ToSet(bs[c])}
Inherits(f, bs) == f = [c \in DOMAIN bs |-> Handed(f, bs, c)]
AncestorsIn(bs) == CHOOSE f : Inherits(f, bs)

LEMMA AncestorsAre == Co!Ancestors = AncestorsIn(bases)
BY DEF Co!Ancestors, AncestorsIn, Inherits, Handed

LEMMA HierarchyIs ==
    ASSUME NEW bs, Grown(bs)
    PROVE  /\ Len(bs) \in Nat /\ DOMAIN bs = 1..Len(bs)
           /\ \A c \in 1..Len(bs) :
                 /\ bs[c] \in Seq(Nat) /\ Len(bs[c]) \in Nat /\ DOMAIN bs[c] = 1..Len(bs[c])
                 /\ Distinct(bs[c])
                 /\ \A n \in 1..Len(bs[c]) : bs[c][n] \in 1..Len(bs) /\ bs[c][n] < c
<1>1. bs \in Seq(Seq(Nat)) /\ Len(bs) \in Nat /\ DOMAIN bs = 1..Len(bs)
  BY LenProperties DEF Grown
<1>2. ASSUME NEW c \in 1..Len(bs)
      PROVE  /\ bs[c] \in Seq(Nat) /\ Len(bs[c]) \in Nat /\ DOMAIN bs[c] = 1..Len(bs[c])
             /\ Distinct(bs[c])
             /\ \A n \in 1..Len(bs[c]) : bs[c][n] \in 1..Len(bs) /\ bs[c][n] < c
  <2>1. bs[c] \in Seq(Nat)
    BY <1>1, <1>2, ElementOfSeq
  <2>2. Len(bs[c]) \in Nat /\ DOMAIN bs[c] = 1..Len(bs[c])
    BY <2>1, LenProperties
  <2>3. \A n \in 1..Len(bs[c]) : bs[c][n] \in 1..c - 1
    BY <1>2 DEF Grown
  <2>4. Distinct(bs[c])
    BY <1>2 DEF Grown
  <2>. QED  BY <1>1, <1>2, <2>1, <2>2, <2>3, <2>4
<1>. QED  BY <1>1, <1>2

(* The class is in the set, so are the bases of what is, and it is the     *)
(* least such set; all of it comes before the class.                       *)
LEMMA ReachIs ==
    ASSUME NEW bs, Grown(bs), NEW c \in 1..Len(bs)
    PROVE  /\ c \in Reach(bs, c) /\ Reach(bs, c) \subseteq 1..Len(bs)
           /\ ClosedIn(bs, Reach(bs, c))
           /\ \A S \in SUBSET (1..Len(bs)) : ClosedIn(bs, S) /\ c \in S => Reach(bs, c) \subseteq S
           /\ \A x \in Reach(bs, c) : x <= c
<1>1. c \in Reach(bs, c) /\ Reach(bs, c) \subseteq 1..Len(bs)
  BY DEF Reach
<1>2. \A S \in SUBSET (1..Len(bs)) : ClosedIn(bs, S) /\ c \in S => Reach(bs, c) \subseteq S
  BY DEF Reach
<1>3. ClosedIn(bs, Reach(bs, c))
  <2> SUFFICES ASSUME NEW x \in Reach(bs, c), NEW n \in 1..Len(bs[x])
               PROVE  bs[x][n] \in Reach(bs, c)
    BY DEF ClosedIn
  <2>1. x \in 1..Len(bs) /\ bs[x][n] \in 1..Len(bs)
    BY <1>1, HierarchyIs
  <2>2. ASSUME NEW S \in SUBSET (1..Len(bs)), ClosedIn(bs, S), c \in S
        PROVE  bs[x][n] \in S
    <3>1. x \in S
      BY <1>2, <2>2
    <3>. QED  BY <2>2, <3>1 DEF ClosedIn
  <2>. QED  BY <2>1, <2>2 DEF Reach
<1>4. \A x \in Reach(bs, c) : x <= c
  <2>1. Len(bs) \in Nat /\ 1..c \in SUBSET (1..Len(bs)) /\ c \in 1..c
    BY HierarchyIs
  <2>2. ASSUME NEW x \in 1..c, NEW n \in 1..Len(bs[x])  PROVE bs[x][n] \in 1..c
    <3>1. x \in 1..Len(bs) /\ x \in Nat
      BY <2>1
    <3>2. bs[x][n] \in 1..Len(bs) /\ bs[x][n] < x
      BY <3>1, HierarchyIs
    <3>. QED  BY <2>1, <3>1, <3>2
  <2>3. ClosedIn(bs, 1..c)
    BY <2>2 DEF ClosedIn
  <2>4. Reach(bs, c) \subseteq 1..c
    BY <1>2, <2>1, <2>3
  <2>. QED  BY <2>1, <2>4
<1>. QED  BY <1>1, <1>2, <1>3, <1>4

(* The class, and what its bases inherit.                                  *)
LEMMA ReachUnfolds ==
    ASSUME NEW bs, Grown(bs), NEW c \in 1..Len(bs)
    PROVE  \A x : x \in Reach(bs, c) <=>
                     \/ x = c
                     \/ \E n \in 1..Len(bs[c]) : x \in Reach(bs, bs[c][n])
<1>. DEFINE U == {c} \cup UNION {Reach(bs, bs[c][n]) : n \in 1..Len(bs[c])}
<1>1. ASSUME NEW n \in 1..Len(bs[c])  PROVE Reach(bs, bs[c][n]) \subseteq Reach(bs, c)
  <2>1. bs[c][n] \in 1..Len(bs)
    BY HierarchyIs
  <2>2. bs[c][n] \in Reach(bs, c)
    BY ReachIs DEF ClosedIn
  <2>3. Reach(bs, c) \in SUBSET (1..Len(bs)) /\ ClosedIn(bs, Reach(bs, c))
    BY ReachIs
  <2>. QED  BY <2>1, <2>2, <2>3, ReachIs
<1>2. U \subseteq Reach(bs, c)
  BY <1>1, ReachIs
<1>3. U \in SUBSET (1..Len(bs))
  BY <1>2, ReachIs
<1>4. ASSUME NEW x \in U, NEW n \in 1..Len(bs[x])  PROVE bs[x][n] \in U
  <2>1. CASE x = c
    <3>1. bs[c][n] \in 1..Len(bs) /\ n \in 1..Len(bs[c])
      BY <1>4, <2>1, HierarchyIs
    <3>2. bs[c][n] \in Reach(bs, bs[c][n])
      BY <3>1, ReachIs
    <3>. QED  BY <2>1, <3>1, <3>2
  <2>2. CASE x # c
    <3>1. PICK m \in 1..Len(bs[c]) : x \in Reach(bs, bs[c][m])
      BY <1>4, <2>2
    <3>2. bs[c][m] \in 1..Len(bs)
      BY <3>1, HierarchyIs
    <3>3. ClosedIn(bs, Reach(bs, bs[c][m]))
      BY <3>2, ReachIs
    <3>4. bs[x][n] \in Reach(bs, bs[c][m])
      BY <1>4, <3>1, <3>3 DEF ClosedIn
    <3>. QED  BY <3>1, <3>4
  <2>. QED  BY <2>1, <2>2
<1>5. ClosedIn(bs, U) /\ c \in U
  <2>. HIDE DEF U
  <2>1. ClosedIn(bs, U)
    BY <1>4 DEF ClosedIn
  <2>. QED  BY <2>1 DEF U
<1>6. Reach(bs, c) \subseteq U
  <2>. HIDE DEF U
  <2>. QED  BY <1>3, <1>5, ReachIs
<1>. QED  BY <1>2, <1>6

LEMMA AncestorsReach ==
    ASSUME NEW bs, Grown(bs), NEW c \in 1..Len(bs)
    PROVE  AncestorsIn(bs)[c] = Reach(bs, c)
<1>. DEFINE f == AncestorsIn(bs)
            g == [b \in DOMAIN bs |-> Reach(bs, b)]
<1>1. DOMAIN bs = 1..Len(bs) /\ Len(bs) \in Nat
  BY HierarchyIs
<1>2. ASSUME NEW b \in 1..Len(bs), NEW h,
             \A n \in 1..Len(bs[b]) : h[bs[b][n]] = Reach(bs, bs[b][n])
      PROVE  Handed(h, bs, b) = Reach(bs, b)
  <2>1. Co!ToSet(bs[b]) = {bs[b][n] : n \in 1..Len(bs[b])}
    BY HierarchyIs DEF Co!ToSet
  <2>2. UNION {h[x] : x \in Co!ToSet(bs[b])} = UNION {Reach(bs, bs[b][n]) : n \in 1..Len(bs[b])}
    BY <1>2, <2>1
  <2>3. \A x : x \in Reach(bs, b) <=>
                  x = b \/ \E n \in 1..Len(bs[b]) : x \in Reach(bs, bs[b][n])
    BY ReachUnfolds
  <2>. QED  BY <2>2, <2>3 DEF Handed
<1>3. Inherits(g, bs)
  <2>1. ASSUME NEW b \in 1..Len(bs)
        PROVE  Handed(g, bs, b) = Reach(bs, b)
    <3>1. \A n \in 1..Len(bs[b]) : g[bs[b][n]] = Reach(bs, bs[b][n])
      BY <1>1, HierarchyIs
    <3>. HIDE DEF g
    <3>. QED  BY <1>2, <3>1
  <2>2. [b \in DOMAIN bs |-> Handed(g, bs, b)]
          = [b \in DOMAIN bs |-> Reach(bs, b)]
    <3>. HIDE DEF g
    <3>. QED  BY <1>1, <2>1
  <2>. QED  BY <2>2 DEF Inherits
<1>4. Inherits(f, bs)
  <2>. HIDE DEF g
  <2>. QED  BY <1>3 DEF AncestorsIn
<1>. DEFINE T == {b \in 1..Len(bs) : f[b] # Reach(bs, b)}
<1>5. ASSUME T # {}  PROVE FALSE
  <2>1. T \subseteq Nat
    BY <1>1
  <2>2. PICK b \in T : \A x \in T : ~(x < b)
    <3>. HIDE DEF T
    <3>. QED  BY <1>5, <2>1, LeastOne
  <2>3. b \in 1..Len(bs)
    OBVIOUS
  <2>4. \A n \in 1..Len(bs[b]) : f[bs[b][n]] = Reach(bs, bs[b][n])
    <3>1. \A n \in 1..Len(bs[b]) : bs[b][n] \in 1..Len(bs) /\ bs[b][n] < b
      BY <2>3, HierarchyIs
    <3>. HIDE DEF f
    <3>. QED  BY <2>2, <3>1
  <2>. HIDE DEF f
  <2>5. Handed(f, bs, b) = Reach(bs, b)
    BY <1>2, <2>3, <2>4
  <2>6. f[b] = Handed(f, bs, b)
    BY <1>1, <1>4, <2>3 DEF Inherits
  <2>. QED  BY <2>2, <2>5, <2>6
<1>. QED  BY <1>5

(* A new class does not change what the others inherit.                    *)
LEMMA ReachStays ==
    ASSUME NEW bs, Grown(bs), NEW l \in Seq(Nat), Grown(Append(bs, l)),
           NEW c \in 1..Len(bs)
    PROVE  Reach(Append(bs, l), c) = Reach(bs, c)
<1>. DEFINE ns == Append(bs, l)
<1>1. Len(bs) \in Nat /\ Len(ns) = Len(bs) + 1 /\ \A b \in 1..Len(bs) : ns[b] = bs[b]
  BY HierarchyIs, AppendProperties DEF Grown
<1>2. c \in 1..Len(ns) /\ 1..Len(bs) \subseteq 1..Len(ns)
  BY <1>1
<1>. HIDE DEF ns
<1>3. Grown(ns)
  BY DEF ns
<1>4. Reach(bs, c) \in SUBSET (1..Len(bs)) /\ ClosedIn(bs, Reach(bs, c)) /\ c \in Reach(bs, c)
  BY ReachIs
<1>5. ClosedIn(ns, Reach(bs, c)) /\ Reach(bs, c) \in SUBSET (1..Len(ns))
  BY <1>1, <1>2, <1>4 DEF ClosedIn
<1>6. Reach(ns, c) \subseteq Reach(bs, c)
  BY <1>2, <1>3, <1>4, <1>5, ReachIs
<1>7. ClosedIn(ns, Reach(ns, c)) /\ c \in Reach(ns, c)
  BY <1>2, <1>3, ReachIs
<1>8. ClosedIn(bs, Reach(ns, c)) /\ Reach(ns, c) \in SUBSET (1..Len(bs))
  BY <1>1, <1>4, <1>6, <1>7 DEF ClosedIn
<1>9. Reach(bs, c) \subseteq Reach(ns, c)
  BY <1>7, <1>8, ReachIs
<1>. QED  BY <1>6, <1>9 DEF ns
(* The lists to merge for a class hold all that it inherits from, none of  *)
(* them the same class twice.                                              *)
LEMMA ListsAre ==
    ASSUME NEW bs, NEW ms, Ordered(bs, ms), NEW c \in 1..Len(bs)
    PROVE  /\ ListsOf(bs, ms, c) \in Seq(Seq(Nat))
           /\ Len(ListsOf(bs, ms, c)) = Len(bs[c]) + 1
           /\ \A n \in 1..Len(bs[c]) : ListsOf(bs, ms, c)[n] = ms[bs[c][n]]
           /\ ListsOf(bs, ms, c)[Len(bs[c]) + 1] = bs[c]
           /\ \A n \in 1..Len(ListsOf(bs, ms, c)) :
                 ListsOf(bs, ms, c)[n] \in Seq(Nat) /\ Distinct(ListsOf(bs, ms, c)[n])
           /\ \A x : x \in Reach(bs, c) \ {c} <=>
                        \E n \in 1..Len(ListsOf(bs, ms, c)) : Has(ListsOf(bs, ms, c)[n], x)
<1>. DEFINE f == [n \in 1..Len(bs[c]) |-> ms[bs[c][n]]]
            L == ListsOf(bs, ms, c)
<1>1. /\ Grown(bs) /\ Len(bs) \in Nat /\ Len(ms) \in Nat /\ Len(bs) <= Len(ms) + 1
      /\ ms \in Seq(Seq(Nat))
  BY HierarchyIs, LenProperties DEF Ordered
<1>2. /\ bs[c] \in Seq(Nat) /\ Len(bs[c]) \in Nat /\ Distinct(bs[c])
      /\ DOMAIN bs[c] = 1..Len(bs[c])
      /\ \A n \in 1..Len(bs[c]) :
            bs[c][n] \in 1..Len(bs) /\ bs[c][n] \in 1..Len(ms) /\ bs[c][n] < c
  <2>1. \A n \in 1..Len(bs[c]) : bs[c][n] \in 1..Len(bs) /\ bs[c][n] < c
    BY <1>1, HierarchyIs
  <2>. QED  BY <1>1, <2>1, HierarchyIs
<1>3. \A b \in 1..Len(ms) :
         ms[b] \in Seq(Nat) /\ Distinct(ms[b]) /\ \A x : Has(ms[b], x) <=> x \in Reach(bs, b)
  BY DEF Ordered, SoundOrder
<1>4. f \in Seq(Seq(Nat)) /\ Len(f) = Len(bs[c])
  <2>1. \A n \in 1..Len(bs[c]) : ms[bs[c][n]] \in Seq(Nat)
    BY <1>2, <1>3
  <2>. QED  BY <1>2, <2>1
<1>5. L = Append(f, bs[c])
  BY DEF ListsOf
<1>6. /\ L \in Seq(Seq(Nat)) /\ Len(L) = Len(bs[c]) + 1
      /\ \A n \in 1..Len(bs[c]) : L[n] = f[n]
      /\ L[Len(bs[c]) + 1] = bs[c]
  <2>. HIDE DEF f, L
  <2>. QED  BY <1>2, <1>4, <1>5, AppendProperties
<1>7. \A n \in 1..Len(bs[c]) : L[n] = ms[bs[c][n]]
  BY <1>6
<1>. HIDE DEF L, f
<1>8. ASSUME NEW n \in 1..Len(L)  PROVE L[n] \in Seq(Nat) /\ Distinct(L[n])
  <2>1. CASE n \in 1..Len(bs[c])
    BY <1>2, <1>3, <1>7, <2>1
  <2>2. CASE n = Len(bs[c]) + 1
    BY <1>2, <1>6, <2>2
  <2>. QED  BY <1>2, <1>6, <2>1, <2>2
<1>9. ASSUME NEW x, x \in Reach(bs, c), x # c
      PROVE  \E n \in 1..Len(L) : Has(L[n], x)
  <2>1. PICK n \in 1..Len(bs[c]) : x \in Reach(bs, bs[c][n])
    BY <1>1, <1>9, ReachUnfolds
  <2>2. Has(L[n], x)
    BY <1>2, <1>3, <1>7, <2>1
  <2>. QED  BY <1>2, <1>6, <2>2
<1>10. ASSUME NEW x, NEW n \in 1..Len(L), Has(L[n], x)
       PROVE  x \in Reach(bs, c) /\ x # c
  <2>1. ASSUME NEW m \in 1..Len(bs[c]), x \in Reach(bs, bs[c][m])
        PROVE  x \in Reach(bs, c) /\ x # c
    <3>1. x \in Reach(bs, c)
      BY <1>1, <2>1, ReachUnfolds
    <3>2. bs[c][m] \in 1..Len(bs) /\ bs[c][m] < c
      BY <1>2
    <3>3. x <= bs[c][m]
      BY <1>1, <2>1, <3>2, ReachIs
    <3>4. x \in 1..Len(bs)
      BY <1>1, <3>1, ReachIs
    <3>. QED  BY <1>1, <3>1, <3>2, <3>3, <3>4
  <2>2. CASE n \in 1..Len(bs[c])
    BY <1>2, <1>3, <1>7, <1>10, <2>1, <2>2
  <2>3. CASE n = Len(bs[c]) + 1
    <3>1. PICK m \in 1..Len(bs[c]) : x = bs[c][m]
      BY <1>2, <1>6, <1>10, <2>3 DEF Has
    <3>2. x \in Reach(bs, bs[c][m])
      BY <1>1, <1>2, <3>1, ReachIs
    <3>. QED  BY <2>1, <3>2
  <2>. QED  BY <1>2, <1>6, <2>2, <2>3
<1>11. \A x : x \in Reach(bs, c) \ {c} <=> \E n \in 1..Len(L) : Has(L[n], x)
  BY <1>9, <1>10
<1>. QED  BY <1>6, <1>7, <1>8, <1>11 DEF L

LEMMA ListsStay ==
    ASSUME NEW bs, NEW ms, Ordered(bs, ms), NEW c \in 1..Len(bs)
    PROVE  /\ \A l \in Seq(Nat) : ListsOf(Append(bs, l), ms, c) = ListsOf(bs, ms, c)
           /\ \A s \in Seq(Nat) : ListsOf(bs, Append(ms, s), c) = ListsOf(bs, ms, c)
<1>1. /\ Grown(bs) /\ Len(bs) \in Nat /\ Len(ms) \in Nat /\ Len(bs) <= Len(ms) + 1
      /\ ms \in Seq(Seq(Nat)) /\ bs \in Seq(Seq(Nat))
  BY HierarchyIs, LenProperties DEF Ordered, Grown
<1>2. ASSUME NEW l \in Seq(Nat)  PROVE ListsOf(Append(bs, l), ms, c) = ListsOf(bs, ms, c)
  <2>1. Append(bs, l)[c] = bs[c]
    BY <1>1, AppendProperties
  <2>. QED  BY <2>1 DEF ListsOf
<1>3. ASSUME NEW s \in Seq(Nat)  PROVE ListsOf(bs, Append(ms, s), c) = ListsOf(bs, ms, c)
  <2>1. \A n \in 1..Len(bs[c]) : bs[c][n] \in 1..Len(bs) /\ bs[c][n] < c
    BY <1>1, HierarchyIs
  <2>2. \A n \in 1..Len(bs[c]) : bs[c][n] \in 1..Len(ms)
    BY <1>1, <2>1
  <2>3. \A b \in 1..Len(ms) : Append(ms, s)[b] = ms[b]
    BY <1>1, AppendProperties
  <2>4. [n \in 1..Len(bs[c]) |-> Append(ms, s)[bs[c][n]]] = [n \in 1..Len(bs[c]) |-> ms[bs[c][n]]]
    BY <2>2, <2>3
  <2>. QED  BY <2>4 DEF ListsOf
<1>. QED  BY <1>2, <1>3

(* A class statement leaves the orders as sound as they were, ...          *)
LEMMA ClassComes ==
    ASSUME NEW bs, NEW ms, Ordered(bs, ms), Len(ms) = Len(bs),
           NEW l \in Seq(Nat), Distinct(l), \A n \in 1..Len(l) : l[n] \in 1..Len(bs)
    PROVE  Ordered(Append(bs, l), ms)
<1>. DEFINE ns == Append(bs, l)
<1>1. Grown(bs) /\ bs \in Seq(Seq(Nat)) /\ Len(bs) \in Nat /\ ms \in Seq(Seq(Nat))
  BY HierarchyIs DEF Ordered, Grown
<1>2. /\ ns \in Seq(Seq(Nat)) /\ Len(ns) = Len(bs) + 1
      /\ \A c \in 1..Len(bs) : ns[c] = bs[c]
      /\ ns[Len(bs) + 1] = l
  BY <1>1, AppendProperties
<1>. HIDE DEF ns
<1>3. ASSUME NEW c \in 1..Len(ns)
      PROVE  Distinct(ns[c]) /\ \A n \in 1..Len(ns[c]) : ns[c][n] \in 1..c - 1
  <2>1. CASE c \in 1..Len(bs)
    BY <1>1, <1>2, <2>1 DEF Grown
  <2>2. CASE c = Len(bs) + 1
    BY <1>1, <1>2, <2>2
  <2>. QED  BY <1>1, <1>2, <2>1, <2>2
<1>4. Grown(ns)
  BY <1>2, <1>3 DEF Grown
<1>5. ASSUME NEW c \in 1..Len(ms)
      PROVE  SoundOrder(Reach(ns, c), ListsOf(ns, ms, c), c, ms[c])
  <2>1. Reach(ns, c) = Reach(bs, c)
    BY <1>1, <1>4, ReachStays DEF ns
  <2>2. ListsOf(ns, ms, c) = ListsOf(bs, ms, c)
    BY ListsStay DEF ns
  <2>3. SoundOrder(Reach(bs, c), ListsOf(bs, ms, c), c, ms[c])
    BY DEF Ordered
  <2>. QED  BY <2>1, <2>2, <2>3
<1>6. Len(ms) <= Len(ns) /\ Len(ns) <= Len(ms) + 1
  BY <1>1, <1>2
<1>. QED  BY <1>1, <1>4, <1>5, <1>6 DEF Ordered, ns

(* ... and so does a sound order for the newest.                           *)
LEMMA OrderComes ==
    ASSUME NEW bs, NEW ms, Ordered(bs, ms), Len(ms) < Len(bs), NEW s,
           SoundOrder(Reach(bs, Len(bs)), ListsOf(bs, ms, Len(bs)), Len(bs), s)
    PROVE  Ordered(bs, Append(ms, s))
<1>. DEFINE ns == Append(ms, s)
<1>1. /\ Grown(bs) /\ Len(bs) \in Nat /\ ms \in Seq(Seq(Nat)) /\ Len(ms) \in Nat
      /\ Len(bs) = Len(ms) + 1 /\ s \in Seq(Nat)
  BY HierarchyIs, LenProperties DEF Ordered, SoundOrder
<1>2. /\ ns \in Seq(Seq(Nat)) /\ Len(ns) = Len(ms) + 1
      /\ \A c \in 1..Len(ms) : ns[c] = ms[c]
      /\ ns[Len(ms) + 1] = s
  BY <1>1, AppendProperties
<1>. HIDE DEF ns
<1>3. ASSUME NEW c \in 1..Len(ns)
      PROVE  SoundOrder(Reach(bs, c), ListsOf(bs, ns, c), c, ns[c])
  <2>1. c \in 1..Len(bs)
    BY <1>1, <1>2
  <2>2. ListsOf(bs, ns, c) = ListsOf(bs, ms, c)
    BY <1>1, <2>1, ListsStay DEF ns
  <2>3. CASE c \in 1..Len(ms)
    BY <1>2, <2>2, <2>3 DEF Ordered
  <2>4. CASE c = Len(bs)
    BY <1>1, <1>2, <2>2, <2>4
  <2>. QED  BY <1>1, <1>2, <2>3, <2>4
<1>4. Len(ns) <= Len(bs) /\ Len(bs) <= Len(ns) + 1
  BY <1>1, <1>2
<1>. QED  BY <1>1, <1>2, <1>3, <1>4 DEF Ordered, ns
(* What came before another still does when an element is added.           *)
LEMMA StillBefore ==
    ASSUME NEW S, NEW s \in Seq(S), NEW e \in S, NEW x, NEW y, Co!Before(s, x, y)
    PROVE  Co!Before(Append(s, e), x, y) /\ Co!Before(<<e>> \o s, x, y)
<1>1. Len(s) \in Nat /\ DOMAIN s = 1..Len(s)
  BY LenProperties
<1>2. PICK m, n \in 1..Len(s) : m < n /\ s[m] = x /\ s[n] = y
  BY <1>1 DEF Co!Before
<1>3. Co!Before(Append(s, e), x, y)
  <2>1. /\ Append(s, e) \in Seq(S) /\ Len(Append(s, e)) = Len(s) + 1
        /\ \A i \in 1..Len(s) : Append(s, e)[i] = s[i]
    BY AppendProperties
  <2>2. m \in DOMAIN Append(s, e) /\ n \in DOMAIN Append(s, e)
    BY <1>1, <2>1, LenProperties
  <2>. QED  BY <1>2, <2>1, <2>2 DEF Co!Before
<1>4. Co!Before(<<e>> \o s, x, y)
  <2>1. /\ <<e>> \o s \in Seq(S) /\ Len(<<e>> \o s) = Len(s) + 1
        /\ \A i \in 1..Len(s) : (<<e>> \o s)[i + 1] = s[i]
    BY InFront
  <2>2. m + 1 \in DOMAIN (<<e>> \o s) /\ n + 1 \in DOMAIN (<<e>> \o s) /\ m + 1 < n + 1
    BY <1>1, <1>2, <2>1, LenProperties
  <2>3. (<<e>> \o s)[m + 1] = x /\ (<<e>> \o s)[n + 1] = y
    BY <1>2, <2>1
  <2>. QED  BY <2>2, <2>3 DEF Co!Before
<1>. QED  BY <1>3, <1>4

(* The merge *)

LEMMA PrefixIs ==
    ASSUME NEW r \in Seq(Nat), NEW p \in Nat
    PROVE  Co!IsPrefix(<<p>>, r) <=> r # <<>> /\ r[1] = p
<1>1. ASSUME NEW s \in Seq(Nat), 1 <= Len(s)
      PROVE  Len(SubSeq(s, 1, 1)) = 1 /\ SubSeq(s, 1, 1) \in Seq(Nat) /\ SubSeq(s, 1, 1)[1] = s[1]
  <2>1. \A i \in 1..1 : s[i] \in Nat
    BY <1>1, LenProperties, ElementOfSeq
  <2>. QED  BY <2>1, ButLast
<1>2. Len(r) \in Nat /\ (r # <<>> <=> 1 <= Len(r))
  BY LenProperties, EmptySeq
<1>3. <<p>> \in Seq(Nat) /\ Len(<<p>>) = 1 /\ <<p>>[1] = p
  OBVIOUS
<1>4. ASSUME 1 <= Len(r)
      PROVE  SubSeq(<<p>>, 1, 1) = SubSeq(r, 1, 1) <=> r[1] = p
  <2>1. /\ SubSeq(r, 1, 1) \in Seq(Nat) /\ Len(SubSeq(r, 1, 1)) = 1
        /\ SubSeq(r, 1, 1)[1] = r[1]
    BY <1>1, <1>4
  <2>2. /\ SubSeq(<<p>>, 1, 1) \in Seq(Nat) /\ Len(SubSeq(<<p>>, 1, 1)) = 1
        /\ SubSeq(<<p>>, 1, 1)[1] = p
    BY <1>1, <1>3
  <2>3. \A s, u \in Seq(Nat) : Len(s) = 1 /\ Len(u) = 1 => (s = u <=> s[1] = u[1])
    BY SeqEqual
  <2>. QED  BY <2>1, <2>2, <2>3
<1>. QED  BY <1>2, <1>3, <1>4 DEF Co!IsPrefix

(* Picking p, which is in nobody's tail, goes on with every list.          *)
LEMMA PickOne ==
    ASSUME NEW l \in Seq(Nat), Distinct(l), NEW r \in Seq(Nat), NEW o \in Seq(Nat),
           Rest(l, r, o), NEW p \in Nat, ~Has(o, p), \A j \in 2..Len(r) : r[j] # p
    PROVE  Rest(l, IF Co!IsPrefix(<<p>>, r) THEN Tail(r) ELSE r, Append(o, p))
<1>. DEFINE q == Append(o, p)
<1>1. /\ Len(l) \in Nat /\ DOMAIN l = 1..Len(l) /\ Len(r) \in Nat /\ Len(o) \in Nat
      /\ DOMAIN o = 1..Len(o)
  BY LenProperties
<1>2. PICK k \in Nat :
         /\ Len(l) = k + Len(r)
         /\ \A j \in 1..Len(r) : r[j] = l[k + j]
         /\ \A i \in 1..Len(l) : Has(o, l[i]) <=> i <= k
         /\ \A i, j \in 1..Len(l) : i < j /\ j <= k => Co!Before(o, l[i], l[j])
  BY DEF Rest
<1>3. /\ \A v : Has(q, v) <=> Has(o, v) \/ v = p
      /\ q \in Seq(Nat) /\ Len(q) = Len(o) + 1 /\ q[Len(o) + 1] = p
      /\ \A i \in 1..Len(o) : q[i] = o[i]
  <2>1. \A v : Has(q, v) <=> Has(o, v) \/ v = p
    BY AtTheEnd
  <2>2. /\ q \in Seq(Nat) /\ Len(q) = Len(o) + 1 /\ q[Len(o) + 1] = p
        /\ \A i \in 1..Len(o) : q[i] = o[i]
    BY AppendProperties
  <2>. QED  BY <2>1, <2>2
<1>4. \A x, y : Co!Before(o, x, y) => Co!Before(q, x, y)
  BY StillBefore
<1>. HIDE DEF q
<1>5. CASE r # <<>> /\ r[1] = p
  <2>1. Co!IsPrefix(<<p>>, r)
    BY <1>5, PrefixIs
  <2>2. /\ Tail(r) \in Seq(Nat) /\ Len(Tail(r)) = Len(r) - 1
        /\ \A j \in 1..Len(Tail(r)) : Tail(r)[j] = r[j + 1]
    BY <1>5, HeadTailProperties
  <2>3. Len(r) # 0 /\ k + 1 \in 1..Len(l) /\ l[k + 1] = p
    <3>1. Len(r) # 0
      BY <1>5, EmptySeq
    <3>2. 1 \in 1..Len(r) /\ k + 1 \in 1..Len(l)
      BY <1>1, <1>2, <3>1
    <3>. QED  BY <1>2, <1>5, <3>1, <3>2
  <2>4. Len(l) = (k + 1) + Len(Tail(r))
    BY <1>1, <1>2, <2>2
  <2>5. \A j \in 1..Len(Tail(r)) : Tail(r)[j] = l[(k + 1) + j]
    <3>1. \A j \in 1..Len(Tail(r)) : j + 1 \in 1..Len(r) /\ k + (j + 1) = (k + 1) + j
      BY <1>1, <1>2, <2>2
    <3>. QED  BY <1>2, <2>2, <3>1
  <2>6. \A i \in 1..Len(l) : l[i] = p <=> i = k + 1
    BY <1>1, <2>3 DEF Distinct
  <2>7. \A i \in 1..Len(l) : Has(q, l[i]) <=> i <= k + 1
    BY <1>1, <1>2, <1>3, <2>6
  <2>8. ASSUME NEW i \in 1..Len(l), NEW j \in 1..Len(l), i < j, j <= k + 1
        PROVE  Co!Before(q, l[i], l[j])
    <3>1. CASE j <= k
      BY <1>2, <1>4, <2>8, <3>1
    <3>2. CASE j = k + 1
      <4>1. Has(o, l[i])
        BY <1>1, <1>2, <2>8, <3>2
      <4>2. PICK m \in 1..Len(o) : o[m] = l[i]
        BY <1>1, <4>1 DEF Has
      <4>3. DOMAIN q = 1..Len(o) + 1
        BY <1>3, LenProperties
      <4>4. q[m] = l[i] /\ q[Len(o) + 1] = l[j]
        BY <1>3, <2>3, <3>2, <4>2
      <4>5. m \in DOMAIN q /\ Len(o) + 1 \in DOMAIN q /\ m < Len(o) + 1
        BY <1>1, <4>3
      <4>. QED  BY <4>4, <4>5 DEF Co!Before
    <3>. QED  BY <1>1, <2>8, <3>1, <3>2
  <2>9. k + 1 \in Nat
    OBVIOUS
  <2>10. Rest(l, Tail(r), q)
    BY <2>4, <2>5, <2>7, <2>8, <2>9 DEF Rest
  <2>. QED  BY <2>1, <2>10 DEF q
<1>6. CASE ~(r # <<>> /\ r[1] = p)
  <2>1. ~Co!IsPrefix(<<p>>, r)
    BY <1>6, PrefixIs
  <2>2. ASSUME NEW i \in 1..Len(l), l[i] = p  PROVE FALSE
    <3>1. ~(i <= k)
      BY <1>2, <2>2
    <3>2. i - k \in 1..Len(r) /\ k + (i - k) = i
      BY <1>1, <1>2, <3>1
    <3>3. r[i - k] = p
      BY <1>2, <2>2, <3>2
    <3>4. r # <<>>
      BY <1>1, <3>2, EmptySeq
    <3>5. i - k = 1
      BY <1>1, <3>2, <3>3
    <3>. QED  BY <1>6, <3>3, <3>4, <3>5
  <2>3. \A i \in 1..Len(l) : Has(q, l[i]) <=> i <= k
    BY <1>2, <1>3, <2>2
  <2>4. Rest(l, r, q)
    BY <1>2, <1>4, <2>3 DEF Rest
  <2>. QED  BY <2>1, <2>4 DEF q
<1>. QED  BY <1>5, <1>6

(* Nothing has been picked yet.                                            *)
LEMMA MergeBegins ==
    ASSUME NEW lists \in Seq(Seq(Nat))
    PROVE  MergeInv(lists, lists, <<>>)
<1>1. ASSUME NEW n \in 1..Len(lists)  PROVE Rest(lists[n], lists[n], <<>>)
  <2>1. lists[n] \in Seq(Nat)
    BY ElementOfSeq
  <2>2. Len(lists[n]) \in Nat
    BY <2>1, LenProperties
  <2>3. 0 \in Nat /\ Len(lists[n]) = 0 + Len(lists[n])
        /\ \A j \in 1..Len(lists[n]) : lists[n][j] = lists[n][0 + j] /\ ~(j <= 0)
    BY <2>2
  <2>4. \A v : ~Has(<<>>, v)
    BY DEF Has
  <2>. QED  BY <2>3, <2>4 DEF Rest
<1>2. \A v : ~Has(<<>>, v)
  BY DEF Has
<1>. QED  BY <1>1, <1>2 DEF MergeInv
(* The actions *)

LEMMA OrderIs ==
    ASSUME OrderInv
    PROVE  /\ Ordered(bases, mro) /\ Grown(bases)
           /\ Len(bases) \in Nat /\ Len(mro) \in Nat
           /\ Len(mro) <= Len(bases) /\ Len(bases) <= Len(mro) + 1
           /\ mro \in Seq(Seq(Nat))
           /\ ~(working = <<>> /\ out = <<>> /\ toVisit = <<>>) =>
                 /\ Len(bases[Len(bases)]) > 1
                 /\ Newest(bases, mro, working, out, toVisit)
BY HierarchyIs, LenProperties DEF OrderInv, Ordered

LEMMA NewestIs ==
    ASSUME OrderInv, ~(working = <<>> /\ out = <<>> /\ toVisit = <<>>)
    PROVE  /\ Len(mro) < Len(bases) /\ Len(bases) \in 1..Len(bases)
           /\ Len(bases[Len(bases)]) > 1
           /\ out \in Seq(Nat) /\ Distinct(out)
           /\ working # <<>> =>
                 toVisit = <<>> /\ MergeInv(ListsOf(bases, mro, Len(bases)), working, out)
           /\ working = <<>> =>
                 /\ ~Agreeable(Reach(bases, Len(bases)) \ {Len(bases)},
                               ListsOf(bases, mro, Len(bases)))
                 /\ WalkInv(bases, Len(bases), out, toVisit)
<1>1. Newest(bases, mro, working, out, toVisit) /\ Len(bases[Len(bases)]) > 1
  BY OrderIs
<1>2. Len(mro) < Len(bases) /\ Len(bases) \in 1..Len(bases)
  BY <1>1, OrderIs DEF Newest
<1>. QED  BY <1>1, <1>2 DEF Newest

LEMMA PermutationIs ==
    ASSUME NEW N \in Nat, NEW bs \in Co!SetToAllKPermutations(1..N)
    PROVE  bs \in Seq(Nat) /\ Distinct(bs) /\ \A n \in 1..Len(bs) : bs[n] \in 1..N
<1>1. PICK S \in SUBSET (1..N) : bs \in Co!SetToSeqs(S)
  BY DEF Co!SetToAllKPermutations
<1>2. Co!Cardinality(S) = Cardinality(S)
  BY DEF Co!Cardinality, Cardinality
<1>3. Cardinality(S) \in Nat
  <2>1. IsFiniteSet(1..N)
    BY FS_Interval
  <2>2. IsFiniteSet(S)
    BY <1>1, <2>1, FS_Subset
  <2>. QED  BY <2>2, FS_CardinalityType
<1>. DEFINE k == Cardinality(S)
<1>4. bs \in [1..k -> S] /\ \A i, j \in 1..k : i # j => bs[i] # bs[j]
  BY <1>1, <1>2 DEF Co!SetToSeqs
<1>. HIDE DEF k
<1>5. k \in Nat
  BY <1>3 DEF k
<1>6. bs \in Seq(Nat) /\ Len(bs) = k /\ DOMAIN bs = 1..k
  <2>1. bs \in [1..k -> Nat]
    <3>1. S \subseteq Nat
      BY <1>1
    <3>2. bs \in [1..k -> S]
      BY <1>4
    <3>. QED  BY <3>1, <3>2
  <2>2. bs \in Seq(Nat)
    BY <1>5, <2>1
  <2>3. DOMAIN bs = 1..k /\ DOMAIN bs = 1..Len(bs) /\ Len(bs) \in Nat
    BY <2>1, <2>2, LenProperties
  <2>. QED  BY <1>5, <2>2, <2>3
<1>. QED  BY <1>4, <1>6 DEF Distinct

LEMMA BuildClassKeeps ==
    ASSUME OrderInv, Co!BuildClass  PROVE OrderInv'
<1>1. Len(mro) = Len(bases) /\ UNCHANGED <<mro, working, out, toVisit>>
  BY DEF Co!BuildClass
<1>2. working = <<>> /\ out = <<>> /\ toVisit = <<>>
  BY <1>1, OrderIs, NewestIs
<1>3. DOMAIN bases = 1..Len(bases) /\ Len(bases) \in Nat
  BY OrderIs, HierarchyIs
<1>4. PICK bs \in Co!SetToAllKPermutations(1..Len(bases)) : bases' = Append(bases, bs)
  BY <1>3 DEF Co!BuildClass
<1>5. bs \in Seq(Nat) /\ Distinct(bs) /\ \A n \in 1..Len(bs) : bs[n] \in 1..Len(bases)
  BY <1>3, <1>4, PermutationIs
<1>6. Ordered(Append(bases, bs), mro)
  BY <1>1, <1>5, OrderIs, ClassComes
<1>. QED  BY <1>1, <1>2, <1>4, <1>6 DEF OrderInv

LEMMA OrderDone ==
    ASSUME OrderInv, Len(mro) < Len(bases), NEW s,
           SoundOrder(Reach(bases, Len(bases)), ListsOf(bases, mro, Len(bases)), Len(bases), s),
           mro' = Append(mro, s), bases' = bases,
           working' = <<>>, out' = <<>>, toVisit' = <<>>
    PROVE  OrderInv'
<1>1. Ordered(bases, Append(mro, s))
  BY OrderIs, OrderComes
<1>. QED  BY <1>1 DEF OrderInv

(* One base or none: nothing to merge.                                     *)
LEMMA ComputeMROKeeps ==
    ASSUME OrderInv, Co!ComputeMRO  PROVE OrderInv'
<1>. DEFINE c == Len(bases)
            L == ListsOf(bases, mro, c)
            A == Reach(bases, c)
<1>1. /\ Len(mro) < c /\ Len(bases[c]) <= 1
      /\ mro' = Append(mro, IF bases[c] = <<>> THEN <<c>> ELSE <<c>> \o mro[bases[c][1]])
      /\ bases' = bases /\ working' = working /\ out' = out /\ toVisit' = toVisit
  BY DEF Co!ComputeMRO, Co!Class
<1>2. /\ Ordered(bases, mro) /\ Grown(bases) /\ c \in Nat /\ c \in 1..Len(bases)
      /\ Len(mro) \in Nat /\ c <= Len(mro) + 1
  BY <1>1, OrderIs
<1>3. bases[c] \in Seq(Nat) /\ Len(bases[c]) \in Nat /\ DOMAIN bases[c] = 1..Len(bases[c])
  BY <1>2, HierarchyIs
<1>4. working = <<>> /\ out = <<>> /\ toVisit = <<>>
  BY <1>1, <1>3, NewestIs
<1>5. /\ Len(L) = Len(bases[c]) + 1 /\ L[Len(bases[c]) + 1] = bases[c]
      /\ \A n \in 1..Len(bases[c]) : L[n] = mro[bases[c][n]]
  BY <1>2, ListsAre
<1>6. \A x, y : ~Co!Before(bases[c], x, y)
  <2>1. \A m, n \in 1..Len(bases[c]) : ~(m < n)
    BY <1>1, <1>3
  <2>. QED  BY <1>3, <2>1 DEF Co!Before
<1>7. \A x : x \in A <=> x = c \/ \E n \in 1..Len(bases[c]) : x \in Reach(bases, bases[c][n])
  BY <1>2, ReachUnfolds
<1>. HIDE DEF L, A
<1>8. CASE bases[c] = <<>>
  <2>1. Len(bases[c]) = 0
    BY <1>8, EmptySeq
  <2>2. <<c>> \in Seq(Nat) /\ <<c>> # <<>> /\ <<c>>[1] = c /\ Distinct(<<c>>)
    BY <1>2 DEF Distinct
  <2>3. \A x : Has(<<c>>, x) <=> x \in A
    BY <1>7, <2>1 DEF Has
  <2>4. Keeps(<<c>>, L)
    BY <1>5, <1>6, <2>1 DEF Keeps
  <2>5. SoundOrder(A, L, c, <<c>>)
    BY <2>2, <2>3, <2>4 DEF SoundOrder
  <2>. QED  BY <1>1, <1>4, <1>8, <2>5, OrderDone DEF A, L
<1>9. CASE bases[c] # <<>>
  <2>. DEFINE b == bases[c][1]
              s == <<c>> \o mro[b]
  <2>1. Len(bases[c]) = 1
    BY <1>1, <1>3, <1>9, EmptySeq
  <2>2. b \in 1..Len(bases) /\ b < c /\ b \in 1..Len(mro)
    <3>1. b \in 1..Len(bases) /\ b < c
      BY <1>2, <2>1, HierarchyIs
    <3>. QED  BY <1>2, <3>1
  <2>3. /\ mro[b] \in Seq(Nat) /\ Distinct(mro[b])
        /\ \A x : Has(mro[b], x) <=> x \in Reach(bases, b)
    BY <1>2, <2>2 DEF Ordered, SoundOrder
  <2>4. ~Has(mro[b], c)
    BY <1>2, <2>2, <2>3, ReachIs
  <2>. HIDE DEF s
  <2>5. /\ s \in Seq(Nat) /\ Len(s) = Len(mro[b]) + 1 /\ s[1] = c /\ Distinct(s)
        /\ \A v : Has(s, v) <=> v = c \/ Has(mro[b], v)
    BY <1>2, <2>3, <2>4, InFront DEF s
  <2>6. s # <<>>
    BY <2>3, <2>5, LenProperties, EmptySeq
  <2>7. \A x : Has(s, x) <=> x \in A
    <3>1. \A x : x \in A <=> x = c \/ x \in Reach(bases, b)
      BY <1>7, <2>1
    <3>. QED  BY <2>3, <2>5, <3>1
  <2>8. \A x, y : Co!Before(mro[b], x, y) => Co!Before(s, x, y)
    BY <1>2, <2>3, StillBefore DEF s
  <2>9. Keeps(s, L)
    <3>1. Len(L) = 2 /\ L[1] = mro[b] /\ L[2] = bases[c]
      BY <1>5, <2>1
    <3>. HIDE DEF b
    <3>. QED  BY <1>6, <2>8, <3>1 DEF Keeps
  <2>10. SoundOrder(A, L, c, s)
    BY <2>5, <2>6, <2>7, <2>9 DEF SoundOrder
  <2>. QED  BY <1>1, <1>4, <1>9, <2>10, OrderDone DEF A, L, s
<1>. QED  BY <1>8, <1>9
LEMMA StartMergeKeeps ==
    ASSUME OrderInv, Co!StartMerge  PROVE OrderInv'
<1>. DEFINE c == Len(bases)
            L == ListsOf(bases, mro, c)
<1>1. /\ Len(mro) < c /\ Len(bases[c]) > 1 /\ working' = L
      /\ working = <<>> /\ out = <<>> /\ toVisit = <<>>
      /\ bases' = bases /\ mro' = mro /\ out' = out /\ toVisit' = toVisit
  BY DEF Co!StartMerge, Co!Class, Co!Lists, ListsOf
<1>2. Ordered(bases, mro) /\ c \in 1..Len(bases) /\ Len(bases[c]) \in Nat
  BY <1>1, OrderIs, HierarchyIs
<1>3. L \in Seq(Seq(Nat)) /\ Len(L) = Len(bases[c]) + 1
  BY <1>2, ListsAre
<1>4. L # <<>>
  BY <1>2, <1>3, EmptySeq
<1>5. MergeInv(L, L, <<>>)
  <2>. HIDE DEF L
  <2>. QED  BY <1>3, MergeBegins
<1>6. <<>> \in Seq(Nat) /\ Distinct(<<>>)
  BY DEF Distinct
<1>7. Newest(bases, mro, L, <<>>, <<>>)
  BY <1>1, <1>4, <1>5, <1>6 DEF Newest
<1>. QED  BY <1>1, <1>2, <1>7 DEF OrderInv

(* What is left of a list is in the list.                                  *)
LEMMA RestIs ==
    ASSUME NEW l \in Seq(Nat), NEW r \in Seq(Nat), NEW o, Rest(l, r, o)
    PROVE  /\ \A v : Has(r, v) => Has(l, v) /\ ~Has(o, v)
           /\ \A j \in 2..Len(r) : Co!Before(l, r[1], r[j])
           /\ r = <<>> => /\ \A v : Has(l, v) => Has(o, v)
                          /\ \A x, y : Co!Before(l, x, y) => Co!Before(o, x, y)
<1>1. /\ Len(l) \in Nat /\ DOMAIN l = 1..Len(l) /\ Len(r) \in Nat /\ DOMAIN r = 1..Len(r)
  BY LenProperties
<1>2. PICK k \in Nat :
         /\ Len(l) = k + Len(r)
         /\ \A j \in 1..Len(r) : r[j] = l[k + j]
         /\ \A i \in 1..Len(l) : Has(o, l[i]) <=> i <= k
         /\ \A i, j \in 1..Len(l) : i < j /\ j <= k => Co!Before(o, l[i], l[j])
  BY DEF Rest
<1>3. \A j \in 1..Len(r) : k + j \in 1..Len(l) /\ ~(k + j <= k)
  BY <1>1, <1>2
<1>4. ASSUME NEW v, Has(r, v)  PROVE Has(l, v) /\ ~Has(o, v)
  <2>1. PICK j \in 1..Len(r) : r[j] = v
    BY <1>1, <1>4 DEF Has
  <2>2. k + j \in 1..Len(l) /\ l[k + j] = v /\ ~(k + j <= k)
    BY <1>2, <1>3, <2>1
  <2>3. ~Has(o, l[k + j])
    BY <1>2, <2>2
  <2>4. Has(l, v)
    BY <1>1, <2>2 DEF Has
  <2>. QED  BY <2>2, <2>3, <2>4
<1>5. ASSUME NEW j \in 2..Len(r)  PROVE Co!Before(l, r[1], r[j])
  <2>1. 1 \in 1..Len(r) /\ j \in 1..Len(r) /\ k + 1 < k + j
    BY <1>1
  <2>2. k + 1 \in DOMAIN l /\ k + j \in DOMAIN l
    BY <1>1, <1>3, <2>1
  <2>3. l[k + 1] = r[1] /\ l[k + j] = r[j]
    BY <1>2, <2>1
  <2>. QED  BY <2>1, <2>2, <2>3 DEF Co!Before
<1>6. ASSUME r = <<>>
      PROVE  /\ \A v : Has(l, v) => Has(o, v)
             /\ \A x, y : Co!Before(l, x, y) => Co!Before(o, x, y)
  <2>1. k = Len(l)
    <3>1. Len(r) = 0
      BY <1>6, EmptySeq
    <3>. QED  BY <1>2, <3>1
  <2>2. \A i \in 1..Len(l) : i <= k
    BY <1>1, <2>1
  <2>3. \A v : Has(l, v) => Has(o, v)
    BY <1>1, <1>2, <2>2 DEF Has
  <2>4. ASSUME NEW x, NEW y, Co!Before(l, x, y)  PROVE Co!Before(o, x, y)
    <3>1. PICK i, j \in 1..Len(l) : i < j /\ l[i] = x /\ l[j] = y
      BY <1>1, <2>4 DEF Co!Before
    <3>. QED  BY <1>2, <2>2, <3>1
  <2>. QED  BY <2>3, <2>4
<1>. QED  BY <1>4, <1>5, <1>6

(* The lists and what is left of them, during a merge.                     *)
LEMMA MergeIs ==
    ASSUME OrderInv, working # <<>>
    PROVE  LET L == ListsOf(bases, mro, Len(bases))
               A == Reach(bases, Len(bases)) \ {Len(bases)}
           IN  /\ Len(working) = Len(L) /\ DOMAIN working = 1..Len(L)
               /\ working \in Seq(Seq(Nat)) /\ out \in Seq(Nat) /\ Distinct(out)
               /\ toVisit = <<>>
               /\ \A n \in 1..Len(L) :
                     /\ L[n] \in Seq(Nat) /\ Distinct(L[n])
                     /\ working[n] \in Seq(Nat)
                     /\ Rest(L[n], working[n], out)
               /\ \A x : Has(out, x) => \E n \in 1..Len(L) : Has(L[n], x)
               /\ \A x : x \in A <=> \E n \in 1..Len(L) : Has(L[n], x)
<1>. DEFINE L == ListsOf(bases, mro, Len(bases))
            A == Reach(bases, Len(bases)) \ {Len(bases)}
<1>1. /\ Len(bases) \in 1..Len(bases) /\ Ordered(bases, mro)
      /\ toVisit = <<>> /\ out \in Seq(Nat) /\ Distinct(out)
      /\ MergeInv(L, working, out)
  BY NewestIs, OrderIs
<1>2. /\ \A n \in 1..Len(L) : L[n] \in Seq(Nat) /\ Distinct(L[n])
      /\ \A x : x \in A <=> \E n \in 1..Len(L) : Has(L[n], x)
  BY <1>1, ListsAre
<1>. HIDE DEF L, A
<1>3. /\ working \in Seq(Seq(Nat)) /\ Len(working) = Len(L)
      /\ \A n \in 1..Len(L) : Rest(L[n], working[n], out)
      /\ \A x : Has(out, x) => \E n \in 1..Len(L) : Has(L[n], x)
  BY <1>1 DEF MergeInv
<1>4. DOMAIN working = 1..Len(L)
  BY <1>3, LenProperties
<1>5. \A n \in 1..Len(L) : working[n] \in Seq(Nat)
  BY <1>3, ElementOfSeq
<1>. QED  BY <1>1, <1>2, <1>3, <1>4, <1>5 DEF L, A

LEMMA PickKeeps ==
    ASSUME OrderInv, Co!Pick  PROVE OrderInv'
<1>. DEFINE c == Len(bases)
            L == ListsOf(bases, mro, c)
            g == Co!Min(Co!GoodHeads)
            p == Head(working[g])
            q == Append(out, p)
<1>1. /\ Co!GoodHeads # {} /\ out' = q
      /\ working' = [n \in DOMAIN working |->
                        IF Co!IsPrefix(<<p>>, working[n]) THEN Tail(working[n])
                        ELSE working[n]]
      /\ bases' = bases /\ mro' = mro /\ toVisit' = toVisit
  BY DEF Co!Pick
<1>2. Co!GoodHeads \subseteq DOMAIN working
  BY DEF Co!GoodHeads
<1>3. working # <<>>
  BY <1>1, <1>2
<1>4. /\ Len(working) = Len(L) /\ DOMAIN working = 1..Len(L)
      /\ working \in Seq(Seq(Nat)) /\ out \in Seq(Nat) /\ Distinct(out) /\ toVisit = <<>>
      /\ \A n \in 1..Len(L) : /\ L[n] \in Seq(Nat) /\ Distinct(L[n])
                              /\ working[n] \in Seq(Nat)
                              /\ Rest(L[n], working[n], out)
      /\ \A x : Has(out, x) => \E n \in 1..Len(L) : Has(L[n], x)
  BY <1>3, MergeIs
<1>5. g \in Co!GoodHeads
  <2>1. Co!GoodHeads \subseteq Nat
    BY <1>2, <1>4
  <2>2. \E m \in Co!GoodHeads : \A n \in Co!GoodHeads : m <= n
    <3>1. PICK m \in Co!GoodHeads : \A n \in Co!GoodHeads : ~(n < m)
      BY <1>1, <2>1, LeastOne
    <3>. QED  BY <2>1, <3>1
  <2>. QED  BY <2>2 DEF Co!Min
<1>6. /\ g \in 1..Len(L) /\ working[g] # <<>>
      /\ \A n \in 1..Len(L) : \A j \in 2..Len(working[n]) : working[n][j] # p
  BY <1>4, <1>5 DEF Co!GoodHeads, Co!InTail
<1>7. p \in Nat /\ Has(working[g], p)
  BY <1>4, <1>6, HeadAndTail
<1>8. ~Has(out, p) /\ Has(L[g], p)
  BY <1>4, <1>6, <1>7, RestIs
<1>9. q \in Seq(Nat) /\ Distinct(q) /\ \A v : Has(q, v) <=> Has(out, v) \/ v = p
  BY <1>4, <1>7, <1>8, Longer
<1>. HIDE DEF p, g, L
<1>10. ASSUME NEW n \in 1..Len(L)
       PROVE  working'[n] \in Seq(Nat) /\ Rest(L[n], working'[n], q)
  <2>1. working'[n] = IF Co!IsPrefix(<<p>>, working[n]) THEN Tail(working[n]) ELSE working[n]
    BY <1>1, <1>4
  <2>2. Rest(L[n], working'[n], q)
    BY <1>4, <1>6, <1>7, <1>8, <2>1, PickOne
  <2>3. Co!IsPrefix(<<p>>, working[n]) => working[n] # <<>>
    BY <1>4, <1>7, PrefixIs
  <2>4. working'[n] \in Seq(Nat)
    BY <1>4, <2>1, <2>3, HeadTailProperties
  <2>. QED  BY <2>2, <2>4
<1>11. working' \in Seq(Seq(Nat)) /\ Len(working') = Len(L) /\ working' # <<>>
  <2>1. Len(L) \in Nat
    BY <1>4, LenProperties
  <2>2. DOMAIN working' = 1..Len(L) /\ working' = [n \in 1..Len(L) |-> working'[n]]
    BY <1>1, <1>4
  <2>3. working' \in [1..Len(L) -> Seq(Nat)]
    BY <1>10, <2>2
  <2>4. working' \in Seq(Seq(Nat)) /\ Len(working') = Len(L)
    BY <2>1, <2>3
  <2>5. Len(L) # 0
    BY <1>6, <2>1
  <2>. QED  BY <2>4, <2>5, EmptySeq
<1>12. \A x : Has(q, x) => \E n \in 1..Len(L) : Has(L[n], x)
  BY <1>4, <1>6, <1>8, <1>9
<1>13. MergeInv(L, working', q)
  BY <1>10, <1>11, <1>12 DEF MergeInv
<1>14. Len(mro) < c /\ Len(bases[c]) > 1 /\ Ordered(bases, mro)
  BY <1>3, NewestIs, OrderIs
<1>15. Newest(bases, mro, working', q, <<>>)
  BY <1>9, <1>11, <1>13, <1>14 DEF Newest, L
<1>. QED  BY <1>1, <1>4, <1>14, <1>15 DEF OrderInv

LEMMA MergedKeeps ==
    ASSUME OrderInv, Co!Merged  PROVE OrderInv'
<1>. DEFINE c == Len(bases)
            L == ListsOf(bases, mro, c)
            A == Reach(bases, c)
            s == <<c>> \o out
<1>1. /\ working # <<>> /\ \A n \in DOMAIN working : working[n] = <<>>
      /\ mro' = Append(mro, s) /\ working' = <<>> /\ out' = <<>>
      /\ bases' = bases /\ toVisit' = toVisit
  BY DEF Co!Merged, Co!Finish, Co!Class
<1>2. /\ DOMAIN working = 1..Len(L) /\ out \in Seq(Nat) /\ Distinct(out) /\ toVisit = <<>>
      /\ \A n \in 1..Len(L) : /\ L[n] \in Seq(Nat)
                              /\ working[n] \in Seq(Nat)
                              /\ Rest(L[n], working[n], out)
      /\ \A x : Has(out, x) => \E n \in 1..Len(L) : Has(L[n], x)
      /\ \A x : x \in A \ {c} <=> \E n \in 1..Len(L) : Has(L[n], x)
  BY <1>1, MergeIs
<1>3. Len(mro) < c /\ c \in 1..Len(bases) /\ c \in Nat /\ Grown(bases)
  BY <1>1, NewestIs, OrderIs
<1>4. c \in A
  BY <1>3, ReachIs
<1>. HIDE DEF L, A
<1>5. \A n \in 1..Len(L) :
         /\ \A v : Has(L[n], v) => Has(out, v)
         /\ \A x, y : Co!Before(L[n], x, y) => Co!Before(out, x, y)
  BY <1>1, <1>2, RestIs
<1>6. \A x : Has(out, x) <=> x \in A \ {c}
  BY <1>2, <1>5
<1>7. /\ s \in Seq(Nat) /\ Len(s) = Len(out) + 1 /\ s[1] = c /\ Distinct(s)
      /\ \A v : Has(s, v) <=> v = c \/ Has(out, v)
  BY <1>2, <1>3, <1>6, InFront
<1>8. s # <<>>
  BY <1>2, <1>7, LenProperties, EmptySeq
<1>9. \A x : Has(s, x) <=> x \in A
  BY <1>4, <1>6, <1>7
<1>10. \A x, y : Co!Before(out, x, y) => Co!Before(s, x, y)
  BY <1>2, <1>3, StillBefore
<1>. HIDE DEF s
<1>11. Keeps(s, L)
  BY <1>5, <1>10 DEF Keeps
<1>12. SoundOrder(A, L, c, s)
  BY <1>7, <1>8, <1>9, <1>11 DEF SoundOrder
<1>. QED  BY <1>1, <1>2, <1>3, <1>12, OrderDone DEF A, L
(* The heads that are left are each in a tail: no order respects them all. *)
LEMMA DepthFirstKeeps ==
    ASSUME OrderInv, Co!DepthFirst  PROVE OrderInv'
<1>. DEFINE c == Len(bases)
            L == ListsOf(bases, mro, c)
            A == Reach(bases, c)
<1>1. /\ working # <<>> /\ Co!GoodHeads = {}
      /\ \E n \in DOMAIN working : working[n] # <<>>
      /\ working' = <<>> /\ out' = <<>> /\ toVisit' = <<c>>
      /\ bases' = bases /\ mro' = mro
  BY DEF Co!DepthFirst, Co!Class
<1>2. /\ Len(mro) < c /\ c \in 1..Len(bases) /\ c \in Nat /\ Grown(bases)
      /\ Len(bases[c]) > 1 /\ Ordered(bases, mro)
  BY <1>1, NewestIs, OrderIs
<1>3. /\ DOMAIN working = 1..Len(L)
      /\ \A n \in 1..Len(L) : /\ L[n] \in Seq(Nat)
                              /\ working[n] \in Seq(Nat)
                              /\ Rest(L[n], working[n], out)
      /\ \A x : x \in A \ {c} <=> \E n \in 1..Len(L) : Has(L[n], x)
  BY <1>1, MergeIs
<1>. HIDE DEF L
<1>. DEFINE S == {Head(working[n]) : n \in {m \in 1..Len(L) : working[m] # <<>>}}
<1>4. S # {}
  BY <1>1, <1>3
<1>5. ASSUME NEW n \in 1..Len(L), working[n] # <<>>
      PROVE  /\ Head(working[n]) \in A \ {c} /\ Head(working[n]) \in S
             /\ Head(working[n]) = working[n][1]
  <2>1. Has(working[n], Head(working[n]))
    BY <1>3, <1>5, HeadAndTail
  <2>2. Has(L[n], Head(working[n]))
    BY <1>3, <2>1, RestIs
  <2>. QED  BY <1>3, <1>5, <2>2
<1>6. S \in SUBSET (A \ {c})
  BY <1>5
<1>7. ASSUME NEW x \in S
      PROVE  \E n \in 1..Len(L) : \E y \in S : Co!Before(L[n], y, x)
  <2>1. PICK m \in 1..Len(L) : working[m] # <<>> /\ x = Head(working[m])
    OBVIOUS
  <2>. HIDE DEF S
  <2>2. Co!InTail(x)
    BY <1>1, <1>3, <2>1 DEF Co!GoodHeads
  <2>3. PICK n \in 1..Len(L) : \E j \in 2..Len(working[n]) : working[n][j] = x
    BY <1>3, <2>2 DEF Co!InTail
  <2>4. PICK j \in 2..Len(working[n]) : working[n][j] = x
    BY <2>3
  <2>5. working[n] # <<>>
    <3>1. Len(working[n]) \in Nat /\ Len(working[n]) # 0
      BY <1>3, <2>4, LenProperties
    <3>. QED  BY <1>3, <3>1, EmptySeq
  <2>6. Co!Before(L[n], working[n][1], x)
    BY <1>3, <2>4, RestIs
  <2>. QED  BY <1>5, <2>5, <2>6
<1>. HIDE DEF S, A
<1>8. ~Agreeable(A \ {c}, L)
  BY <1>4, <1>6, <1>7 DEF Agreeable
<1>9. WalkInv(bases, c, <<>>, <<c>>)
  <2>1. \A x : ~Has(<<>>, x)
    BY DEF Has
  <2>2. \A x : Has(<<c>>, x) => x = c
    BY DEF Has
  <2>3. c \in Reach(bases, c) /\ <<c>> \in Seq(Nat)
    BY <1>2, ReachIs
  <2>. QED  BY <2>1, <2>2, <2>3 DEF WalkInv
<1>10. <<>> \in Seq(Nat) /\ Distinct(<<>>)
  BY DEF Distinct
<1>11. Newest(bases, mro, <<>>, <<>>, <<c>>)
  BY <1>2, <1>8, <1>9, <1>10 DEF Newest, A, L
<1>. QED  BY <1>1, <1>2, <1>11 DEF OrderInv

LEMMA WalkKeeps ==
    ASSUME OrderInv, Co!Walk  PROVE OrderInv'
<1>. DEFINE c == Len(bases)
            A == Reach(bases, c)
            h == Head(toVisit)
            t == Tail(toVisit)
<1>1. /\ toVisit # <<>> /\ bases' = bases /\ mro' = mro /\ working' = working
      /\ IF h \in Co!ToSet(out)
         THEN toVisit' = t /\ out' = out
         ELSE toVisit' = bases[h] \o t /\ out' = Append(out, h)
  BY DEF Co!Walk
<1>2. /\ Len(mro) < c /\ c \in 1..Len(bases) /\ Grown(bases)
      /\ Len(bases[c]) > 1 /\ Ordered(bases, mro)
      /\ out \in Seq(Nat) /\ Distinct(out)
  BY <1>1, NewestIs, OrderIs
<1>3. working = <<>>
  BY <1>1, NewestIs
<1>4. ~Agreeable(A \ {c}, ListsOf(bases, mro, c)) /\ WalkInv(bases, c, out, toVisit)
  BY <1>1, <1>3, NewestIs
<1>5. /\ toVisit \in Seq(Nat)
      /\ \A x : Has(out, x) \/ Has(toVisit, x) => x \in A
      /\ IF out = <<>> THEN toVisit = <<c>> ELSE out[1] = c
      /\ \A x : Has(out, x) =>
            \A n \in 1..Len(bases[x]) : Has(out, bases[x][n]) \/ Has(toVisit, bases[x][n])
  BY <1>4 DEF WalkInv
<1>6. h \in Nat /\ t \in Seq(Nat) /\ \A v : Has(toVisit, v) <=> v = h \/ Has(t, v)
  BY <1>1, <1>5, HeadAndTail
<1>7. h \in Co!ToSet(out) <=> Has(out, h)
  BY DEF Co!ToSet, Has
<1>8. ASSUME out' \in Seq(Nat), Distinct(out'), WalkInv(bases, c, out', toVisit')
      PROVE  OrderInv'
  <2>1. Newest(bases, mro, <<>>, out', toVisit')
    BY <1>2, <1>4, <1>8 DEF Newest
  <2>. QED  BY <1>1, <1>2, <1>3, <2>1 DEF OrderInv
<1>. HIDE DEF h, t, A
<1>9. CASE Has(out, h)
  <2>1. toVisit' = t /\ out' = out
    BY <1>1, <1>7, <1>9
  <2>2. out # <<>>
    BY <1>9 DEF Has
  <2>3. WalkInv(bases, c, out, t)
    <3>1. \A x : Has(out, x) \/ Has(t, x) => x \in A
      BY <1>5, <1>6
    <3>2. \A x : Has(out, x) =>
             \A n \in 1..Len(bases[x]) : Has(out, bases[x][n]) \/ Has(t, bases[x][n])
      BY <1>5, <1>6, <1>9
    <3>3. out[1] = c
      BY <1>5, <2>2
    <3>. QED  BY <1>6, <2>2, <3>1, <3>2, <3>3 DEF WalkInv, A
  <2>. QED  BY <1>2, <1>8, <2>1, <2>3
<1>10. CASE ~Has(out, h)
  <2>. DEFINE o == Append(out, h)
              u == bases[h] \o t
  <2>1. toVisit' = u /\ out' = o
    BY <1>1, <1>7, <1>10
  <2>2. h \in A
    BY <1>5, <1>6
  <2>3. h \in 1..Len(bases) /\ A \subseteq 1..Len(bases) /\ ClosedIn(bases, A)
    BY <1>2, <2>2, ReachIs DEF A
  <2>4. /\ bases[h] \in Seq(Nat) /\ DOMAIN bases[h] = 1..Len(bases[h])
    BY <1>2, <2>3, HierarchyIs
  <2>5. o \in Seq(Nat) /\ Distinct(o) /\ \A v : Has(o, v) <=> Has(out, v) \/ v = h
    BY <1>2, <1>6, <1>10, Longer
  <2>6. u \in Seq(Nat) /\ \A v : Has(u, v) <=> Has(bases[h], v) \/ Has(t, v)
    BY <1>6, <2>4, Joined
  <2>7. /\ Len(o) = Len(out) + 1 /\ \A i \in 1..Len(out) : o[i] = out[i]
        /\ o[Len(out) + 1] = h /\ o # <<>>
    BY <1>2, <1>6, AppendProperties
  <2>. HIDE DEF o, u
  <2>8. o[1] = c
    <3>1. CASE out = <<>>
      <4>1. h = c
        BY <1>5, <3>1 DEF h
      <4>2. Len(out) = 0
        BY <3>1, EmptySeq
      <4>. QED  BY <2>7, <4>1, <4>2
    <3>2. CASE out # <<>>
      <4>1. Len(out) \in Nat \ {0}
        BY <1>2, <3>2, EmptySeq
      <4>2. 1 \in 1..Len(out)
        BY <4>1
      <4>. QED  BY <1>5, <2>7, <3>2, <4>2
    <3>. QED  BY <3>1, <3>2
  <2>9. \A v : Has(bases[h], v) => v \in A
    BY <2>2, <2>3, <2>4 DEF ClosedIn, Has
  <2>10. \A x : Has(o, x) \/ Has(u, x) => x \in A
    BY <1>5, <1>6, <2>2, <2>5, <2>6, <2>9
  <2>11. ASSUME NEW x, Has(o, x), NEW n \in 1..Len(bases[x])
         PROVE  Has(o, bases[x][n]) \/ Has(u, bases[x][n])
    <3>1. CASE x = h
      <4>1. Has(bases[h], bases[x][n])
        BY <2>4, <2>11, <3>1 DEF Has
      <4>. QED  BY <2>6, <4>1
    <3>2. CASE Has(out, x)
      BY <1>5, <1>6, <2>5, <2>6, <2>11, <3>2
    <3>. QED  BY <2>5, <2>11, <3>1, <3>2
  <2>12. WalkInv(bases, c, o, u)
    BY <2>6, <2>7, <2>8, <2>10, <2>11 DEF WalkInv, A
  <2>. QED  BY <1>8, <2>1, <2>5, <2>12
<1>. QED  BY <1>9, <1>10

(* When nothing is to come, every base of what was seen has been seen.     *)
LEMMA WalkedKeeps ==
    ASSUME OrderInv, Co!Walked  PROVE OrderInv'
<1>. DEFINE c == Len(bases)
            A == Reach(bases, c)
            S == {x \in 1..Len(bases) : Has(out, x)}
<1>1. /\ working = <<>> /\ toVisit = <<>> /\ out # <<>>
      /\ mro' = Append(mro, out) /\ working' = <<>> /\ out' = <<>>
      /\ bases' = bases /\ toVisit' = toVisit
  BY DEF Co!Walked, Co!Finish
<1>2. /\ Len(mro) < c /\ c \in 1..Len(bases) /\ Grown(bases)
      /\ out \in Seq(Nat) /\ Distinct(out)
      /\ ~Agreeable(A \ {c}, ListsOf(bases, mro, c)) /\ WalkInv(bases, c, out, toVisit)
  BY <1>1, NewestIs, OrderIs
<1>3. /\ \A x : Has(out, x) => x \in A
      /\ out[1] = c
      /\ \A x : Has(out, x) => \A n \in 1..Len(bases[x]) : Has(out, bases[x][n])
  <2>1. \A v : ~Has(<<>>, v)
    BY DEF Has
  <2>. QED  BY <1>1, <1>2, <2>1 DEF WalkInv
<1>4. Has(out, c)
  <2>1. Len(out) \in Nat \ {0} /\ DOMAIN out = 1..Len(out)
    BY <1>1, <1>2, EmptySeq, LenProperties
  <2>2. 1 \in DOMAIN out
    BY <2>1
  <2>. QED  BY <1>3, <2>2 DEF Has
<1>5. A \subseteq 1..Len(bases)
  BY <1>2, ReachIs
<1>6. S \in SUBSET (1..Len(bases)) /\ c \in S
  BY <1>2, <1>4
<1>7. ASSUME NEW x \in S, NEW n \in 1..Len(bases[x])  PROVE bases[x][n] \in S
  <2>1. Has(out, bases[x][n])
    BY <1>3, <1>7
  <2>2. bases[x][n] \in 1..Len(bases)
    BY <1>3, <1>5, <2>1
  <2>. QED  BY <2>1, <2>2
<1>8. ClosedIn(bases, S)
  <2>. HIDE DEF S
  <2>. QED  BY <1>7 DEF ClosedIn
<1>9. A \subseteq S
  <2>. HIDE DEF S
  <2>. QED  BY <1>2, <1>6, <1>8, ReachIs
<1>10. \A x : Has(out, x) <=> x \in A
  BY <1>3, <1>9
<1>11. SoundOrder(A, ListsOf(bases, mro, c), c, out)
  <2>. HIDE DEF A
  <2>. QED  BY <1>1, <1>2, <1>3, <1>10 DEF SoundOrder
<1>. QED  BY <1>1, <1>2, <1>11, OrderDone

LEMMA OrderCreated == ASSUME Co!Init  PROVE OrderInv
<1>1. /\ bases = <<>> /\ mro = <<>> /\ working = <<>> /\ out = <<>> /\ toVisit = <<>>
  BY DEF Co!Init
<1>2. <<>> \in Seq(Seq(Nat)) /\ Len(<<>>) = 0
  BY EmptySeq
<1>. QED  BY <1>1, <1>2 DEF OrderInv, Ordered, Grown

LEMMA OrderKept == ASSUME OrderInv, Co!Next  PROVE OrderInv'
BY BuildClassKeeps, ComputeMROKeeps, StartMergeKeeps, PickKeeps, MergedKeeps,
   DepthFirstKeeps, WalkKeeps, WalkedKeeps DEF Co!Next

LEMMA OrderInvariant == RuntimeSpec => []OrderInv
<1>1. Create => OrderInv
  BY OrderCreated DEF Create
<1>2. OrderInv /\ [Step]_runtime => OrderInv'
  <2> SUFFICES ASSUME OrderInv, [Step]_runtime  PROVE OrderInv'
    OBVIOUS
  <2>1. CASE Co!Next
    BY <2>1, OrderKept
  <2>2. CASE UNCHANGED order
    BY <2>2 DEF order, OrderInv
  <2>. QED  BY <2>1, <2>2 DEF Step, runtime
<1>. QED  BY <1>1, <1>2, PTL DEF RuntimeSpec

(* The method resolution order of a class begins with the class and has    *)
(* each class it inherits from once; and if any order at all can keep the  *)
(* orders of its bases and the order in which they are named, this one     *)
(* does, however large the hierarchy (computeMRO, c3Merge and              *)
(* computeMRODepthFirst in vm/ops.go).                                     *)
THEOREM OrdersAreSound == RuntimeSpec => []OrderIsSound
<1>1. OrderInv => OrderIsSound
  <2> SUFFICES ASSUME OrderInv, NEW c \in DOMAIN mro
               PROVE  /\ mro[c][1] = c
                      /\ Co!IsInjective(mro[c]) /\ Co!ToSet(mro[c]) = Co!Ancestors[c]
                      /\ Co!Consistent(c) =>
                            \A n \in DOMAIN Co!Lists(c) : \A x, y \in Co!Classes :
                               Co!Before(Co!Lists(c)[n], x, y) => Co!Before(mro[c], x, y)
    BY DEF OrderIsSound, Co!OrderIsSound
  <2>. DEFINE A == Reach(bases, c)
              L == ListsOf(bases, mro, c)
  <2>1. /\ c \in 1..Len(mro) /\ c \in 1..Len(bases)
        /\ Ordered(bases, mro) /\ Grown(bases)
    BY OrderIs, LenProperties
  <2>2. SoundOrder(A, L, c, mro[c])
    BY <2>1 DEF Ordered
  <2>3. Co!Ancestors[c] = A
    BY <2>1, AncestorsAre, AncestorsReach
  <2>4. Co!Lists(c) = L /\ DOMAIN L = 1..Len(L)
    <3>1. Co!Lists(c) = L
      BY DEF Co!Lists, ListsOf
    <3>. QED  BY <2>1, <3>1, ListsAre, LenProperties
  <2>. HIDE DEF A, L
  <2>5. /\ mro[c][1] = c /\ Distinct(mro[c]) /\ \A x : Has(mro[c], x) <=> x \in A
        /\ Agreeable(A \ {c}, L) => Keeps(mro[c], L)
    BY <2>2 DEF SoundOrder
  <2>6. Co!IsInjective(mro[c])
    BY <2>5 DEF Co!IsInjective, Distinct
  <2>7. Co!ToSet(mro[c]) = A
    BY <2>5 DEF Co!ToSet, Has
  <2>8. Co!Consistent(c) <=> Agreeable(A \ {c}, L)
    BY <2>3, <2>4 DEF Co!Consistent, Agreeable
  <2>9. Keeps(mro[c], L) => \A n \in DOMAIN L : \A x, y \in Co!Classes :
           Co!Before(L[n], x, y) => Co!Before(mro[c], x, y)
    BY <2>4 DEF Keeps
  <2>. QED  BY <2>3, <2>4, <2>5, <2>6, <2>7, <2>8, <2>9
<1>. QED  BY <1>1, OrderInvariant, PTL

-----------------------------------------------------------------------------
(* Class lookup *)

USE LookupAssumption DEF Cl!LookupConstants

(* Found once more, for any dict, with the function of the classes below   *)
(* as a parameter.                                                         *)
FirstIn(inBases) ==
    LET n == Cl!SelectInSeq(inBases, LAMBDA v : v # Missing)
    IN  IF n = 0 THEN Missing ELSE inBases[n]
FromBases(f, c) == FirstIn([n \in 1..Len(Bases[c]) |-> f[Bases[c][n]]])
Answer(d, f, c) == IF d[c] # Missing THEN d[c] ELSE FromBases(f, c)
Agree(d, f) == f = [c \in Cl!Classes |-> Answer(d, f, c)]
FoundIn(d) == CHOOSE f : Agree(d, f)

LEMMA FoundIs == Cl!Found = FoundIn(dict)
BY DEF Cl!Found, FoundIn, Agree, Answer, FromBases, FirstIn

(* Every base of a class comes before it.                                  *)
LEMMA BasesComeBefore ==
    ASSUME NEW c \in Cl!Classes
    PROVE  /\ c \in Nat /\ Len(Bases[c]) \in Nat
           /\ \A n \in 1..Len(Bases[c]) : Bases[c][n] \in Cl!Classes /\ Bases[c][n] < c
<1>1. Bases[c] \in Seq({b \in Cl!Classes : b < c})
  OBVIOUS
<1>. DEFINE B == {b \in Cl!Classes : b < c}
<1>2. \A n \in 1..Len(Bases[c]) : Bases[c][n] \in B
  <2>. HIDE DEF B
  <2>. QED  BY <1>1, ElementOfSeq DEF B
<1>. QED  BY <1>1, <1>2, LenProperties

(* A lookup takes what the classes before it have, and nothing else.       *)
LEMMA OnlyBefore ==
    ASSUME NEW d, NEW f, NEW g, NEW c \in Cl!Classes,
           \A b \in Cl!Classes : b < c => f[b] = g[b]
    PROVE  Answer(d, f, c) = Answer(d, g, c)
<1>1. \A n \in 1..Len(Bases[c]) : f[Bases[c][n]] = g[Bases[c][n]]
  BY BasesComeBefore
<1>2. [n \in 1..Len(Bases[c]) |-> f[Bases[c][n]]] = [n \in 1..Len(Bases[c]) |-> g[Bases[c][n]]]
  BY <1>1
<1>. QED  BY <1>2 DEF Answer, FromBases

(* f answers for all classes before n.                                     *)
Answers(d, f, n) == \A c \in Cl!Classes : c < n => f[c] = Answer(d, f, c)

LEMMA AnswersAgree ==
    ASSUME NEW d, NEW f, NEW g, NEW n \in Nat, Answers(d, f, n), Answers(d, g, n)
    PROVE  \A c \in Cl!Classes : c < n => f[c] = g[c]
<1>. DEFINE T == {c \in Cl!Classes : c < n /\ f[c] # g[c]}
<1>1. SUFFICES ASSUME T # {}  PROVE FALSE
  OBVIOUS
<1>2. T \subseteq Nat
  OBVIOUS
<1>3. PICK c \in T : \A b \in T : ~(b < c)
  <2>. HIDE DEF T
  <2>. QED  BY <1>1, <1>2, LeastOne
<1>4. \A b \in Cl!Classes : b < c => f[b] = g[b]
  BY <1>3
<1>5. Answer(d, f, c) = Answer(d, g, c)
  BY <1>4, OnlyBefore
<1>. QED  BY <1>3, <1>5 DEF Answers

LEMMA AnswersExist ==
    ASSUME NEW d, NEW n \in Nat
    PROVE  \E f : Answers(d, f, n)
<1>. DEFINE T == {m \in Nat : ~\E f : Answers(d, f, m)}
<1>1. SUFFICES ASSUME T # {}  PROVE FALSE
  OBVIOUS
<1>2. T \subseteq Nat
  OBVIOUS
<1>3. PICK m \in T : \A k \in T : ~(k < m)
  <2>. HIDE DEF T
  <2>. QED  BY <1>1, <1>2, LeastOne
<1>4. m # 0
  BY <1>3 DEF Answers
<1>5. PICK f : Answers(d, f, m - 1)
  BY <1>3, <1>4
<1>. DEFINE g == [c \in Cl!Classes |-> IF c = m - 1 THEN Answer(d, f, c) ELSE f[c]]
<1>6. ASSUME NEW c \in Cl!Classes, c < m  PROVE g[c] = Answer(d, g, c)
  <2>1. \A b \in Cl!Classes : b < c => f[b] = g[b]
    BY <1>3, <1>4, <1>6
  <2>2. Answer(d, f, c) = Answer(d, g, c)
    BY <2>1, OnlyBefore
  <2>3. CASE c = m - 1
    BY <2>2, <2>3
  <2>4. CASE c # m - 1
    BY <1>3, <1>5, <1>6, <2>2, <2>4 DEF Answers
  <2>. QED  BY <2>3, <2>4
<1>. HIDE DEF g
<1>. QED  BY <1>3, <1>6 DEF Answers

(* So the recursion defines a function, and Found can be unfolded.         *)
LEMMA FoundUnfolds ==
    ASSUME NEW d  PROVE Agree(d, FoundIn(d))
<1>. DEFINE F(c) == CHOOSE f : Answers(d, f, c + 1)
            g == [c \in Cl!Classes |-> F(c)[c]]
<1>1. ASSUME NEW c \in Cl!Classes  PROVE Answers(d, F(c), c + 1)
  BY AnswersExist
<1>2. ASSUME NEW c \in Cl!Classes  PROVE g[c] = Answer(d, g, c)
  <2>1. ASSUME NEW b \in Cl!Classes, b < c  PROVE F(c)[b] = F(b)[b]
    <3>1. Answers(d, F(b), b + 1) /\ Answers(d, F(c), c + 1)
      BY <1>1
    <3>. HIDE DEF F
    <3>2. Answers(d, F(c), b + 1) /\ b + 1 \in Nat /\ b < b + 1
      BY <2>1, <3>1 DEF Answers
    <3>. QED  BY <3>1, <3>2, AnswersAgree
  <2>2. Answers(d, F(c), c + 1)
    BY <1>1
  <2>. HIDE DEF F
  <2>3. \A b \in Cl!Classes : b < c => F(c)[b] = g[b]
    BY <2>1
  <2>4. Answer(d, F(c), c) = Answer(d, g, c)
    <3>. HIDE DEF g
    <3>. QED  BY <2>3, OnlyBefore
  <2>5. F(c)[c] = Answer(d, F(c), c)
    BY <2>2 DEF Answers
  <2>. QED  BY <2>4, <2>5
<1>. HIDE DEF F
<1>3. Agree(d, g)
  <2>1. g = [c \in Cl!Classes |-> g[c]]
    OBVIOUS
  <2>. HIDE DEF g
  <2>. QED  BY <1>2, <2>1 DEF Agree
<1>. HIDE DEF g
<1>. QED  BY <1>3 DEF FoundIn

(* The three ways of a lookup: in the dict, in no base, in a first one.    *)
LEMMA FoundByCases ==
    ASSUME NEW d, NEW c \in Cl!Classes
    PROVE  /\ d[c] # Missing => FoundIn(d)[c] = d[c]
           /\ d[c] = Missing
              /\ (\A n \in 1..Len(Bases[c]) : FoundIn(d)[Bases[c][n]] = Missing)
                 => FoundIn(d)[c] = Missing
           /\ \A n \in 1..Len(Bases[c]) :
                 d[c] = Missing /\ FoundIn(d)[Bases[c][n]] # Missing
                 /\ (\A k \in 1..n - 1 : FoundIn(d)[Bases[c][k]] = Missing)
                    => FoundIn(d)[c] = FoundIn(d)[Bases[c][n]]
<1>. DEFINE f == FoundIn(d)
            inBases == [n \in 1..Len(Bases[c]) |-> f[Bases[c][n]]]
            I == {i \in 1..Len(inBases) : inBases[i] # Missing}
            first == IF I # {} THEN Cl!Min(I) ELSE 0
<1>1. f[c] = Answer(d, f, c)
  <2>1. Agree(d, f)
    BY FoundUnfolds
  <2>. HIDE DEF f
  <2>. QED  BY <2>1 DEF Agree
<1>2. FromBases(f, c) = IF first = 0 THEN Missing ELSE inBases[first]
  <2>. HIDE DEF f
  <2>. QED  BY DEF FromBases, FirstIn, Cl!SelectInSeq
<1>3. Len(Bases[c]) \in Nat /\ Len(inBases) = Len(Bases[c])
  BY BasesComeBefore
<1>. HIDE DEF f
<1>4. ASSUME d[c] = Missing, \A n \in 1..Len(Bases[c]) : f[Bases[c][n]] = Missing
      PROVE  f[c] = Missing
  <2>1. I = {}
    BY <1>3, <1>4
  <2>. HIDE DEF I, inBases
  <2>. QED  BY <1>1, <1>2, <1>4, <2>1 DEF Answer
<1>5. ASSUME NEW n \in 1..Len(Bases[c]), d[c] = Missing, f[Bases[c][n]] # Missing,
             \A k \in 1..n - 1 : f[Bases[c][k]] = Missing
      PROVE  f[c] = f[Bases[c][n]]
  <2>1. n \in I /\ \A i \in I : i \in Nat /\ n <= i
    BY <1>3, <1>5
  <2>2. inBases[n] = f[Bases[c][n]] /\ n \in Nat /\ n # 0
    BY <1>3
  <2>. HIDE DEF I, inBases
  <2>3. Cl!Min(I) = n
    <3>1. \A x \in I : (\A y \in I : x =< y) => x = n
      BY <2>1, <2>2
    <3>. QED  BY <2>1, <3>1 DEF Cl!Min
  <2>. QED  BY <1>1, <1>2, <1>5, <2>1, <2>2, <2>3 DEF Answer
<1>6. d[c] # Missing => f[c] = d[c]
  BY <1>1 DEF Answer
<1>. QED  BY <1>4, <1>5, <1>6 DEF f

-----------------------------------------------------------------------------

LookOps == {"nothing", "load", "loaded", "fill", "assign"}
Maybe == {Missing} \cup Cl!Values
Frame == [cls : Cl!Classes, epoch : Nat, at : {"cache", "dict", "base", "store"},
          next : Nat \ {0}, val : Maybe]

LookTypes ==
    /\ dict \in [Cl!Classes -> Maybe]
    /\ epoch \in Nat
    /\ cache \in [Cl!Classes -> [epoch : Nat, val : Maybe]]
    /\ frames \in [Lookers -> Seq(Frame)]
    /\ doing \in [Lookers -> [op : LookOps, cls : Nat]]
    /\ \A t \in Lookers :
          doing[t].op \in {"load", "loaded", "fill"} => doing[t].cls \in Cl!Classes

(* What a frame that began in epoch e knows of the dict d, if no class is  *)
(* being changed: the result it is about to keep is right, and the bases it*)
(* has passed do not have the name.                                        *)
Right(d, e, f) ==
    f.epoch = e =>
       /\ f.at = "store" => f.val = FoundIn(d)[f.cls]
       /\ f.at = "base" =>
             /\ d[f.cls] = Missing
             /\ \A n \in 1..f.next - 1 :
                   n \in 1..Len(Bases[f.cls]) => FoundIn(d)[Bases[f.cls][n]] = Missing

Good(settled, d, e, f) ==
    /\ f.epoch <= e
    /\ f.at = "base" => f.val = Missing
    /\ f.at \in {"cache", "dict"} => f.next = 1
    /\ settled => Right(d, e, f)

(* g is the lookup of the base that f waits for, and began no earlier.     *)
Nested(f, g) ==
    /\ f.at = "base" /\ f.next <= Len(Bases[f.cls])
    /\ g.cls = Bases[f.cls][f.next]
    /\ f.epoch <= g.epoch

Stack(settled, d, e, s) ==
    /\ s \in Seq(Frame)
    /\ \A i \in 1..Len(s) : Good(settled, d, e, s[i])
    /\ \A i \in 1..Len(s) - 1 : Nested(s[i], s[i + 1])

Fresh(c) ==
    /\ cache[c].epoch <= epoch
    /\ Cl!Assigning = {} /\ cache[c].epoch = epoch => cache[c].val = FoundIn(dict)[c]

LookupInv ==
    /\ LookTypes
    /\ \A c \in Cl!Classes : Fresh(c)
    /\ \A t \in Lookers : Stack(Cl!Assigning = {}, dict, epoch, frames[t])

LEMMA Popped ==
    ASSUME NEW q, NEW d, NEW e, NEW s \in Seq(Frame), Stack(q, d, e, s), s # <<>>
    PROVE  /\ Stack(q, d, e, Cl!Front(s)) /\ Len(s) \in Nat \ {0}
           /\ Len(Cl!Front(s)) = Len(s) - 1
           /\ \A i \in 1..Len(s) - 1 : Cl!Front(s)[i] = s[i]
           /\ Cl!Last(s) = s[Len(s)] /\ Cl!Last(s) \in Frame
<1>1. /\ s \in Seq(Frame) /\ Len(s) \in Nat \ {0}
      /\ \A i \in 1..Len(s) : s[i] \in Frame
  <2>1. s \in Seq(Frame)
    BY DEF Stack
  <2>. QED  BY <2>1, ElementOfSeq, LenProperties, EmptySeq
<1>2. Cl!Front(s) = SubSeq(s, 1, Len(s) - 1)
  BY DEF Cl!Front
<1>3. Len(s) - 1 \in Nat /\ \A i \in 1..Len(s) - 1 : s[i] \in Frame
  BY <1>1
<1>4. /\ Cl!Front(s) \in Seq(Frame)
      /\ Len(Cl!Front(s)) = Len(s) - 1
      /\ \A i \in 1..Len(s) - 1 : Cl!Front(s)[i] = s[i]
  <2>. DEFINE n == Len(s) - 1
  <2>1. n \in Nat /\ \A i \in 1..n : s[i] \in Frame
    BY <1>3
  <2>. HIDE DEF n
  <2>2. /\ SubSeq(s, 1, n) \in Seq(Frame)
        /\ Len(SubSeq(s, 1, n)) = n
        /\ \A i \in 1..n : SubSeq(s, 1, n)[i] = s[i]
    BY <2>1, ButLast
  <2>. QED  BY <1>2, <2>2 DEF n
<1>5. /\ \A i \in 1..Len(s) - 1 : Good(q, d, e, Cl!Front(s)[i])
      /\ \A i \in 1..Len(s) - 1 - 1 : Nested(Cl!Front(s)[i], Cl!Front(s)[i + 1])
  BY <1>1, <1>4 DEF Stack
<1>. QED  BY <1>1, <1>4, <1>5 DEF Stack, Cl!Last

LEMMA Pushed ==
    ASSUME NEW q, NEW d, NEW e, NEW s \in Seq(Frame), Stack(q, d, e, s), NEW f \in Frame, Good(q, d, e, f),
           s # <<>> => Nested(s[Len(s)], f)
    PROVE  Stack(q, d, e, Append(s, f))
<1>1. s \in Seq(Frame) /\ (s = <<>> <=> Len(s) = 0) /\ Len(s) \in Nat
  BY LenProperties, EmptySeq DEF Stack
<1>2. /\ Append(s, f) \in Seq(Frame) /\ Len(Append(s, f)) = Len(s) + 1
      /\ \A i \in 1..Len(s) : Append(s, f)[i] = s[i]
      /\ Append(s, f)[Len(s) + 1] = f
  BY <1>1, AppendProperties
<1>3. ASSUME NEW i \in 1..Len(s) + 1  PROVE Good(q, d, e, Append(s, f)[i])
  BY <1>1, <1>2, <1>3 DEF Stack
<1>4. ASSUME NEW i \in 1..Len(s)  PROVE Nested(Append(s, f)[i], Append(s, f)[i + 1])
  <2>1. CASE i = Len(s)
    BY <1>1, <1>2, <1>4, <2>1
  <2>2. CASE i # Len(s)
    <3>1. i \in 1..Len(s) - 1 /\ i + 1 \in 1..Len(s)
      BY <1>1, <1>4, <2>2
    <3>. QED  BY <1>2, <3>1 DEF Stack
  <2>. QED  BY <2>1, <2>2
<1>. QED  BY <1>1, <1>2, <1>3, <1>4 DEF Stack

(* The frame on top moves on.                                              *)
LEMMA MovedOn ==
    ASSUME NEW q, NEW d, NEW e, NEW s \in Seq(Frame), Stack(q, d, e, s), s # <<>>, NEW f \in Frame,
           Good(q, d, e, f), f.cls = Cl!Last(s).cls, f.epoch = Cl!Last(s).epoch
    PROVE  Stack(q, d, e, Append(Cl!Front(s), f))
<1>1. PICK r : /\ r = Cl!Front(s)
               /\ Stack(q, d, e, r) /\ Len(s) \in Nat \ {0} /\ Len(r) = Len(s) - 1
               /\ \A i \in 1..Len(s) - 1 : r[i] = s[i]
               /\ Cl!Last(s) = s[Len(s)]
  <2>1. /\ Stack(q, d, e, Cl!Front(s)) /\ Len(s) \in Nat \ {0}
        /\ Len(Cl!Front(s)) = Len(s) - 1
        /\ \A i \in 1..Len(s) - 1 : Cl!Front(s)[i] = s[i]
        /\ Cl!Last(s) = s[Len(s)]
    BY Popped
  <2>. QED  BY <2>1
<1>2. ASSUME r # <<>>  PROVE Nested(r[Len(r)], f)
  <2>1. Len(s) - 1 \in 1..Len(s) - 1
    <3>1. r \in Seq(Frame)
      BY <1>1 DEF Stack
    <3>. QED  BY <1>1, <1>2, <3>1, EmptySeq
  <2>2. Nested(s[Len(s) - 1], s[Len(s) - 1 + 1])
    BY <2>1 DEF Stack
  <2>3. r[Len(r)] = s[Len(s) - 1] /\ s[Len(s) - 1 + 1] = Cl!Last(s)
    BY <1>1, <2>1
  <2>. QED  BY <2>2, <2>3 DEF Nested
<1>3. Stack(q, d, e, Append(r, f))
  <2>1. r \in Seq(Frame)
    BY <1>1 DEF Stack
  <2>. QED  BY <1>1, <1>2, <2>1, Pushed
<1>. QED  BY <1>1, <1>3

-----------------------------------------------------------------------------

Settled == Cl!Assigning = {}
Steady == UNCHANGED <<dict, epoch, cache>>

LEMMA FrameFields ==
    ASSUME NEW f \in Frame
    PROVE  /\ f.cls \in Cl!Classes /\ f.epoch \in Nat /\ f.next \in Nat \ {0}
           /\ f.val \in Maybe /\ f.at \in {"cache", "dict", "base", "store"}
BY DEF Frame

(* The result of the frame on top, handed to the frame that waits for it.  *)
LEMMA HandedDown ==
    ASSUME LookupInv, NEW t \in Lookers, frames[t] # <<>>, NEW v \in Maybe,
           Settled /\ Cl!Top(t).epoch = epoch => v = FoundIn(dict)[Cl!Top(t).cls],
           Cl!ReturnToClass(t, v)
    PROVE  /\ frames' \in [Lookers -> Seq(Frame)]
           /\ \A u \in Lookers : Stack(Settled, dict, epoch, frames'[u])
<1>. DEFINE s == frames[t]
            rest == Cl!Front(s)
            f == Cl!Last(rest)
            g == IF v = Missing THEN [f EXCEPT !.next = @ + 1]
                 ELSE [f EXCEPT !.val = v, !.at = "store"]
            top == Cl!Last(s)
<1>1. /\ Len(s) > 1 /\ frames' = [frames EXCEPT ![t] = Append(Cl!Front(rest), g)]
      /\ top = Cl!Top(t)
  BY DEF Cl!ReturnToClass, Cl!Top
<1>2. s \in Seq(Frame) /\ Stack(Settled, dict, epoch, s) /\ s # <<>>
  BY DEF LookupInv, LookTypes, Settled
<1>3. frames \in [Lookers -> Seq(Frame)]
      /\ \A u \in Lookers : Stack(Settled, dict, epoch, frames[u])
  BY DEF LookupInv, LookTypes, Settled
<1>. HIDE DEF s, Settled
<1>4. /\ Stack(Settled, dict, epoch, rest) /\ Len(s) \in Nat \ {0} /\ Len(rest) = Len(s) - 1
      /\ \A i \in 1..Len(s) - 1 : rest[i] = s[i]
      /\ top = s[Len(s)] /\ top \in Frame
  BY <1>2, Popped
<1>5. rest \in Seq(Frame) /\ rest # <<>>
  <2>1. rest \in Seq(Frame)
    BY <1>4 DEF Stack
  <2>. QED  BY <1>1, <1>4, <2>1, EmptySeq
<1>. HIDE DEF rest
<1>6. f = rest[Len(rest)] /\ f \in Frame
  BY <1>4, <1>5, Popped
<1>7. Nested(f, top)
  <2>1. Len(s) - 1 \in 1..Len(s) - 1 /\ Len(s) - 1 + 1 = Len(s)
    BY <1>1, <1>4
  <2>2. Nested(s[Len(s) - 1], s[Len(s) - 1 + 1])
    BY <1>2, <2>1 DEF Stack
  <2>. QED  BY <1>4, <1>6, <2>1, <2>2
<1>8. Good(Settled, dict, epoch, f) /\ Good(Settled, dict, epoch, top)
  <2>1. Len(rest) \in 1..Len(rest) /\ Len(s) \in 1..Len(s)
    BY <1>1, <1>4
  <2>. QED  BY <1>2, <1>4, <1>6, <2>1 DEF Stack
<1>. HIDE DEF f, top
<1>9. /\ f.cls \in Cl!Classes /\ f.next \in Nat \ {0} /\ f.epoch \in Nat /\ f.at = "base"
      /\ top.cls = Bases[f.cls][f.next] /\ f.next \in 1..Len(Bases[f.cls])
      /\ f.epoch <= top.epoch /\ top.epoch <= epoch /\ top.epoch \in Nat /\ epoch \in Nat
      /\ f.epoch <= epoch /\ f.val = Missing
      /\ Len(Bases[f.cls]) \in Nat
  <2>1. epoch \in Nat
    BY DEF LookupInv, LookTypes
  <2>2. f.cls \in Cl!Classes /\ f.next \in Nat \ {0} /\ f.epoch \in Nat /\ top.epoch \in Nat
    BY <1>4, <1>6, FrameFields
  <2>3. Len(Bases[f.cls]) \in Nat
    BY <2>2, BasesComeBefore
  <2>. QED  BY <1>7, <1>8, <2>1, <2>2, <2>3 DEF Nested, Good
<1>10. /\ g \in Frame /\ g.cls = f.cls /\ g.epoch = f.epoch
       /\ v = Missing => g.at = "base" /\ g.val = Missing /\ g.next = f.next + 1
       /\ v # Missing => g.at = "store" /\ g.val = v
  <2>1. f.next + 1 \in Nat \ {0}
    BY <1>9
  <2>. QED  BY <1>6, <1>9, <2>1 DEF Frame
<1>. HIDE DEF g
<1>11. ASSUME Settled, g.epoch = epoch
       PROVE  Right(dict, epoch, g)
  <2>1. /\ dict[f.cls] = Missing
        /\ \A n \in 1..f.next - 1 :
              n \in 1..Len(Bases[f.cls]) => FoundIn(dict)[Bases[f.cls][n]] = Missing
    BY <1>8, <1>9, <1>10, <1>11 DEF Good, Right
  <2>2. v = FoundIn(dict)[Bases[f.cls][f.next]]
    BY <1>1, <1>9, <1>10, <1>11
  <2>3. CASE v = Missing
    <3>2. \A n \in 1..g.next - 1 :
             n \in 1..Len(Bases[f.cls]) => FoundIn(dict)[Bases[f.cls][n]] = Missing
      <4> SUFFICES ASSUME NEW n \in 1..g.next - 1, n \in 1..Len(Bases[f.cls])
                   PROVE  FoundIn(dict)[Bases[f.cls][n]] = Missing
        OBVIOUS
      <4>1. n \in 1..f.next - 1 \/ n = f.next
        BY <1>9, <1>10, <2>3
      <4>. QED  BY <2>1, <2>2, <2>3, <4>1
    <3>3. g.at = "base" /\ g.cls = f.cls /\ dict[f.cls] = Missing
      BY <1>10, <2>1, <2>3
    <3>. QED  BY <3>2, <3>3 DEF Right
  <2>4. CASE v # Missing
    <3>1. \A n \in 1..f.next - 1 : FoundIn(dict)[Bases[f.cls][n]] = Missing
      BY <1>9, <2>1
    <3>2. FoundIn(dict)[f.cls] = v
      BY <1>9, <2>1, <2>2, <2>4, <3>1, FoundByCases
    <3>. QED  BY <1>10, <2>4, <3>2 DEF Right
  <2>. QED  BY <2>3, <2>4
<1>12. Good(Settled, dict, epoch, g)
  BY <1>9, <1>10, <1>11 DEF Good, Right
<1>13. Stack(Settled, dict, epoch, Append(Cl!Front(rest), g))
  BY <1>4, <1>5, <1>10, <1>12, MovedOn DEF f
<1>14. Append(Cl!Front(rest), g) \in Seq(Frame)
  BY <1>13 DEF Stack
<1>. QED  BY <1>1, <1>3, <1>13, <1>14

(* Whoever gets it, the stacks stay sound and nobody starts to assign.     *)
LEMMA Returned ==
    ASSUME LookupInv, NEW t \in Lookers, frames[t] # <<>>, NEW v \in Maybe,
           Settled /\ Cl!Top(t).epoch = epoch => v = FoundIn(dict)[Cl!Top(t).cls],
           Cl!Return(t, v)
    PROVE  /\ frames' \in [Lookers -> Seq(Frame)]
           /\ \A u \in Lookers : Stack(Settled, dict, epoch, frames'[u])
           /\ doing' \in [Lookers -> [op : LookOps, cls : Nat]]
           /\ \A u \in Lookers :
                 doing'[u].op \in {"load", "loaded", "fill"} => doing'[u].cls \in Cl!Classes
           /\ Cl!Assigning' = Cl!Assigning
<1>1. /\ frames \in [Lookers -> Seq(Frame)]
      /\ \A u \in Lookers : Stack(Settled, dict, epoch, frames[u])
      /\ doing \in [Lookers -> [op : LookOps, cls : Nat]]
      /\ \A u \in Lookers :
            doing[u].op \in {"load", "loaded", "fill"} => doing[u].cls \in Cl!Classes
  BY DEF LookupInv, LookTypes, Settled
<1>2. CASE Cl!ReturnToClass(t, v)
  BY <1>1, <1>2, HandedDown DEF Cl!ReturnToClass, Cl!Assigning
<1>3. ASSUME frames' = [frames EXCEPT ![t] = <<>>], NEW op \in LookOps, NEW cls \in Nat,
             doing' = [doing EXCEPT ![t] = [op |-> op, cls |-> cls]],
             op # "assign", doing[t].op # "assign",
             op = "loaded" => cls \in Cl!Classes, op \notin {"load", "fill"}
      PROVE  /\ frames' \in [Lookers -> Seq(Frame)]
             /\ \A u \in Lookers : Stack(Settled, dict, epoch, frames'[u])
             /\ doing' \in [Lookers -> [op : LookOps, cls : Nat]]
             /\ \A u \in Lookers :
                   doing'[u].op \in {"load", "loaded", "fill"} => doing'[u].cls \in Cl!Classes
             /\ Cl!Assigning' = Cl!Assigning
  <2>1. /\ <<>> \in Seq(Frame)
        /\ Stack(Settled, dict, epoch, <<>>)
    BY EmptySeq DEF Stack
  <2>2. \A u \in Lookers : /\ frames'[u] = IF u = t THEN <<>> ELSE frames[u]
                           /\ doing'[u] = IF u = t THEN [op |-> op, cls |-> cls] ELSE doing[u]
    BY <1>1, <1>3
  <2>3. \A u \in Lookers : doing'[u].op = "assign" <=> doing[u].op = "assign"
    BY <1>3, <2>2
  <2>4. Cl!Assigning' = Cl!Assigning
    BY <2>3 DEF Cl!Assigning
  <2>5. doing' \in [Lookers -> [op : LookOps, cls : Nat]]
    BY <1>1, <1>3
  <2>6. frames' \in [Lookers -> Seq(Frame)]
    BY <1>1, <1>3, <2>1
  <2>7. \A u \in Lookers :
           doing'[u].op \in {"load", "loaded", "fill"} => doing'[u].cls \in Cl!Classes
    BY <1>1, <1>3, <2>2
  <2>. QED  BY <1>1, <2>1, <2>2, <2>4, <2>5, <2>6, <2>7
<1>4. /\ doing[t] \in [op : LookOps, cls : Nat] /\ doing[t].cls \in Nat
      /\ "nothing" \in LookOps /\ "loaded" \in LookOps /\ 0 \in Nat
  BY <1>1 DEF LookOps
<1>5. CASE Cl!ReturnToLoad(t, v)
  <2>1. doing[t].op = "load" /\ doing[t].cls \in Cl!Classes
    BY <1>1, <1>5 DEF Cl!ReturnToLoad
  <2>2. [doing[t] EXCEPT !.op = "loaded"] = [op |-> "loaded", cls |-> doing[t].cls]
    BY <1>4
  <2>3. \/ doing' = [doing EXCEPT ![t] = [op |-> "nothing", cls |-> 0]]
        \/ doing' = [doing EXCEPT ![t] = [op |-> "loaded", cls |-> doing[t].cls]]
    BY <1>5, <2>2 DEF Cl!ReturnToLoad, Cl!Nothing
  <2>4. frames' = [frames EXCEPT ![t] = <<>>]
    BY <1>5 DEF Cl!ReturnToLoad
  <2>5. CASE doing' = [doing EXCEPT ![t] = [op |-> "nothing", cls |-> 0]]
    BY <1>3, <1>4, <2>1, <2>4, <2>5
  <2>6. CASE doing' = [doing EXCEPT ![t] = [op |-> "loaded", cls |-> doing[t].cls]]
    BY <1>3, <1>4, <2>1, <2>4, <2>6
  <2>. QED  BY <2>3, <2>5, <2>6
<1>6. CASE Cl!ReturnToFill(t, v)
  <2>1. /\ doing[t].op = "fill" /\ frames' = [frames EXCEPT ![t] = <<>>]
        /\ doing' = [doing EXCEPT ![t] = [op |-> "nothing", cls |-> 0]]
    BY <1>6 DEF Cl!ReturnToFill, Cl!Nothing
  <2>. QED  BY <1>3, <1>4, <2>1
<1>. QED  BY <1>2, <1>5, <1>6 DEF Cl!Return

(* A step that changes neither the dict nor the epoch.                     *)
LEMMA SteadyStep ==
    ASSUME LookupInv, UNCHANGED <<dict, epoch>>,
           frames' \in [Lookers -> Seq(Frame)],
           \A u \in Lookers : Stack(Settled, dict, epoch, frames'[u]),
           doing' \in [Lookers -> [op : LookOps, cls : Nat]],
           \A u \in Lookers :
              doing'[u].op \in {"load", "loaded", "fill"} => doing'[u].cls \in Cl!Classes,
           Settled' => Settled,
           cache' \in [Cl!Classes -> [epoch : Nat, val : Maybe]],
           \A c \in Cl!Classes :
              /\ cache'[c].epoch <= epoch
              /\ Settled /\ cache'[c].epoch = epoch => cache'[c].val = FoundIn(dict)[c]
    PROVE  LookupInv'
<1>1. LookTypes'
  BY DEF LookupInv, LookTypes
<1>2. ASSUME NEW c \in Cl!Classes  PROVE Fresh(c)'
  BY <1>2 DEF Fresh, Settled
<1>3. ASSUME NEW u \in Lookers
      PROVE  Stack(Settled', dict', epoch', frames'[u])
  BY <1>3 DEF Stack, Good
<1>. QED  BY <1>1, <1>2, <1>3 DEF LookupInv, Settled

LEMMA CacheAsItWas ==
    ASSUME LookupInv, UNCHANGED cache
    PROVE  /\ cache' \in [Cl!Classes -> [epoch : Nat, val : Maybe]]
           /\ \A c \in Cl!Classes :
                 /\ cache'[c].epoch <= epoch
                 /\ Settled /\ cache'[c].epoch = epoch => cache'[c].val = FoundIn(dict)[c]
BY DEF LookupInv, LookTypes, Fresh, Settled

LEMMA TheTop ==
    ASSUME LookupInv, NEW t \in Lookers, frames[t] # <<>>
    PROVE  /\ Cl!Top(t) \in Frame /\ Good(Settled, dict, epoch, Cl!Top(t))
           /\ Cl!Top(t) = Cl!Last(frames[t]) /\ Cl!Top(t) = frames[t][Len(frames[t])]
           /\ frames[t] \in Seq(Frame) /\ Stack(Settled, dict, epoch, frames[t])
<1>1. frames[t] \in Seq(Frame) /\ Stack(Settled, dict, epoch, frames[t])
  BY DEF LookupInv, LookTypes, Settled
<1>2. /\ Cl!Last(frames[t]) \in Frame /\ Len(frames[t]) \in Nat \ {0}
      /\ Cl!Last(frames[t]) = frames[t][Len(frames[t])]
  BY <1>1, Popped
<1>3. Good(Settled, dict, epoch, frames[t][Len(frames[t])])
  BY <1>1, <1>2 DEF Stack
<1>. QED  BY <1>1, <1>2, <1>3 DEF Cl!Top

(* The frame on top becomes f, and nothing else changes.                   *)
LEMMA OneMoves ==
    ASSUME LookupInv, NEW t \in Lookers, frames[t] # <<>>, NEW f \in Frame,
           Good(Settled, dict, epoch, f), f.cls = Cl!Top(t).cls, f.epoch = Cl!Top(t).epoch,
           Cl!Becomes(t, f), UNCHANGED <<dict, epoch, cache, doing>>
    PROVE  LookupInv'
<1>1. Stack(Settled, dict, epoch, Append(Cl!Front(frames[t]), f))
  BY TheTop, MovedOn
<1>2. Append(Cl!Front(frames[t]), f) \in Seq(Frame)
  BY <1>1 DEF Stack
<1>3. frames \in [Lookers -> Seq(Frame)]
      /\ \A u \in Lookers : Stack(Settled, dict, epoch, frames[u])
  BY DEF LookupInv, LookTypes, Settled
<1>4. /\ frames' \in [Lookers -> Seq(Frame)]
      /\ \A u \in Lookers : Stack(Settled, dict, epoch, frames'[u])
  BY <1>1, <1>2, <1>3 DEF Cl!Becomes
<1>5. doing' = doing /\ (Settled' => Settled)
  BY DEF Settled, Cl!Assigning
<1>6. /\ doing' \in [Lookers -> [op : LookOps, cls : Nat]]
      /\ \A u \in Lookers :
            doing'[u].op \in {"load", "loaded", "fill"} => doing'[u].cls \in Cl!Classes
  BY <1>5 DEF LookupInv, LookTypes
<1>. QED  BY <1>4, <1>5, <1>6, CacheAsItWas, SteadyStep

LEMMA LookInCacheKeeps ==
    ASSUME LookupInv, NEW t \in Lookers, Cl!LookInCache(t)  PROVE LookupInv'
<1>. DEFINE f == Cl!Top(t)
<1>1. frames[t] # <<>> /\ f.at = "cache" /\ UNCHANGED <<dict, epoch, cache, own>>
  BY DEF Cl!LookInCache, Cl!At
<1>2. f \in Frame /\ Good(Settled, dict, epoch, f) /\ f.cls \in Cl!Classes
      /\ f.epoch \in Nat /\ f.next \in Nat \ {0} /\ f.val \in Maybe
  BY <1>1, TheTop, FrameFields
<1>3. CASE cache[f.cls].epoch = f.epoch /\ Cl!Return(t, cache[f.cls].val)
  <2>. DEFINE v == cache[f.cls].val
  <2>1. v \in Maybe
    BY <1>2 DEF LookupInv, LookTypes
  <2>2. Settled /\ f.epoch = epoch => v = FoundIn(dict)[f.cls]
    BY <1>2, <1>3 DEF LookupInv, Fresh, Settled
  <2>. HIDE DEF v
  <2>3. /\ frames' \in [Lookers -> Seq(Frame)]
        /\ \A u \in Lookers : Stack(Settled, dict, epoch, frames'[u])
        /\ doing' \in [Lookers -> [op : LookOps, cls : Nat]]
        /\ \A u \in Lookers :
              doing'[u].op \in {"load", "loaded", "fill"} => doing'[u].cls \in Cl!Classes
        /\ Cl!Assigning' = Cl!Assigning
    BY <1>1, <1>3, <2>1, <2>2, Returned DEF v
  <2>4. Settled' => Settled
    BY <2>3 DEF Settled
  <2>. QED  BY <1>1, <2>3, <2>4, CacheAsItWas, SteadyStep
<1>4. CASE Cl!Becomes(t, [f EXCEPT !.at = "dict"]) /\ UNCHANGED <<doing, inline, codeMu>>
  <2>. DEFINE g == [f EXCEPT !.at = "dict"]
  <2>1. /\ g \in Frame /\ g.cls = f.cls /\ g.epoch = f.epoch /\ g.at = "dict"
        /\ g.next = f.next
    BY <1>2 DEF Frame
  <2>2. Good(Settled, dict, epoch, g)
    BY <1>1, <1>2, <2>1 DEF Good, Right
  <2>3. Cl!Becomes(t, g) /\ doing' = doing
    BY <1>4
  <2>. HIDE DEF g, f
  <2>. QED  BY <1>1, <2>1, <2>2, <2>3, OneMoves DEF f
<1>. QED  BY <1>3, <1>4 DEF Cl!LookInCache

LEMMA LookInDictKeeps ==
    ASSUME LookupInv, NEW t \in Lookers, Cl!LookInDict(t)  PROVE LookupInv'
<1>. DEFINE f == Cl!Top(t)
            v == dict[f.cls]
            g == [f EXCEPT !.val = v, !.at = IF v = Missing THEN "base" ELSE "store"]
<1>1. /\ frames[t] # <<>> /\ f.at = "dict" /\ Cl!Becomes(t, g)
      /\ UNCHANGED <<dict, epoch, cache, own, doing, inline, codeMu>>
  BY DEF Cl!LookInDict, Cl!At
<1>2. f \in Frame /\ Good(Settled, dict, epoch, f) /\ f.cls \in Cl!Classes
      /\ f.epoch \in Nat /\ f.next \in Nat \ {0} /\ f.val \in Maybe
  BY <1>1, TheTop, FrameFields
<1>3. v \in Maybe
  BY <1>2 DEF LookupInv, LookTypes
<1>4. /\ g \in Frame /\ g.cls = f.cls /\ g.epoch = f.epoch /\ g.next = f.next /\ g.val = v
      /\ g.at = IF v = Missing THEN "base" ELSE "store"
  BY <1>2, <1>3 DEF Frame
<1>5. FoundIn(dict)[f.cls] = v \/ v = Missing
  BY <1>2, FoundByCases
<1>. HIDE DEF g
<1>6. CASE v # Missing
  <2>1. g.at = "store" /\ g.val = FoundIn(dict)[g.cls]
    BY <1>4, <1>5, <1>6
  <2>. QED  BY <1>1, <1>2, <1>4, <2>1, OneMoves DEF Good, Right
<1>7. CASE v = Missing
  <2>1. g.at = "base" /\ g.val = Missing /\ dict[g.cls] = Missing
        /\ \A n \in 1..g.next - 1 : FALSE
    BY <1>1, <1>2, <1>4, <1>7 DEF Good
  <2>2. Good(Settled, dict, epoch, g)
    BY <1>2, <1>4, <2>1 DEF Good, Right
  <2>. QED  BY <1>1, <1>4, <2>2, OneMoves
<1>. QED  BY <1>6, <1>7

LEMMA Entered ==
    ASSUME LookupInv, NEW c \in Cl!Classes
    PROVE  /\ Cl!Enter(c) \in Frame /\ Good(Settled, dict, epoch, Cl!Enter(c))
           /\ Cl!Enter(c).cls = c /\ Cl!Enter(c).epoch = epoch
           /\ <<Cl!Enter(c)>> \in Seq(Frame)
           /\ Stack(Settled, dict, epoch, <<Cl!Enter(c)>>)
<1>1. epoch \in Nat
  BY DEF LookupInv, LookTypes
<1>2. /\ Cl!Enter(c) \in Frame /\ Good(Settled, dict, epoch, Cl!Enter(c))
      /\ Cl!Enter(c).cls = c /\ Cl!Enter(c).epoch = epoch
  BY <1>1 DEF Cl!Enter, Frame, Good, Right, Maybe
<1>. DEFINE f == Cl!Enter(c)
<1>. HIDE DEF f
<1>3. <<f>> \in Seq(Frame) /\ Len(<<f>>) = 1 /\ <<f>>[1] = f
  BY <1>2 DEF f
<1>4. Stack(Settled, dict, epoch, <<f>>)
  BY <1>2, <1>3 DEF Stack, f
<1>. QED  BY <1>2, <1>3, <1>4 DEF f

LEMMA LookInBaseKeeps ==
    ASSUME LookupInv, NEW t \in Lookers, Cl!LookInBase(t)  PROVE LookupInv'
<1>. DEFINE f == Cl!Top(t)
<1>1. /\ frames[t] # <<>> /\ f.at = "base"
      /\ UNCHANGED <<dict, epoch, cache, own, doing, inline, codeMu>>
      /\ \/ /\ f.next <= Len(Bases[f.cls])
            /\ frames' = [frames EXCEPT ![t] = Append(@, Cl!Enter(Bases[f.cls][f.next]))]
         \/ /\ ~(f.next <= Len(Bases[f.cls]))
            /\ Cl!Becomes(t, [f EXCEPT !.at = "store"])
  BY DEF Cl!LookInBase, Cl!At
<1>2. /\ f \in Frame /\ Good(Settled, dict, epoch, f) /\ f.cls \in Cl!Classes
      /\ f.epoch \in Nat /\ f.next \in Nat \ {0} /\ f.val \in Maybe
      /\ frames[t] \in Seq(Frame) /\ f = frames[t][Len(frames[t])]
      /\ Stack(Settled, dict, epoch, frames[t])
  BY <1>1, TheTop, FrameFields
<1>3. /\ Len(Bases[f.cls]) \in Nat
      /\ \A n \in 1..Len(Bases[f.cls]) : Bases[f.cls][n] \in Cl!Classes
  BY <1>2, BasesComeBefore
<1>. HIDE DEF f
<1>4. CASE /\ f.next <= Len(Bases[f.cls])
           /\ frames' = [frames EXCEPT ![t] = Append(@, Cl!Enter(Bases[f.cls][f.next]))]
  <2>1. PICK b \in Cl!Classes : b = Bases[f.cls][f.next]
    <3>1. f.next \in 1..Len(Bases[f.cls])
      BY <1>2, <1>3, <1>4
    <3>. QED  BY <1>3, <3>1
  <2>2. PICK g \in Frame : g = Cl!Enter(b) /\ Good(Settled, dict, epoch, g)
                           /\ g.cls = b /\ g.epoch = epoch
    BY Entered
  <2>3. Nested(f, g)
    BY <1>1, <1>2, <1>4, <2>1, <2>2 DEF Nested, Good
  <2>4. Stack(Settled, dict, epoch, Append(frames[t], g))
    BY <1>2, <2>2, <2>3, Pushed
  <2>5. Append(frames[t], g) \in Seq(Frame)
    BY <2>4 DEF Stack
  <2>6. frames \in [Lookers -> Seq(Frame)]
        /\ \A u \in Lookers : Stack(Settled, dict, epoch, frames[u])
    BY DEF LookupInv, LookTypes, Settled
  <2>7. frames' = [frames EXCEPT ![t] = Append(frames[t], g)]
    BY <1>4, <2>1, <2>2
  <2>8. /\ frames' \in [Lookers -> Seq(Frame)]
        /\ \A u \in Lookers : Stack(Settled, dict, epoch, frames'[u])
    BY <2>4, <2>5, <2>6, <2>7
  <2>9. doing' = doing /\ (Settled' => Settled)
    BY <1>1 DEF Settled, Cl!Assigning
  <2>10. /\ doing' \in [Lookers -> [op : LookOps, cls : Nat]]
         /\ \A u \in Lookers :
               doing'[u].op \in {"load", "loaded", "fill"} => doing'[u].cls \in Cl!Classes
    BY <2>9 DEF LookupInv, LookTypes
  <2>. QED  BY <1>1, <2>8, <2>9, <2>10, CacheAsItWas, SteadyStep
<1>5. CASE ~(f.next <= Len(Bases[f.cls])) /\ Cl!Becomes(t, [f EXCEPT !.at = "store"])
  <2>. DEFINE g == [f EXCEPT !.at = "store"]
  <2>1. g \in Frame /\ g.cls = f.cls /\ g.epoch = f.epoch /\ g.at = "store" /\ g.val = f.val
    BY <1>2 DEF Frame
  <2>. HIDE DEF g
  <2>2. ASSUME Settled, g.epoch = epoch  PROVE g.val = FoundIn(dict)[g.cls]
    <3>1. /\ dict[f.cls] = Missing
          /\ \A n \in 1..f.next - 1 :
                n \in 1..Len(Bases[f.cls]) => FoundIn(dict)[Bases[f.cls][n]] = Missing
      BY <1>1, <1>2, <2>1, <2>2 DEF Good, Right
    <3>2. \A n \in 1..Len(Bases[f.cls]) : n \in 1..f.next - 1
      BY <1>2, <1>3, <1>5
    <3>3. FoundIn(dict)[f.cls] = Missing
      BY <1>2, <3>1, <3>2, FoundByCases
    <3>. QED  BY <1>1, <1>2, <2>1, <3>3 DEF Good
  <2>3. Good(Settled, dict, epoch, g)
    BY <1>2, <2>1, <2>2 DEF Good, Right
  <2>4. Cl!Becomes(t, g)
    BY <1>5 DEF g
  <2>. QED  BY <1>1, <2>1, <2>3, <2>4, OneMoves DEF f
<1>. QED  BY <1>1, <1>4, <1>5

LEMMA StoreKeeps ==
    ASSUME LookupInv, NEW t \in Lookers, Cl!Store(t)  PROVE LookupInv'
<1>. DEFINE f == Cl!Top(t)
<1>1. /\ frames[t] # <<>> /\ f.at = "store" /\ UNCHANGED <<dict, epoch, own>>
      /\ cache' = [cache EXCEPT ![f.cls] = [epoch |-> f.epoch, val |-> f.val]]
      /\ Cl!Return(t, f.val)
  BY DEF Cl!Store, Cl!At
<1>2. f \in Frame /\ Good(Settled, dict, epoch, f) /\ f.cls \in Cl!Classes
      /\ f.epoch \in Nat /\ f.val \in Maybe
  BY <1>1, TheTop, FrameFields
<1>3. f.epoch <= epoch /\ (Settled /\ f.epoch = epoch => f.val = FoundIn(dict)[f.cls])
  BY <1>1, <1>2 DEF Good, Right
<1>4. /\ frames' \in [Lookers -> Seq(Frame)]
      /\ \A u \in Lookers : Stack(Settled, dict, epoch, frames'[u])
      /\ doing' \in [Lookers -> [op : LookOps, cls : Nat]]
      /\ \A u \in Lookers :
            doing'[u].op \in {"load", "loaded", "fill"} => doing'[u].cls \in Cl!Classes
      /\ Cl!Assigning' = Cl!Assigning
  BY <1>1, <1>2, <1>3, Returned
<1>. HIDE DEF f
<1>5. cache \in [Cl!Classes -> [epoch : Nat, val : Maybe]] /\ \A c \in Cl!Classes : Fresh(c)
  BY DEF LookupInv, LookTypes
<1>6. cache' \in [Cl!Classes -> [epoch : Nat, val : Maybe]]
  BY <1>1, <1>2, <1>5
<1>7. ASSUME NEW c \in Cl!Classes
      PROVE  /\ cache'[c].epoch <= epoch
             /\ Settled /\ cache'[c].epoch = epoch => cache'[c].val = FoundIn(dict)[c]
  <2>1. CASE c = f.cls
    BY <1>1, <1>2, <1>3, <1>5, <2>1
  <2>2. CASE c # f.cls
    BY <1>1, <1>5, <2>2 DEF Fresh, Settled
  <2>. QED  BY <2>1, <2>2
<1>8. Settled' => Settled
  BY <1>4 DEF Settled
<1>. QED  BY <1>1, <1>4, <1>6, <1>7, <1>8, SteadyStep

(* A LOAD_ATTR begins one of its two lookups.                              *)
LEMMA LookupBegins ==
    ASSUME LookupInv, NEW t \in Lookers, NEW c \in Cl!Classes, NEW op \in {"load", "fill"},
           frames' = [frames EXCEPT ![t] = <<Cl!Enter(c)>>],
           doing' = [doing EXCEPT ![t] = [op |-> op, cls |-> c]],
           doing[t].op # "assign", UNCHANGED <<dict, epoch, cache>>
    PROVE  LookupInv'
<1>1. PICK s \in Seq(Frame) : s = <<Cl!Enter(c)>> /\ Stack(Settled, dict, epoch, s)
  BY Entered
<1>2. /\ frames \in [Lookers -> Seq(Frame)]
      /\ \A u \in Lookers : Stack(Settled, dict, epoch, frames[u])
      /\ doing \in [Lookers -> [op : LookOps, cls : Nat]]
      /\ \A u \in Lookers :
            doing[u].op \in {"load", "loaded", "fill"} => doing[u].cls \in Cl!Classes
  BY DEF LookupInv, LookTypes, Settled
<1>3. /\ frames' \in [Lookers -> Seq(Frame)]
      /\ \A u \in Lookers : Stack(Settled, dict, epoch, frames'[u])
  BY <1>1, <1>2
<1>4. op \in LookOps /\ c \in Nat
  BY DEF LookOps
<1>5. doing' \in [Lookers -> [op : LookOps, cls : Nat]]
  BY <1>2, <1>4
<1>6. \A u \in Lookers : doing'[u] = IF u = t THEN [op |-> op, cls |-> c] ELSE doing[u]
  BY <1>2
<1>7. \A u \in Lookers :
         doing'[u].op \in {"load", "loaded", "fill"} => doing'[u].cls \in Cl!Classes
  BY <1>2, <1>6
<1>8. Settled' => Settled
  BY <1>6 DEF Settled, Cl!Assigning
<1>. QED  BY <1>3, <1>5, <1>7, <1>8, CacheAsItWas, SteadyStep

LEMMA LoadKeeps ==
    ASSUME LookupInv, NEW t \in Lookers, NEW c \in Loaded, Cl!Load(t, c)  PROVE LookupInv'
<1>1. c \in Cl!Classes /\ doing[t].op # "assign"
  BY DEF Cl!Load, Cl!Nothing
<1>2. /\ frames' = [frames EXCEPT ![t] = <<Cl!Enter(c)>>]
      /\ doing' = [doing EXCEPT ![t] = [op |-> "load", cls |-> c]]
      /\ UNCHANGED <<dict, epoch, cache>>
  BY DEF Cl!Load
<1>. QED  BY <1>1, <1>2, LookupBegins

LEMMA FillKeeps ==
    ASSUME LookupInv, NEW t \in Lookers, Cl!Fill(t)  PROVE LookupInv'
<1>1. doing[t] \in [op : LookOps, cls : Nat] /\ doing[t].op = "loaded"
      /\ doing[t].cls \in Cl!Classes /\ doing \in [Lookers -> [op : LookOps, cls : Nat]]
  BY DEF LookupInv, LookTypes, Cl!Fill
<1>2. [doing[t] EXCEPT !.op = "fill"] = [op |-> "fill", cls |-> doing[t].cls]
  BY <1>1
<1>3. doing' = [doing EXCEPT ![t] = [op |-> "fill", cls |-> doing[t].cls]]
  BY <1>1, <1>2 DEF Cl!Fill
<1>. QED  BY <1>1, <1>3, LookupBegins DEF Cl!Fill

(* While a class is being changed nothing is promised ...                  *)
LEMMA SetAttrKeeps ==
    ASSUME LookupInv, NEW t \in Lookers, NEW c \in Cl!Classes, NEW v \in Cl!Values,
           Cl!SetAttr(t, c, v)
    PROVE  LookupInv'
<1>1. /\ dict' = [dict EXCEPT ![c] = v]
      /\ doing' = [doing EXCEPT ![t] = [op |-> "assign", cls |-> c]]
      /\ epoch' = epoch /\ cache' = cache /\ frames' = frames
  BY DEF Cl!SetAttr
<1>2. LookTypes /\ v \in Maybe /\ "assign" \in LookOps /\ c \in Nat
  BY DEF LookupInv, Maybe, LookOps
<1>3. \A u \in Lookers :
         doing'[u] = IF u = t THEN [op |-> "assign", cls |-> c] ELSE doing[u]
  BY <1>1, <1>2 DEF LookTypes
<1>4. ~Settled'
  BY <1>3 DEF Settled, Cl!Assigning
<1>5. dict' \in [Cl!Classes -> Maybe]
  BY <1>1, <1>2 DEF LookTypes
<1>6. doing' \in [Lookers -> [op : LookOps, cls : Nat]]
  BY <1>1, <1>2 DEF LookTypes
<1>7. LookTypes'
  BY <1>1, <1>2, <1>3, <1>5, <1>6 DEF LookTypes
<1>8. ASSUME NEW k \in Cl!Classes  PROVE Fresh(k)'
  BY <1>1, <1>4, <1>8 DEF LookupInv, Fresh, Settled
<1>9. ASSUME NEW u \in Lookers  PROVE Stack(Settled', dict', epoch', frames'[u])
  BY <1>1, <1>4, <1>9 DEF LookupInv, Stack, Good
<1>. QED  BY <1>7, <1>8, <1>9 DEF LookupInv, Settled

(* ... and the bump leaves every entry and every lookup in the past.       *)
LEMMA BumpKeeps ==
    ASSUME LookupInv, NEW t \in Lookers, Cl!BumpClassEpoch(t)  PROVE LookupInv'
<1>1. /\ epoch' = epoch + 1 /\ doing' = [doing EXCEPT ![t] = [op |-> "nothing", cls |-> 0]]
      /\ dict' = dict /\ cache' = cache /\ frames' = frames
  BY DEF Cl!BumpClassEpoch, Cl!Nothing
<1>2. LookTypes /\ epoch \in Nat /\ "nothing" \in LookOps /\ 0 \in Nat
  BY DEF LookupInv, LookTypes, LookOps
<1>3. \A u \in Lookers :
         doing'[u] = IF u = t THEN [op |-> "nothing", cls |-> 0] ELSE doing[u]
  BY <1>1, <1>2 DEF LookTypes
<1>4. doing' \in [Lookers -> [op : LookOps, cls : Nat]]
  BY <1>1, <1>2 DEF LookTypes
<1>5. LookTypes'
  BY <1>1, <1>2, <1>3, <1>4 DEF LookTypes
<1>6. ASSUME NEW k \in Cl!Classes  PROVE Fresh(k)'
  <2>1. cache[k].epoch \in Nat /\ cache[k].epoch <= epoch
    BY <1>2 DEF LookupInv, Fresh, LookTypes
  <2>2. cache[k].epoch <= epoch + 1 /\ cache[k].epoch # epoch + 1
    BY <1>2, <2>1
  <2>. QED  BY <1>1, <2>2 DEF Fresh
<1>7. ASSUME NEW u \in Lookers  PROVE Stack(Settled', dict', epoch', frames'[u])
  <2>1. frames[u] \in Seq(Frame) /\ Stack(Settled, dict, epoch, frames[u])
    BY <1>2 DEF LookupInv, LookTypes, Settled
  <2>2. ASSUME NEW i \in 1..Len(frames[u])  PROVE Good(Settled', dict, epoch + 1, frames[u][i])
    <3>1. frames[u][i] \in Frame /\ Good(Settled, dict, epoch, frames[u][i])
      BY <2>1, ElementOfSeq DEF Stack
    <3>2. frames[u][i].epoch \in Nat /\ frames[u][i].epoch <= epoch
      BY <3>1, FrameFields DEF Good
    <3>3. frames[u][i].epoch <= epoch + 1 /\ frames[u][i].epoch # epoch + 1
      BY <1>2, <3>2
    <3>. QED  BY <3>1, <3>3 DEF Good, Right
  <2>. QED  BY <1>1, <2>1, <2>2 DEF Stack
<1>. QED  BY <1>5, <1>6, <1>7 DEF LookupInv, Settled

LEMMA LookupCreated ==
    ASSUME Cl!Init  PROVE LookupInv
<1>1. /\ <<>> \in Seq(Frame) /\ Len(<<>>) = 0
      /\ 0 \in Nat /\ 1 \in Nat /\ 0 <= 1 /\ 0 # 1 /\ Missing \in Maybe
      /\ "nothing" \in LookOps
  BY EmptySeq DEF Maybe, LookOps
<1>2. /\ epoch = 1 /\ cache = [c \in Cl!Classes |-> [epoch |-> 0, val |-> Missing]]
      /\ frames = [t \in Lookers |-> <<>>]
      /\ doing = [t \in Lookers |-> [op |-> "nothing", cls |-> 0]]
      /\ dict \in [Cl!Classes -> {Missing} \cup Functions]
  BY DEF Cl!Init, Cl!Nothing
<1>3. dict \in [Cl!Classes -> Maybe]
  BY <1>2 DEF Maybe, Cl!Values
<1>4. LookTypes
  BY <1>1, <1>2, <1>3 DEF LookTypes
<1>5. \A c \in Cl!Classes : Fresh(c)
  BY <1>1, <1>2 DEF Fresh
<1>6. \A t \in Lookers : Stack(Cl!Assigning = {}, dict, epoch, frames[t])
  BY <1>1, <1>2 DEF Stack
<1>. QED  BY <1>4, <1>5, <1>6 DEF LookupInv

LEMMA LookupKept == ASSUME LookupInv, Cl!Next  PROVE LookupInv'
BY LookInCacheKeeps, LookInDictKeeps, LookInBaseKeeps, StoreKeeps, LoadKeeps, FillKeeps,
   SetAttrKeeps, BumpKeeps DEF Cl!Next

LEMMA LookupInvariant == RuntimeSpec => []LookupInv
<1>1. Create => LookupInv
  BY LookupCreated DEF Create
<1>2. LookupInv /\ [Step]_runtime => LookupInv'
  <2> SUFFICES ASSUME LookupInv, [Step]_runtime  PROVE LookupInv'
    OBVIOUS
  <2>1. CASE Cl!Next
    BY <2>1, LookupKept
  <2>2. CASE UNCHANGED lookup
    BY <2>2 DEF lookup, LookupInv, LookTypes, Fresh, Cl!Assigning
  <2>. QED  BY <2>1, <2>2 DEF Step, runtime
<1>. QED  BY <1>1, <1>2, PTL DEF RuntimeSpec

(* When no assignment is under way, an entry of the current epoch in the   *)
(* method cache of a class is what a walk of the hierarchy finds now,      *)
(* however lookups and assignments of any number of threads interleave,    *)
(* whatever the hierarchy (classLookup and setAttr in vm/ops.go).          *)
THEOREM CachesAreFresh == RuntimeSpec => []CacheIsFresh
<1>1. LookupInv => CacheIsFresh
  <2> SUFFICES ASSUME LookupInv, Cl!Assigning = {}, NEW c \in Cl!Classes, cache[c].epoch = epoch
               PROVE  cache[c].val = Cl!Found[c]
    BY DEF CacheIsFresh, Cl!CacheIsFresh
  <2>1. cache[c].val = FoundIn(dict)[c]
    BY DEF LookupInv, Fresh
  <2>. QED  BY <2>1, FoundIs
<1>. QED  BY <1>1, LookupInvariant, PTL
================================================================================
