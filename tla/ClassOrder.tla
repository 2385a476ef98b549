------------------------------ MODULE ClassOrder ------------------------------
(***************************************************************************)
(* The method resolution order of every class of a hierarchy               *)
(* (computeMRO, c3Merge and computeMRODepthFirst, vm/ops.go), and the order*)
(* in which classLookup searches the same hierarchy.                       *)
(*                                                                         *)
(* Classes are created one after another and the order of each is computed *)
(* when it has its bases.  The code computes a base's order again each time*)
(* it meets the base; it is the same order each time, so computing it once *)
(* is the same.  Each round of the merge is one action, and so is each call*)
(* of the walk that takes its place when it fails.                         *)
(***************************************************************************)
EXTENDS Naturals, Sequences, SequencesExt, FiniteSets, FiniteSetsExt

CONSTANTS MaxClasses    \* bound: how many classes there are

Classes == 1..MaxClasses

(* What the module takes for granted of its constant; Runtime assumes it.  *)
OrderConstants == MaxClasses \in Nat \ {0}

VARIABLES
    bases,    \* the direct bases of each class created so far
    mro,      \* the orders computed so far
    working,  \* c3Merge: what is left of each list; empty outside a merge
    out,      \* c3Merge: what has been picked; the walk: what it has seen
    toVisit   \* the walk: the calls to come, in their order

vars == <<bases, mro, working, out, toVisit>>

Init ==
    /\ bases = <<>>
    /\ mro = <<>>
    /\ working = <<>>
    /\ out = <<>>
    /\ toVisit = <<>>

-----------------------------------------------------------------------------

Class == Len(bases)         \* the newest class

(* A class statement; its bases are classes that exist, none of them twice.*)
BuildClass ==
    /\ Len(mro) = Len(bases) /\ Len(bases) < MaxClasses
    /\ \E bs \in SetToAllKPermutations(DOMAIN bases) : bases' = Append(bases, bs)
    /\ UNCHANGED <<mro, working, out, toVisit>>

(* The lists to merge: the orders of the bases, and the bases themselves.  *)
Lists(c) == Append([n \in 1..Len(bases[c]) |-> mro[bases[c][n]]], bases[c])

(* A class without bases or with one, which needs no merge.                *)
ComputeMRO ==
    /\ Len(mro) < Class /\ Len(bases[Class]) <= 1
    /\ mro' = Append(mro, IF bases[Class] = <<>> THEN <<Class>>
                          ELSE <<Class>> \o mro[bases[Class][1]])
    /\ UNCHANGED <<bases, working, out, toVisit>>

StartMerge ==
    /\ Len(mro) < Class /\ Len(bases[Class]) > 1
    /\ working = <<>> /\ out = <<>> /\ toVisit = <<>>
    /\ working' = Lists(Class)
    /\ UNCHANGED <<bases, mro, out, toVisit>>

(* The heads that are in nobody's tail.                                    *)
InTail(x) == \E n \in DOMAIN working : \E j \in 2..Len(working[n]) : working[n][j] = x
GoodHeads == {n \in DOMAIN working : working[n] # <<>> /\ ~InTail(Head(working[n]))}

\* Mutant of Pick: any head will do.
PickAny ==
    /\ \E n \in DOMAIN working : working[n] # <<>>
    /\ LET pick == Head(working[CHOOSE n \in DOMAIN working : working[n] # <<>>]) IN
       /\ out' = Append(out, pick)
       /\ working' = [n \in DOMAIN working |->
                        IF IsPrefix(<<pick>>, working[n]) THEN Tail(working[n]) ELSE working[n]]
    /\ UNCHANGED <<bases, mro, toVisit>>

(* One round: the first good head goes to the result and off every list it *)
(* heads.                                                                  *)
Pick ==
    /\ GoodHeads # {}
    /\ LET pick == Head(working[Min(GoodHeads)]) IN
       /\ out' = Append(out, pick)
       /\ working' = [n \in DOMAIN working |->
                        IF IsPrefix(<<pick>>, working[n]) THEN Tail(working[n]) ELSE working[n]]
    /\ UNCHANGED <<bases, mro, toVisit>>

Finish(order) ==
    /\ mro' = Append(mro, order)
    /\ working' = <<>>
    /\ out' = <<>>
    /\ UNCHANGED <<bases, toVisit>>

Merged ==
    /\ working # <<>> /\ \A n \in DOMAIN working : working[n] = <<>>
    /\ Finish(<<Class>> \o out)

(* No good head: the hierarchy is ambiguous, and a depth-first walk decides*)
(* that begins anew.                                                       *)
DepthFirst ==
    /\ working # <<>> /\ GoodHeads = {}
    /\ \E n \in DOMAIN working : working[n] # <<>>
    /\ working' = <<>> /\ out' = <<>> /\ toVisit' = <<Class>>
    /\ UNCHANGED <<bases, mro>>

(* A class that was seen is passed over; another comes next, and then, one *)
(* after another, its bases.                                               *)
Walk ==
    /\ toVisit # <<>>
    /\ IF Head(toVisit) \in ToSet(out)
       THEN toVisit' = Tail(toVisit) /\ out' = out
       ELSE /\ toVisit' = bases[Head(toVisit)] \o Tail(toVisit)
            /\ out' = Append(out, Head(toVisit))
    /\ UNCHANGED <<bases, mro, working>>

Walked ==
    /\ working = <<>> /\ toVisit = <<>> /\ out # <<>>
    /\ Finish(out)

Next ==
    \/ BuildClass \/ ComputeMRO
    \/ StartMerge \/ Pick \/ Merged
    \/ DepthFirst \/ Walk \/ Walked

Spec == Init /\ [][Next]_vars

-----------------------------------------------------------------------------

(* The class and everything it inherits from.                              *)
Ancestors[c \in DOMAIN bases] == {c} \cup UNION {Ancestors[b] : b \in ToSet(bases[c])}

Before(s, x, y) == \E m, n \in DOMAIN s : m < n /\ s[m] = x /\ s[n] = y

(* Some order of the ancestors respects every list, that is, no set of     *)
(* them has each member behind another one.                                *)
Consistent(c) ==
    \A S \in SUBSET (Ancestors[c] \ {c}) :
        S # {} => \E x \in S : \A n \in DOMAIN Lists(c) :
                                   \A y \in S : ~Before(Lists(c)[n], y, x)

(* Every order begins with its class and has each ancestor once; if any    *)
(* order at all can keep the orders of the bases and the order in which    *)
(* they are named, this one does.  Only an ambiguous hierarchy falls back  *)
(* on the walk.                                                            *)
OrderIsSound ==
    \A c \in DOMAIN mro :
        /\ mro[c][1] = c
        /\ IsInjective(mro[c]) /\ ToSet(mro[c]) = Ancestors[c]
        /\ Consistent(c) => \A n \in DOMAIN Lists(c) : \A x, y \in Classes :
                                Before(Lists(c)[n], x, y) => Before(mro[c], x, y)

(* classLookup (vm/ops.go:1859-1890) for a name that the classes of H have:*)
(* the class itself, or what the first base finds that finds any.          *)
Lookup(c, H) ==
    LET found[b \in DOMAIN bases] ==
          LET n == SelectInSeq(bases[b], LAMBDA x : found[x] # 0)
          IN  IF b \in H THEN b ELSE IF n = 0 THEN 0 ELSE found[bases[b][n]]
    IN  found[c]

(* changelog/0.0.331.md:10-11: with the C3 order in place of depth-first   *)
(* traversal, "diamond inheritance now resolves methods in                 *)
(* CPython-compatible order": what an instance of the class finds is what  *)
(* comes first in the order.                                               *)
LookupFollowsMRO ==
    \A c \in DOMAIN mro : \A H \in SUBSET Ancestors[c] \ {{}} :
        Lookup(c, H) = mro[c][SelectInSeq(mro[c], LAMBDA x : x \in H)]
=============================================================================
