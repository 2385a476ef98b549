------------------------------ MODULE ClassLookup ------------------------------
(***************************************************************************)
(* Attribute lookup on classes with its two caches: the method cache each  *)
(* class keeps, stamped with a global epoch (classLookup, vm/ops.go), and  *)
(* the inline cache a LOAD_ATTR instruction keeps in its code object       *)
(* (vm/dispatch.go).  Threads look one name up while others assign it.     *)
(*                                                                         *)
(* A lookup is a stack of frames, one per class on the way to the root.    *)
(* Reading the epoch, each critical section under Class.Mu and each read of*)
(* a class dict is an action of its own, so that assignments of other      *)
(* threads fall between any two of them; an assignment is two actions,     *)
(* since setAttr writes the dict and then bumps the epoch.                 *)
(*                                                                         *)
(* There is one name, one LOAD_ATTR location and one instance per class.   *)
(* Left out: the metaclass, __getattr__ and descriptors that are instances *)
(* of Python classes (to recognise one is a lookup of another name).       *)
(***************************************************************************)
EXTENDS Naturals, Sequences, SequencesExt, FiniteSets

CONSTANTS
    Lookers,      \* threads
    Bases,        \* Bases[c]: the direct bases of class c, which come before c
    Loaded,       \* the classes whose instances meet at the LOAD_ATTR location
    Functions,    \* values a LOAD_ATTR may keep: functions, ints, strings ...
    Properties,   \* values it may not keep: data descriptors
    Missing,      \* no value
    MaxEpoch      \* bound: one more than the number of assignments

Classes == DOMAIN Bases
Values == Functions \cup Properties

(* What the module takes for granted of its constants; Runtime assumes it. *)
LookupConstants ==
    /\ Classes \subseteq Nat
    /\ \A c \in Classes : Bases[c] \in Seq({b \in Classes : b < c})
    /\ Loaded \subseteq Classes
    /\ Missing \notin Values
    /\ MaxEpoch \in Nat

VARIABLES
    dict,     \* the name's value in each class dict
    epoch,    \* classEpoch
    cache,    \* the name's entry in each class's MethodCache
    frames,   \* the classLookup frames of each thread, outermost first
    doing,    \* what a thread looks the name up for, and for which class
    own,      \* the classes whose instance has the name in its own dict
    inline,   \* AttrCache[startIP]
    codeMu    \* who holds Code.Mu across a lookup

vars == <<dict, epoch, cache, frames, doing, own, inline, codeMu>>

Nothing == [op |-> "nothing", cls |-> 0]
Free == "free"

Init ==
    /\ dict \in [Classes -> {Missing} \cup Functions]
    /\ epoch = 1
    /\ cache = [c \in Classes |-> [epoch |-> 0, val |-> Missing]]
    /\ frames = [t \in Lookers |-> <<>>]
    /\ doing = [t \in Lookers |-> Nothing]
    /\ own \in SUBSET Loaded
    /\ inline = [cls |-> 0, kind |-> "empty", val |-> Missing]
    /\ codeMu = Free

-----------------------------------------------------------------------------
(* classLookup *)

(* classLookup reads the epoch before anything else.                       *)
Enter(c) == [cls |-> c, epoch |-> epoch, at |-> "cache", next |-> 1, val |-> Missing]

Top(t) == Last(frames[t])
At(t, place) == frames[t] # <<>> /\ Top(t).at = place
Becomes(t, f) == frames' = [frames EXCEPT ![t] = Append(Front(@), f)]

(* v goes back to the caller: a class that has this one among its bases    *)
(* stops at the first base that has the name.                              *)
ReturnToClass(t, v) ==
    LET rest == Front(frames[t])
        f == Last(rest)
        g == IF v = Missing THEN [f EXCEPT !.next = @ + 1]
             ELSE [f EXCEPT !.val = v, !.at = "store"]
    IN  /\ Len(frames[t]) > 1
        /\ frames' = [frames EXCEPT ![t] = Append(Front(rest), g)]
        /\ UNCHANGED <<doing, inline, codeMu>>

(* LOAD_ATTR's first lookup, in getAttr: a property is called, nothing of  *)
(* the instance's and nothing of the class's is an AttributeError, and what*)
(* else there is is kept for the next time, once Code.Mu is free.          *)
ReturnToLoad(t, v) ==
    /\ Len(frames[t]) = 1 /\ doing[t].op = "load"
    /\ frames' = [frames EXCEPT ![t] = <<>>]
    /\ doing' = [doing EXCEPT ![t] =
                    IF v = Missing /\ doing[t].cls \notin own THEN Nothing
                    ELSE [@ EXCEPT !.op = "loaded"]]
    /\ UNCHANGED <<inline, codeMu>>

(* Its second lookup, which fills the inline cache under Code.Mu.          *)
ReturnToFill(t, v) ==
    /\ Len(frames[t]) = 1 /\ doing[t].op = "fill"
    /\ frames' = [frames EXCEPT ![t] = <<>>]
    /\ LET c == doing[t].cls IN
       inline' = IF v \in Properties \/ (v = Missing /\ c \notin own) THEN inline
                 ELSE IF c \in own THEN [inline EXCEPT !.cls = c, !.kind = "instance"]
                 ELSE [cls |-> c, kind |-> "class", val |-> v]
    /\ codeMu' = Free
    /\ doing' = [doing EXCEPT ![t] = Nothing]

Return(t, v) == ReturnToClass(t, v) \/ ReturnToLoad(t, v) \/ ReturnToFill(t, v)

(* Under Class.Mu: an entry of the epoch this frame has read is the answer.*)
LookInCache(t) ==
    /\ At(t, "cache")
    /\ LET f == Top(t)
           hit == cache[f.cls].epoch = f.epoch
       IN  \/ hit /\ Return(t, cache[f.cls].val)
           \/ ~hit /\ Becomes(t, [f EXCEPT !.at = "dict"]) /\ UNCHANGED <<doing, inline, codeMu>>
    /\ UNCHANGED <<dict, epoch, cache, own>>

(* classLookupSlow: the class's own dict ...                               *)
LookInDict(t) ==
    /\ At(t, "dict")
    /\ LET v == dict[Top(t).cls] IN
       Becomes(t, [Top(t) EXCEPT !.val = v, !.at = IF v = Missing THEN "base" ELSE "store"])
    /\ UNCHANGED <<dict, epoch, cache, own, doing, inline, codeMu>>

(* ... then its bases, in order, each by a classLookup of its own.         *)
LookInBase(t) ==
    /\ At(t, "base")
    /\ LET f == Top(t) IN
       IF f.next <= Len(Bases[f.cls])
       THEN frames' = [frames EXCEPT ![t] = Append(@, Enter(Bases[f.cls][f.next]))]
       ELSE Becomes(t, [f EXCEPT !.at = "store"])
    /\ UNCHANGED <<dict, epoch, cache, own, doing, inline, codeMu>>

\* Mutant of Store: the entry is stamped with the epoch of now.
StoreAsOfNow(t) ==
    /\ At(t, "store")
    /\ cache' = [cache EXCEPT ![Top(t).cls] = [epoch |-> epoch, val |-> Top(t).val]]
    /\ Return(t, Top(t).val)
    /\ UNCHANGED <<dict, epoch, own>>

(* Under Class.Mu again: keep the result, stamped with the epoch read first.*)
Store(t) ==
    /\ At(t, "store")
    /\ LET f == Top(t) IN
       /\ cache' = [cache EXCEPT ![f.cls] = [epoch |-> f.epoch, val |-> f.val]]
       /\ Return(t, f.val)
    /\ UNCHANGED <<dict, epoch, own>>

-----------------------------------------------------------------------------
(* LOAD_ATTR and assignment *)

Hit(c) == inline.cls = c /\ (inline.kind = "instance" => c \in own)

(* LOAD_ATTR on the instance of c.  A hit changes nothing and is left out. *)
Load(t, c) ==
    /\ doing[t] = Nothing /\ codeMu = Free
    /\ ~Hit(c)
    /\ doing' = [doing EXCEPT ![t] = [op |-> "load", cls |-> c]]
    /\ frames' = [frames EXCEPT ![t] = <<Enter(c)>>]
    /\ UNCHANGED <<dict, epoch, cache, own, inline, codeMu>>

Fill(t) ==
    /\ doing[t].op = "loaded" /\ codeMu = Free
    /\ codeMu' = t
    /\ doing' = [doing EXCEPT ![t].op = "fill"]
    /\ frames' = [frames EXCEPT ![t] = <<Enter(doing[t].cls)>>]
    /\ UNCHANGED <<dict, epoch, cache, own, inline>>

Assigning == {t \in Lookers : doing[t].op = "assign"}

(* setAttr on class c: the dict ...                                        *)
SetAttr(t, c, v) ==
    /\ doing[t] = Nothing
    /\ epoch + Cardinality(Assigning) < MaxEpoch
    /\ dict' = [dict EXCEPT ![c] = v]
    /\ doing' = [doing EXCEPT ![t] = [op |-> "assign", cls |-> c]]
    /\ UNCHANGED <<epoch, cache, frames, own, inline, codeMu>>

(* ... and then the epoch.                                                 *)
BumpClassEpoch(t) ==
    /\ t \in Assigning
    /\ epoch' = epoch + 1
    /\ doing' = [doing EXCEPT ![t] = Nothing]
    /\ UNCHANGED <<dict, cache, frames, own, inline, codeMu>>

Next ==
    \E t \in Lookers :
        \/ LookInCache(t) \/ LookInDict(t) \/ LookInBase(t) \/ Store(t)
        \/ \E c \in Loaded : Load(t, c)
        \/ Fill(t)
        \/ \E c \in Classes, v \in Values : SetAttr(t, c, v)
        \/ BumpClassEpoch(t)

Spec == Init /\ [][Next]_vars

-----------------------------------------------------------------------------

(* What a lookup finds when nothing moves: the class, then its bases, depth*)
(* first.                                                                  *)
Found[c \in Classes] ==
    IF dict[c] # Missing THEN dict[c]
    ELSE LET inBases == [n \in 1..Len(Bases[c]) |-> Found[Bases[c][n]]]
             n == SelectInSeq(inBases, LAMBDA v : v # Missing)
         IN  IF n = 0 THEN Missing ELSE inBases[n]

(* When no assignment is under way, every entry of the current epoch, in   *)
(* every class, is what a walk of the hierarchy would find now, whatever   *)
(* interleaving of lookups and assignments filled it.                      *)
CacheIsFresh ==
    Assigning = {} =>
        \A c \in Classes : cache[c].epoch = epoch => cache[c].val = Found[c]

(* object/object.go:536, "BumpClassEpoch invalidates every class method    *)
(* cache": after an assignment no cache answers with the value of before.  *)
InlineIsFresh ==
    Assigning = {} /\ inline.kind = "class" => inline.val = Found[inline.cls]
=============================================================================
