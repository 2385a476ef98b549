-------------------------------- MODULE LruCache --------------------------------
(***************************************************************************)
(* functools.lru_cache and cache (vm/stdlib_functools.go:713-778): a dict  *)
(* of results and, beside it, a slice of its keys, the one whose last use  *)
(* is longest ago first.  The function runs between the look into the dict *)
(* and the writing of both, and may call the wrapper again, with other     *)
(* arguments or the same, or clear the cache.                              *)
(*                                                                         *)
(* The slice is not guarded, so the calls are those of one goroutine.      *)
(***************************************************************************)
EXTENDS Naturals, Sequences, SequencesExt

CONSTANTS
    Keys,       \* the arguments, as buildCacheKey tells them apart
    MaxSizes,   \* sizes to choose from; 0 is no bound, as for maxsize=None
    MaxDepth    \* bound: how many calls of the function are nested

LruConstants == MaxSizes \subseteq Nat /\ MaxDepth \in Nat

VARIABLES
    bound,      \* maxsize
    cached,     \* the keys of the dict
    order,
    calls,      \* keys the function is being called with, innermost last
    used,       \* history: all keys, by their last use
    tangled     \* history: since the last cache_clear() a call has returned
                \* whose key a call inside of it had put into the cache

lruVars == <<bound, cached, order, calls, used, tangled>>

(* s with k at its end, and not where it was first.                        *)
MoveToEnd(s, k) == Append(IF Contains(s, k) THEN RemoveFirst(s, k) ELSE s, k)

-----------------------------------------------------------------------------

\* Mutant of Hit: a hit does not count as a use.
HitUnmoved(k) ==
    /\ k \in cached
    /\ used' = MoveToEnd(used, k)
    /\ UNCHANGED <<bound, cached, order, calls, tangled>>

Hit(k) ==
    /\ k \in cached
    /\ order' = MoveToEnd(order, k)
    /\ used' = MoveToEnd(used, k)
    /\ UNCHANGED <<bound, cached, calls, tangled>>

(* The function is called.                                                 *)
Miss(k) ==
    /\ k \notin cached
    /\ Len(calls) < MaxDepth
    /\ calls' = Append(calls, k)
    /\ UNCHANGED <<bound, cached, order, used, tangled>>

(* It returns; its result is stored, and the first key of the slice goes   *)
(* when there is one too many.                                             *)
Return ==
    /\ calls # <<>>
    /\ LET k == Last(calls)
           longer == Append(order, k)
           full == bound > 0 /\ Len(longer) > bound
       IN  /\ order' = IF full THEN Tail(longer) ELSE longer
           /\ cached' = (cached \cup {k}) \ (IF full THEN {Head(longer)} ELSE {})
           /\ used' = MoveToEnd(used, k)
           /\ tangled' = (tangled \/ k \in cached)
    /\ calls' = Front(calls)
    /\ UNCHANGED bound

(* It raises: nothing is stored.                                           *)
Raise ==
    /\ calls # <<>>
    /\ calls' = Front(calls)
    /\ UNCHANGED <<bound, cached, order, used, tangled>>

(* cache_clear, which calls that have not returned do not notice.          *)
Clear ==
    /\ cached' = {} /\ order' = <<>> /\ tangled' = FALSE
    /\ UNCHANGED <<bound, calls, used>>

-----------------------------------------------------------------------------

Init ==
    /\ bound \in MaxSizes
    /\ cached = {} /\ order = <<>> /\ calls = <<>> /\ used = <<>> /\ tangled = FALSE

Next ==
    \/ \E k \in Keys : Hit(k) \/ Miss(k)
    \/ Return \/ Raise \/ Clear

Spec == Init /\ [][Next]_lruVars

-----------------------------------------------------------------------------

(* The place of k among the keys by their last use.                        *)
LastUse(k) == CHOOSE n \in DOMAIN used : used[n] = k

(* The size is kept and whatever is cached can be evicted, however calls   *)
(* are nested; and as long as no call has computed what a call inside of   *)
(* it computed too, the slice is the cached keys, each once, by their last *)
(* use, so that the one to go next is the least recently used.             *)
LeastRecentGoes ==
    /\ bound > 0 => Len(order) <= bound
    /\ cached \subseteq ToSet(order)
    /\ ~tangled =>
          /\ ToSet(order) = cached
          /\ \A i, j \in DOMAIN order : i < j => LastUse(order[i]) < LastUse(order[j])
=============================================================================
