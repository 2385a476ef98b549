--------------------------------- MODULE RLock ---------------------------------
(***************************************************************************)
(* threading.RLock (vm/stdlib_threading.go:414-496): an owner and a depth  *)
(* under a mutex, with a sync.Cond for the threads that find it owned.  A  *)
(* stretch of code that holds the mutex is one action.  sync.Cond promises *)
(* no wake-up order.                                                       *)
(***************************************************************************)
EXTENDS Integers, FiniteSets

CONSTANTS
    Threads,    \* the goroutines
    NoThread,   \* owner 0
    MaxDepth    \* bound of the model on the depth

ASSUME NoThreadAssumption == NoThread \notin Threads
ASSUME DepthAssumption == MaxDepth \in Nat \ {0}

VARIABLES
    owner,      \* s.owner
    depth,      \* s.depth
    parked,     \* threads in the wait list of s.cond
    woken,      \* threads out of it, that want the mutex back
    held        \* history: acquires that returned True less releases, by thread

vars == <<owner, depth, parked, woken, held>>

Idle(t) == t \notin parked /\ t \notin woken

-----------------------------------------------------------------------------

(* The lock is free: take it.                                              *)
Grab(t) ==
    /\ owner' = t
    /\ depth' = 1
    /\ held' = [held EXCEPT ![t] = @ + 1]

(* acquire(blocking); without blocking it gives up at once and changes     *)
(* nothing.  __enter__ is acquire(True).                                   *)
Acquire(t, blocking) ==
    /\ Idle(t)
    /\ \/ /\ owner = t /\ depth < MaxDepth
          /\ depth' = depth + 1
          /\ held' = [held EXCEPT ![t] = @ + 1]
          /\ UNCHANGED <<owner, parked, woken>>
       \/ /\ owner = NoThread /\ Grab(t) /\ UNCHANGED <<parked, woken>>
       \/ /\ owner \notin {t, NoThread} /\ blocking
          /\ parked' = parked \cup {t}
          /\ UNCHANGED <<owner, depth, woken, held>>

(* s.cond.Wait returned and the mutex is back.                             *)
AcquireResume(t) ==
    /\ t \in woken
    /\ woken' = woken \ {t}
    /\ \/ owner = NoThread /\ Grab(t) /\ UNCHANGED parked
       \/ /\ owner # NoThread
          /\ parked' = parked \cup {t}
          /\ UNCHANGED <<owner, depth, held>>

\* Mutants of Signal: the call is forgotten.
SignalForgotten == UNCHANGED <<parked, woken>>

(* s.cond.Signal()                                                         *)
Signal ==
    \/ parked = {} /\ UNCHANGED <<parked, woken>>
    \/ \E t \in parked : parked' = parked \ {t} /\ woken' = woken \cup {t}

\* Mutant of Release: one release undoes every acquire.
ReleaseAll(t) ==
    /\ Idle(t) /\ owner = t
    /\ held' = [held EXCEPT ![t] = @ - 1]
    /\ depth' = 0 /\ owner' = NoThread /\ Signal

(* release, __exit__; by anyone but the owner it is ignored.               *)
Release(t) ==
    /\ Idle(t) /\ owner = t
    /\ held' = [held EXCEPT ![t] = @ - 1]
    /\ depth' = depth - 1
    /\ \/ depth = 1 /\ owner' = NoThread /\ Signal
       \/ depth # 1 /\ UNCHANGED <<owner, parked, woken>>

-----------------------------------------------------------------------------

Init ==
    /\ owner = NoThread
    /\ depth = 0
    /\ parked = {}
    /\ woken = {}
    /\ held = [t \in Threads |-> 0]

Next ==
    \E t \in Threads :
        \/ \E blocking \in BOOLEAN : Acquire(t, blocking)
        \/ AcquireResume(t)
        \/ Release(t)

Spec == Init /\ [][Next]_vars

-----------------------------------------------------------------------------

(* The values of the variables.                                            *)
TypeOK ==
    /\ owner \in Threads \cup {NoThread}
    /\ depth \in 0..MaxDepth
    /\ parked \in SUBSET Threads
    /\ woken \in SUBSET Threads
    /\ parked \cap woken = {}
    /\ held \in [Threads -> Nat]

(* Mutual exclusion: at most one thread has acquired more often than it has*)
(* released.                                                               *)
MutualExclusion ==
    \A s, t \in Threads : held[s] > 0 /\ held[t] > 0 => s = t

(* Re-entrancy is counted exactly: the lock is held by its owner, depth    *)
(* times over, and by nobody else.                                         *)
DepthIsExact ==
    /\ \A t \in Threads : held[t] = IF owner = t THEN depth ELSE 0
    /\ owner = NoThread <=> depth = 0

(* No release is lost: when the lock is free and threads are parked, one   *)
(* that was let go of is on its way.                                       *)
NoLostRelease == owner = NoThread /\ parked # {} => woken # {}
=============================================================================
