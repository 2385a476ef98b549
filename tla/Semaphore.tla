------------------------------- MODULE Semaphore -------------------------------
(***************************************************************************)
(* threading.Semaphore and threading.BoundedSemaphore                      *)
(* (vm/stdlib_threading.go:569-658): a count under a mutex, with a chCond  *)
(* for the threads that find it at zero.  A stretch of code that holds the *)
(* mutex is one action.                                                    *)
(*                                                                         *)
(* Callers may not pass a negative n to release, which the code does not   *)
(* refuse: Releases is a subset of Nat, and so is Values.                  *)
(***************************************************************************)
EXTENDS ChCond

CONSTANTS
    Values,     \* the initial counts
    Releases,   \* the n that callers pass to release
    MaxCount    \* bound of the model on the count

VARIABLES
    count,
    maxVal      \* the bound of a BoundedSemaphore; -1 in a Semaphore

vars == <<count, maxVal, waiters, signalled, late, pc, timed, due>>

semaphore == <<count, maxVal>>

-----------------------------------------------------------------------------

Take(t) == count' = count - 1 /\ Return(t) /\ UNCHANGED <<maxVal, waitVars>>

Refuse(t) == Return(t) /\ UNCHANGED <<semaphore, waitVars>>

(* acquire(blocking, timeout); __enter__ is acquire(True, None).           *)
Acquire(t, blocking, hasDeadline) ==
    /\ pc[t] = "idle"
    /\ \/ count > 0 /\ Take(t)
       \/ count <= 0 /\ (~blocking \/ hasDeadline) /\ Refuse(t)
       \/ count <= 0 /\ blocking /\ Sleep(t, hasDeadline) /\ UNCHANGED semaphore

\* Mutant of AcquireResume: the clock is not looked at.
AcquireResumeForever(t) ==
    /\ pc[t] = "awake"
    /\ \/ count > 0 /\ Take(t)
       \/ count <= 0 /\ Sleep(t, t \in timed) /\ UNCHANGED semaphore

AcquireResume(t) ==
    /\ pc[t] = "awake"
    /\ \/ count > 0 /\ Take(t)
       \/ count <= 0 /\ t \in due /\ Refuse(t)
       \/ count <= 0 /\ t \notin due /\ Sleep(t, t \in timed) /\ UNCHANGED semaphore

(* Past the bound release(n) raises ValueError and changes nothing.        *)
Release(t, n) ==
    /\ pc[t] = "idle"
    /\ count + n <= IF maxVal >= 0 THEN maxVal ELSE MaxCount
    /\ count' = count + n
    /\ Notify(n)
    /\ UNCHANGED <<maxVal, pc, timed, due>>

(* __exit__ has no bound check.                                            *)
Exit(t) ==
    /\ pc[t] = "idle"
    /\ count < MaxCount
    /\ count' = count + 1
    /\ Notify(1)
    /\ UNCHANGED <<maxVal, pc, timed, due>>

Wakes(t) == (Receive(t) \/ CleanUp(t)) /\ UNCHANGED semaphore

Clock(t) == (DeadlinePasses(t) \/ TimerWins(t)) /\ UNCHANGED semaphore

-----------------------------------------------------------------------------

(* Semaphore(value) is makeSemaphore(value, -1), BoundedSemaphore(value) is*)
(* makeSemaphore(value, value).                                            *)
Init == CondInit /\ count \in Values /\ maxVal \in {-1, count}

Next ==
    \E t \in Threads :
        \/ \E blocking, hasDeadline \in BOOLEAN : Acquire(t, blocking, hasDeadline)
        \/ AcquireResume(t)
        \/ \E n \in Releases : Release(t, n)
        \/ Exit(t)
        \/ Wakes(t)
        \/ Clock(t)

Spec == Init /\ [][Next]_vars

-----------------------------------------------------------------------------

(* The count and chCond's queues are well formed.                          *)
TypeOK == CondOK /\ count \in Int /\ maxVal \in Values \cup {-1}

(* No permit is handed out twice, also when an overtaker took the one that *)
(* a thread was woken for, and none is lost, not even one whose wake-up    *)
(* went to a thread whose timer had gone off: while threads are queued,    *)
(* every permit on the count has a thread on its way to it.                *)
OnTheWay == signalled \cup {t \in Threads : pc[t] = "awake"}
PermitsAreExact ==
    /\ count >= 0
    /\ waiters # <<>> => count <= Cardinality(OnTheWay)

(* A blocked acquire gets a permit or somebody else takes the last one.    *)
PermitsAreTaken ==
    \A t \in Threads : (pc[t] # "idle" /\ count > 0) ~> (pc[t] = "idle" \/ count = 0)

(* A BoundedSemaphore's count stays within its bound: over-release raises. *)
BoundHolds == maxVal >= 0 => count <= maxVal
=============================================================================
