---------------------------------- MODULE Lock ----------------------------------
(***************************************************************************)
(* threading.Lock (vm/stdlib_threading.go:360-412), which multiprocessing  *)
(* uses too, and the _thread lock (vm/stdlib_thread.go:114-204): a         *)
(* sync.Mutex and, beside it, an atomic flag for locked().  Nothing keeps  *)
(* the two together: each is written by a step of its own.                 *)
(*                                                                         *)
(* Any thread may release a lock that an acquire has returned with; to     *)
(* release one that is free, or to do so twice, aborts the process (Go:    *)
(* unlock of unlocked mutex) and callers do not.                           *)
(***************************************************************************)
EXTENDS FiniteSets

CONSTANT Threads

VARIABLES
    taken,      \* mu is locked
    isLocked,   \* the flag that locked() reads
    pc,         \* "idle", "locking" in mu.Lock, "polling" in the timed loop,
                \* "took" between mutex and flag, "freeing" between flag and mutex
    timed,      \* threads in the timed loop
    due         \* those whose deadline has passed

lock == <<taken, isLocked>>

vars == <<taken, isLocked, pc, timed, due>>

At(t, place) == pc' = [pc EXCEPT ![t] = place]

-----------------------------------------------------------------------------

(* mu.Lock or mu.TryLock succeeds.                                         *)
Take(t) ==
    /\ ~taken
    /\ taken' = TRUE
    /\ At(t, "took")
    /\ timed' = timed \ {t} /\ due' = due \ {t}
    /\ UNCHANGED isLocked

(* acquire(blocking, timeout), __enter__.  Without blocking a lock that is *)
(* taken is refused at once, which changes nothing.  Only _thread's lock   *)
(* has a timeout.                                                          *)
Acquire(t, hasDeadline) ==
    /\ pc[t] = "idle"
    /\ \/ ~hasDeadline /\ Take(t)
       \/ /\ ~hasDeadline /\ taken
          /\ At(t, "locking")
          /\ UNCHANGED <<lock, timed, due>>
       \/ /\ hasDeadline
          /\ At(t, "polling")
          /\ timed' = timed \cup {t}
          /\ UNCHANGED <<lock, due>>

Locks(t) == pc[t] = "locking" /\ Take(t)

\* Mutant of Poll: the loop does not look at the clock.
PollForever(t) == pc[t] = "polling" /\ Take(t)

(* One turn of the timed loop: TryLock, then the clock.                    *)
Poll(t) ==
    /\ pc[t] = "polling"
    /\ \/ Take(t)
       \/ /\ taken /\ t \in due
          /\ At(t, "idle")
          /\ timed' = timed \ {t} /\ due' = due \ {t}
          /\ UNCHANGED lock

DeadlinePasses(t) ==
    /\ t \in timed \ due
    /\ due' = due \cup {t}
    /\ UNCHANGED <<lock, pc, timed>>

(* atomic.StoreInt32(&isLocked, 1), and acquire returns True.              *)
Raise(t) ==
    /\ pc[t] = "took"
    /\ isLocked' = TRUE
    /\ At(t, "idle")
    /\ UNCHANGED <<taken, timed, due>>

(* An acquire has returned with the lock and nobody is releasing it.       *)
Releasable == taken /\ \A t \in Threads : pc[t] \notin {"took", "freeing"}

\* Mutant of Release: first the mutex, then the flag.
ReleaseMutexFirst(t) ==
    /\ pc[t] = "idle" /\ Releasable
    /\ taken' = FALSE
    /\ At(t, "freeing")
    /\ UNCHANGED <<isLocked, timed, due>>

(* release, __exit__: the flag, then the mutex.                            *)
Release(t) ==
    /\ pc[t] = "idle" /\ Releasable
    /\ isLocked' = FALSE
    /\ At(t, "freeing")
    /\ UNCHANGED <<taken, timed, due>>

Unlock(t) ==
    /\ pc[t] = "freeing"
    /\ taken' = FALSE
    /\ At(t, "idle")
    /\ UNCHANGED <<isLocked, timed, due>>

-----------------------------------------------------------------------------

Init ==
    /\ taken = FALSE /\ isLocked = FALSE
    /\ pc = [t \in Threads |-> "idle"]
    /\ timed = {} /\ due = {}

(* What a thread in a call does next when nothing keeps it from going on.  *)
Runs(t) == Poll(t) \/ Raise(t) \/ Unlock(t)

Next ==
    \E t \in Threads :
        \/ \E hasDeadline \in BOOLEAN : Acquire(t, hasDeadline)
        \/ Locks(t)
        \/ Runs(t)
        \/ DeadlinePasses(t)
        \/ Release(t)

Spec == Init /\ [][Next]_vars

-----------------------------------------------------------------------------

(* The values of the variables.                                            *)
TypeOK ==
    /\ taken \in BOOLEAN /\ isLocked \in BOOLEAN
    /\ pc \in [Threads -> {"idle", "locking", "polling", "took", "freeing"}]
    /\ timed \in SUBSET Threads /\ due \in SUBSET timed

(* locked() never says True of a free lock, so that whoever polls it until *)
(* it is False does not wait for nobody; it says False of a taken one only *)
(* while the thread that took it, or that frees it, is between its two     *)
(* steps; and there is at most one such thread.                            *)
Between == {t \in Threads : pc[t] \in {"took", "freeing"}}
LockedTellsTruth ==
    /\ isLocked => taken
    /\ taken /\ ~isLocked => Cardinality(Between) = 1
    /\ Between # {} => taken /\ ~isLocked
=============================================================================
