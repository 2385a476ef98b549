-------------------------------- MODULE ChCond --------------------------------
(***************************************************************************)
(* chCond, the condition variable with timed waits that backs Event,       *)
(* Semaphore, Condition and Barrier (vm/stdlib_threading.go:42-107), and   *)
(* the deadline bookkeeping its callers share.                             *)
(*                                                                         *)
(* Each Wait registers a fresh channel of capacity one; Notify pops        *)
(* channels in FIFO order and leaves a token in each.  Wait registers      *)
(* before it gives the outer mutex up.  When the timer wins the race       *)
(* against the token, Wait goes back for the inner mutex to take its       *)
(* channel off the queue, and Notify may come in between: `late' holds the *)
(* threads that are there.                                                 *)
(*                                                                         *)
(* A thread that Wait has let go of still has to take the outer mutex back *)
(* ("awake"), and others may overtake it there.                            *)
(***************************************************************************)
EXTENDS Integers, Sequences, SequencesExt, FiniteSets

CONSTANT Threads

VARIABLES
    waiters,    \* c.waiters: the threads whose channel Notify has not popped
    signalled,  \* the threads whose channel holds a token not yet received
    late,       \* the threads whose select has chosen the timer
    pc,         \* "idle", "asleep" inside Wait, "awake" wanting the outer mutex
    timed,      \* threads whose call has a deadline (a timeout of 0 or more)
    due         \* threads whose deadline has passed

waitVars == <<waiters, signalled, late>>
condVars == <<waiters, signalled, late, pc, timed, due>>

CondInit ==
    /\ waiters = <<>>
    /\ signalled = {}
    /\ late = {}
    /\ pc = [t \in Threads |-> "idle"]
    /\ timed = {}
    /\ due = {}

Waiting(t) == t \in ToSet(waiters)
PlaceOf(t) == CHOOSE j \in DOMAIN waiters : waiters[j] = t

(* A call ends, whatever it returns.                                       *)
Return(t) ==
    /\ pc' = [pc EXCEPT ![t] = "idle"]
    /\ timed' = timed \ {t}
    /\ due' = due \ {t}

(* The part of Wait up to its select.                                      *)
Sleep(t, hasDeadline) ==
    /\ waiters' = Append(waiters, t)
    /\ pc' = [pc EXCEPT ![t] = "asleep"]
    /\ timed' = IF hasDeadline THEN timed \cup {t} ELSE timed
    /\ UNCHANGED <<signalled, late, due>>

\* Mutants of NotifyCount: one too few; never more than one.
NotifyOneShort(n) == IF n <= 0 THEN Len(waiters) ELSE IF n <= Len(waiters) THEN n - 1
                     ELSE Len(waiters)
NotifyAtMostOne(n) == IF waiters = <<>> THEN 0 ELSE 1

(* n <= 0, or more than there are, means everyone.                         *)
NotifyCount(n) == IF n <= 0 \/ n > Len(waiters) THEN Len(waiters) ELSE n

(* Whose channels Notify takes off the queue: those that wait longest.     *)
Popped(n) == {waiters[j] : j \in 1..NotifyCount(n)}

\* Mutant of Notify: the channels have no room, and the token for a thread
\* that has left its select is dropped (the default of the select).
NotifyUnbuffered(n) ==
    /\ signalled' = signalled \cup (Popped(n) \ late)
    /\ waiters' = SubSeq(waiters, NotifyCount(n) + 1, Len(waiters))
    /\ UNCHANGED late

Notify(n) ==
    /\ signalled' = signalled \cup Popped(n)
    /\ waiters' = SubSeq(waiters, NotifyCount(n) + 1, Len(waiters))
    /\ UNCHANGED late

Broadcast == Notify(0)

(* case <-ch: the token arrives.                                           *)
Receive(t) ==
    /\ t \in signalled /\ t \notin late
    /\ signalled' = signalled \ {t}
    /\ pc' = [pc EXCEPT ![t] = "awake"]
    /\ UNCHANGED <<waiters, late, timed, due>>

(* case <-time.After(timeout): select may choose it with a token there too.*)
TimerWins(t) ==
    /\ pc[t] = "asleep" /\ t \in due /\ t \notin late
    /\ late' = late \cup {t}
    /\ UNCHANGED <<waiters, signalled, pc, timed, due>>

(* The channel leaves the queue, if Notify has not popped it, and a token  *)
(* that came meanwhile is drained.                                         *)
CleanUp(t) ==
    /\ t \in late
    /\ late' = late \ {t}
    /\ waiters' = IF Waiting(t) THEN RemoveAt(waiters, PlaceOf(t)) ELSE waiters
    /\ signalled' = signalled \ {t}
    /\ pc' = [pc EXCEPT ![t] = "awake"]
    /\ UNCHANGED <<timed, due>>

(* What Wait returns after the timer won: whether a token came after all.  *)
CleanUpAnswer(t) == t \in signalled

DeadlinePasses(t) ==
    /\ t \in timed /\ t \notin due
    /\ due' = due \cup {t}
    /\ UNCHANGED <<waiters, signalled, late, pc, timed>>

(* Nobody is queued twice, or queued and signalled, and a thread sleeps    *)
(* exactly while its channel is one of the two.                            *)
CondOK ==
    /\ waiters \in Seq(Threads)
    /\ signalled \in SUBSET Threads
    /\ late \in SUBSET Threads
    /\ pc \in [Threads -> {"idle", "asleep", "awake"}]
    /\ timed \in SUBSET Threads
    /\ due \in SUBSET timed
    /\ \A i, j \in 1..Len(waiters) : waiters[i] = waiters[j] => i = j
    /\ \A i \in 1..Len(waiters) : waiters[i] \notin signalled
    /\ \A t \in Threads : pc[t] = "asleep" <=> Waiting(t) \/ t \in signalled
    /\ \A t \in late : pc[t] = "asleep" /\ t \in due
    /\ \A t \in timed : pc[t] # "idle"
=============================================================================
