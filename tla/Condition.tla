------------------------------- MODULE Condition -------------------------------
(***************************************************************************)
(* threading.Condition (vm/stdlib_threading.go:662-768).  Its mutex is     *)
(* held across calls by the Python code, so the holder is part of the      *)
(* state; notify may be called without it, and the code does not check.    *)
(*                                                                         *)
(* What the mutex guards is one Boolean, the predicate callers hand to     *)
(* wait_for.  The callers modelled are the usual ones: whoever makes the   *)
(* predicate true holds the mutex and notifies everyone before releasing   *)
(* it.  wait and wait_for are called by the holder (Go aborts the process  *)
(* otherwise: unlock of unlocked mutex).                                   *)
(***************************************************************************)
EXTENDS ChCond

CONSTANTS
    NoThread,   \* nobody holds the mutex; not one of Threads
    Counts      \* the n that callers pass to notify, integers

VARIABLES
    holder,     \* who has locked mu
    wants,      \* threads blocked in acquire
    call,       \* the call that sleeps: "wait" or "wait_for"
    answer,     \* what Wait said last, which is what wait() returns
    picked,     \* history: whom a notify picked during its last Wait
    pred,       \* the predicate
    announced   \* client: the last change of pred to TRUE has been notified

vars == <<waiters, signalled, late, pc, timed, due,
          holder, wants, call, answer, picked, pred, announced>>

guarded == <<pred, announced>>
calls == <<wants, call, answer>>

-----------------------------------------------------------------------------

(* acquire and __enter__ block, whatever arguments acquire gets.           *)
Acquire(t) ==
    /\ pc[t] = "idle" /\ holder # t /\ t \notin wants
    /\ wants' = wants \cup {t}
    /\ UNCHANGED <<condVars, holder, call, answer, picked, guarded>>

Lock(t) ==
    /\ t \in wants /\ holder = NoThread
    /\ holder' = t
    /\ wants' = wants \ {t}
    /\ UNCHANGED <<condVars, call, answer, picked, guarded>>

Release(t) ==
    /\ holder = t /\ announced
    /\ holder' = NoThread
    /\ UNCHANGED <<condVars, calls, picked, guarded>>

(* The holder gives the mutex up and sleeps.                               *)
Block(t, c, hasDeadline) ==
    /\ Sleep(t, hasDeadline)
    /\ holder' = NoThread
    /\ call' = [call EXCEPT ![t] = c]
    /\ picked' = picked \ {t}
    /\ UNCHANGED <<wants, answer, guarded>>

(* wait(timeout): one Wait, no loop.                                       *)
WaitCall(t, hasDeadline) ==
    /\ holder = t /\ announced
    /\ Block(t, "wait", hasDeadline)

(* wait_for(predicate, timeout) that has to sleep; otherwise it returns, or*)
(* raises what the predicate raises, at once and changes nothing.          *)
WaitForCall(t, hasDeadline) ==
    /\ holder = t /\ announced
    /\ ~pred
    /\ Block(t, "wait_for", hasDeadline)

Wakes(t) ==
    /\ \/ Receive(t) /\ answer' = [answer EXCEPT ![t] = TRUE]
       \/ CleanUp(t) /\ answer' = [answer EXCEPT ![t] = CleanUpAnswer(t)]
    /\ UNCHANGED <<holder, wants, call, picked, guarded>>

Leave(t) ==
    /\ Return(t)
    /\ holder' = t
    /\ call' = [call EXCEPT ![t] = "none"]
    /\ UNCHANGED <<waitVars, wants, answer, picked, guarded>>

\* Mutant of Relock: wait sleeps again like wait_for.
RelockSleeps(t) ==
    /\ pc[t] = "awake" /\ holder = NoThread
    /\ \/ (call[t] = "wait_for" \/ pred \/ t \in due) /\ Leave(t)
       \/ ~pred /\ t \notin due /\ Block(t, call[t], t \in timed)

(* Wait takes the mutex back.  wait returns its answer; wait_for asks the  *)
(* predicate again and returns when it holds or the deadline is over, or   *)
(* whenever it raises, and else goes back to sleep without anybody having  *)
(* seen it hold the mutex.                                                 *)
Relock(t) ==
    /\ pc[t] = "awake" /\ holder = NoThread
    /\ \/ Leave(t)
       \/ /\ call[t] = "wait_for" /\ ~pred /\ t \notin due
          /\ Block(t, "wait_for", t \in timed)

(* notify(n), with or without the mutex.                                   *)
NotifyCall(t, n) ==
    /\ pc[t] = "idle" /\ t \notin wants
    /\ Notify(n)
    /\ picked' = picked \cup Popped(n)
    /\ UNCHANGED <<pc, timed, due, holder, calls, guarded>>

(* notify_all                                                              *)
NotifyAllCall(t) ==
    /\ pc[t] = "idle" /\ t \notin wants
    /\ Broadcast
    /\ picked' = picked \cup Popped(0)
    /\ announced' = IF holder = t THEN TRUE ELSE announced
    /\ UNCHANGED <<pc, timed, due, holder, calls, pred>>

(* Client: the holder changes what the mutex guards.                       *)
Change(t) ==
    /\ holder = t
    /\ pred' = ~pred
    /\ announced' = pred
    /\ UNCHANGED <<condVars, holder, calls, picked>>

Clock(t) ==
    /\ DeadlinePasses(t) \/ TimerWins(t)
    /\ UNCHANGED <<holder, calls, picked, guarded>>

-----------------------------------------------------------------------------

Init ==
    /\ CondInit
    /\ holder = NoThread
    /\ wants = {}
    /\ call = [t \in Threads |-> "none"]
    /\ answer = [t \in Threads |-> FALSE]
    /\ picked = {}
    /\ pred = FALSE
    /\ announced = TRUE

Next ==
    \E t \in Threads :
        \/ Acquire(t) \/ Lock(t) \/ Release(t)
        \/ \E hasDeadline \in BOOLEAN :
              WaitCall(t, hasDeadline) \/ WaitForCall(t, hasDeadline)
        \/ Wakes(t) \/ Relock(t)
        \/ \E n \in Counts : NotifyCall(t, n)
        \/ NotifyAllCall(t)
        \/ Change(t)
        \/ Clock(t)

Spec == Init /\ [][Next]_vars

-----------------------------------------------------------------------------

(* The values of the variables, and a thread in a call neither holds the   *)
(* mutex nor queues for it through acquire.                                *)
TypeOK ==
    /\ CondOK
    /\ holder \in Threads \cup {NoThread}
    /\ wants \in SUBSET Threads
    /\ call \in [Threads -> {"none", "wait", "wait_for"}]
    /\ answer \in [Threads -> BOOLEAN]
    /\ picked \in SUBSET Threads
    /\ pred \in BOOLEAN /\ announced \in BOOLEAN
    /\ \A t \in Threads : pc[t] # "idle" => holder # t /\ t \notin wants
    /\ \A t \in Threads : pc[t] # "idle" <=> call[t] # "none"

(* wait returns True to every thread that a notify picked while it was in  *)
(* Wait and to no other ("returns True if notified, False on timeout"),    *)
(* through the race of the token with the timer, the wait for the mutex    *)
(* and until it calls again; and nobody is told False before its deadline. *)
WaitTellsTruth ==
    \A t \in Threads :
        /\ pc[t] # "asleep" => (answer[t] <=> t \in picked)
        /\ pc[t] = "awake" /\ ~answer[t] => t \in due

(* No change is missed: once a change that made the predicate true has been*)
(* announced, no thread sleeps in wait_for, because it looked under the    *)
(* mutex and was queued before it gave the mutex up.                       *)
NoMissedChange ==
    pred /\ announced => \A t \in ToSet(waiters) : call[t] # "wait_for"

(* As long as holders keep releasing, a wait that was notified or has timed*)
(* out returns.                                                            *)
WakersReturn ==
    ([]<>(holder = NoThread)) =>
        \A t \in Threads :
            (call[t] = "wait" /\ (t \in signalled \/ t \in timed)) ~> (pc[t] = "idle")

(* wait_for with a deadline does not outlive it.                           *)
TimedWaitForEnds ==
    ([]<>(holder = NoThread)) =>
        \A t \in Threads : (t \in timed) ~> (pc[t] = "idle")
=============================================================================
