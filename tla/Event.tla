--------------------------------- MODULE Event ---------------------------------
(***************************************************************************)
(* threading.Event (vm/stdlib_threading.go:500-566): a flag under a mutex, *)
(* with a chCond for the threads that find it false.  A stretch of code    *)
(* that holds the mutex is one action; is_set changes nothing.             *)
(***************************************************************************)
EXTENDS ChCond

VARIABLE flag

vars == <<flag, waiters, signalled, late, pc, timed, due>>

-----------------------------------------------------------------------------

Leave(t) == Return(t) /\ UNCHANGED <<flag, waitVars>>

(* wait(timeout) that has to sleep.  With the flag set, or with a deadline *)
(* that passes before it can sleep, it returns and changes nothing.        *)
WaitCall(t, hasDeadline) ==
    /\ pc[t] = "idle" /\ ~flag
    /\ Sleep(t, hasDeadline)
    /\ UNCHANGED flag

WaitResume(t) ==
    /\ pc[t] = "awake"
    /\ \/ (flag \/ t \in due) /\ Leave(t)
       \/ ~flag /\ t \notin due /\ Sleep(t, t \in timed) /\ UNCHANGED flag

\* Mutant of Set: nobody is told.
SetSilent(t) ==
    /\ pc[t] = "idle"
    /\ flag' = TRUE
    /\ UNCHANGED condVars

Set(t) ==
    /\ pc[t] = "idle"
    /\ flag' = TRUE
    /\ Broadcast
    /\ UNCHANGED <<pc, timed, due>>

Clear(t) ==
    /\ pc[t] = "idle"
    /\ flag' = FALSE
    /\ UNCHANGED condVars

Wakes(t) == (Receive(t) \/ CleanUp(t)) /\ UNCHANGED flag

Clock(t) == (DeadlinePasses(t) \/ TimerWins(t)) /\ UNCHANGED flag

-----------------------------------------------------------------------------

Init == CondInit /\ flag = FALSE

Next ==
    \E t \in Threads :
        \/ \E hasDeadline \in BOOLEAN : WaitCall(t, hasDeadline)
        \/ WaitResume(t)
        \/ Set(t)
        \/ Clear(t)
        \/ Wakes(t)
        \/ Clock(t)

Spec == Init /\ [][Next]_vars

-----------------------------------------------------------------------------

(* The values of the variables.                                            *)
TypeOK == CondOK /\ flag \in BOOLEAN

(* A flag that stays up releases everyone.                                 *)
SetReleasesAll == \A t \in Threads : <>[]flag => []<>(pc[t] = "idle")
=============================================================================
