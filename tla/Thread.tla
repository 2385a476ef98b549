--------------------------------- MODULE Thread ---------------------------------
(***************************************************************************)
(* The life of a threading.Thread (vm/stdlib_threading.go:300-358) or a    *)
(* multiprocessing.Process (vm/stdlib_multiprocessing.go:271-372), which   *)
(* is a goroutine too: start by one of several threads, the goroutine that *)
(* runs the target, and join.  Each atomic variable, sync.Map and          *)
(* WaitGroup operation is a step of its own, for nothing locks them        *)
(* together.  A goroutine has the name of the thread that spawned it.      *)
(*                                                                         *)
(* A Thread's start is decided by a compare-and-swap; a Process's looks at *)
(* alive and sets it later, so that two starts at once would both spawn;   *)
(* callers do not start a Process from two threads at once.                *)
(***************************************************************************)
EXTENDS Integers, FiniteSets

CONSTANT Threads

VARIABLES
    process,    \* the object is a Process
    started,    \* the Thread's started flag
    alive,      \* 0 not started, 1 running, 2 done
    counted,    \* threadAlive, mpAlive
    wg,         \* the counter of the WaitGroup
    listed,     \* the goroutines in currentThreads, mpCurrentProcesses
    body,       \* where each goroutine is
    returned,   \* history: a start has returned
    after,      \* history: the joins called since then
    joined,     \* history: one of them has returned, not by its timeout
    pc,         \* where each caller is
    timed, due  \* joins with a timeout, and those it has passed for

thread == <<process, started, alive, counted, wg, listed, body>>
history == <<returned, after, joined>>
vars == <<thread, history, pc, timed, due>>

At(t, place) == pc' = [pc EXCEPT ![t] = place]

-----------------------------------------------------------------------------
(* start                                                                   *)

(* A start that is refused raises an error and changes nothing.            *)
StartCall(t) ==
    /\ pc[t] = "idle"
    /\ \/ ~process /\ ~started /\ started' = TRUE
       \/ /\ process /\ alive = 0 /\ UNCHANGED started
          /\ \A s \in Threads : pc[s] \in {"idle", "joining"}
    /\ At(t, "chosen")
    /\ UNCHANGED <<process, alive, counted, wg, listed, body, history, timed, due>>

Mark(t) ==
    /\ pc[t] = "chosen"
    /\ alive' = 1 /\ At(t, "marked")
    /\ UNCHANGED <<process, started, counted, wg, listed, body, history, timed, due>>

CountUp(t) ==
    /\ pc[t] = "marked"
    /\ counted' = counted + 1 /\ At(t, "counted")
    /\ UNCHANGED <<process, started, alive, wg, listed, body, history, timed, due>>

\* Mutant of WgAdd: it is left to the goroutine.
WgAddLater(t) ==
    /\ pc[t] = "counted"
    /\ At(t, "added")
    /\ UNCHANGED <<process, started, alive, counted, wg, listed, body, history, timed, due>>

WgAdd(t) ==
    /\ pc[t] = "counted"
    /\ wg' = wg + 1 /\ At(t, "added")
    /\ UNCHANGED <<process, started, alive, counted, listed, body, history, timed, due>>

Spawn(t) ==
    /\ pc[t] = "added"
    /\ body' = [body EXCEPT ![t] = "begun"]
    /\ returned' = TRUE
    /\ At(t, "idle")
    /\ UNCHANGED <<process, started, alive, counted, wg, listed, after, joined, timed, due>>

Starts(t) == Mark(t) \/ CountUp(t) \/ WgAdd(t) \/ Spawn(t)

-----------------------------------------------------------------------------
(* The goroutine                                                           *)

Become(b, place) == body' = [body EXCEPT ![b] = place]

Enlist(b) ==
    /\ body[b] = "begun" /\ Become(b, "running")
    /\ listed' = listed \cup {b}
    /\ UNCHANGED <<process, started, alive, counted, wg>>

(* The target returns or raises; it may also run for ever.                 *)
TargetEnds(b) ==
    /\ body[b] = "running" /\ Become(b, "ended")
    /\ UNCHANGED <<process, started, alive, counted, wg, listed>>

Delist(b) ==
    /\ body[b] = "ended" /\ Become(b, "delisted")
    /\ listed' = listed \ {b}
    /\ UNCHANGED <<process, started, alive, counted, wg>>

MarkDone(b) ==
    /\ body[b] = "delisted" /\ Become(b, "dead")
    /\ alive' = 2
    /\ UNCHANGED <<process, started, counted, wg, listed>>

CountDown(b) ==
    /\ body[b] = "dead" /\ Become(b, "uncounted")
    /\ counted' = counted - 1
    /\ UNCHANGED <<process, started, alive, wg, listed>>

WgDone(b) ==
    /\ body[b] = "uncounted" /\ Become(b, "gone")
    /\ wg' = wg - 1
    /\ UNCHANGED <<process, started, alive, counted, listed>>

Winds(b) ==
    /\ Enlist(b) \/ Delist(b) \/ MarkDone(b) \/ CountDown(b) \/ WgDone(b)
    /\ UNCHANGED <<history, pc, timed, due>>

-----------------------------------------------------------------------------
(* join                                                                    *)

(* A Process's join has a timeout, and a goroutine that waits for it.      *)
JoinCall(t, hasDeadline) ==
    /\ pc[t] = "idle" /\ (hasDeadline => process)
    /\ At(t, "joining")
    /\ after' = IF returned THEN after \cup {t} ELSE after
    /\ timed' = IF hasDeadline THEN timed \cup {t} ELSE timed
    /\ UNCHANGED <<thread, returned, joined, due>>

JoinLeave(t) ==
    /\ pc[t] = "joining" /\ At(t, "idle")
    /\ after' = after \ {t} /\ timed' = timed \ {t} /\ due' = due \ {t}
    /\ UNCHANGED <<thread, returned>>

JoinReturns(t) ==
    \/ wg = 0 /\ JoinLeave(t) /\ joined' = (joined \/ t \in after)
    \/ t \in due /\ JoinLeave(t) /\ UNCHANGED joined

DeadlinePasses(t) ==
    /\ t \in timed \ due
    /\ due' = due \cup {t}
    /\ UNCHANGED <<thread, history, pc, timed>>

-----------------------------------------------------------------------------

Init ==
    /\ process \in BOOLEAN
    /\ started = FALSE /\ alive = 0 /\ counted = 0 /\ wg = 0
    /\ listed = {} /\ body = [t \in Threads |-> "none"]
    /\ returned = FALSE /\ after = {} /\ joined = FALSE
    /\ pc = [t \in Threads |-> "idle"]
    /\ timed = {} /\ due = {}

(* What goroutines do next when nothing keeps them from going on.          *)
Runs(t) == Starts(t) \/ Winds(t) \/ JoinReturns(t)

Next ==
    \E t \in Threads :
        \/ StartCall(t)
        \/ TargetEnds(t) /\ UNCHANGED <<history, pc, timed, due>>
        \/ \E hasDeadline \in BOOLEAN : JoinCall(t, hasDeadline)
        \/ DeadlinePasses(t)
        \/ Runs(t)

Spec == Init /\ [][Next]_vars

-----------------------------------------------------------------------------

Bodies == {b \in Threads : body[b] # "none"}

(* The values of the variables.                                            *)
TypeOK ==
    /\ process \in BOOLEAN /\ started \in BOOLEAN
    /\ alive \in 0..2 /\ counted \in Int /\ wg \in Int
    /\ listed \in SUBSET Threads
    /\ body \in [Threads -> {"none", "begun", "running", "ended", "delisted", "dead",
                             "uncounted", "gone"}]
    /\ returned \in BOOLEAN /\ joined \in BOOLEAN /\ after \in SUBSET Threads
    /\ pc \in [Threads -> {"idle", "chosen", "marked", "counted", "added", "joining"}]
    /\ timed \in SUBSET Threads /\ due \in SUBSET timed

(* What others see of a thread is true where they rely on it: while its    *)
(* target runs it is alive, counted by active_count and found by           *)
(* current_thread; and once a join that was called after start returned has*)
(* come back without its timeout, it is over in every respect.             *)
LifeIsSeen ==
    /\ \A b \in Threads : body[b] = "running" => alive = 1 /\ counted = 1 /\ b \in listed
    /\ joined => /\ \A b \in Bodies : body[b] = "gone"
                 /\ alive = 2 /\ counted = 0 /\ listed = {}
=============================================================================
