------------------------------- MODULE Scheduler -------------------------------
(***************************************************************************)
(* sched.scheduler (vm/stdlib_sched.go): a heap of events by time,         *)
(* priority and order of entry, which several goroutines may enter into,   *)
(* cancel from and run at the same time.  run() looks at the head under    *)
(* the mutex, lets it go to read the clock and to sleep, and takes the     *)
(* event only if it is still the head.                                     *)
(*                                                                         *)
(* The heap is the set of its events, since Less is a total order.         *)
(* tokenMap is left out: it only leads from a token to its event, and      *)
(* remove() then looks whether the event is in the heap.  An action that   *)
(* calls run() again is one more runner.                                   *)
(***************************************************************************)
EXTENDS Naturals, Sequences, FiniteSets

CONSTANTS
    Runners,        \* whoever calls run()
    MaxTime,        \* bound: the times are 0..MaxTime
    Priorities,
    MaxEvents       \* bound: how many events are entered

SchedulerConstants ==
    MaxTime \in Nat /\ Priorities \subseteq Nat /\ MaxEvents \in Nat

VARIABLES
    now,        \* what timefunc reads
    entered,    \* the events, in the order of entry
    heap,       \* ss.h
    place,      \* where each runner is in run(); "idle" outside of it
    blocking,   \* the runners whose run() blocks
    held,       \* ev, the event each runner has looked at
    starts,     \* how often each event's action was called
    cancelled,  \* history: events that cancel() took out
    failed      \* history: events taken out by a run() that then failed

schedulerVars ==
    <<now, entered, heap, place, blocking, held, starts, cancelled, failed>>

Events == DOMAIN entered

Before(d, e) ==
    \/ entered[d].time < entered[e].time
    \/ /\ entered[d].time = entered[e].time
       /\ \/ entered[d].priority < entered[e].priority
          \/ entered[d].priority = entered[e].priority /\ d < e

IsHead(e) == e \in heap /\ \A d \in heap \ {e} : Before(e, d)

(* The runner goes on at p with its event, or looks again or returns.      *)
At(r, p) == place' = [place EXCEPT ![r] = p] /\ UNCHANGED held
Back(r, p) == place' = [place EXCEPT ![r] = p] /\ held' = [held EXCEPT ![r] = 0]

-----------------------------------------------------------------------------

(* enterabs; enter reads the clock and adds its delay before it does this. *)
Enter(time, priority) ==
    /\ Len(entered) < MaxEvents
    /\ entered' = Append(entered, [time |-> time, priority |-> priority])
    /\ heap' = heap \cup {Len(entered) + 1}
    /\ starts' = Append(starts, 0)
    /\ UNCHANGED <<now, place, blocking, held, cancelled, failed>>

(* An event that is not in the heap is a ValueError and changes nothing.   *)
Cancel(e) ==
    /\ e \in heap
    /\ heap' = heap \ {e}
    /\ cancelled' = cancelled \cup {e}
    /\ UNCHANGED <<now, entered, place, blocking, held, starts, failed>>

Tick ==
    /\ now < MaxTime
    /\ now' = now + 1
    /\ UNCHANGED <<entered, heap, place, blocking, held, starts, cancelled, failed>>

Run(r, blocks) ==
    /\ place[r] = "idle"
    /\ Back(r, "looking")
    /\ blocking' = IF blocks THEN blocking \cup {r} ELSE blocking \ {r}
    /\ UNCHANGED <<now, entered, heap, starts, cancelled, failed>>

Look(r) ==
    /\ place[r] = "looking"
    /\ \/ heap = {} /\ Back(r, "idle")
       \/ \E e \in heap :
             /\ IsHead(e)
             /\ held' = [held EXCEPT ![r] = e]
             /\ place' = [place EXCEPT ![r] = "timing"]
    /\ UNCHANGED <<now, entered, heap, blocking, starts, cancelled, failed>>

(* Reads the clock: the event is due, or run() sleeps or returns its time. *)
Judge(r) ==
    /\ place[r] = "timing"
    /\ \/ entered[held[r]].time <= now /\ At(r, "taking")
       \/ entered[held[r]].time > now /\ r \in blocking /\ At(r, "sleeping")
       \/ entered[held[r]].time > now /\ r \notin blocking /\ Back(r, "idle")
    /\ UNCHANGED <<now, entered, heap, blocking, starts, cancelled, failed>>

(* delayfunc returns; one of the caller's own may return at any time.      *)
Wake(r) ==
    /\ place[r] = "sleeping"
    /\ Back(r, "looking")
    /\ UNCHANGED <<now, entered, heap, blocking, starts, cancelled, failed>>

\* Mutant of Pop: the head is taken, whichever it is now.
PopHead(r) ==
    /\ place[r] = "taking"
    /\ heap' = {e \in heap : ~IsHead(e)}
    /\ At(r, "taken")
    /\ UNCHANGED <<now, entered, blocking, starts, cancelled, failed>>

(* Takes the event, if it is the head as before, or looks again.           *)
Pop(r) ==
    /\ place[r] = "taking"
    /\ \/ IsHead(held[r]) /\ heap' = heap \ {held[r]} /\ At(r, "taken")
       \/ ~IsHead(held[r]) /\ UNCHANGED heap /\ Back(r, "looking")
    /\ UNCHANGED <<now, entered, blocking, starts, cancelled, failed>>

(* After delayfunc(0), callAction.                                         *)
Start(r) ==
    /\ place[r] = "taken"
    /\ starts' = [starts EXCEPT ![held[r]] = @ + 1]
    /\ At(r, "acting")
    /\ UNCHANGED <<now, entered, heap, blocking, cancelled, failed>>

(* The action returns.  A run() that does not block goes on only when the  *)
(* next event is due already.                                              *)
Finish(r) ==
    /\ place[r] = "acting"
    /\ IF r \in blocking \/ \E e \in heap : IsHead(e) /\ entered[e].time <= now
       THEN Back(r, "looking")
       ELSE Back(r, "idle")
    /\ UNCHANGED <<now, entered, heap, blocking, starts, cancelled, failed>>

(* timefunc, delayfunc or the action raises, and so does run().            *)
Fail(r) ==
    /\ place[r] \in {"timing", "sleeping", "taken", "acting"}
    /\ Back(r, "idle")
    /\ failed' = IF place[r] = "taken" THEN failed \cup {held[r]} ELSE failed
    /\ UNCHANGED <<now, entered, heap, blocking, starts, cancelled>>

-----------------------------------------------------------------------------

Init ==
    /\ now = 0 /\ entered = <<>> /\ heap = {} /\ starts = <<>>
    /\ place = [r \in Runners |-> "idle"]
    /\ blocking = {}
    /\ held = [r \in Runners |-> 0]
    /\ cancelled = {} /\ failed = {}

Next ==
    \/ \E time \in 0..MaxTime, priority \in Priorities : Enter(time, priority)
    \/ \E e \in Events : Cancel(e)
    \/ Tick
    \/ \E r \in Runners :
          \/ \E blocks \in BOOLEAN : Run(r, blocks)
          \/ Look(r) \/ Judge(r) \/ Wake(r) \/ Pop(r) \/ Start(r) \/ Finish(r)
          \/ Fail(r)

Spec == Init /\ [][Next]_schedulerVars

-----------------------------------------------------------------------------

Taken(e) == {r \in Runners : place[r] = "taken" /\ held[r] = e}
Among(S, e) == IF e \in S THEN 1 ELSE 0

(* An event is waiting, cancelled, in the hands of one run(), lost with a  *)
(* run() that failed, or was started, and only one of these: it is never   *)
(* started twice, nor after cancel() has returned, nor forgotten.          *)
HandledOnce ==
    \A e \in Events :
        starts[e] + Cardinality(Taken(e)) + Among(heap, e) + Among(cancelled, e)
        + Among(failed, e) = 1

(* What leaves the heap other than by cancel() is due, and was the head.   *)
TakenInTurn ==
    \A e \in heap \ heap' :
        e \in cancelled' \/ (IsHead(e) /\ entered[e].time <= now)

(* A step keeps both: events are run once and in their order, whoever      *)
(* calls run(), enter() and cancel() meanwhile (vm/stdlib_sched.go).       *)
EventsRunInTurn == HandledOnce' /\ TakenInTurn
=============================================================================
