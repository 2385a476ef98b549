------------------------------- MODULE Threading -------------------------------
(***************************************************************************)
(* One object of the threading module (vm/stdlib_threading.go:130-228), or *)
(* one queue, and the threads that share it.  Which kind of object it is,  *)
(* and what its constructor is given, is chosen in the initial state, so   *)
(* that one run checks every primitive; the others stay in their initial   *)
(* states.  The four objects with a chCond of their own (Event, Semaphore, Condition,   *)
(* Barrier) use the same variables for it, since only one of them exists;  *)
(* so do all but the RLock for where a thread is and for its deadline.     *)
(***************************************************************************)
EXTENDS RLock, Sequences

CONSTANTS Values, Releases, MaxCount,   \* Semaphore
          Counts,                       \* Condition
          Sizes, MaxGeneration,         \* Barrier
          QueueSizes, MaxPuts, Rank,    \* SyncQueue
          Objects                       \* the kinds of object to choose from

ASSUME ValuesAssumption ==
    /\ Values \subseteq Nat /\ Releases \subseteq Nat /\ MaxCount \in Nat
    /\ Counts \subseteq Int
    /\ Sizes \subseteq Nat \ {0} /\ MaxGeneration \in Nat
    /\ QueueSizes \subseteq Int
    /\ Objects \subseteq {"RLock", "Semaphore", "Event", "Condition", "Barrier", "Lock",
                         "Thread", "Queue"}

VARIABLES
    use,                                                \* the kind of object
    waiters, signalled, late, pc, timed, due,           \* its chCond
    count, maxVal,                                      \* Semaphore
    flag,                                               \* Event
    holder, wants, call, answer, picked, pred, announced,  \* Condition
    parties, waiting, broken, generation, myGen, myIndex,  \* Barrier
    arrived, resets, doomed,
    taken, isLocked,                                    \* Lock
    process, started, alive, counted, wg, listed, body, \* Thread
    returned, after, joined,
    kind, maxsize, items, unfinished, shutdown, shutImm,  \* SyncQueue
    parkedIn, arg, tmo, armed, stale, puts, inHand

condition == <<holder, wants, call, answer, picked, pred, announced>>
barrier == <<parties, waiting, broken, generation, myGen, myIndex, arrived, resets, doomed>>
lock == <<taken, isLocked>>
thread == <<process, started, alive, counted, wg, listed, body, returned, after, joined>>
syncQueue == <<kind, maxsize, items, unfinished, shutdown, shutImm, parkedIn, arg, tmo,
               armed, stale, puts, inHand>>
queues == <<waiters, signalled, late>>
calls == <<pc, timed, due>>

allVars ==
    <<use, vars, queues, calls, count, maxVal, flag, condition, barrier, lock, thread,
      syncQueue>>

Se == INSTANCE Semaphore
Ev == INSTANCE Event
Co == INSTANCE Condition
Ba == INSTANCE Barrier
Lo == INSTANCE Lock
Th == INSTANCE Thread
Qu == INSTANCE SyncQueue WITH Sizes <- QueueSizes, waiting <- parkedIn

-----------------------------------------------------------------------------

Create ==
    /\ use \in Objects
    /\ Init /\ Se!Init /\ Ev!Init /\ Co!Init /\ Ba!Init /\ Lo!Init /\ Th!Init
    /\ Qu!Init
    /\ use # "Thread" => ~process
    /\ kind = "fifo"       \* when calls end does not depend on the order of items
    /\ use # "Queue" => \A m \in QueueSizes : maxsize <= m

(* The object is of kind k: the other kinds' variables do not change.      *)
Uses(k) ==
    /\ use = k
    /\ UNCHANGED use
    /\ IF k = "RLock" THEN UNCHANGED calls ELSE UNCHANGED vars
    /\ IF k \in {"RLock", "Lock", "Thread", "Queue"} THEN UNCHANGED queues ELSE TRUE
    /\ IF k = "Semaphore" THEN TRUE ELSE UNCHANGED <<count, maxVal>>
    /\ IF k = "Event" THEN TRUE ELSE UNCHANGED flag
    /\ IF k = "Condition" THEN TRUE ELSE UNCHANGED condition
    /\ IF k = "Barrier" THEN TRUE ELSE UNCHANGED barrier
    /\ IF k = "Lock" THEN TRUE ELSE UNCHANGED lock
    /\ IF k = "Thread" THEN TRUE ELSE UNCHANGED thread
    /\ IF k = "Queue" THEN UNCHANGED timed ELSE UNCHANGED syncQueue

Step ==
    \/ Uses("RLock") /\ Next
    \/ Uses("Semaphore") /\ Se!Next
    \/ Uses("Event") /\ Ev!Next
    \/ Uses("Condition") /\ Co!Next
    \/ Uses("Barrier") /\ Ba!Next
    \/ Uses("Lock") /\ Lo!Next
    \/ Uses("Thread") /\ Th!Next
    \/ Uses("Queue") /\ Qu!Next

ThreadingSpec == Create /\ [][Step]_allVars

(* What a thread in a call does next when nothing keeps it from going on,  *)
(* and its clock.                                                          *)
GoOn(t) ==
    \/ Uses("RLock") /\ AcquireResume(t)
    \/ Uses("Semaphore") /\ (Se!Wakes(t) \/ Se!AcquireResume(t))
    \/ Uses("Event") /\ (Ev!Wakes(t) \/ Ev!WaitResume(t))
    \/ Uses("Condition") /\ Co!Wakes(t)
    \/ Uses("Barrier") /\ (Ba!Wakes(t) \/ Ba!Resume(t))
    \/ Uses("Lock") /\ Lo!Runs(t)
    \/ Uses("Thread") /\ Th!Runs(t)
    \/ Uses("Queue") /\ Qu!Resume(t)

Tick(t) ==
    \/ Uses("Semaphore") /\ Se!Clock(t)
    \/ Uses("Event") /\ Ev!Clock(t)
    \/ Uses("Condition") /\ Co!Clock(t)
    \/ Uses("Barrier") /\ Ba!Clock(t)
    \/ Uses("Lock") /\ Lo!DeadlinePasses(t)
    \/ Uses("Thread") /\ Th!DeadlinePasses(t)
    \/ Uses("Queue") /\ Qu!DeadlinePasses(t)

(* A condition's mutex is held across calls and may be taken and released  *)
(* for ever while a thread waits for it.                                   *)
LocksUp(t) == Uses("Condition") /\ (Co!Lock(t) \/ Co!Relock(t))

(* Runnable goroutines run and clocks advance; sync.Mutex's starvation mode*)
(* hands a mutex that keeps being released to whoever waits longest.       *)
(* Nobody is obliged to call anything; of a queue's timer goroutines       *)
(* nothing is asked, since no property of it rests on them.                *)
ThreadingFairness ==
    \A t \in Threads :
        WF_allVars(GoOn(t)) /\ WF_allVars(Tick(t)) /\ SF_allVars(LocksUp(t))

FairThreading == ThreadingSpec /\ ThreadingFairness

-----------------------------------------------------------------------------

(* The safety properties of each module, for the object in use; they are   *)
(* explained where they are defined.                                       *)
(* Semaphore: no permit is handed out twice or left over next to sleepers. *)
PermitsAreExact == use = "Semaphore" => Se!PermitsAreExact
(* Condition: no announced change is missed by wait_for.                   *)
NoMissedChange == use = "Condition" => Co!NoMissedChange
(* Condition: wait() tells those that were notified from those that timed  *)
(* out.                                                                    *)
WaitTellsTruth == use = "Condition" => Co!WaitTellsTruth
(* Barrier: nobody sleeps through the end of its generation, the count of  *)
(* arrivals is exact and their indices differ.                             *)
BarrierIsExact ==
    use = "Barrier" => Ba!QueuedForThisGeneration /\ Ba!CountIsExact
(* Lock: locked() tells the truth.                                         *)
LockedTellsTruth == use = "Lock" => Lo!LockedTellsTruth
(* Thread, Process: is_alive, active_count and join do.                    *)
LifeIsSeen == use = "Thread" => Th!LifeIsSeen

(* Barrier: wait() lets a party through when all of its generation called  *)
(* it, or at a reset.                                                      *)
PassMeansMet == [][use = "Barrier" => Ba!PassMeansMet]_allVars

(* Semaphore: permits do not lie idle next to a blocked acquire.           *)
PermitsAreTaken == use = "Semaphore" => Se!PermitsAreTaken
(* Event: a flag that stays up releases everyone.                          *)
SetReleasesAll == use = "Event" => Ev!SetReleasesAll
(* Condition: a wait that was notified returns.                            *)
WakersReturn == use = "Condition" => Co!WakersReturn
(* Barrier: a wait ends when its generation does or the barrier breaks.    *)
GenerationEnds == use = "Barrier" => Ba!GenerationEnds
(* Queue: a getter does not starve next to an item.                        *)
ItemsAreTaken == use = "Queue" => Qu!ItemsAreTaken
(* Queue: shutdown ends every put and get.                                 *)
ShutdownEndsCalls == use = "Queue" => Qu!ShutdownEndsCalls
(* Queue: join ends once the work is over for good.                        *)
JoinEnds == use = "Queue" => Qu!JoinEnds

(* A call with a deadline always comes back, whatever the object: chCond's *)
(* reason to exist, since sync.Cond has no timed wait.  A condition's does *)
(* if those who hold its mutex keep releasing it; of a queue, which has    *)
(* sync.Conds, it is not claimed.                                          *)
TimedCallsEnd ==
    /\ \A t \in Threads :
          (use # "Condition" /\ t \in timed) ~> (pc[t] = "idle")
    /\ use = "Condition" => Co!TimedWaitForEnds
=============================================================================
