------------------------------- MODULE SyncQueue -------------------------------
(***************************************************************************)
(* queue.Queue, queue.LifoQueue and queue.PriorityQueue                    *)
(* (vm/stdlib_queue.go): a buffer guarded by one mutex and three           *)
(* sync.Cond variables, used by real goroutines.                           *)
(*                                                                         *)
(* Everything between Lock (or the return of Cond.Wait) and Unlock (or the *)
(* next Cond.Wait) is one action: no other thread can observe the middle.  *)
(* The one piece of code that runs without the mutex is the timer          *)
(* goroutine of qWaitTimeout; it is an action of its own.  It may broadcast*)
(* between a waiter's look at the clock and its entry in the wait list;    *)
(* that order is equivalent to TimerFires before the waiter's action,      *)
(* because neither step reads what the other writes.                       *)
(*                                                                         *)
(* A thread inside a call is either parked (in a wait list) or woken, that *)
(* is waiting to re-acquire the mutex.  sync.Cond promises no wake-up      *)
(* order, so Signal removes any one parked thread.                         *)
(*                                                                         *)
(* Items are tickets: the n-th call of put carries item n.                 *)
(***************************************************************************)
EXTENDS Integers, Sequences, SequencesExt, FiniteSets

CONSTANTS
    Threads,     \* the goroutines sharing the queue
    Sizes,       \* the values of maxsize
    MaxPuts,     \* bound: how many calls of put a behaviour makes
    Rank         \* Rank[n]: where item n sorts (PriorityQueue only)

ASSUME SizeAssumption == Sizes \subseteq Int /\ MaxPuts \in Nat
ASSUME RankAssumption == Rank \in [1..MaxPuts -> Nat]

VARIABLES
    kind,        \* which of the three classes
    maxsize,     \* qs.maxsize; 0 or less means unbounded
    items,       \* qs.items, oldest first
    unfinished,  \* qs.unfinished
    shutdown,    \* qs.shutdown
    shutImm,     \* qs.shutImm
    waiting,     \* the wait list of each sync.Cond
    pc,          \* the call each thread is in
    arg,         \* the item a blocked put carries
    tmo,         \* the timeout of a blocked call, as parsed
    due,         \* threads whose deadline has passed
    armed,       \* threads whose timer goroutine has not broadcast yet
    stale,       \* conditions a timer goroutine outlived its caller for
    puts,        \* history: calls of put so far
    inHand       \* history: items taken whose task_done is still to come

vars == <<kind, maxsize, items, unfinished, shutdown, shutImm, waiting, pc, arg,
          tmo, due, armed, stale, puts, inHand>>

config == <<kind, maxsize>>
buffer == <<kind, maxsize, items, unfinished, shutdown, shutImm>>

Kinds == {"fifo", "lifo", "priority"}
Conds == {"notEmpty", "notFull", "allDone"}
Calls == {"idle", "put", "get", "join"}

(* What parsePutArgs and parseGetArgs can hand on: -1 is None, a negative  *)
(* or no timeout, 0 is zero, 1 stands for every positive duration.         *)
Timeouts == {-1, 0, 1}

-----------------------------------------------------------------------------

IsFull == maxsize > 0 /\ Len(items) >= maxsize

\* Mutant of Removable: the wrong end, or any place in the heap.
RemovableUnordered == IF kind = "priority" THEN DOMAIN items ELSE {1, Len(items)}

(* Positions get may remove: the front, the back, or the root of a heap.   *)
(* Two items that compare equal may leave a heap in either order.          *)
Removable ==
    {n \in 1..Len(items) :
        \/ kind = "fifo" /\ n = 1
        \/ kind = "lifo" /\ n = Len(items)
        \/ /\ kind = "priority"
           /\ \A m \in 1..Len(items) : Rank[items[n]] <= Rank[items[m]]}

CondOf(call) == IF call = "put" THEN "notFull"
                ELSE IF call = "get" THEN "notEmpty" ELSE "allDone"

Parked(t) == t \in waiting[CondOf(pc[t])]
Woken(t) == pc[t] # "idle" /\ ~Parked(t)

(* A timeout counts only when it is positive: 0 waits like None.           *)
Timed(t) == tmo[t] > 0

\* Mutants of Signalled and Broadcasted: the call is forgotten; one wake-up only.
SignalForgotten(c) == {waiting}
BroadcastWakesOne(C) == [c \in Conds |->
    IF c \in C /\ waiting[c] # {} THEN waiting[c] \ {CHOOSE t \in waiting[c] : TRUE}
    ELSE waiting[c]]

(* Wait lists after cond.Signal and after cond.Broadcast.                  *)
Signalled(c) == IF waiting[c] = {} THEN {waiting}
                ELSE {[waiting EXCEPT ![c] = @ \ {t}] : t \in waiting[c]}
Broadcasted(C) == [c \in Conds |-> IF c \in C THEN {} ELSE waiting[c]]

(* Thread t leaves its call; close(done) releases its timer goroutine,     *)
(* which may still pick the timer's case if that is ready too.             *)
Return(t) ==
    /\ pc' = [pc EXCEPT ![t] = "idle"]
    /\ arg' = [arg EXCEPT ![t] = 0]
    /\ tmo' = [tmo EXCEPT ![t] = -1]
    /\ due' = due \ {t}
    /\ armed' = armed \ {t}
    /\ stale' = IF t \in armed THEN stale \cup {CondOf(pc[t])} ELSE stale

(* Full, Empty, ShutDown and ValueError all leave the buffer alone.        *)
Raise(t) == Return(t) /\ UNCHANGED <<buffer, waiting, inHand>>

(* Cond.Wait: enter the list and give the mutex up.                        *)
Park(t) ==
    /\ waiting' = [waiting EXCEPT ![CondOf(pc[t])] = @ \cup {t}]
    /\ UNCHANGED <<buffer, pc, arg, tmo, due, armed, stale, inHand>>

(* The first Cond.Wait of a call, with its timer goroutine if it has one.  *)
StartWait(t, call, x, timeout) ==
    /\ waiting' = [waiting EXCEPT ![CondOf(call)] = @ \cup {t}]
    /\ pc' = [pc EXCEPT ![t] = call]
    /\ arg' = [arg EXCEPT ![t] = x]
    /\ tmo' = [tmo EXCEPT ![t] = timeout]
    /\ armed' = IF timeout > 0 THEN armed \cup {t} ELSE armed
    /\ UNCHANGED <<buffer, due, stale, inHand>>

(* The deadline of a call that has only just begun has passed already.     *)
ExpireAtOnce(call, timeout) ==
    /\ timeout > 0
    /\ stale' = stale \cup {CondOf(call)}
    /\ UNCHANGED <<buffer, waiting, pc, arg, tmo, due, armed, inHand>>

-----------------------------------------------------------------------------
(* put *)

Accept(t, x) ==
    /\ items' = Append(items, x)
    /\ unfinished' = unfinished + 1
    /\ waiting' \in Signalled("notEmpty")
    /\ Return(t)
    /\ UNCHANGED <<config, shutdown, shutImm, inHand>>

PutCall(t, block, timeout) ==
    /\ pc[t] = "idle"
    /\ puts < MaxPuts
    /\ puts' = puts + 1
    /\ \/ shutdown /\ Raise(t)
       \/ ~shutdown /\ ~IsFull /\ Accept(t, puts + 1)
       \/ ~shutdown /\ IsFull /\ ~block /\ Raise(t)
       \/ ~shutdown /\ IsFull /\ block /\ StartWait(t, "put", puts + 1, timeout)
       \/ ~shutdown /\ IsFull /\ block /\ ExpireAtOnce("put", timeout)

\* Mutant of PutResume: an `if' where the loop around Cond.Wait is.
PutResumeUnchecked(t) ==
    /\ pc[t] = "put" /\ Woken(t)
    /\ IF shutdown THEN Raise(t) ELSE Accept(t, arg[t])
    /\ UNCHANGED puts

PutResume(t) ==
    /\ pc[t] = "put" /\ Woken(t)
    /\ \/ shutdown /\ Raise(t)
       \/ ~shutdown /\ ~IsFull /\ Accept(t, arg[t])
       \/ ~shutdown /\ IsFull /\ Timed(t) /\ t \in due /\ Raise(t)
       \/ ~shutdown /\ IsFull /\ ~(Timed(t) /\ t \in due) /\ Park(t)
    /\ UNCHANGED puts

-----------------------------------------------------------------------------
(* get *)

Take(t) ==
    /\ \E n \in Removable : items' = RemoveAt(items, n)
    /\ waiting' \in Signalled("notFull")
    /\ inHand' = inHand + 1
    /\ Return(t)
    /\ UNCHANGED <<config, unfinished, shutdown, shutImm>>

GetCall(t, block, timeout) ==
    /\ pc[t] = "idle"
    /\ \/ shutImm /\ Raise(t)
       \/ ~shutImm /\ items # <<>> /\ Take(t)
       \/ ~shutImm /\ items = <<>> /\ (shutdown \/ ~block) /\ Raise(t)
       \/ ~shutdown /\ items = <<>> /\ block /\ StartWait(t, "get", 0, timeout)
       \/ ~shutdown /\ items = <<>> /\ block /\ ExpireAtOnce("get", timeout)
    /\ UNCHANGED puts

GetResume(t) ==
    /\ pc[t] = "get" /\ Woken(t)
    /\ \/ shutImm /\ Raise(t)
       \/ ~shutImm /\ items # <<>> /\ Take(t)
       \/ ~shutImm /\ items = <<>> /\ shutdown /\ Raise(t)
       \/ ~shutdown /\ items = <<>> /\ Timed(t) /\ t \in due /\ Raise(t)
       \/ ~shutdown /\ items = <<>> /\ ~(Timed(t) /\ t \in due) /\ Park(t)
    /\ UNCHANGED puts

-----------------------------------------------------------------------------
(* task_done, join and shutdown *)

\* Mutants of TaskDone: no check for zero; no broadcast.
TaskDoneUnchecked(t) ==
    /\ pc[t] = "idle" /\ inHand > 0
    /\ inHand' = inHand - 1
    /\ unfinished' = unfinished - 1
    /\ waiting' = IF unfinished = 1 THEN Broadcasted({"allDone"}) ELSE waiting
    /\ UNCHANGED <<config, items, shutdown, shutImm, pc, arg, tmo, due, armed, stale,
                   puts>>
TaskDoneSilent(t) ==
    /\ pc[t] = "idle" /\ inHand > 0
    /\ inHand' = inHand - 1
    /\ unfinished' = IF unfinished > 0 THEN unfinished - 1 ELSE 0
    /\ UNCHANGED <<config, items, shutdown, shutImm, waiting, pc, arg, tmo, due, armed,
                   stale, puts>>

(* Consumers call task_done once for each item they took.  It raises when  *)
(* an immediate shutdown has zeroed the count under them.                  *)
TaskDone(t) ==
    /\ pc[t] = "idle" /\ inHand > 0
    /\ inHand' = inHand - 1
    /\ \/ /\ unfinished = 0
          /\ UNCHANGED <<unfinished, waiting>>
       \/ /\ unfinished > 0
          /\ unfinished' = unfinished - 1
          /\ waiting' = IF unfinished = 1 THEN Broadcasted({"allDone"})
                        ELSE waiting
    /\ UNCHANGED <<config, items, shutdown, shutImm, pc, arg, tmo, due, armed, stale,
                   puts>>

JoinCall(t) ==
    /\ pc[t] = "idle"
    /\ unfinished > 0       \* otherwise join returns and changes nothing
    /\ StartWait(t, "join", 0, -1)
    /\ UNCHANGED puts

JoinResume(t) ==
    /\ pc[t] = "join" /\ Woken(t)
    /\ \/ unfinished = 0 /\ Raise(t)
       \/ unfinished > 0 /\ Park(t)
    /\ UNCHANGED puts

\* Mutant of Shutdown: getters are not told.
ShutdownForgetsGetters(t, immediate) ==
    /\ pc[t] = "idle"
    /\ shutdown' = TRUE
    /\ shutImm' = (shutImm \/ immediate)
    /\ items' = IF immediate THEN <<>> ELSE items
    /\ unfinished' = IF immediate THEN 0 ELSE unfinished
    /\ waiting' = Broadcasted({"notFull"} \cup (IF immediate THEN {"allDone"} ELSE {}))
    /\ UNCHANGED <<config, pc, arg, tmo, due, armed, stale, puts, inHand>>

Shutdown(t, immediate) ==
    /\ pc[t] = "idle"
    /\ shutdown' = TRUE
    /\ IF immediate
       THEN /\ shutImm' = TRUE
            /\ items' = <<>>
            /\ unfinished' = 0
            /\ waiting' = Broadcasted(Conds)
       ELSE /\ waiting' = Broadcasted({"notFull", "notEmpty"})
            /\ UNCHANGED <<shutImm, items, unfinished>>
    /\ UNCHANGED <<config, pc, arg, tmo, due, armed, stale, puts, inHand>>

-----------------------------------------------------------------------------
(* time *)

(* time.Now() moves past the deadline of a timed call.                     *)
DeadlinePasses(t) ==
    /\ Timed(t) /\ t \notin due
    /\ due' = due \cup {t}
    /\ UNCHANGED <<buffer, waiting, pc, arg, tmo, armed, stale, puts, inHand>>

(* The timer goroutine wakes everyone, once, without holding the mutex.  It*)
(* started its clock on its own, so it may be early or late for the deadline.*)
TimerFires(t) ==
    /\ t \in armed
    /\ armed' = armed \ {t}
    /\ waiting' = Broadcasted({CondOf(pc[t])})
    /\ UNCHANGED <<buffer, pc, arg, tmo, due, stale, puts, inHand>>

(* A timer goroutine whose caller is gone: it exits, or broadcasts once.   *)
StaleTimer(c) ==
    /\ c \in stale
    /\ stale' = stale \ {c}
    /\ waiting' \in {waiting, Broadcasted({c})}
    /\ UNCHANGED <<buffer, pc, arg, tmo, due, armed, puts, inHand>>

-----------------------------------------------------------------------------

Init ==
    /\ kind \in Kinds
    /\ maxsize \in Sizes
    /\ items = <<>>
    /\ unfinished = 0
    /\ shutdown = FALSE
    /\ shutImm = FALSE
    /\ waiting = [c \in Conds |-> {}]
    /\ pc = [t \in Threads |-> "idle"]
    /\ arg = [t \in Threads |-> 0]
    /\ tmo = [t \in Threads |-> -1]
    /\ due = {}
    /\ armed = {}
    /\ stale = {}
    /\ puts = 0
    /\ inHand = 0

Resume(t) == PutResume(t) \/ GetResume(t) \/ JoinResume(t)

Next ==
    \/ \E t \in Threads :
          \/ \E block \in BOOLEAN, timeout \in Timeouts :
                PutCall(t, block, timeout) \/ GetCall(t, block, timeout)
          \/ Resume(t)
          \/ TaskDone(t)
          \/ JoinCall(t)
          \/ \E immediate \in BOOLEAN : Shutdown(t, immediate)
          \/ DeadlinePasses(t)
          \/ TimerFires(t)
    \/ \E c \in {"notEmpty", "notFull"} : StaleTimer(c)

Spec == Init /\ [][Next]_vars

(* The Go scheduler runs every runnable goroutine and sync.Mutex hands     *)
(* itself to a starving waiter, so a woken thread gets its turn; clocks    *)
(* advance and timer goroutines run.  Nobody is obliged to call anything.  *)
Fairness ==
    /\ \A t \in Threads : WF_vars(Resume(t)) /\ WF_vars(DeadlinePasses(t))
                          /\ WF_vars(TimerFires(t))
    /\ \A c \in Conds : WF_vars(StaleTimer(c))

FairSpec == Spec /\ Fairness

-----------------------------------------------------------------------------

TypeOK ==
    /\ kind \in Kinds
    /\ maxsize \in Sizes
    /\ items \in Seq(1..MaxPuts)
    /\ unfinished \in Nat
    /\ shutdown \in BOOLEAN
    /\ shutImm \in BOOLEAN
    /\ waiting \in [Conds -> SUBSET Threads]
    /\ pc \in [Threads -> Calls]
    /\ arg \in [Threads -> 0..MaxPuts]
    /\ \A t \in Threads : pc[t] = "put" => arg[t] # 0
    /\ tmo \in [Threads -> Timeouts]
    /\ due \in SUBSET Threads
    /\ armed \in SUBSET Threads
    /\ stale \in SUBSET Conds
    /\ puts \in 0..MaxPuts
    /\ inHand \in Nat

(* A bounded queue never holds more than maxsize items, however many puts  *)
(* were blocked when a slot came free (qPut re-checks after every wake-up).*)
Bounded == maxsize > 0 => Len(items) <= maxsize

(* No wake-up is lost: a getter sleeps on notEmpty only while every item   *)
(* in the buffer has another, already woken, getter on its way to it, and a*)
(* putter on notFull only while every free slot has such a putter.         *)
WokenIn(call) == {t \in Threads : pc[t] = call /\ Woken(t)}
NoLostWakeUp ==
    /\ waiting["notEmpty"] # {} => Len(items) <= Cardinality(WokenIn("get"))
    /\ waiting["notFull"] # {} =>
          maxsize - Len(items) <= Cardinality(WokenIn("put"))

(* shutdown() leaves nobody asleep in put or get, and nobody falls asleep  *)
(* there afterwards; an immediate one leaves nobody asleep in join.        *)
ShutdownWakes ==
    /\ shutdown => waiting["notEmpty"] = {} /\ waiting["notFull"] = {}
    /\ shutImm => waiting["allDone"] = {}

(* unfinished counts what is queued and what is being worked on, so join   *)
(* sleeps exactly while there is something to wait for.                    *)
JoinExact ==
    /\ ~shutImm => unfinished = Len(items) + inHand
    /\ waiting["allDone"] # {} => unfinished > 0

(* A blocked getter does not starve next to a non-empty buffer: it gets an *)
(* item or somebody else empties the queue.                                *)
ItemsAreTaken ==
    \A t \in Threads :
        (pc[t] = "get" /\ items # <<>>) ~> (pc[t] # "get" \/ items = <<>>)

(* After shutdown() every blocked put and get call ends.                   *)
ShutdownEndsCalls ==
    \A t \in Threads :
        (shutdown /\ pc[t] \in {"put", "get"}) ~> (pc[t] \notin {"put", "get"})

(* join() ends once the work is over for good.                             *)
JoinEnds ==
    \A t \in Threads : <>[](unfinished = 0) => []<>(pc[t] # "join")

(* qWaitTimeout's comment: it returns false on timeout.  A timed get or put*)
(* would then always end.                                                  *)
TimedCallsEnd ==
    \A t \in Threads : Timed(t) ~> (pc[t] = "idle")

(* The queue implements the abstract one: same order, same bound, nothing  *)
(* accepted after shutdown() and nothing handed out after an immediate one.*)
Abstract == INSTANCE QueueSpec WITH
    queue <- items,
    pending <- unfinished,
    gate <- IF shutImm THEN "closed" ELSE IF shutdown THEN "draining" ELSE "open",
    Items <- 1..MaxPuts
ImplementsQueue == Abstract!Spec
=============================================================================
