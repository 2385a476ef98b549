# Verification of goipy

goipy is an interpreter for CPython 3.14 bytecode in pure Go: it unmarshals a
`.pyc`, walks the bytecode in a switch, and implements the standard library as
Go functions. There is no global lock: `threading.Thread` starts a real
goroutine, and `queue`, `threading`, `concurrent.futures`, `multiprocessing`
and `concurrent.interpreters` synchronise goroutines with Go mutexes,
condition variables, channels and atomics. A test of such code sees one
interleaving. The interpreter itself runs one step at a time within a
goroutine, but it keeps much of what it knows in two places that have to agree:
a slice and a map, a class and its caches, a module and the cache of modules.
A test of that sees one sequence of calls. These two kinds of code are what this
development models.

Paths below are relative to the root of the repository.

Contents: [inventory](#1-inventory) · [modules](#2-modules) · [runs](#3-runs) ·
[bounds](#4-bounds) · [fairness](#5-fairness) · [proofs](#6-proofs) ·
[disagreements](#7-where-code-and-documentation-disagree) ·
[assumptions](#8-assumptions) · [not modelled](#9-what-is-not-modelled) ·
[plan](#10-plan)

---------------------------------------------------------------------------

## 1. Inventory

### 1.1 Components that run concurrently

| Component | State | Operations | Interacts with |
|---|---|---|---|
| **queue** (`vm/stdlib_queue.go`): Queue, LifoQueue, PriorityQueue, SimpleQueue | `items`, `unfinished`, `maxsize`, `shutdown`, `shutImm`; one mutex and three `sync.Cond`; a timer goroutine for each blocked timed call | put, get, task_done, join, shutdown, the sizes | called from any goroutine; a heap comparison may call Python |
| **chCond** (`vm/stdlib_threading.go:42-107`) | a FIFO of one-slot channels under an inner mutex | Wait with a timeout, Notify(n), Broadcast | used by Event, Semaphore, Condition and Barrier, inside their mutexes |
| **RLock** (`:414-496`) | `owner`, `depth`; a mutex and a `sync.Cond` | acquire, release, with | threads |
| **Event** (`:500-566`) | a flag and a chCond | wait, set, clear | threads |
| **Semaphore, BoundedSemaphore** (`:569-658`) | `count`, `maxVal` and a chCond | acquire, release(n), with | threads |
| **Condition** (`:662-768`) | a mutex held by Python code across calls, and a chCond | acquire, release, wait, wait_for, notify, notify_all | the predicate is a Python callable |
| **Barrier** (`:772-857`) | `waiting`, `broken`, `generation` and a chCond | wait, reset, abort | threads |
| **Lock** (`:360-412`), **_thread** (`vm/stdlib_thread.go`) | a mutex and an atomic flag | acquire, timed acquire, release, locked | threads; multiprocessing uses the same lock |
| **Thread** (`:300-358`), **local** | started, alive; a count and a map of threads; a WaitGroup | start, join, is_alive, active_count | runs Python on a goroutine of its own |
| **ThreadPoolExecutor, Future** (`vm/stdlib_concurrent_futures.go`) | `ps.mu`, `ps.shutdown`, a channel of `4 * max_workers` jobs, a wait group; per future an atomic state, a mutex for result and callbacks, and a `done` channel | submit, map, shutdown; cancel, result, exception, add_done_callback; wait, as_completed | workers run the functions and the callbacks |
| **multiprocessing** (`vm/stdlib_multiprocessing.go`) | processes as goroutines, channels for Queue, Pipe and the jobs of a Pool, one result channel for each job | Process, Pool, AsyncResult, Queue, Connection | callbacks run in the getter |
| **concurrent.interpreters** (`vm/stdlib_concurrent_interpreters.go`) | a registry of interpreters and queues | create, exec, call; put, get with timeouts | other interpreters |
| **sched** (`vm/stdlib_sched.go`) | a heap of events under a mutex | enter, enterabs, cancel, run | clock, sleep and actions are Python callables |
| **attribute lookup** (`vm/ops.go:811-836, 1859-1890`, `vm/dispatch.go:278-384`) | class dicts; a method cache per class, stamped with a global epoch; an inline cache per instruction | getattr, setattr on a class, LOAD_ATTR | every thread that runs Python |
| **asyncio** (`vm/asyncio.go`) | tasks and futures of a synchronous driver | run, create_task, gather, wait, the primitives | generators |

### 1.2 Components that run one step at a time

| Component | State | Operations |
|---|---|---|
| **generators, coroutines** (`vm/generator.go`) | Started, Running, Done, a suspended frame | send, throw, close, next |
| **dispatch and frames** (`vm/interp.go`, `vm/dispatch.go`, `vm/frame.go`, `vm/exctable.go`) | value stack, instruction pointer, handled exception, depth | one opcode after another; unwinding through the exception table |
| **calls, operators, builtins** (`vm/call.go`, `vm/ops.go`, ...) | none of their own | evaluation |
| **dict** (`object/dict.go`) | two slices in order of insertion, with tombstones; a map for str keys and one of hash buckets for the others | get, set, delete, clear, iterate |
| **set** (`object/set.go`) | a slice of elements and a map of hash buckets | add, discard, contains |
| **classes** (`object/object.go`, `vm/ops.go`) | bases, attributes | C3 linearisation, lookup |
| **imports** (`vm/imports.go`) | cache of modules | import, from-import, packages, circular imports |
| **marshal** (`marshal/reader.go`) | table of references | decode |
| **graphlib** (`vm/stdlib_graphlib.go`) | predecessor counts, ready and done nodes | add, prepare, get_ready, done |
| **functools.lru_cache** (`vm/stdlib_functools.go:713-778`) | a dict of results and a slice of its keys by last use | call, cache_clear |
| **contextvars** (`vm/stdlib_contextvars.go`) | contexts and tokens | set, reset, run, copy |
| **the rest of the library** (about two hundred `vm/stdlib_*.go`), **lib/** (bzip2, lzma, zstd, plist, toml), **cmd/** | mostly none | parsers, formatters, tables, codecs, operating system calls |

### 1.3 What is hard, and what makes a component correct

* **Queue.** A waiter gives the mutex up between "full" and "append", and an
  overtaker may use what it was woken for. Timers broadcast without the mutex.
  Shutdown, immediate or not, meets sleeping putters, getters and joiners.
  Correct: the bound and the order hold, no wake-up is lost, `join` counts
  exactly, shutdown reaches everyone, blocked calls end.
* **chCond.** The timer and the token race, and the loser must clean up.
  Correct: a token is never lost with the thread it was meant for, the answer
  of `wait` is right, and a timed wait ends.
* **The primitives on it.** Between being let go of and having the mutex back
  the object may change: a permit is taken, a flag cleared, a barrier reset,
  broken or in another generation. Correct: permits are neither
  duplicated nor left idle, an announced change is not missed, a barrier
  counts its parties and lets them through only together.
* **RLock.** One signal for each release, which an overtaker may outrun.
* **Lock and Thread.** Flags and counters written one after another without a
  mutex around them. Correct: nobody who relies on one of them is misled.
* **Executor.** Settling a future and shutting a pool down are sequences of
  steps with other goroutines in between. Correct: a future is settled once,
  a callback runs exactly once, a cancelled function never runs, no send on a
  closed channel, and `shutdown(wait=True)` means done.
* **wait(), as_completed(), map().** They scan states and count posts; a future
  can be settled before, during or after the scan.
* **Pool.** One-shot result channels that several parties read, a bounded
  channel that blocks a call half-way, and channels closed under senders. Correct:
  every job is answered once and every call comes back.
* **sched.** The head of the heap is looked at, let go of, and taken later.
  Correct: every event is run once, in its turn, or not at all.
* **Lookup caches.** An entry is stamped with an epoch read before the walk that
  fills it. Correct: after an assignment no cache answers with what was before.
* **Dict and set.** Slots are referred to by number and move. Correct: both
  tables are what they say, a mapping in order of insertion and a set.
* **Class order.** Correct: every ancestor once, and in an order that keeps those
  of the bases whenever there is one.
* **graphlib, imports, lru_cache.** Steps of several fail half-way, or are entered
  again in their middle. Correct: what was done before the failure stays
  consistent, nothing half-made is left behind, and the right thing goes next.

`PROJECT.json` lists these hazards one by one with the line where each bites
and the properties that would catch it, or why none does.

---------------------------------------------------------------------------

## 2. Modules

A stretch of Go code that holds a mutex from Lock (or the return of a `Wait`)
to Unlock (or the next `Wait`) is one action, since nobody can observe its
middle. Where code runs without the mutex (a timer goroutine, an atomic, a
channel operation, the clean-up in `chCond.Wait`) each step is an action of its own.
What an object's constructor is given (the class of queue, maxsize, the initial
count, the number of parties, return_when, the size of a cache) is a variable that
is chosen in the initial state and never changes, so that one run covers all of
its values.

| Module | Models | Built from |
|---|---|---|
| `SyncQueue` | `vm/stdlib_queue.go`: the three bounded queues | |
| `QueueSpec` | what such a queue promises, without threads | |
| `ChCond` | `chCond` | |
| `Semaphore`, `Event`, `Condition`, `Barrier` | the primitives with a chCond | each EXTENDS `ChCond` |
| `RLock` | the re-entrant lock | |
| `Lock` | `threading.Lock`, multiprocessing's, and the timed lock of `_thread` | |
| `Thread` | the life of a Thread or a Process | |
| `Threading` | one object of any of these seven kinds, or a queue, and its threads | EXTENDS `RLock`, INSTANCE of the others |
| `Executor` | pool, workers, futures, callbacks | |
| `FuturesWait` | one call of `wait()`, or one iterator of `as_completed()` or `map()` | |
| `Pool` | `multiprocessing.Pool` and AsyncResult | |
| `Channels` | futures and their waiter, or a Pool | EXTENDS `Pool`, INSTANCE of `FuturesWait` |
| `ClassLookup` | attribute lookup with its two caches | |
| `ClassOrder` | the method resolution order | |
| `Dict`, `OrderedMap` | the dict, and what it promises | `Dict` INSTANCEs `OrderedMap` |
| `HashSet` | the set | |
| `TopologicalSorter` | graphlib | |
| `Imports` | the module cache | |
| `Scheduler` | `sched.scheduler` | |
| `LruCache` | `functools.lru_cache` | |
| `Runtime` | one of these last eight components | EXTENDS `HashSet`, INSTANCE of the others |
| `SequenceLemmas` | lemmas about the operators on sequences, for all the proofs | |
| `SyncQueueProofs` | theorems about `SyncQueue` | EXTENDS `SyncQueue` |
| `ThreadingProofs` | theorems about the primitives, RLock, Lock and Thread | EXTENDS `Threading` |
| `ExecutorProofs` | theorems about `Executor` | EXTENDS `Executor` |
| `ChannelsProofs` | theorems about `FuturesWait` and `Pool` | EXTENDS `Channels` |
| `ContainerProofs`, `InterpreterProofs`, `RuntimeProofs` | theorems about the dict and the set; the module cache, attribute lookup and the class order; sched, graphlib and lru_cache | each EXTENDS `Runtime` |
| `MCSyncQueue`, `MCThreading`, `MCExecutor`, `MCChannels`, `MCRuntime`, `MCClassLookup` | instances for TLC: symmetry sets, ranks, hierarchies, hashes, calls | EXTENDS the module |

`Threading`, `Channels` and `Runtime` make one object: `use` chooses its kind in
the initial state, only the actions of that kind are enabled, and the variables of
the other kinds keep their initial values. The objects do not share state in the
code; they are put together so that one run, and one statement of fairness, covers them.

A definition under a comment `Mutant of X` is a plausible wrong version of the
definition X that follows it. No specification uses these; each property is
known to fail when one of them takes X's place (`PROJECT.json`, "mutants").
A `TypeOK` says what values the variables of its module take. In `SyncQueue`, `RLock`
and `HashSet` it is part of the inductive invariant of the proofs.

### SyncQueue

`items`, `unfinished`, `shutdown`, `shutImm` are the fields of `queueState`.
`waiting[c]` is the wait list of each `sync.Cond`; a thread in a call that is
not in it has been woken and wants the mutex. `sync.Cond` documents no order, so
`Signalled` removes any one thread.

* `PutCall`/`GetCall`/`JoinCall` are a call up to its return or its first sleep;
  `PutResume`/`GetResume`/`JoinResume` are what runs after each wake-up. The
  disjuncts are the early returns in the order of the code: shut down, room,
  non-blocking, deadline, sleep.
* `qWaitTimeout` starts a goroutine that broadcasts once when its own timer
  fires. `armed` holds the threads whose goroutine is still to do that
  (`TimerFires`), `due` the threads whose `deadline` has passed on the clock
  the caller reads (`DeadlinePasses`), `stale` the goroutines that outlived
  their call (`StaleTimer`: `close(done)` and the timer may both be ready).
  The two clocks are independent, as they are in the code.
* `Shutdown(immediate)` empties the buffer, zeroes the count and broadcasts on
  the conditions the code names, and only on those.
* The buffer is kept in the order of arrival. `Removable` says what `get` may
  take: first, last, or any of the least in a heap. Items are tickets; `Rank`
  orders them, with ties.

`QueueSpec` has one action for each thing a client can observe (Put, Get, Done,
Drain, Close). The refinement mapping is `items`, `unfinished` and the two
flags folded into a gate. Every sleeping, waking and timing step is a stutter.

### ChCond and the primitives

`waiters` is the FIFO, `signalled` the threads whose channel holds a token, `late`
those whose select chose the timer and who still have to take the inner
mutex to leave the FIFO. `pc` is "asleep" inside Wait and "awake" when the
thread wants the outer mutex back. `Receive`, `TimerWins` and `CleanUp` are
the three ways on: in `CleanUp` a token that came meanwhile is drained, and
`CleanUpAnswer` is what Wait then returns. `Notify(n)` takes everyone for
`n <= 0`, as the code does.

Each primitive adds its own fields. `Semaphore.Exit` is `__exit__`, which
does not look at the bound. `Event.WaitResume`, `Semaphore.AcquireResume`,
`Condition.Relock` and `Barrier.Resume` are the loops after Wait, with their
checks in the order of the code. In `Condition` the mutex is held across
calls (`holder`), and what it guards is one Boolean that the holder changes and
then announces with `notify_all`, the discipline `wait_for` is meant for;
`notify` may come from anyone, at any time. The predicate of `wait_for` may raise
whenever it is called, which ends the call like an answer. `picked` is a history
variable: whom a notify took off the queue during the last Wait, against which what
`wait` returns is stated. So are in `Barrier` `arrived`, `resets` and `doomed`: who called
`wait` in which generation, which generations a reset ended, and who was there when a
deadline broke the barrier. In `Threading` the four chCond primitives share
the variables of one chCond since only one of them exists in a behaviour.

### RLock, Lock, Thread

`RLock`: `owner`, `depth`, the wait list `parked`, the woken threads, and the history
`held`: acquires minus releases, by thread. An acquire that never slept may
overtake a woken thread, which then parks again (`AcquireResume`).

`Lock`: the mutex (`taken`) and the flag that `locked()` reads (`isLocked`) are
written by separate steps; `pc` says between which of them a thread is.
`Poll` is the loop of the timed acquire of `_thread`. `Threading` gives the
invariant `LockedTellsTruth` of it.

`Thread`: each atomic, each `sync.Map` and each WaitGroup operation of `start`, of the
goroutine it spawns and of `join` is a step. `process` chooses between a Thread, whose
start is decided by a compare-and-swap, and a Process, whose start only looks. A
goroutine goes by the name of the thread that spawned it.

### Executor

One action for each step another goroutine can come between: `SubmitCall`
takes `ps.mu` and checks the flag, `Send` blocks on the channel *holding the
mutex*; `Receive`, `Claim` (the compare-and-swap), `Finish` (the critical
section that stores the result and copies the callbacks), `Close` (the `done`
channel) and `Notify` (one callback) are a worker; `CancelClaim`, `Take`, `Close`,
`Notify` are `cfCancelFuture`, whether called by `cancel()` or by the drain
loop of `shutdown(cancel_futures=True)`. `Drain` receives without blocking
while the workers receive too; on a closed and empty channel it gets a nil
job, and the process is gone (`crashed`). `CloseJobs` is `doClose`,
`WaitEnds` is `wg.Wait()`.

### FuturesWait

`Settle` and `Close` are the other goroutines (what `Executor` does in
detail), `Post` the goroutine that `wait()` and `as_completed()` start for each
future. In `wait()` `Scan` is one turn of the loop over the states, `Enough` the test at
the top of the main loop, `Take` and `TimeOut` the two cases of its select, `Answer`
the return. An iterator is `NextCall`, then `YieldPosted` (any post) or
`YieldInOrder` (the next future's own channel) or `NextTimesOut`. A future that
`map()` could not submit, because the pool was shut down, is one that nobody settles.

### Pool

A worker is anonymous: `running` is what the workers have in hand and `exited` how
many are gone. A client makes one of five calls over some jobs: `map` and the
like send all and then collect (`Send`, `Collect`), `map_async` leaves the
collecting to a goroutine (`Aggregate`), `imap` waits for each result in turn,
`imap_unordered` has forwarders pass them on in any order (`Forward`). An
AsyncResult goes by the name of the client that made it and anybody may `get`
it: `GetLocks`/`GetReceives` hold its mutex across the receive, `Ready` takes the
result out of the channel and keeps it. A send on a channel that `close` has closed
ends the process (`crashed`).

### ClassLookup and ClassOrder

A lookup is a stack of frames, one for each class between the instance's and the
root. Reading the epoch, the critical section that looks into a class's cache,
the read of the class dict and the critical section that stores the answer are one
action each, and so are the two halves of an assignment (`SetAttr`,
`BumpClassEpoch`). `Load` and `Fill` are the LOAD_ATTR instruction: `Hit` is its
inline cache, which compares the class, and `Fill` looks the name up a second
time holding `Code.Mu`. `Found` is the reference: what a walk of the hierarchy
finds when nothing moves.

`ClassOrder` builds classes one after another, each with any sequence of distinct
bases that exist, and then runs `computeMRO` on it: `StartMerge`, `Pick` for each
round, `Merged`, or `DepthFirst` when no head is good. The latter begins the depth-first walk,
which is recursive in the code; here `toVisit` holds the calls to come, in their order, and each
`Walk` is one call. The code keeps what it has seen twice, in a map and in the result; `out`
is both. `Walked` is its end. The reference is declarative: `Consistent` says that some order respects all lists, by the absence
of a set of classes each of which is behind another.

### Dict, OrderedMap, HashSet

One action for each method, since it holds the mutex. `Dict` keeps the two slices with
their tombstones, the map for str keys and the hash buckets; `Forget` is the removal
from the map, `Compact` the rebuilding, `InBucket` the search of a bucket and `InOrder` a
pass over the slots from the first on (`LiveSlots`: those that are no tombstones). Keys
that compare equal are one key; keys with one hash share a bucket. `OrderedMap` is a sequence of entries; the mapping
takes the live slots. `HashSet` is the slice and the buckets; in `Discard` the last
element moves into the hole, and `Follow` makes its bucket lead there.

### TopologicalSorter, Imports

`prepare()` is the one call that is not one action: its search takes a step for each node
or edge (`SearchFrom`, `Follow`, `Leave`), since the invariant speaks of its outcome and
the code of its path; no other call can come between. `Done` takes a batch that
may name unknown, unready or finished nodes and repeats: what precedes the first
of these is done, and only the count of finished nodes is not stored.

In `Imports` `stack` holds the statements and bodies that are running, in the order in which they
called each other. A statement loads the packages of a name from left to right, however
many there are (`Chain`, over `Dotted`), and each is in the cache, not found, found and broken, or run
(`LoadCached`, `LoadFails`, `LoadExec`). What a body does is open: it may import
anything, carry on after an import that failed, end or raise.

### Scheduler, LruCache

`Scheduler`: any number of `run()` calls, blocking or not, next to `enterabs` and
`cancel`. `Look` reads the head, `Judge` the clock, `Pop` takes the event only if it is
still the head, `Start` calls the action. `Fail` is an exception of one of the
callables.

`LruCache`: `Miss` calls the function and `Return` stores what it returned, with
other calls, of other keys or the same, and `cache_clear()` in between. The slice may then hold a key
twice (`tangled`): a later eviction drops the entry of a key that is still in
the slice. The size is kept all the same, and nothing is left that could not be evicted.

---------------------------------------------------------------------------

## 3. Runs

Sizes are distinct states; times are with two TLC workers.

| Run | Instance | States | Shows |
|---|---|---|---|
| `queue` | 3 threads, each class, maxsize 0, 1, 2, 3 puts | 375k, 30 s | `Bounded`: the bound holds however many putters were blocked when a place came free. `NoLostWakeUp`: a getter (putter) sleeps only while every item (place) has a woken one on its way. `ShutdownWakes`, `JoinExact`. `ImplementsQueue`: refines `QueueSpec`. |
| `threading` | 3 threads, each primitive, Lock, Thread or Process | 648k, 40 s | `PermitsAreExact`, `NoMissedChange`, `WaitTellsTruth`, `BarrierIsExact`, `PassMeansMet`, `DepthIsExact`, `NoLostRelease`, `LockedTellsTruth`, `LifeIsSeen` |
| `threading_live` | 2 threads, each of them, and a queue of one place with 2 puts | 48k, 160 s | `PermitsAreTaken`, `SetReleasesAll`, `WakersReturn`, `GenerationEnds`, and `TimedCallsEnd`: a call of a primitive with a deadline always returns. `ItemsAreTaken`, `ShutdownEndsCalls`, `JoinEnds` of the queue |
| `executor` | 2 workers, 2 clients, 3 futures, 2 callbacks, 2 shutdowns | 178k, 20 s | `NoSendOnClosed`, `SettledOnce`, `CancelledNeverRuns`, `CallbackOnce`, `ShutdownCompletes`, `NothingLeftBehind` |
| `channels` | 2 futures and one waiter of each kind; or a Pool of 2 workers, 2 clients, 3 jobs | 146k, 70 s | `AnswersAreSettled`, `WaitEnds`; `JobsAnsweredOnce`, `PoolCallsEnd` |
| `runtime` | the eight components of `Runtime`, one at a time | 801k, 160 s | `CacheIsFresh` (2 threads, 3 classes, 3 assignments), `OrderIsSound` (all hierarchies of 5 classes), `ImplementsMap` (5 keys, 5 slots), `PlacesAreExact` (4 elements), `SorterKeepsOrder` (3 nodes), `CacheIsWhole` (6 modules), `EventsRunInTurn` (2 runners, 2 events), `LeastRecentGoes` (3 keys) |
| `queue_timed`, `sem_bound`, `barrier_timeout`, `futures_wait_all`, `inline_cache`, `lookup_order` | | | refute six statements of the repository, see [section 7](#7-where-code-and-documentation-disagree) |

Every run has `CHECK_DEADLOCK FALSE`, because every one of these systems may
stop: threads block in `get`, `join` or `wait` when nobody comes, clients
are not obliged to call anything, and the bounds end the rest. That nobody stays
blocked who should go on is said by the properties instead: `NoLostWakeUp`,
`NoLostRelease` and `PermitsAreExact` as invariants, the liveness properties under
fairness, and for the pool `NothingLeftBehind`.

**Reading `NothingLeftBehind`.** It speaks of the states in which no worker
and no running call has a step (`AtRest`): then every submitted future is settled
and closed, every callback has run, and no client is stuck. Each of those
steps moves a job, a future or a call towards its end and none back (the
state graph without new calls is finite and acyclic), so under weak fairness
of the goroutines the property gives "eventually settled" without a temporal
formula. `AtRest` lists the places where a step is possible; `RestIsQuiet` in
`MCExecutor` says that it is the absence of an enabled step, and TLC confirms it
when it is put among the invariants of `MCExecutor.cfg`. This is what allows the
run to use symmetry, which TLC's liveness checking does not support.

**Reading `JoinEnds` and `SetReleasesAll`.** Both suppose a condition that
stays (`<>[]`), because a woken thread looks again: `join` may sleep on when new
items arrive before it has the mutex, and an `Event` that is cleared at once may
miss a waiter. The first is as in CPython. The second is not: the wait of CPython's
Event does not look at the flag again once it was notified, and returns. goipy's loop does,
and a waiter it misses sleeps on until the next `set` or its deadline; the repository
promises nothing else. However often the flag changed before, all leave after the last `set`.

**Reading `PassMeansMet`.** A party of a generation that met may still be told that the
barrier is broken: by an `abort`, or by a deadline of the next generation, before it has
the mutex back. What the property excludes is that its *own* deadline breaks the barrier then,
and that a party passes whose generation neither met nor was reset. Who met is counted in
the calls of `wait`, not read off the barrier's counter.

**Reading `CacheIsFresh`.** It supposes that no assignment is under way: between
the write of the class dict and the bump of the epoch a cache may still answer with
the old value, which a reader cannot tell from having read a moment earlier.

**Reading `LifeIsSeen`.** `is_alive` is False, and the thread is not counted, for a
moment after `start` has chosen who spawns and for a moment before a finished
goroutine is gone. The invariant says where it has to be right: while the target runs,
and after a `join`. This depends on `wg.Add` preceding the goroutine; a `join` that was called before
`start` returned may come back at once.

**Reading `EventsRunInTurn`.** Its first half counts: an event is waiting,
cancelled, in the hands of one `run()`, lost with a `run()` that failed, or started,
and only one of these. Its second half says what leaves the heap was due and was the head
at that moment, not when it was looked at.

---------------------------------------------------------------------------

## 4. Bounds

| Bound | Where | Why it is enough |
|---|---|---|
| `Threads` | 3 for safety, 2 for liveness | one sleeper, one that was woken, one that overtakes it; with two the sleeper and the one that must wake it |
| `MaxPuts = 3` (2 for liveness) | SyncQueue | fills a queue of two and blocks a third put; fills a queue of one and blocks the others |
| `Sizes = {0, 1, 2}` | SyncQueue | unbounded, every put a hand-over, and a queue that is partly full |
| `RankMC` | MCSyncQueue | one tie and one strict order among three items |
| `Values`, `Releases`, `MaxCount` | Semaphore | none and one permit at the start; release of none (which notifies everyone), one, and two at once; the count is limited by the guard of `Release` and `Exit` |
| `MaxDepth = 3` | RLock | nested twice |
| `Counts = {0, 1, 2}` | Condition | everyone, one, several |
| `Sizes = {2, 3}`, `MaxGeneration = 2` | Barrier | one early party and two; two ends of a generation, so that a party may wake in the second after its own |
| `JobsPerWorker = 1` | Executor, Pool | the code has 4; with 2 workers the channel holds two jobs, so that the third finds it full when no worker is quick enough |
| `MaxShutdowns = 2` | Executor | two overlapping shutdowns |
| `N = 2` | FuturesWait | one settled before and one during or after the scan |
| `SmallRequests` | Pool | a call of one job and a call of two, in every style, at the same time |
| `ThreeClasses`, `MaxEpoch = 3`, `Functions`, `Properties` | ClassLookup | two ways to the root; an assignment between a read and a store of the epoch and one after it; a value the inline cache may keep and one it may not |
| `MaxClasses = 5` | ClassOrder | both ways to have no consistent order: a base named before a class that inherits from it, and two classes with the same bases in different orders above a third |
| `MaxSlots = 5`, `Slack = 1` | Dict | the code lets 8 tombstones be; with one, a compaction happens at two out of three slots |
| `FourHashes`, `ThreeHashes` | HashSet, Dict | three and two keys in one bucket, and one in another: the moved element may be in the same bucket as the hole or not |
| `Nodes`, `MaxBatch = 2` | TopologicalSorter | all graphs of three nodes; a batch that fails at its second node |
| `Tree`, `MaxObjects = 4` | Imports | a package with a module and a package of one module in it, a module on its own, one that is not there; a module that runs twice |
| `MaxTime = 1`, `Priorities = {1, 2}`, `MaxEvents = 2` | Scheduler | an event that is due and one that is not, ties in time and in priority; each of two runners may hold the event the other takes |
| `MaxSizes = {0, 1, 2}`, `MaxDepth = 2` | LruCache | unbounded, every store an eviction, and a cache that is partly full; a call within a call |

---------------------------------------------------------------------------

## 5. Fairness

* The Go scheduler runs every runnable goroutine, so each step that needs
  nothing but a turn is weakly fair: the resumption of a woken thread,
  `Receive`, `CleanUp`, the goroutines of `wait()`, workers, forwarders. Clocks advance:
  `DeadlinePasses` and `TimerWins` are weakly fair.
* Mutexes that are held only inside one action need nothing more: whoever wants
  them is enabled continuously. `sync.Mutex` hands itself to a waiter that has
  starved for a millisecond, which is what makes a turn certain.
* A `Condition`'s mutex is held across calls and may be free and taken again for
  ever. Its starvation mode is then strong fairness of `Lock` and `Relock`
  (`LocksUp`), and the properties suppose that holders keep releasing it
  (`[]<>(holder = NoThread)`).
* `sync.Cond` without order is *not* given fairness among sleepers: `Signal` may
  always choose another. The properties therefore say that a getter does not
  starve next to a buffer that stays non-empty, not that each getter gets an item.
* The functions of a Pool's jobs return, so that its workers and the goroutines that
  pass results on are fair (`Background`); so is each client within a call (`GoOn`).
* A queue's timer goroutines need none: no property that holds rests on them.
* No call is fair. Nobody is obliged to put, notify, release, close or shut down.

---------------------------------------------------------------------------

## 6. Proofs

TLAPS checks eight modules for every value of the constants that satisfies the named
assumptions, so for any number of threads, clients, futures, keys, classes or nodes, and
with no bound but what the specification itself has. The assumptions are what a reader of the
code would take for granted, and TLC evaluates them in every run:

* `SizeAssumption`, `RankAssumption` (a bound is an integer, and a rank a natural number),
  `ValuesAssumption` (the arguments in [section 8](#8-assumptions)), `NoThreadAssumption` and
  the like (a value that stands for "nobody" is nobody);
* the executor has finitely many workers and at least one, a Pool at least one process (the
  code takes `processes=` only when it is positive), and every job of a Pool a result channel
  of its own (`RequestsAssumption`);
* a class is created after its bases (`LookupConstants`), a key that is no str has a hash
  (`DictConstants`, `HashOfAssumption`), a graph is finite (`SorterConstants`), and a dotted
  name names the packages it goes through (`ImportConstants`).

Threads need not even be finitely many; only `WakeUpsKept` counts them and says so. Each
theorem about the composition (`ThreadingSpec`, `ChannelsSpec`, `RuntimeSpec`) first shows
that a step of another kind of object leaves this one alone; `XSafe == use = "X" => XInv` is
the form of the invariant.

`SequenceLemmas` has what the others rest on: what a sequence holds and in which order
after one element is removed, appended, renamed, taken from the front or from the end, or two
sequences are joined, and that every set of numbers has a least one (`LeastOne`, from
well-foundedness), which is how induction over places in a sequence or over classes is done below.

**SyncQueueProofs.** All five properties of the queue.

* `BoundHolds`: only `Accept` lengthens the buffer, and it follows the test of `IsFull` in the
  same critical section. `Typing` on the way: a blocked put carries an item,
  which `PutResume` appends.
* `ShutdownReachesAll`: a step keeps `ShutdownWakes` when it adds nobody to
  a wait list and leaves the flags alone (`Quiet`); the steps that put a
  thread to sleep do so only when the flags allow it (`SleepKeeps`), for join
  because an immediate shutdown and a zero count go together: `ShutdownInv`
  adds that nothing is unfinished after an immediate shutdown.
* `JoinIsExact`: `StepEffect` forgets who takes a step and whether it
  slept: it adds an item to an open queue with room, removes one from a queue that
  is not closed, reports one done, stops the queue, or leaves the buffer alone. By these
  effects the count is what is queued and in hand; `JoinersSafe`, shown
  action by action, says that a step which leaves somebody asleep in `join` leaves
  work too.
* `Implementation`: `Spec => ImplementsQueue`. Each effect is a step of
  `QueueSpec` or a stutter. `ShutdownInv` is needed because the
  gate is two flags: an immediate shutdown is a shutdown, so an accepted put finds
  the gate open. For `get`, `Removable` gives that no item left behind has a
  better claim, by class.
* `WakeUpsKept`: the invariant adds `QueuedInCall`: whoever is in a wait list is in the call
  that sleeps there, without which a signal on notEmpty might wake a thread that is not
  in `get`. The two halves (items and getters, places and putters) are treated alike by
  `Balance`: a step may add one to the need if it adds one to the woken threads, take a woken
  thread away if it lowers the need by one, empty the wait list, or leave no need.

**ThreadingProofs.** `Apart` is the invariant of chCond that all its clients share: a thread
sleeps when it is in the FIFO, and there once, or has a token, and never both; and whoever is
late sleeps and has a deadline that passed.

* `Permits` (Semaphore): the threads on their way are finitely many, and while anybody
  queues they are at least as many as the permits. `Notify(n)` raises both by n, or empties
  the queue; a thread leaves the way only with a permit or by finding none.
* `ChangesAreSeen` (Condition): the holder of the mutex is not in a call and does not
  want the mutex, so that the test of the predicate and the entry into the FIFO cannot be
  separated by a change; then no `wait_for` is queued once the change is announced.
  `AnswersAreTrue` rests on `Told`: a sleeper that a notify picked has its token, which
  `Receive` or the second look of `CleanUp` finds, and who wakes without one is due.
* `ArrivalsAreExact`, `NobodyPassesAlone` (Barrier): `Counted` (those present are as many as
  `waiting`, fewer than the parties), `Indexed` (two of a generation have different indices)
  and that whoever queues is of this generation and the barrier is whole. `Gathered` ties
  the history to it: while the barrier is whole those who called `wait` in this generation
  are those present, so that the last one completes the parties, and each past generation met
  or was reset.
* `LivesAreSeen` (Thread): the invariant is three phases, `Fresh`, `StartedBy(t)` and `Living(b)`,
  and in each what every flag, counter and list is exactly, as a function of the
  place where the starter or the goroutine is. That only one thread is ever in `start`
  rests on the compare-and-swap, and for a Process on there being one starter.
* `FlagTellsTruth` (Lock): at most one thread is between the two writes (`Inside`), and
  what the flag and the mutex are then. Another may come between only by taking a
  free mutex, or by releasing one that nobody is between: the guard `Releasable` of
  callers is what the second case rests on.
* `Exactness`, `Exclusion`, `ReleaseWakes` (RLock): the depth is the owner's acquires less its
  releases and everyone else has none; mutual exclusion, stated on this history and not on
  `owner`, follows; a free lock with parked threads has one on its way. The
  interesting steps are `Release` (signals exactly when the depth reaches zero) and
  `AcquireResume` of an overtaken thread (it parks again, but then the lock is not free).

**ExecutorProofs.** All six properties, from one invariant in five parts, each kept given those
before it: types; `Gate` (whoever sends has the mutex; the flag comes before the closing and
is not set while the mutex is held; workers leave a channel that is closed and
empty); `Hands` (one goroutine settles a future, and the state says where that one is);
`Kept` (a future that was submitted is queued, in hand, or done); `Once` (a callback is
listed at one future, copied by one goroutine, or called). `SendsAreSafe` is `Gate`,
`SettledByOne` and `OutcomeStays` are `Hands`, `CalledOnce` is `Once`; `RestIsEnd` and
`WorkIsOver` need `Kept`: there a future is lost unless every place it can be in is listed.

**ChannelsProofs.**

* `AnswersTell`: what was posted comes from a settled future and what was received is no
  longer in the channel.
* `AnsweredOnce`: `PoolInv` in six parts. `Staff`: those at work and those gone are at most the
  workers, and they go when the channel is closed and empty. `Batches`: clients have jobs of
  their own, each once, and send them in order. `Placed`: a job that was sent, and only such a
  job, is in one of five places (queued, with a worker, answered, passed on by a forwarder,
  with its caller). `Outcomes`: what an AsyncResult has cached is what became of its jobs.
  `Getters`: whoever receives a result has its mutex. TLC checked this invariant on the run
  `channels` before it was proved.

**ContainerProofs.**

* `SetsAreExact`: restated for each bucket as "it holds the places of the elements of its
  hash, each once" (`Exact`), to which the lemmas about sequences apply. `Found`
  shows that what `discard` finds in the bucket is the element, and `DiscardKeeps` has the two
  cases of the code: the element was the last one, or the last one moves. Then the bucket of
  the moved element loses the end of the slice and gains the hole, whether or not it is the
  bucket that has just lost the hole.
* `DictIsAMap`: `RuntimeSpec => ImplementsMap`. The invariant `DictInv` says that no key is
  live twice, that the map for str keys and the buckets lead to the live slots and nowhere
  else, and that `dead` counts the tombstones. The refinement mapping passes over the live slots
  (`InOrder`), so the proof needs to know how that pass changes: `InOrderIs` shows that it is the
  only enumeration of a set in order, and `OneMore`, `OneLess` what an enumeration with one number
  more at the end, or one less, is. So `set` of a new key is an append to the abstract map, a
  tombstone takes one entry out (`Buried`), and a compaction, though it moves every slot and
  rebuilds both maps, changes no entry (`CompactIs`).

**InterpreterProofs.**

* `ModulesAreWhole`: whatever depth packages have. The stack of statements and bodies is
  `Sane`: below every body is the statement that loads its module, no module is twice among
  the bodies, and the package of what a statement loads next is there to stay (`Stays`: whole, or
  its body is further down and so cannot fail before). `ChainsAreOrdered` shows that the two
  statements load a name in such an order.
* `CachesAreFresh`: the reference `Found` is a recursive function over the hierarchy. `FoundIn`
  makes the dict a parameter; that the function exists and is unique is shown by a least class on
  which two candidates differ, after which its equation can be used. A frame of a lookup that
  started in this epoch is `Right`: what it is about to store is what the reference says, and the
  bases it has passed have no such name. Frames nest with epochs that do not decrease
  (`Nested`), so an answer handed up is as fresh as the frame that gets it; and while an assignment
  is under way nothing is claimed, because its bump makes every entry old.
* `OrdersAreSound`: the order of a class begins with it, has each ancestor once, and keeps the
  orders of the bases and the order in which they are named if any order can; for hierarchies of
  any size. `Ancestors` is recursive too; `Reach`, the least set that has the class and the
  bases of its members, is not, and `AncestorsReach` shows that they are the same. The invariant
  `OrderInv` says of a merge that each list is behind exactly what has been picked, in the order of
  the list (`Rest`), so a merge that ends has respected them all (`MergedKeeps`). When no head is
  good, the heads that are left are a set in which each is behind another, so no order exists
  (`DepthFirstKeeps`): the fallback is taken only when it must be. Of the walk it says that
  every base of what was seen is seen or to come (`WalkInv`), so what it has seen in the end is
  closed. TLC checked this invariant on all hierarchies of 5 classes before it was proved.

**RuntimeProofs.**

* `TurnsAreKept` (sched): an event is in one place (`Handled`) and whoever is about to take one
  has found it due. The clock does not go back and an event does not change, so a stale look is
  harmless as long as `Pop` tests the head again.
* `NodesGoInOrder` (graphlib): the search's path is a path, each node once, with the edges
  already followed leading to finished nodes or to the next on the path (`PathIs`); the finished
  nodes are closed under predecessors and acyclic (`BehindIs`). So a reported cycle is one, and
  without one the graph is acyclic. Then in-degrees count unfinished predecessors
  (`WorkIs`), and in a graph without cycle something is always ready or out.
* `OldestGoes` (lru_cache): the slice has its size and what is cached is in it; as long as nothing
  is `tangled` it is the cached keys, each once, in the order of their last use (`Before`).

**Only model-checked.** Liveness, which needs fairness, and `RestIsQuiet`, which needs ENABLED:
the provers have neither. No listed run has `RestIsQuiet`; as the INVARIANT of `MCExecutor.cfg` it
holds in all 178,480 states of that instance (8 s). The six properties of [section 7](#7-where-code-and-documentation-disagree),
which do not hold.


---------------------------------------------------------------------------

## 7. Where code and documentation disagree

Each is a run that TLC ends with a counterexample.

1. **A timed `get` or `put` can sleep for ever** (`queue_timed`,
   `vm/stdlib_queue.go:150-168`). The goroutine of `qWaitTimeout` starts its timer
   before `deadline` is computed and broadcasts once. If the woken caller
   still reads a time before its deadline it waits again, and the one broadcast is
   spent. The comment at `:141` says it "Returns true if pred() became true,
   false on timeout."
2. **`with` over-releases a BoundedSemaphore** (`sem_bound`,
   `vm/stdlib_threading.go:651`). `__exit__` increments without the check that
   `release()` makes; `internal/testdata/189_threading.py:100` says
   "BoundedSemaphore: over-release raises".
3. **A reset hides a timeout from the other parties** (`barrier_timeout`,
   `vm/stdlib_threading.go:836`). A party that was asleep when a deadline broke the
   barrier, but has the mutex back only after `reset()`, finds an unbroken barrier in
   another generation and returns its index. `changelog/0.1.1.md:42-44`
   says that the others "wake and see `BrokenBarrierError`".
4. **`wait()` returns early** (`futures_wait_all`,
   `vm/stdlib_concurrent_futures.go:151`). A future that was settled before the
   scan is counted by the scan and again by its post, so that ALL_COMPLETED
   may be satisfied with another still open.
   `internal/testdata/192_concurrent_futures.py:178` asserts the contrary.
5. **An instruction goes on answering with the old attribute** (`inline_cache`,
   `vm/dispatch.go:310`). The inline cache of LOAD_ATTR compares the class of the
   instance and not the epoch, so an assignment to the class does not reach a
   location that has cached its attribute. `object/object.go:536` says
   "BumpClassEpoch invalidates every class method cache."
6. **Attribute lookup does not follow the C3 order** (`lookup_order`,
   `vm/ops.go:1883`). `classLookup` searches the bases depth first, each with all it
   inherits; `computeMRO` serves only `super()`, `__mro__` and the
   checks of `__slots__`. In a diamond the common
   base is found before the second branch. `changelog/0.0.331.md:10-11` says
   "C3 MRO linearization in place of depth-first traversal. Diamond inheritance now
   resolves methods in CPython-compatible order."

More was met while reading. It follows from one guard each, or nothing in the
repository says what should happen, so no run is spent on it; where the code is
modelled the models behave as it does.

* `get(timeout=0)` and `put(timeout=0)` sleep without a deadline
  (`vm/stdlib_queue.go:183`, `timeout > 0`), although the comment at `:339`
  distinguishes zero from no timeout.
* `Condition.notify(0)` wakes everyone (`vm/stdlib_threading.go:93`), and
  `release(-1)` lowers a semaphore's count (`:633`).
* A second `shutdown(cancel_futures=True)` may drain a closed channel and crash
  (`vm/stdlib_concurrent_futures.go:426`); a Pool closed while a call is sending
  crashes too (`vm/stdlib_multiprocessing.go:1073`).
* An AsyncResult's callback is called by whoever gets the result, so never if
  nobody does (`vm/stdlib_multiprocessing.go:1119-1128`).
* `Connection.poll` takes a message out and sends it back behind those that have
  arrived meanwhile (`vm/stdlib_multiprocessing.go:695`).
* `Context.run` merges a copy back at its end, so that a variable that was reset
  to missing inside keeps its value outside (`vm/stdlib_contextvars.go:303-314`).
* `resumeGenerator` sets `Running` and does not test it (`vm/generator.go:22-31`): a generator
  that resumes itself runs its frame inside itself.
* A package that raises after one of its submodules had loaded leaves that submodule in the
  cache, and importing it again does not make it an attribute of the new package
  (`vm/imports.go:226-231`; `lost` in `Imports`).

---------------------------------------------------------------------------

## 8. Assumptions

* Go's memory model: what a mutex guards is sequentially consistent, and so are
  atomics and channels.
* Arguments: `release(n)` is not negative; `parties` is positive; the bases of a class
  are distinct.
* `Condition.wait` and `wait_for` are called by the holder of the mutex and
  `release` by whoever locked it; a Lock is released only when it is held.
  Otherwise Go ends the process.
* A consumer calls `task_done` once for each item it took.
* Functions submitted to a pool return and do not use the pool themselves: a
  function that submits to its own full pool blocks a worker
  (`vm/stdlib_concurrent_futures.go:66`). The callback of an AsyncResult does not use it.
* A Process is started by one thread.
* Items of a PriorityQueue have a total preorder. A `__lt__` that raises counts as
  False in the heap.
* The hash of a key does not change, and hashing and comparing it neither fail nor use
  the table, whose mutex is held meanwhile (`object/dict.go:138`).
* A class dict is written by `setAttr`. What writes it directly (a decorator such as
  `total_ordering`) does so before the class is used.
* An lru_cache wrapper is called from one goroutine: its slice is not guarded.
* A client's thread makes one call at a time.

---------------------------------------------------------------------------

## 9. What is not modelled

* **SimpleQueue** is the unbounded queue without task_done, join and shutdown.
* **local and the thread identifiers** are maps each goroutine uses for itself.
* **multiprocessing's Queue, Pipe and Connection** are Go channels; Manager and
  shared memory put one mutex around a map or a buffer. **concurrent.interpreters**
  has a channel for each queue and runs calls in the caller.
* **asyncio** is a synchronous driver: a task runs to its end when it is created or
  awaited, so nothing interleaves. **Generators** are three flags around a suspended
  frame; what matters of them is the frame.
* **contextvars**: a stack of maps of one goroutine.
* **Instances of str subclasses as keys**, which equal a str and are yet looked for in the
  buckets; the frozenset, which does not change; metaclasses, descriptors and `super()`,
  which walks the same order; builtin modules, relative names and `reload`.
* **The opcodes, calls, operators and builtins**: sequential evaluation of the
  semantics of Python, several hundred cases without a protocol of their own. The
  repository compares them with CPython on `internal/testdata`. They, the library's
  parsers, formatters and tables, `lib/` and the command line are by far the most of
  the source, and what could be wrong there is in the data: a model would repeat the program.
* **Copies of the module cache**: a thread gets one of its own (`vm/interp.go:178-183`),
  which behaves as `Imports` says.

---------------------------------------------------------------------------

## 10. Plan

Done: the queue with its abstract specification; the synchronisation primitives, with Lock,
RLock and Thread; the executor, `wait()`, `as_completed()`, `map()` and the Pool; of the
interpreter the lookup caches, the class order, the dict with its abstract specification, the
set and the module cache; graphlib, sched and lru_cache. Every safety property of the runs
that pass is a theorem.

Next:

1. Generators and the driver of asyncio on top of them, once the repository says what a
   generator that resumes itself should do.
2. Larger instances: three events in `Scheduler`, four nodes in `TopologicalSorter`.
