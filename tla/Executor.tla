------------------------------- MODULE Executor -------------------------------
(***************************************************************************)
(* ThreadPoolExecutor and its Futures (vm/stdlib_concurrent_futures.go):   *)
(* worker goroutines that receive jobs from a bounded channel, and client  *)
(* threads that submit, cancel, add callbacks and shut the pool down.      *)
(*                                                                         *)
(* A future's state is an atomic integer, changed by compare-and-swap; its *)
(* result and callbacks are under its own mutex; done is a channel that is *)
(* closed.  Settling a future is therefore several steps, and so is        *)
(* shutting down, with other goroutines in between.                        *)
(*                                                                         *)
(* The functions submitted return and do not use the executor themselves.  *)
(* A future is submitted once and a callback added once.                   *)
(***************************************************************************)
EXTENDS Integers, Sequences, SequencesExt, FiniteSets

CONSTANTS
    Workers,        \* the goroutines of the pool: max_workers of them
    Clients,        \* the threads that use it
    Futures,        \* the futures they submit
    Callbacks,      \* the callbacks they add
    JobsPerWorker,  \* 4: what the channel holds for each worker
    MaxShutdowns,   \* bound: how many calls of shutdown
    Nobody,         \* the mutex is free
    NoFuture        \* no job in hand

ASSUME ActorsAssumption ==
    Workers \cap Clients = {} /\ Nobody \notin Clients /\ NoFuture \notin Futures
ASSUME SizesAssumption ==
    /\ IsFiniteSet(Workers) /\ Workers # {}
    /\ JobsPerWorker \in Nat \ {0} /\ MaxShutdowns \in Nat

VARIABLES
    state,      \* f.state; "new" before submit
    callbacks,  \* f.callbacks
    done,       \* futures whose done channel is closed
    jobs,       \* ps.jobs
    closed,     \* ps.jobs is closed
    mu,         \* who holds ps.mu while blocked in trySubmit
    shutdown,   \* ps.shutdown
    pc,         \* where each goroutine is
    job,        \* the future it is working on
    taken,      \* callbacks it has copied and still has to call
    waits,      \* clients whose shutdown has wait=True
    drains,     \* clients inside the drain loop of shutdown(cancel_futures=True)
    shutdowns,  \* history: calls of shutdown
    crashed,    \* a nil job was used: the process is gone
    ran,        \* history: how often each callback was called
    calls       \* history: how often each function was called

vars == <<state, callbacks, done, jobs, closed, mu, shutdown, pc, job, taken,
          waits, drains, shutdowns, crashed, ran, calls>>

Actors == Workers \cup Clients
Capacity == JobsPerWorker * Cardinality(Workers)

Settled(f) == state[f] \in {"cancelled", "finished"}

pool == <<jobs, closed, mu, shutdown>>
stop == <<waits, drains, shutdowns, crashed>>
history == <<ran, calls>>

Goto(a, place) == pc' = [pc EXCEPT ![a] = place]

-----------------------------------------------------------------------------
(* submit *)

\* Mutant of SubmitCall: the flag is not looked at.
SubmitCallUnchecked(t, f) ==
    /\ pc[t] = "idle" /\ state[f] = "new" /\ mu = Nobody
    /\ \A a \in Actors : job[a] # f
    /\ mu' = t
    /\ job' = [job EXCEPT ![t] = f]
    /\ Goto(t, "sending")
    /\ UNCHANGED <<state, callbacks, done, jobs, closed, shutdown, taken, stop, history>>

(* trySubmit takes the mutex and goes on to the send, holding it.  After   *)
(* shutdown it raises RuntimeError and changes nothing.                    *)
SubmitCall(t, f) ==
    /\ pc[t] = "idle" /\ state[f] = "new" /\ mu = Nobody
    /\ \A a \in Actors : job[a] # f
    /\ ~shutdown
    /\ mu' = t
    /\ job' = [job EXCEPT ![t] = f]
    /\ Goto(t, "sending")
    /\ UNCHANGED <<state, callbacks, done, jobs, closed, shutdown, taken, stop, history>>

(* ps.jobs <- job blocks while the channel is full.                        *)
Send(t) ==
    /\ pc[t] = "sending" /\ Len(jobs) < Capacity
    /\ jobs' = Append(jobs, job[t])
    /\ state' = [state EXCEPT ![job[t]] = "pending"]
    /\ job' = [job EXCEPT ![t] = NoFuture]
    /\ mu' = Nobody
    /\ Goto(t, "idle")
    /\ UNCHANGED <<callbacks, done, closed, shutdown, taken, stop, history>>

-----------------------------------------------------------------------------
(* a worker *)

Receive(w) ==
    /\ pc[w] = "idle" /\ jobs # <<>>
    /\ job' = [job EXCEPT ![w] = Head(jobs)]
    /\ jobs' = Tail(jobs)
    /\ Goto(w, "received")
    /\ UNCHANGED <<state, callbacks, done, closed, mu, shutdown, taken, stop, history>>

\* Mutant of Claim: the state is stored, not compared and swapped.
ClaimUnchecked(w) ==
    /\ pc[w] = "received"
    /\ state' = [state EXCEPT ![job[w]] = "running"]
    /\ calls' = [calls EXCEPT ![job[w]] = @ + 1]
    /\ Goto(w, "calling")
    /\ UNCHANGED <<callbacks, done, pool, job, taken, stop, ran>>

(* CompareAndSwap(Pending, Running); a job cancelled meanwhile is dropped. *)
Claim(w) ==
    /\ pc[w] = "received"
    /\ \/ /\ state[job[w]] = "pending"
          /\ state' = [state EXCEPT ![job[w]] = "running"]
          /\ calls' = [calls EXCEPT ![job[w]] = @ + 1]
          /\ Goto(w, "calling")
          /\ UNCHANGED job
       \/ /\ state[job[w]] # "pending"
          /\ job' = [job EXCEPT ![w] = NoFuture]
          /\ Goto(w, "idle")
          /\ UNCHANGED <<state, calls>>
    /\ UNCHANGED <<callbacks, done, pool, taken, stop, ran>>

\* Mutant of TakeCallbacks: the copy is made, the list is not emptied.
TakeCallbacksKept(a) ==
    /\ taken' = [taken EXCEPT ![a] = callbacks[job[a]]]
    /\ UNCHANGED callbacks

(* The callbacks are copied and the list is emptied.                       *)
TakeCallbacks(a) ==
    /\ taken' = [taken EXCEPT ![a] = callbacks[job[a]]]
    /\ callbacks' = [callbacks EXCEPT ![job[a]] = <<>>]

(* The function returned: the critical section that stores its result.     *)
Finish(w) ==
    /\ pc[w] = "calling"
    /\ state' = [state EXCEPT ![job[w]] = "finished"]
    /\ TakeCallbacks(w)
    /\ Goto(w, "closing")
    /\ UNCHANGED <<done, pool, job, stop, history>>

(* The range over the channel ends: closed and empty.                      *)
Exit(w) ==
    /\ pc[w] = "idle" /\ closed /\ jobs = <<>>
    /\ Goto(w, "exited")
    /\ UNCHANGED <<state, callbacks, done, pool, job, taken, stop, history>>

-----------------------------------------------------------------------------
(* cancel, and what settling a future has in common *)

\* Mutant of CancelClaim: a running future is cancelled too.
CancelClaimRunning(t, f, next) ==
    IF state[f] \in {"pending", "running"}
    THEN /\ state' = [state EXCEPT ![f] = "cancelled"]
         /\ job' = [job EXCEPT ![t] = f]
         /\ Goto(t, "taking")
    ELSE Goto(t, next) /\ UNCHANGED <<state, job>>

(* cfCancelFuture begins with CompareAndSwap(Pending, Cancelled).          *)
CancelClaim(t, f, next) ==
    IF state[f] = "pending"
    THEN /\ state' = [state EXCEPT ![f] = "cancelled"]
         /\ job' = [job EXCEPT ![t] = f]
         /\ Goto(t, "taking")
    ELSE Goto(t, next) /\ UNCHANGED <<state, job>>

(* cancel(), of a future that submit has returned.                         *)
CancelCall(t, f) ==
    /\ pc[t] = "idle" /\ state[f] # "new"
    /\ CancelClaim(t, f, "idle")
    /\ UNCHANGED <<callbacks, done, pool, taken, stop, history>>

(* The critical section of cfCancelFuture.                                 *)
Take(t) ==
    /\ pc[t] = "taking"
    /\ TakeCallbacks(t)
    /\ Goto(t, "closing")
    /\ UNCHANGED <<state, done, pool, job, stop, history>>

(* close(f.done)                                                           *)
Close(a) ==
    /\ pc[a] = "closing"
    /\ done' = done \cup {job[a]}
    /\ Goto(a, "notifying")
    /\ UNCHANGED <<state, callbacks, pool, job, taken, stop, history>>

(* The callbacks run in the order they were added, in this goroutine.      *)
Notify(a) ==
    /\ pc[a] = "notifying"
    /\ \/ /\ taken[a] # <<>>
          /\ ran' = [ran EXCEPT ![Head(taken[a])] = @ + 1]
          /\ taken' = [taken EXCEPT ![a] = Tail(@)]
          /\ UNCHANGED <<job, pc>>
       \/ /\ taken[a] = <<>>
          /\ job' = [job EXCEPT ![a] = NoFuture]
          /\ Goto(a, IF a \in drains THEN "draining" ELSE "idle")
          /\ UNCHANGED <<ran, taken>>
    /\ UNCHANGED <<state, callbacks, done, pool, stop, calls>>

Listed(c) ==
    \/ ran[c] > 0
    \/ \E f \in Futures : c \in ToSet(callbacks[f])
    \/ \E a \in Actors : c \in ToSet(taken[a])

(* add_done_callback: listed, or called at once when the future is settled.*)
AddCallback(t, f, c) ==
    /\ pc[t] = "idle" /\ state[f] # "new" /\ ~Listed(c)
    /\ \/ /\ ~Settled(f)
          /\ callbacks' = [callbacks EXCEPT ![f] = Append(@, c)]
          /\ UNCHANGED ran
       \/ /\ Settled(f)
          /\ ran' = [ran EXCEPT ![c] = @ + 1]
          /\ UNCHANGED callbacks
    /\ UNCHANGED <<state, done, pool, pc, job, taken, stop, calls>>

-----------------------------------------------------------------------------
(* shutdown *)

(* The flag is set under the mutex, which a blocked submit keeps.          *)
ShutdownCall(t, wait, cancel) ==
    /\ pc[t] = "idle" /\ mu = Nobody
    /\ shutdowns < MaxShutdowns
    /\ shutdowns' = shutdowns + 1
    /\ shutdown' = TRUE
    /\ waits' = IF wait THEN waits \cup {t} ELSE waits \ {t}
    /\ drains' = IF cancel THEN drains \cup {t} ELSE drains
    /\ Goto(t, IF cancel THEN "draining" ELSE "stopping")
    /\ UNCHANGED <<state, callbacks, done, jobs, closed, mu, job, taken, crashed,
                   history>>

\* Mutant of Drain: the jobs taken out are not cancelled.
DrainDrops(t) ==
    /\ pc[t] = "draining"
    /\ jobs' = IF jobs = <<>> THEN jobs ELSE Tail(jobs)
    /\ drains' = IF jobs = <<>> THEN drains \ {t} ELSE drains
    /\ Goto(t, IF jobs = <<>> THEN "stopping" ELSE "draining")
    /\ UNCHANGED <<state, job, crashed, callbacks, done, closed, mu, shutdown, taken,
                   waits, shutdowns, history>>

(* One turn of the drain loop.  A closed channel yields a nil job.         *)
Drain(t) ==
    /\ pc[t] = "draining"
    /\ \/ /\ jobs # <<>>
          /\ jobs' = Tail(jobs)
          /\ CancelClaim(t, Head(jobs), "draining")
          /\ UNCHANGED <<drains, crashed>>
       \/ /\ jobs = <<>> /\ ~closed
          /\ drains' = drains \ {t}
          /\ Goto(t, "stopping")
          /\ UNCHANGED <<state, jobs, job, crashed>>
       \/ /\ jobs = <<>> /\ closed
          /\ crashed' = TRUE
          /\ UNCHANGED <<state, jobs, job, pc, drains>>
    /\ UNCHANGED <<callbacks, done, closed, mu, shutdown, taken, waits, shutdowns,
                   history>>

(* doClose                                                                 *)
CloseJobs(t) ==
    /\ pc[t] = "stopping"
    /\ closed' = TRUE
    /\ Goto(t, IF t \in waits THEN "waiting" ELSE "idle")
    /\ UNCHANGED <<state, callbacks, done, jobs, mu, shutdown, job, taken, stop,
                   history>>

\* Mutant of WaitEnds: wait=True is forgotten.
WaitEndsEarly(t) ==
    /\ pc[t] = "waiting"
    /\ Goto(t, "idle")
    /\ UNCHANGED <<state, callbacks, done, pool, job, taken, stop, history>>

(* ps.wg.Wait()                                                            *)
WaitEnds(t) ==
    /\ pc[t] = "waiting"
    /\ \A w \in Workers : pc[w] = "exited"
    /\ Goto(t, "idle")
    /\ UNCHANGED <<state, callbacks, done, pool, job, taken, stop, history>>

-----------------------------------------------------------------------------

Init ==
    /\ state = [f \in Futures |-> "new"]
    /\ callbacks = [f \in Futures |-> <<>>]
    /\ done = {}
    /\ jobs = <<>>
    /\ closed = FALSE
    /\ mu = Nobody
    /\ shutdown = FALSE
    /\ pc = [a \in Actors |-> "idle"]
    /\ job = [a \in Actors |-> NoFuture]
    /\ taken = [a \in Actors |-> <<>>]
    /\ waits = {}
    /\ drains = {}
    /\ shutdowns = 0
    /\ crashed = FALSE
    /\ ran = [c \in Callbacks |-> 0]
    /\ calls = [f \in Futures |-> 0]

Work(w) == Receive(w) \/ Claim(w) \/ Finish(w) \/ Exit(w) \/ Close(w) \/ Notify(w)

GoOn(t) == Send(t) \/ Take(t) \/ Close(t) \/ Notify(t) \/ Drain(t) \/ CloseJobs(t)
           \/ WaitEnds(t)

Next ==
    /\ ~crashed
    /\ \/ \E w \in Workers : Work(w)
       \/ \E t \in Clients :
             \/ GoOn(t)
             \/ \E f \in Futures :
                   \/ SubmitCall(t, f)
                   \/ CancelCall(t, f)
                   \/ \E c \in Callbacks : AddCallback(t, f, c)
             \/ \E wait, cancel \in BOOLEAN : ShutdownCall(t, wait, cancel)

Spec == Init /\ [][Next]_vars

-----------------------------------------------------------------------------

(* The values of the variables, and the channel within its capacity.       *)
Places == {"idle", "sending", "received", "calling", "taking", "closing",
           "notifying", "draining", "stopping", "waiting", "exited"}
TypeOK ==
    /\ state \in [Futures -> {"new", "pending", "running", "cancelled", "finished"}]
    /\ callbacks \in [Futures -> Seq(Callbacks)]
    /\ done \in SUBSET Futures
    /\ jobs \in Seq(Futures) /\ Len(jobs) <= Capacity
    /\ mu \in Clients \cup {Nobody}
    /\ {closed, shutdown, crashed} \subseteq BOOLEAN
    /\ pc \in [Actors -> Places]
    /\ job \in [Actors -> Futures \cup {NoFuture}]
    /\ taken \in [Actors -> Seq(Callbacks)]
    /\ {waits, drains} \subseteq SUBSET Clients
    /\ shutdowns \in 0..MaxShutdowns
    /\ ran \in [Callbacks -> Nat]
    /\ calls \in [Futures -> Nat]

(* No goroutine is about to send on the closed channel, which would panic: *)
(* trySubmit looks at the flag and sends under the mutex that shutdown     *)
(* takes before it closes.                                                 *)
NoSendOnClosed == \A t \in Clients : pc[t] = "sending" => ~closed

(* Whoever finds done closed finds the future settled, and one goroutine   *)
(* settles it: nobody closes a done channel twice, which would panic.      *)
SettledOnce ==
    /\ \A f \in done : Settled(f)
    /\ \A a \in Actors : pc[a] \in {"taking", "closing"} => job[a] \notin done
    /\ \A a, b \in {x \in Actors : pc[x] \in {"calling", "taking", "closing"}} :
          job[a] = job[b] => a = b

(* A settled future stays as it is, a function is called at most once, and *)
(* that of a cancelled future never (f.cancel() returned True).            *)
CancelledNeverRuns ==
    [][\A f \in Futures :
          /\ calls'[f] <= 1
          /\ Settled(f) => state'[f] = state[f] /\ calls'[f] = calls[f]]_vars

(* However add_done_callback, cancel and the worker interleave, a callback *)
(* is in exactly one place: listed, copied, or called, once.               *)
CallbackOnce ==
    /\ \A c \in Callbacks :
          ran[c] + Cardinality({f \in Futures : c \in ToSet(callbacks[f])})
                 + Cardinality({a \in Actors : c \in ToSet(taken[a])}) <= 1
    /\ \A f \in done : callbacks[f] = <<>>

(* When shutdown(wait=True) returns, every future that was submitted is    *)
(* settled, those that finished have their callbacks called, and none can  *)
(* be submitted any more.                                                  *)
ShutdownCompletes ==
    [][\A t \in Clients : pc[t] = "waiting" /\ pc'[t] = "idle" =>
          /\ shutdown /\ mu = Nobody
          /\ \A f \in Futures :
                /\ state[f] \in {"new", "cancelled", "finished"}
                /\ state[f] = "finished" => f \in done
          /\ \A w \in Workers : taken[w] = <<>>]_vars

(* Nothing goes on by itself: no worker and no call of a client has a step *)
(* left, a send because the channel is full, a wait because a worker is    *)
(* there.  A behaviour in which nobody calls anything any more gets here,  *)
(* because each of those steps brings a job, a future or a call closer to  *)
(* its end and none goes back.                                             *)
AtRest ==
    /\ ~crashed
    /\ \A w \in Workers :
          \/ pc[w] = "exited"
          \/ pc[w] = "idle" /\ jobs = <<>> /\ ~closed
    /\ \A t \in Clients :
          \/ pc[t] = "idle"
          \/ pc[t] = "sending" /\ Len(jobs) >= Capacity
          \/ pc[t] = "waiting" /\ \E w \in Workers : pc[w] # "exited"

(* When everything has come to rest, every future that was submitted is    *)
(* settled and its done channel closed (by a worker, by cancel or by       *)
(* shutdown, whichever overtook the others), every callback that was added *)
(* has been called, and submit, cancel and shutdown have returned: nobody  *)
(* is blocked on the full channel, on the mutex or waiting for the workers.*)
NothingLeftBehind ==
    AtRest => /\ \A f \in Futures : state[f] # "new" => f \in done
              /\ \A c \in Callbacks : Listed(c) => ran[c] > 0
              /\ mu = Nobody /\ \A t \in Clients : pc[t] = "idle"
=============================================================================
