---------------------------------- MODULE Pool ----------------------------------
(***************************************************************************)
(* multiprocessing.Pool and AsyncResult                                    *)
(* (vm/stdlib_multiprocessing.go:714-1165): worker goroutines that range   *)
(* over a bounded channel of jobs, one channel of capacity one for each    *)
(* job's result, and callers that collect the results in their own ways.   *)
(* Each client makes one call, over some of the jobs; the AsyncResult or   *)
(* the iterator it returns goes by the client's name, and others may use   *)
(* the AsyncResult.                                                        *)
(*                                                                         *)
(* No mutex keeps close from coming between a call's look at the closed    *)
(* flag and its sends, or while a send is blocked: to send then panics and *)
(* the process is gone (crashed).                                          *)
(*                                                                         *)
(* The functions return or raise and, like the callbacks, do not use the   *)
(* pool or its results themselves.                                         *)
(***************************************************************************)
EXTENDS Integers, Sequences, SequencesExt, FiniteSets

CONSTANTS
    Processes,      \* how many worker goroutines there are
    Clients,        \* the threads that use it
    Requests,       \* the calls they make: a style and a sequence of jobs
    JobsPerWorker,  \* 4: what the channel holds for each worker
    Nobody          \* no thread, no call

Jobs == UNION {ToSet(r[2]) : r \in Requests}
Styles == {"map", "map_async", "apply_async", "imap", "imap_unordered"}

(* processes= is taken only when it is positive.                           *)
ASSUME SizesAssumption ==
    Processes \in Nat \ {0} /\ JobsPerWorker \in Nat \ {0} /\ Nobody \notin Clients

(* A job goes by its result channel, which each call makes anew.           *)
ASSUME RequestsAssumption ==
    /\ Requests \subseteq Styles \X Seq(Jobs)
    /\ \A r \in Requests :
          /\ r[2] # <<>> /\ IsInjective(r[2])
          /\ r[1] = "apply_async" => Len(r[2]) = 1

VARIABLES
    raised,     \* the jobs whose function raised
    jobs,       \* the channel
    closed,     \* ps.closed; the channel is closed with it
    crashed,    \* somebody sent on the closed channel
    running,    \* the jobs the workers have in hand
    exited,     \* how many of them are gone
    answered,   \* the jobs whose result channel is full
    style,      \* of each client's call
    batch,      \* the jobs of it
    sent,       \* how many of them it has sent
    out,        \* the jobs whose results it has handed over, in that order
    pc,         \* where each client is
    merged,     \* imap_unordered: results the forwarders have passed on
    agg,        \* map_async: "none", what is in aggCh, or "taken"
    cached,     \* AsyncResult: cached, or "none"
    mu,         \* who holds its mutex while blocked in getResult
    wants,      \* whose AsyncResult a client is getting
    calls       \* history: how often its callback or error_callback was called

pool == <<raised, jobs, closed, crashed, running, exited>>
results == <<agg, cached, mu, wants, calls>>
own == <<style, batch, sent, out>>

vars == <<pool, answered, own, pc, merged, results>>

Capacity == JobsPerWorker * Processes

IdleWorker == Cardinality(running) + exited < Processes

Goto(t, p) == pc' = [pc EXCEPT ![t] = p]

-----------------------------------------------------------------------------
(* the workers *)

Receive ==
    /\ IdleWorker /\ jobs # <<>>
    /\ running' = running \cup {Head(jobs)}
    /\ jobs' = Tail(jobs)
    /\ UNCHANGED <<raised, closed, crashed, exited, answered, own, pc, merged, results>>

(* The function is called and its result or error sent.  The channel has   *)
(* room: a job has one result.                                             *)
Answer(j) ==
    /\ j \in running
    /\ running' = running \ {j}
    /\ raised' \in {raised, raised \cup {j}}
    /\ answered' = answered \cup {j}
    /\ UNCHANGED <<jobs, closed, crashed, exited, own, pc, merged, results>>

\* Mutant of Exit: the worker looks at the flag, not at the channel.
ExitOnFlag ==
    /\ IdleWorker /\ closed
    /\ exited' = exited + 1
    /\ UNCHANGED <<raised, jobs, closed, crashed, running, answered, own, pc, merged, results>>

(* The range over the channel ends: closed and empty.                      *)
Exit ==
    /\ IdleWorker /\ closed /\ jobs = <<>>
    /\ exited' = exited + 1
    /\ UNCHANGED <<raised, jobs, closed, crashed, running, answered, own, pc, merged, results>>

-----------------------------------------------------------------------------
(* the calls *)

(* apply and starmap are map, starmap_async is map_async without an        *)
(* error_callback.  On a closed pool they raise ValueError.                *)
Call(t, s, b) ==
    /\ pc[t] = "idle" /\ style[t] = "none"
    /\ ~closed
    /\ \A c \in Clients : ToSet(batch[c]) \cap ToSet(b) = {}
    /\ style' = [style EXCEPT ![t] = s]
    /\ batch' = [batch EXCEPT ![t] = b]
    /\ Goto(t, "sending")
    /\ UNCHANGED <<pool, answered, sent, out, merged, results>>

(* jobs <- poolJob{...} blocks while the channel is full.  After the last  *)
(* one map collects and the others return.                                 *)
Send(t) ==
    /\ pc[t] = "sending"
    /\ \/ /\ ~closed /\ Len(jobs) < Capacity
          /\ jobs' = Append(jobs, batch[t][sent[t] + 1])
          /\ sent' = [sent EXCEPT ![t] = @ + 1]
          /\ IF sent'[t] < Len(batch[t]) THEN UNCHANGED pc
             ELSE Goto(t, IF style[t] = "map" THEN "collecting" ELSE "idle")
          /\ UNCHANGED crashed
       \/ /\ closed
          /\ crashed' = TRUE
          /\ UNCHANGED <<jobs, sent, pc>>
    /\ UNCHANGED <<raised, closed, running, exited, answered, style, batch, out, merged, results>>

Handed(t) == Len(out[t])

(* r := <-chs[k], for the next k.                                          *)
TakeNext(t) ==
    /\ Handed(t) < sent[t]
    /\ batch[t][Handed(t) + 1] \in answered
    /\ answered' = answered \ {batch[t][Handed(t) + 1]}
    /\ out' = [out EXCEPT ![t] = Append(@, batch[t][Handed(t) + 1])]

(* What it was.                                                            *)
Outcome(t) == IF batch[t][Handed(t) + 1] \in raised THEN "error" ELSE "value"

(* An error ends the collection; the rest stays in its channels.           *)
Collect(t) ==
    /\ pc[t] = "collecting"
    /\ TakeNext(t)
    /\ IF Handed(t) + 1 = Len(batch[t]) \/ Outcome(t) = "error"
       THEN Goto(t, "idle") ELSE UNCHANGED pc
    /\ UNCHANGED <<pool, style, batch, sent, merged, results>>

-----------------------------------------------------------------------------
(* the iterators *)

(* The caller's next on the iterator that imap or imap_unordered returned. *)
NextCall(t) ==
    /\ pc[t] = "idle" /\ style[t] \in {"imap", "imap_unordered"}
    /\ Handed(t) < Len(batch[t])
    /\ Goto(t, "iterating")
    /\ UNCHANGED <<pool, answered, own, merged, results>>

(* The goroutine of one job of imap_unordered.                             *)
Forward(t) ==
    /\ style[t] = "imap_unordered"
    /\ \E j \in ToSet(SubSeq(batch[t], 1, sent[t])) \cap answered :
          /\ answered' = answered \ {j}
          /\ merged' = [merged EXCEPT ![t] = Append(@, j)]
    /\ UNCHANGED <<pool, own, pc, results>>

(* It raises the error of a job that failed and goes on after it.          *)
NextReturns(t) ==
    /\ pc[t] = "iterating"
    /\ \/ style[t] = "imap" /\ TakeNext(t) /\ UNCHANGED merged
       \/ /\ style[t] = "imap_unordered" /\ merged[t] # <<>>
          /\ out' = [out EXCEPT ![t] = Append(@, Head(merged[t]))]
          /\ merged' = [merged EXCEPT ![t] = Tail(@)]
          /\ UNCHANGED answered
    /\ Goto(t, "idle")
    /\ UNCHANGED <<pool, style, batch, sent, results>>

-----------------------------------------------------------------------------
(* AsyncResult *)

(* The goroutine of map_async, which starts when all jobs are sent.        *)
Aggregate(t) ==
    /\ style[t] = "map_async" /\ sent[t] = Len(batch[t])
    /\ agg[t] = "none"
    /\ TakeNext(t)
    /\ agg' = [agg EXCEPT ![t] = IF Outcome(t) = "error" THEN "error"
                                 ELSE IF Handed(t) + 1 = Len(batch[t]) THEN "value" ELSE @]
    /\ UNCHANGED <<pool, style, batch, sent, pc, merged, cached, mu, wants, calls>>

(* r := <-ch; cached = &r.                                                 *)
TakeResult(r) ==
    \/ /\ style[r] = "apply_async" /\ TakeNext(r)
       /\ cached' = [cached EXCEPT ![r] = Outcome(r)]
       /\ UNCHANGED agg
    \/ /\ style[r] = "map_async" /\ agg[r] \in {"value", "error"}
       /\ cached' = [cached EXCEPT ![r] = agg[r]]
       /\ agg' = [agg EXCEPT ![r] = "taken"]
       /\ UNCHANGED <<answered, out>>

IsResult(r) == style[r] \in {"apply_async", "map_async"} /\ pc[r] # "sending"

(* get() and wait(), whose timeout is ignored.                             *)
GetCall(t, r) ==
    /\ pc[t] = "idle" /\ IsResult(r)
    /\ wants' = [wants EXCEPT ![t] = r]
    /\ Goto(t, "getting")
    /\ UNCHANGED <<pool, answered, own, merged, agg, cached, mu, calls>>

\* Mutant of GetLocks: a result that is cached is not looked for.
GetLocksBlind(t) ==
    /\ pc[t] = "getting" /\ mu[wants[t]] = Nobody
    /\ mu' = [mu EXCEPT ![wants[t]] = t]
    /\ Goto(t, "receiving")
    /\ UNCHANGED <<pool, answered, own, merged, agg, cached, wants, calls>>

(* mu.Lock; then the result that is cached, or the wait for the channel,   *)
(* with the mutex held.                                                    *)
GetLocks(t) ==
    LET r == wants[t] IN
    /\ pc[t] = "getting" /\ mu[r] = Nobody
    /\ \/ /\ cached[r] # "none"
          /\ wants' = [wants EXCEPT ![t] = Nobody]
          /\ Goto(t, "idle")
          /\ UNCHANGED mu
       \/ /\ cached[r] = "none"
          /\ mu' = [mu EXCEPT ![r] = t]
          /\ Goto(t, "receiving")
          /\ UNCHANGED wants
    /\ UNCHANGED <<pool, answered, own, merged, agg, cached, calls>>

(* The result arrives and the callback is called, still under the mutex.   *)
GetReceives(t) ==
    LET r == wants[t] IN
    /\ pc[t] = "receiving"
    /\ TakeResult(r)
    /\ calls' = [calls EXCEPT ![r] = @ + 1]
    /\ mu' = [mu EXCEPT ![r] = Nobody]
    /\ wants' = [wants EXCEPT ![t] = Nobody]
    /\ Goto(t, "idle")
    /\ UNCHANGED <<pool, style, batch, sent, merged>>

(* ready(), which waits for the mutex, takes a result that is there and    *)
(* calls no callback.  Where it finds nothing, or something cached, it     *)
(* changes nothing; so does successful().                                  *)
Ready(t, r) ==
    /\ pc[t] = "idle" /\ IsResult(r) /\ mu[r] = Nobody /\ cached[r] = "none"
    /\ TakeResult(r)
    /\ UNCHANGED <<pool, style, batch, sent, pc, merged, mu, wants, calls>>

-----------------------------------------------------------------------------
(* the end *)

(* close, terminate; terminate does not drop what is queued.               *)
Close(t) ==
    /\ pc[t] = "idle" /\ ~closed
    /\ closed' = TRUE
    /\ UNCHANGED <<raised, jobs, crashed, running, exited, answered, own, pc, merged, results>>

(* join waits for the workers; __exit__ is close and join.                 *)
JoinCall(t) ==
    /\ pc[t] = "idle"
    /\ Goto(t, "joining")
    /\ UNCHANGED <<pool, answered, own, merged, results>>

JoinReturns(t) ==
    /\ pc[t] = "joining" /\ exited = Processes
    /\ Goto(t, "idle")
    /\ UNCHANGED <<pool, answered, own, merged, results>>

-----------------------------------------------------------------------------

Init ==
    /\ raised = {} /\ jobs = <<>> /\ closed = FALSE /\ crashed = FALSE
    /\ running = {} /\ exited = 0
    /\ answered = {}
    /\ style = [t \in Clients |-> "none"]
    /\ batch = [t \in Clients |-> <<>>]
    /\ sent = [t \in Clients |-> 0]
    /\ out = [t \in Clients |-> <<>>]
    /\ pc = [t \in Clients |-> "idle"]
    /\ merged = [t \in Clients |-> <<>>]
    /\ agg = [t \in Clients |-> "none"]
    /\ cached = [t \in Clients |-> "none"]
    /\ mu = [t \in Clients |-> Nobody]
    /\ wants = [t \in Clients |-> Nobody]
    /\ calls = [t \in Clients |-> 0]

Work == Receive \/ (\E j \in running : Answer(j)) \/ Exit

GoOn(t) ==
    \/ Send(t) \/ Collect(t)
    \/ NextReturns(t)
    \/ GetLocks(t) \/ GetReceives(t)
    \/ JoinReturns(t)

Background == Work \/ (\E t \in Clients : Forward(t) \/ Aggregate(t))

Calls(t) ==
    \/ \E r \in Requests : Call(t, r[1], r[2])
    \/ NextCall(t)
    \/ \E r \in Clients : GetCall(t, r) \/ Ready(t, r)
    \/ Close(t)
    \/ JoinCall(t)

Next ==
    /\ ~crashed
    /\ Background \/ \E t \in Clients : GoOn(t) \/ Calls(t)

Spec == Init /\ [][Next]_vars

-----------------------------------------------------------------------------

SentJobs(t) == ToSet(SubSeq(batch[t], 1, sent[t]))

(* The places a job can be in, once it is sent.                            *)
Queued(j) == j \in ToSet(jobs)
HandedOver(j) == \E t \in Clients : j \in ToSet(merged[t]) \/ j \in ToSet(out[t])
Places(j) == {p \in {"queue", "worker", "channel", "caller"} :
                \/ p = "queue" /\ Queued(j)
                \/ p = "worker" /\ j \in running
                \/ p = "channel" /\ j \in answered
                \/ p = "caller" /\ HandedOver(j)}

(* No job and no result is lost or used twice, whichever of the five kinds *)
(* of call takes it, and whatever close, ready() and other getters do: a   *)
(* job that was sent is in exactly one place.  When the workers are gone,  *)
(* which is what join() waits for, every one of them has been answered.  A *)
(* callback is called at most once, however many threads get the result.   *)
(* An AsyncResult has an error only if a function of its call raised, and a*)
(* value only if none did.                                                 *)
JobsAnsweredOnce ==
    /\ \A t \in Clients : \A j \in SentJobs(t) : Cardinality(Places(j)) = 1
    /\ exited = Processes =>
          \A t \in Clients : \A j \in SentJobs(t) : ~Queued(j) /\ j \notin running
    /\ \A t \in Clients : calls[t] <= 1
    /\ \A t \in Clients : cached[t] # "none" =>
          (cached[t] = "error" <=> raised \cap ToSet(batch[t]) # {})

(* A call comes back, whoever else gets, asks or closes: the sends find    *)
(* room, the results arrive, no getter waits for a result that another one *)
(* has taken; and join() returns once the pool is closed.                  *)
PoolCallsEnd ==
    \A t \in Clients :
       (pc[t] # "idle" /\ (pc[t] = "joining" => closed)) ~> (pc[t] = "idle" \/ crashed)
=============================================================================
