----------------------------- MODULE ExecutorProofs -----------------------------
(***************************************************************************)
(* The pool and its futures, for every finite set of workers and every set *)
(* of clients, futures and callbacks.                                      *)
(*                                                                         *)
(* The inductive invariant is built in five parts, each kept by a step     *)
(* given those before it: types; who may send, and when the channel is     *)
(* closed; whose hands a future is in; that a future somebody submitted is *)
(* in somebody's hands; and where a callback is.                           *)
(***************************************************************************)
EXTENDS Executor, SequenceLemmas, FiniteSetTheorems

WorkerPlaces == {"idle", "received", "calling", "closing", "notifying", "exited"}
ClientPlaces == {"idle", "sending", "taking", "closing", "notifying", "draining",
                 "stopping", "waiting"}

(* The places where a goroutine has a future in hand.                      *)
Busy == {"sending", "received", "calling", "taking", "closing", "notifying"}

DataOK ==
    /\ state \in [Futures -> {"new", "pending", "running", "cancelled", "finished"}]
    /\ callbacks \in [Futures -> Seq(Callbacks)]
    /\ done \in SUBSET Futures
    /\ jobs \in Seq(Futures) /\ Len(jobs) <= Capacity
    /\ mu \in Clients \cup {Nobody}
    /\ closed \in BOOLEAN /\ shutdown \in BOOLEAN /\ crashed \in BOOLEAN
    /\ taken \in [Actors -> Seq(Callbacks)]
    /\ waits \in SUBSET Clients /\ drains \in SUBSET Clients
    /\ shutdowns \in 0..MaxShutdowns
    /\ ran \in [Callbacks -> Nat]
    /\ calls \in [Futures -> Nat]

RolesOK ==
    /\ pc \in [Actors -> Places]
    /\ job \in [Actors -> Futures \cup {NoFuture}]
    /\ \A w \in Workers : pc[w] \in WorkerPlaces
    /\ \A t \in Clients : pc[t] \in ClientPlaces
    /\ \A a \in Actors : pc[a] \in Busy => job[a] \in Futures

Types == DataOK /\ RolesOK

(* Whoever sends has the mutex; the flag comes before the closing, and     *)
(* nobody sets it while the mutex is held.                                 *)
Gate ==
    /\ \A t \in Clients : pc[t] = "sending" <=> mu = t
    /\ mu # Nobody => ~shutdown
    /\ closed => shutdown
    /\ drains # {} => shutdown
    /\ \A t \in Clients : pc[t] \in {"draining", "stopping", "waiting"} => shutdown
    /\ \A t \in Clients : pc[t] = "waiting" => closed
    /\ \A w \in Workers : pc[w] = "exited" => closed /\ jobs = <<>>

(* One goroutine settles a future: it alone is where the state says that   *)
(* somebody is.                                                            *)
Settles(a) == pc[a] \in {"calling", "taking", "closing"}

Hands ==
    /\ \A t \in Clients : pc[t] = "sending" => state[job[t]] = "new"
    /\ \A w \in Workers : pc[w] = "received" => state[job[w]] # "new"
    /\ \A f \in Futures : Has(jobs, f) => state[f] # "new"
    /\ \A a \in Actors :
          /\ pc[a] = "calling" => state[job[a]] = "running"
          /\ pc[a] = "taking" => state[job[a]] = "cancelled"
          /\ pc[a] = "closing" =>
                state[job[a]] = IF a \in Workers THEN "finished" ELSE "cancelled"
          /\ Settles(a) => job[a] \notin done
    /\ \A a, b \in Actors : Settles(a) /\ Settles(b) /\ job[a] = job[b] => a = b
    /\ \A f \in done : Settled(f)
    /\ \A f \in Futures : calls[f] <= 1
    /\ \A f \in Futures : state[f] \in {"new", "pending"} => calls[f] = 0

(* A future that was submitted is queued, in hand, or done.                *)
KeptFor(f) ==
    /\ state[f] = "pending" =>
          Has(jobs, f) \/ \E w \in Workers : pc[w] = "received" /\ job[w] = f
    /\ state[f] = "running" => \E w \in Workers : pc[w] = "calling" /\ job[w] = f
    /\ state[f] = "finished" /\ f \notin done =>
          \E w \in Workers : pc[w] = "closing" /\ job[w] = f
    /\ state[f] = "cancelled" /\ f \notin done =>
          \E t \in Clients : pc[t] \in {"taking", "closing"} /\ job[t] = f

Kept == \A f \in Futures : KeptFor(f)

(* A callback is listed in one place, copied by one goroutine, or called.  *)
Once ==
    /\ \A f \in Futures : Distinct(callbacks[f])
    /\ \A a \in Actors : Distinct(taken[a])
    /\ \A c \in Callbacks : ran[c] <= 1
    /\ \A c \in Callbacks : ran[c] > 0 =>
          /\ \A f \in Futures : ~Has(callbacks[f], c)
          /\ \A a \in Actors : ~Has(taken[a], c)
    /\ \A c \in Callbacks : \A f, g \in Futures :
          Has(callbacks[f], c) /\ Has(callbacks[g], c) => f = g
    /\ \A c \in Callbacks : \A a, b \in Actors :
          Has(taken[a], c) /\ Has(taken[b], c) => a = b
    /\ \A c \in Callbacks : \A f \in Futures : \A a \in Actors :
          ~(Has(callbacks[f], c) /\ Has(taken[a], c))
    /\ \A f \in Futures : f \in done \/ state[f] = "new" => callbacks[f] = <<>>
    /\ \A a \in Actors : pc[a] = "closing" => callbacks[job[a]] = <<>>
    /\ \A a \in Actors : taken[a] # <<>> => pc[a] \in {"closing", "notifying"}

IInv == Types /\ Gate /\ Hands /\ Kept /\ Once

-----------------------------------------------------------------------------
(* Types *)

USE ActorsAssumption, SizesAssumption

LEMMA CapacityType == Capacity \in Nat /\ Capacity > 0
<1>1. Cardinality(Workers) \in Nat /\ Cardinality(Workers) # 0
  BY FS_CardinalityType, FS_EmptySet
<1>. QED  BY <1>1 DEF Capacity

(* A goroutine goes to one of its places, perhaps with another future.     *)
LEMMA Moves ==
    ASSUME RolesOK, NEW a \in Actors, NEW place \in Places, Goto(a, place),
           a \in Workers => place \in WorkerPlaces,
           a \in Clients => place \in ClientPlaces,
           NEW f \in Futures \cup {NoFuture},
           job' = job \/ job' = [job EXCEPT ![a] = f],
           place \in Busy => job'[a] \in Futures
    PROVE  RolesOK'
<1>1. /\ pc \in [Actors -> Places] /\ job \in [Actors -> Futures \cup {NoFuture}]
      /\ \A b \in Actors : pc[b] \in Busy => job[b] \in Futures
  BY DEF RolesOK
<1>2. \A b \in Actors : pc'[b] = IF b = a THEN place ELSE pc[b]
  BY <1>1 DEF Goto
<1>3. /\ job' \in [Actors -> Futures \cup {NoFuture}]
      /\ \A b \in Actors : b # a => job'[b] = job[b]
  BY <1>1
<1>4. pc' \in [Actors -> Places]
  BY <1>1 DEF Goto
<1>5. /\ \A w \in Workers : pc'[w] \in WorkerPlaces
      /\ \A t \in Clients : pc'[t] \in ClientPlaces
  BY <1>2 DEF RolesOK, Actors
<1>6. \A b \in Actors : pc'[b] \in Busy => job'[b] \in Futures
  BY <1>1, <1>2, <1>3
<1>. QED  BY <1>3, <1>4, <1>5, <1>6 DEF RolesOK

LEMMA RolesKept ==
    ASSUME Types, Next
    PROVE  RolesOK'
<1>. USE DEF Places, WorkerPlaces, ClientPlaces, Busy
<1>0. /\ Workers \subseteq Actors /\ Clients \subseteq Actors
      /\ \A a \in Actors : a \in Workers <=> a \notin Clients
      /\ jobs # <<>> => Head(jobs) \in Futures
  BY HeadAndTail DEF Actors, Types, DataOK
<1>1. ASSUME NEW w \in Workers, Receive(w) \/ Claim(w) \/ Finish(w) \/ Exit(w)
      PROVE  RolesOK'
  <2>1. CASE Receive(w)
    BY <1>0, <2>1, Moves DEF Types, RolesOK, Receive
  <2>2. CASE Claim(w)
    BY <1>0, <2>2, Moves DEF Types, RolesOK, Claim
  <2>3. CASE Finish(w)
    BY <1>0, <2>3, Moves DEF Types, RolesOK, Finish
  <2>4. CASE Exit(w)
    BY <1>0, <2>4, Moves DEF Types, Exit
  <2>. QED  BY <1>1, <2>1, <2>2, <2>3, <2>4
<1>2. ASSUME NEW a \in Actors, Close(a)
      PROVE  RolesOK'
  BY <1>0, <1>2, Moves DEF Types, RolesOK, Close
<1>3. ASSUME NEW a \in Actors, Notify(a)
      PROVE  RolesOK'
  <2>1. a \in drains => a \in Clients
    BY DEF Types, DataOK
  <2>2. CASE UNCHANGED <<job, pc>>
    BY <2>2 DEF Types, RolesOK
  <2>3. CASE /\ job' = [job EXCEPT ![a] = NoFuture]
             /\ Goto(a, IF a \in drains THEN "draining" ELSE "idle")
    BY <1>0, <2>1, <2>3, Moves DEF Types
  <2>. QED  BY <1>3, <2>2, <2>3 DEF Notify
<1>4. ASSUME NEW t \in Clients, NEW f \in Futures, SubmitCall(t, f)
      PROVE  RolesOK'
  BY <1>0, <1>4, Moves DEF Types, RolesOK, SubmitCall
<1>5. ASSUME NEW t \in Clients, Send(t)
      PROVE  RolesOK'
  BY <1>0, <1>5, Moves DEF Types, RolesOK, Send
<1>6. ASSUME NEW t \in Clients, NEW f \in Futures, NEW next \in {"idle", "draining"},
             CancelClaim(t, f, next)
      PROVE  RolesOK'
  <2>1. CASE state[f] = "pending"
    BY <1>0, <1>6, <2>1, Moves DEF Types, RolesOK, CancelClaim
  <2>2. CASE state[f] # "pending"
    BY <1>0, <1>6, <2>2, Moves DEF Types, CancelClaim
  <2>. QED  BY <2>1, <2>2
<1>7. ASSUME NEW t \in Clients, Take(t) \/ CloseJobs(t) \/ WaitEnds(t)
      PROVE  RolesOK'
  <2>1. CASE Take(t)
    BY <1>0, <2>1, Moves DEF Types, RolesOK, Take
  <2>2. CASE CloseJobs(t)
    BY <1>0, <2>2, Moves DEF Types, CloseJobs
  <2>3. CASE WaitEnds(t)
    BY <1>0, <2>3, Moves DEF Types, WaitEnds
  <2>. QED  BY <1>7, <2>1, <2>2, <2>3
<1>8. ASSUME NEW t \in Clients, NEW wait \in BOOLEAN, NEW cancel \in BOOLEAN,
             ShutdownCall(t, wait, cancel)
      PROVE  RolesOK'
  BY <1>0, <1>8, Moves DEF Types, ShutdownCall
<1>9. ASSUME NEW t \in Clients, Drain(t)
      PROVE  RolesOK'
  <2>1. CASE jobs # <<>>
    BY <1>0, <1>6, <1>9, <2>1 DEF Drain
  <2>2. CASE jobs = <<>> /\ ~closed
    BY <1>0, <1>9, <2>2, Moves DEF Types, Drain
  <2>3. CASE jobs = <<>> /\ closed
    BY <1>9, <2>3 DEF Types, RolesOK, Drain
  <2>. QED  BY <2>1, <2>2, <2>3
<1>10. ASSUME NEW t \in Clients, NEW f \in Futures, NEW c \in Callbacks, AddCallback(t, f, c)
       PROVE  RolesOK'
  BY <1>10 DEF Types, RolesOK, AddCallback
<1>. HIDE DEF Places, WorkerPlaces, ClientPlaces, Busy
<1>. QED  BY <1>0, <1>1, <1>2, <1>3, <1>4, <1>5, <1>6, <1>7, <1>8, <1>9, <1>10
          DEF Next, Work, GoOn, CancelCall

LEMMA DataKept ==
    ASSUME Types, Next
    PROVE  DataOK'
<1>. USE DEF Types, DataOK
<1>0. /\ Workers \subseteq Actors /\ Clients \subseteq Actors
      /\ \A a \in Actors : pc[a] \in Busy => job[a] \in Futures
      /\ Len(jobs) \in Nat
  BY LenProperties DEF RolesOK, Actors
<1>a. ASSUME NEW k \in Futures, calls' = [calls EXCEPT ![k] = @ + 1]
      PROVE  calls' \in [Futures -> Nat]
  <2>1. calls[k] + 1 \in Nat
    OBVIOUS
  <2>. QED  BY <1>a, <2>1
<1>b. ASSUME NEW c \in Callbacks, ran' = [ran EXCEPT ![c] = @ + 1]
      PROVE  ran' \in [Callbacks -> Nat]
  <2>1. ran[c] + 1 \in Nat
    OBVIOUS
  <2>. QED  BY <1>b, <2>1
<1>1. ASSUME jobs # <<>>, jobs' = Tail(jobs)
      PROVE  /\ Head(jobs) \in Futures
             /\ jobs' \in Seq(Futures) /\ Len(jobs') <= Capacity
  BY <1>0, <1>1, HeadAndTail, CapacityType
<1>2. ASSUME NEW w \in Workers, Receive(w) \/ Exit(w)
      PROVE  DataOK'
  BY <1>1, <1>2 DEF Receive, Exit, pool, stop, history
<1>3. ASSUME NEW w \in Workers, Claim(w)
      PROVE  DataOK'
  <2>1. state' \in [Futures -> {"new", "pending", "running", "cancelled", "finished"}]
    BY <1>3 DEF Claim
  <2>2. job[w] \in Futures
    BY <1>0, <1>3 DEF Claim, Busy
  <2>3. calls' \in [Futures -> Nat]
    BY <1>3, <1>a, <2>2 DEF Claim
  <2>. QED  BY <1>3, <2>1, <2>3 DEF Claim, pool, stop
<1>4. ASSUME NEW a \in Actors, pc[a] \in Busy, TakeCallbacks(a)
      PROVE  /\ taken' \in [Actors -> Seq(Callbacks)]
             /\ callbacks' \in [Futures -> Seq(Callbacks)]
  BY <1>0, <1>4, EmptySeq DEF TakeCallbacks
<1>5. ASSUME NEW w \in Workers, Finish(w)
      PROVE  DataOK'
  BY <1>0, <1>4, <1>5 DEF Finish, Busy, pool, stop, history
<1>6. ASSUME NEW a \in Actors, Close(a)
      PROVE  DataOK'
  BY <1>0, <1>6 DEF Close, Busy, pool, stop, history
<1>7. ASSUME NEW a \in Actors, Notify(a)
      PROVE  DataOK'
  <2>1. taken[a] # <<>> => Head(taken[a]) \in Callbacks /\ Tail(taken[a]) \in Seq(Callbacks)
    BY HeadAndTail
  <2>2. ran' \in [Callbacks -> Nat]
    BY <1>7, <1>b, <2>1 DEF Notify
  <2>3. taken' \in [Actors -> Seq(Callbacks)]
    BY <1>7, <2>1 DEF Notify
  <2>. QED  BY <1>7, <2>2, <2>3 DEF Notify, pool, stop
<1>8. ASSUME NEW t \in Clients, NEW f \in Futures, SubmitCall(t, f)
      PROVE  DataOK'
  BY <1>8 DEF SubmitCall, stop, history
<1>9. ASSUME NEW t \in Clients, Send(t)
      PROVE  DataOK'
  <2>1. jobs' \in Seq(Futures) /\ Len(jobs') <= Capacity
    BY <1>0, <1>9, AtTheEnd, CapacityType DEF Send, Busy
  <2>. QED  BY <1>9, <2>1 DEF Send, stop, history
<1>10. ASSUME NEW t \in Clients, NEW f \in Futures, NEW next, CancelClaim(t, f, next)
       PROVE  state' \in [Futures -> {"new", "pending", "running", "cancelled", "finished"}]
  BY <1>10 DEF CancelClaim
<1>11. ASSUME NEW t \in Clients, NEW f \in Futures, CancelCall(t, f)
       PROVE  DataOK'
  BY <1>10, <1>11 DEF CancelCall, pool, stop, history
<1>12. ASSUME NEW t \in Clients, Take(t)
       PROVE  DataOK'
  BY <1>0, <1>4, <1>12 DEF Take, Busy, pool, stop, history
<1>13. ASSUME NEW t \in Clients, NEW f \in Futures, NEW c \in Callbacks, AddCallback(t, f, c)
       PROVE  DataOK'
  <2>1. Append(callbacks[f], c) \in Seq(Callbacks)
    BY AtTheEnd
  <2>2. callbacks' \in [Futures -> Seq(Callbacks)]
    BY <1>13, <2>1 DEF AddCallback
  <2>3. ran' \in [Callbacks -> Nat]
    BY <1>13, <1>b DEF AddCallback
  <2>. QED  BY <1>13, <2>2, <2>3 DEF AddCallback, pool, stop
<1>14. ASSUME NEW t \in Clients, NEW wait \in BOOLEAN, NEW cancel \in BOOLEAN,
              ShutdownCall(t, wait, cancel)
       PROVE  DataOK'
  BY <1>14 DEF ShutdownCall, history
<1>15. ASSUME NEW t \in Clients, Drain(t)
       PROVE  DataOK'
  <2>1. CASE jobs # <<>>
    <3>1. state' \in [Futures -> {"new", "pending", "running", "cancelled", "finished"}]
      BY <1>1, <1>10, <1>15, <2>1 DEF Drain
    <3>. QED  BY <1>1, <1>15, <2>1, <3>1 DEF Drain, history
  <2>2. CASE jobs = <<>>
    BY <1>15, <2>2 DEF Drain, history
  <2>. QED  BY <2>1, <2>2
<1>16. ASSUME NEW t \in Clients, CloseJobs(t) \/ WaitEnds(t)
       PROVE  DataOK'
  BY <1>16 DEF CloseJobs, WaitEnds, pool, stop, history
<1>. HIDE DEF Types, DataOK
<1>. QED  BY <1>0, <1>2, <1>3, <1>5, <1>6, <1>7, <1>8, <1>9, <1>11, <1>12, <1>13, <1>14,
          <1>15, <1>16 DEF Next, Work, GoOn

-----------------------------------------------------------------------------
(* Gate *)

(* A step that leaves the mutex, the flag and the channel's end alone, of a*)
(* goroutine that neither was nor will be where Gate says something.       *)
Plain == {"idle", "received", "calling", "taking", "closing", "notifying"}
LEMMA Elsewhere ==
    ASSUME Types, Gate, NEW a \in Actors, pc[a] \in Plain \cup {"draining"},
           NEW place \in Plain, Goto(a, place) \/ (a \in drains /\ Goto(a, "draining")),
           UNCHANGED <<closed, mu, shutdown, drains>>,
           jobs' = jobs \/ (jobs # <<>> /\ jobs' = Tail(jobs))
    PROVE  Gate'
<1>1. ASSUME NEW b \in Actors
      PROVE  pc'[b] = IF b = a THEN pc'[a] ELSE pc[b]
  BY DEF Types, RolesOK, Goto
<1>2. pc'[a] \in Plain \/ (pc'[a] = "draining" /\ drains # {})
  BY DEF Types, RolesOK, Goto
<1>. QED  BY <1>1, <1>2 DEF Types, RolesOK, Gate, Actors, Plain, ClientPlaces, WorkerPlaces

LEMMA GateKept ==
    ASSUME Types, Gate, Next
    PROVE  Gate'
<1>0. Workers \subseteq Actors /\ Clients \subseteq Actors
  BY DEF Actors
<1>1. ASSUME NEW w \in Workers, Receive(w) \/ Claim(w) \/ Finish(w)
      PROVE  Gate'
  BY <1>0, <1>1, Elsewhere DEF Plain, Receive, Claim, Finish, pool, stop
<1>2. ASSUME NEW w \in Workers, Exit(w)
      PROVE  Gate'
  BY <1>0, <1>2 DEF Types, RolesOK, Gate, Exit, Goto, pool, stop
<1>3. ASSUME NEW a \in Actors, Close(a)
      PROVE  Gate'
  BY <1>3, Elsewhere DEF Plain, Close, pool, stop
<1>4. ASSUME NEW a \in Actors, Notify(a)
      PROVE  Gate'
  <2>1. CASE UNCHANGED pc
    BY <1>4, <2>1 DEF Gate, Notify, pool, stop
  <2>2. CASE Goto(a, IF a \in drains THEN "draining" ELSE "idle")
    BY <1>4, <2>2, Elsewhere DEF Plain, Notify, pool, stop
  <2>. QED  BY <1>4, <2>1, <2>2 DEF Notify
<1>5. ASSUME NEW t \in Clients, NEW f \in Futures, SubmitCall(t, f)
      PROVE  Gate'
  BY <1>0, <1>5 DEF Types, RolesOK, DataOK, Gate, SubmitCall, Goto, stop
<1>6. ASSUME NEW t \in Clients, Send(t)
      PROVE  Gate'
  BY <1>0, <1>6 DEF Types, RolesOK, DataOK, Gate, Send, Goto, stop
<1>7. ASSUME NEW t \in Clients, NEW f \in Futures, CancelCall(t, f)
      PROVE  Gate'
  BY <1>0, <1>7, Elsewhere DEF Plain, CancelCall, CancelClaim, pool, stop
<1>8. ASSUME NEW t \in Clients, Take(t)
      PROVE  Gate'
  BY <1>0, <1>8, Elsewhere DEF Plain, Take, pool, stop
<1>9. ASSUME NEW t \in Clients, NEW f \in Futures, NEW c \in Callbacks, AddCallback(t, f, c)
      PROVE  Gate'
  BY <1>9 DEF Gate, AddCallback, pool, stop
<1>10. ASSUME NEW t \in Clients, NEW wait \in BOOLEAN, NEW cancel \in BOOLEAN,
              ShutdownCall(t, wait, cancel)
       PROVE  Gate'
  BY <1>0, <1>10 DEF Types, RolesOK, DataOK, Gate, ShutdownCall, Goto
<1>11. ASSUME NEW t \in Clients, Drain(t)
       PROVE  Gate'
  <2>1. CASE jobs # <<>>
    <3>1. CASE state[Head(jobs)] = "pending"
      BY <1>0, <1>11, <2>1, <3>1, Elsewhere DEF Plain, Drain, CancelClaim
    <3>2. CASE state[Head(jobs)] # "pending"
      BY <1>0, <1>11, <2>1, <3>2
         DEF Types, RolesOK, Gate, Drain, CancelClaim, Goto
    <3>. QED  BY <3>1, <3>2
  <2>2. CASE jobs = <<>> /\ ~closed
    BY <1>0, <1>11, <2>2 DEF Types, RolesOK, Gate, Drain, Goto
  <2>3. CASE jobs = <<>> /\ closed
    BY <1>11, <2>3 DEF Gate, Drain
  <2>. QED  BY <2>1, <2>2, <2>3
<1>12. ASSUME NEW t \in Clients, CloseJobs(t) \/ WaitEnds(t)
       PROVE  Gate'
  BY <1>0, <1>12 DEF Types, RolesOK, Gate, CloseJobs, WaitEnds, Goto, pool, stop
<1>. QED  BY <1>0, <1>1, <1>2, <1>3, <1>4, <1>5, <1>6, <1>7, <1>8, <1>9, <1>10, <1>11,
          <1>12 DEF Next, Work, GoOn

-----------------------------------------------------------------------------
(* Hands *)

(* What the head of the channel and what it leaves are.                    *)
LEMMA FromTheChannel ==
    ASSUME Types, jobs # <<>>, jobs' = Tail(jobs)
    PROVE  /\ Head(jobs) \in Futures
           /\ \A f \in Futures : Has(jobs, f) <=> f = Head(jobs) \/ Has(jobs', f)
  BY HeadAndTail DEF Types, DataOK

(* cancel, and the drain loop, take on a pending future.                   *)
LEMMA CancelHands ==
    ASSUME Types, Hands, NEW t \in Clients, NEW f \in Futures, state[f] = "pending",
           state' = [state EXCEPT ![f] = "cancelled"],
           job' = [job EXCEPT ![t] = f], Goto(t, "taking"),
           pc[t] \in {"idle", "draining"},
           \A g \in Futures : Has(jobs', g) => Has(jobs, g),
           UNCHANGED <<done, calls>>
    PROVE  Hands'
<1>1. /\ \A a \in Actors : pc'[a] = IF a = t THEN "taking" ELSE pc[a]
      /\ \A a \in Actors : job'[a] = IF a = t THEN f ELSE job[a]
      /\ \A g \in Futures : state'[g] = IF g = f THEN "cancelled" ELSE state[g]
      /\ Workers \subseteq Actors /\ Clients \subseteq Actors /\ t \notin Workers
  BY DEF Types, RolesOK, DataOK, Goto, Actors
<1>2. f \notin done /\ \A a \in Actors : Settles(a) => job[a] # f
  BY DEF Hands, Settled, Settles
<1>3. \A a \in Actors : pc[a] \in Busy => job[a] \in Futures
  BY DEF Types, RolesOK
<1>. QED  BY <1>1, <1>2, <1>3 DEF Hands, Settles, Settled, Busy

LEMMA HandsKept ==
    ASSUME Types, Gate, Hands, Next
    PROVE  Hands'
<1>0. /\ Workers \subseteq Actors /\ Clients \subseteq Actors
      /\ \A t \in Clients : t \notin Workers
      /\ \A a \in Actors : pc[a] \in Busy => job[a] \in Futures
      /\ done \subseteq Futures
  BY DEF Actors, Types, RolesOK, DataOK
<1>1. ASSUME NEW a \in Actors, NEW place, Goto(a, place)
      PROVE  \A b \in Actors : pc'[b] = IF b = a THEN place ELSE pc[b]
  BY <1>1 DEF Types, RolesOK, Goto
<1>2. ASSUME NEW a \in Actors, NEW f, job' = [job EXCEPT ![a] = f]
      PROVE  \A b \in Actors : job'[b] = IF b = a THEN f ELSE job[b]
  BY <1>2 DEF Types, RolesOK
<1>3. ASSUME NEW w \in Workers, Receive(w)
      PROVE  Hands'
  <2>1. /\ \A b \in Actors : pc'[b] = IF b = w THEN "received" ELSE pc[b]
        /\ \A b \in Actors : job'[b] = IF b = w THEN Head(jobs) ELSE job[b]
    BY <1>0, <1>3 DEF Types, RolesOK, Goto, Receive
  <2>2. /\ Head(jobs) \in Futures /\ state[Head(jobs)] # "new"
        /\ \A f \in Futures : Has(jobs', f) => Has(jobs, f)
    BY <1>3, FromTheChannel DEF Receive, Hands
  <2>. QED  BY <1>0, <1>3, <2>1, <2>2
            DEF Hands, Settles, Settled, Receive, stop, history
<1>4. ASSUME NEW w \in Workers, Claim(w)
      PROVE  Hands'
  <2>1. CASE state[job[w]] = "pending"
    <3>1. /\ \A f \in Futures : calls'[f] = IF f = job[w] THEN calls[f] + 1 ELSE calls[f]
          /\ job[w] \in Futures
      BY <1>0, <1>4, <2>1 DEF Types, DataOK, Claim, Busy
    <3>2. /\ \A b \in Actors : pc'[b] = IF b = w THEN "calling" ELSE pc[b]
          /\ \A g \in Futures : state'[g] = IF g = job[w] THEN "running" ELSE state[g]
      BY <1>0, <1>4, <2>1, <3>1 DEF Types, RolesOK, DataOK, Goto, Claim
    <3>3. job[w] \notin done /\ \A a \in Actors : Settles(a) => job[a] # job[w]
      BY <2>1, <3>1 DEF Hands, Settles, Settled
    <3>. QED  BY <1>0, <1>4, <2>1, <3>1, <3>2, <3>3
              DEF Hands, Settles, Settled, Busy, Claim, pool
  <2>2. CASE state[job[w]] # "pending"
    BY <1>0, <1>1, <1>2, <1>4, <2>2 DEF Hands, Settles, Settled, Busy, Claim, pool
  <2>. QED  BY <2>1, <2>2
<1>5. ASSUME NEW w \in Workers, Finish(w)
      PROVE  Hands'
  <2>1. /\ \A b \in Actors : pc'[b] = IF b = w THEN "closing" ELSE pc[b]
        /\ \A g \in Futures : state'[g] = IF g = job[w] THEN "finished" ELSE state[g]
    BY <1>0, <1>5 DEF Types, RolesOK, DataOK, Goto, Finish, Busy
  <2>2. \A a \in Actors : Settles(a) /\ a # w => job[a] # job[w]
    BY <1>0, <1>5 DEF Hands, Settles, Finish
  <2>. QED  BY <1>0, <1>5, <2>1, <2>2
            DEF Hands, Settles, Settled, Busy, Finish, pool, stop, history
<1>6. ASSUME NEW w \in Workers, Exit(w)
      PROVE  Hands'
  BY <1>0, <1>1, <1>6 DEF Hands, Settles, Settled, Exit, pool, stop, history
<1>7. ASSUME NEW a \in Actors, Close(a)
      PROVE  Hands'
  <2>1. \A b \in Actors : pc'[b] = IF b = a THEN "notifying" ELSE pc[b]
    BY <1>1, <1>7 DEF Close
  <2>2. Settled(job[a]) /\ \A b \in Actors : Settles(b) /\ b # a => job[b] # job[a]
    BY <1>0, <1>7 DEF Hands, Settles, Settled, Close
  <2>. QED  BY <1>0, <1>7, <2>1, <2>2
            DEF Hands, Settles, Settled, Busy, Close, pool, stop, history
<1>8. ASSUME NEW a \in Actors, Notify(a)
      PROVE  Hands'
  <2>1. CASE UNCHANGED <<job, pc>>
    BY <1>8, <2>1 DEF Hands, Settles, Settled, Notify, pool, stop
  <2>2. CASE /\ job' = [job EXCEPT ![a] = NoFuture]
             /\ Goto(a, IF a \in drains THEN "draining" ELSE "idle")
    BY <1>0, <1>1, <1>2, <1>8, <2>2 DEF Hands, Settles, Settled, Notify, pool, stop
  <2>. QED  BY <1>8, <2>1, <2>2 DEF Notify
<1>9. ASSUME NEW t \in Clients, NEW f \in Futures, SubmitCall(t, f)
       PROVE  Hands'
  <2>1. /\ \A b \in Actors : pc'[b] = IF b = t THEN "sending" ELSE pc[b]
        /\ \A b \in Actors : job'[b] = IF b = t THEN f ELSE job[b]
    BY <1>0, <1>9 DEF Types, RolesOK, Goto, SubmitCall
  <2>. QED  BY <1>0, <1>9, <2>1 DEF Hands, Settles, Settled, SubmitCall, stop, history
<1>10. ASSUME NEW t \in Clients, Send(t)
       PROVE  Hands'
  <2>1. job[t] \in Futures /\ state[job[t]] = "new"
    BY <1>0, <1>10 DEF Hands, Send, Busy
  <2>2. \A f \in Futures : Has(jobs', f) <=> Has(jobs, f) \/ f = job[t]
    BY <1>10, <2>1, AtTheEnd DEF Types, DataOK, Send
  <2>3. /\ \A b \in Actors : pc'[b] = IF b = t THEN "idle" ELSE pc[b]
        /\ \A b \in Actors : job'[b] = IF b = t THEN NoFuture ELSE job[b]
        /\ \A g \in Futures : state'[g] = IF g = job[t] THEN "pending" ELSE state[g]
    BY <1>0, <1>10, <2>1 DEF Types, RolesOK, DataOK, Goto, Send
  <2>4. \A s \in Clients : pc[s] = "sending" => s = t
    BY <1>10 DEF Gate, Send
  <2>5. job[t] \notin done /\ \A a \in Actors : Settles(a) => job[a] # job[t]
    BY <2>1 DEF Hands, Settles, Settled
  <2>6. \A w \in Workers : pc[w] = "received" => job[w] # job[t]
    BY <2>1 DEF Hands
  <2>. QED  BY <1>0, <1>10, <2>1, <2>2, <2>3, <2>4, <2>5, <2>6
            DEF Hands, Settles, Settled, Busy, Send, stop, history
<1>11. ASSUME NEW t \in Clients, NEW f \in Futures, CancelCall(t, f)
       PROVE  Hands'
  <2>1. CASE state[f] = "pending"
    BY <1>11, <2>1, CancelHands DEF CancelCall, CancelClaim, pool, history
  <2>2. CASE state[f] # "pending"
    BY <1>0, <1>1, <1>11, <2>2
       DEF Hands, Settles, Settled, CancelCall, CancelClaim, pool, history
  <2>. QED  BY <2>1, <2>2
<1>12. ASSUME NEW t \in Clients, Take(t)
       PROVE  Hands'
  BY <1>0, <1>1, <1>12 DEF Hands, Settles, Settled, Take, pool, stop, history
<1>13. ASSUME NEW t \in Clients, NEW f \in Futures, NEW c \in Callbacks, AddCallback(t, f, c)
       PROVE  Hands'
  BY <1>13 DEF Hands, Settles, Settled, AddCallback, pool, stop
<1>14. ASSUME NEW t \in Clients, NEW wait \in BOOLEAN, NEW cancel \in BOOLEAN,
              ShutdownCall(t, wait, cancel)
       PROVE  Hands'
  BY <1>0, <1>1, <1>14 DEF Hands, Settles, Settled, ShutdownCall, history
<1>15. ASSUME NEW t \in Clients, Drain(t)
       PROVE  Hands'
  <2>1. CASE jobs # <<>> /\ state[Head(jobs)] = "pending"
    BY <1>15, <2>1, FromTheChannel, CancelHands DEF Drain, CancelClaim, history
  <2>2. CASE jobs # <<>> /\ state[Head(jobs)] # "pending"
    BY <1>0, <1>1, <1>15, <2>2, FromTheChannel
       DEF Hands, Settles, Settled, Drain, CancelClaim, history
  <2>3. CASE jobs = <<>> /\ ~closed
    BY <1>0, <1>1, <1>15, <2>3 DEF Hands, Settles, Settled, Drain, history
  <2>4. CASE jobs = <<>> /\ closed
    BY <1>15, <2>4 DEF Hands, Settles, Settled, Drain, history
  <2>. QED  BY <2>1, <2>2, <2>3, <2>4
<1>16. ASSUME NEW t \in Clients, CloseJobs(t) \/ WaitEnds(t)
       PROVE  Hands'
  <2>1. CASE CloseJobs(t)
    BY <1>0, <1>1, <2>1 DEF Hands, Settles, Settled, CloseJobs, stop, history
  <2>2. CASE WaitEnds(t)
    BY <1>0, <1>1, <2>2 DEF Hands, Settles, Settled, WaitEnds, pool, stop, history
  <2>. QED  BY <1>16, <2>1, <2>2
<1>. QED  BY <1>0, <1>3, <1>4, <1>5, <1>6, <1>7, <1>8, <1>9, <1>10, <1>11, <1>12, <1>13,
          <1>14, <1>15, <1>16 DEF Next, Work, GoOn

-----------------------------------------------------------------------------
(* Kept *)

HeldBy(a, f) == pc[a] \in {"received", "calling", "taking", "closing"} /\ job[a] = f

(* What was said of a future still holds when its state is the same and    *)
(* nobody has let go of it.                                                *)
LEMMA StillKept ==
    ASSUME NEW f \in Futures, KeptFor(f), state'[f] = state[f], f \in done => f \in done',
           Has(jobs, f) => Has(jobs', f),
           \A a \in Actors : HeldBy(a, f) => pc'[a] = pc[a] /\ job'[a] = job[a]
    PROVE  KeptFor(f)'
  BY DEF KeptFor, HeldBy, Actors

(* A step of a goroutine that holds nothing leaves the rest as it was.     *)
LEMMA FreeHands ==
    ASSUME Types, Kept, NEW a \in Actors,
           pc[a] \notin {"received", "calling", "taking", "closing"},
           NEW place, Goto(a, place), NEW g, job' = job \/ job' = [job EXCEPT ![a] = g],
           UNCHANGED <<state, done>>, \A f \in Futures : Has(jobs, f) => Has(jobs', f)
    PROVE  Kept'
<1>1. \A b \in Actors : b # a => pc'[b] = pc[b] /\ job'[b] = job[b]
  BY DEF Types, RolesOK, Goto
<1>2. \A f \in Futures : \A b \in Actors :
         HeldBy(b, f) => pc'[b] = pc[b] /\ job'[b] = job[b]
  BY <1>1 DEF HeldBy
<1>. QED  BY <1>2, StillKept DEF Kept

LEMMA KeptKept ==
    ASSUME Types, Gate, Hands, Kept, Next
    PROVE  Kept'
<1>0. /\ Workers \subseteq Actors /\ Clients \subseteq Actors
      /\ \A a \in Actors : pc[a] \in Busy => job[a] \in Futures
      /\ \A f \in Futures : KeptFor(f)
  BY DEF Kept, Actors, Types, RolesOK
<1>1. ASSUME NEW w \in Workers, Receive(w)
      PROVE  Kept'
  <2>1. /\ \A b \in Actors : b # w => pc'[b] = pc[b] /\ job'[b] = job[b]
        /\ pc'[w] = "received" /\ job'[w] = Head(jobs)
        /\ \A f \in Futures : Has(jobs, f) <=> f = Head(jobs) \/ Has(jobs', f)
    BY <1>0, <1>1, FromTheChannel DEF Types, RolesOK, Goto, Receive
  <2>2. ASSUME NEW f \in Futures  PROVE KeptFor(f)'
    <3>1. \A a \in Actors : HeldBy(a, f) => pc'[a] = pc[a] /\ job'[a] = job[a]
      BY <1>1, <2>1 DEF HeldBy, Receive
    <3>2. CASE Has(jobs, f) => Has(jobs', f)
      BY <1>0, <1>1, <3>1, <3>2, StillKept DEF Receive
    <3>3. CASE state[f] = "pending" /\ f = Head(jobs)
      BY <1>1, <2>1, <3>3 DEF KeptFor, Receive
    <3>4. CASE state[f] # "pending"
      BY <1>0, <1>1, <3>1, <3>4 DEF KeptFor, HeldBy, Receive
    <3>. QED  BY <2>1, <3>2, <3>3, <3>4
  <2>. QED  BY <2>2 DEF Kept
<1>2. ASSUME NEW w \in Workers, Claim(w)
      PROVE  Kept'
  <2>1. job[w] \in Futures
    BY <1>0, <1>2 DEF Claim, Busy
  <2>2. \A b \in Actors : b # w => pc'[b] = pc[b] /\ job'[b] = job[b]
    BY <1>2 DEF Types, RolesOK, Goto, Claim
  <2>3. ASSUME NEW f \in Futures, f # job[w]  PROVE KeptFor(f)'
    <3>1. state'[f] = state[f]
      BY <1>2, <2>1, <2>3 DEF Types, DataOK, Claim
    <3>2. \A a \in Actors : HeldBy(a, f) => a # w
      BY <2>3 DEF HeldBy
    <3>. QED  BY <1>0, <1>2, <2>2, <3>1, <3>2, StillKept DEF Claim, pool
  <2>4. ASSUME NEW f \in Futures, f = job[w]  PROVE KeptFor(f)'
    <3>1. CASE state[f] = "pending"
      <4>1. state'[f] = "running" /\ pc'[w] = "calling" /\ job'[w] = f
        BY <1>0, <1>2, <2>4, <3>1 DEF Types, RolesOK, DataOK, Goto, Claim
      <4>. QED  BY <4>1 DEF KeptFor
    <3>2. CASE state[f] # "pending"
      <4>1. /\ state'[f] = state[f] /\ state[f] # "new" /\ done' = done
            /\ pc[w] = "received"
        BY <1>0, <1>2, <2>4, <3>2 DEF Hands, Claim
      <4>. QED  BY <1>0, <2>2, <3>2, <4>1 DEF KeptFor
    <3>. QED  BY <3>1, <3>2
  <2>. QED  BY <2>3, <2>4 DEF Kept
<1>3. ASSUME NEW w \in Workers, Finish(w)
      PROVE  Kept'
  <2>1. job[w] \in Futures
    BY <1>0, <1>3 DEF Finish, Busy
  <2>2. /\ \A b \in Actors : b # w => pc'[b] = pc[b] /\ job'[b] = job[b]
        /\ pc'[w] = "closing" /\ job'[w] = job[w]
        /\ \A f \in Futures : state'[f] = IF f = job[w] THEN "finished" ELSE state[f]
    BY <1>0, <1>3, <2>1 DEF Types, RolesOK, DataOK, Goto, Finish
  <2>3. ASSUME NEW f \in Futures, f # job[w]  PROVE KeptFor(f)'
    <3>1. \A a \in Actors : HeldBy(a, f) => a # w
      BY <2>3 DEF HeldBy
    <3>. QED  BY <1>0, <1>3, <2>2, <2>3, <3>1, StillKept DEF Finish, pool
  <2>4. ASSUME NEW f \in Futures, f = job[w]  PROVE KeptFor(f)'
    BY <2>2, <2>4 DEF KeptFor
  <2>. QED  BY <2>3, <2>4 DEF Kept
<1>4. ASSUME NEW a \in Actors, Close(a)
      PROVE  Kept'
  <2>1. job[a] \in Futures /\ done' = done \cup {job[a]}
    BY <1>0, <1>4 DEF Close, Busy
  <2>2. \A b \in Actors : b # a => pc'[b] = pc[b] /\ job'[b] = job[b]
    BY <1>4 DEF Types, RolesOK, Goto, Close
  <2>3. ASSUME NEW f \in Futures, f # job[a]  PROVE KeptFor(f)'
    <3>1. \A b \in Actors : HeldBy(b, f) => b # a
      BY <2>3 DEF HeldBy
    <3>. QED  BY <1>0, <1>4, <2>1, <2>2, <3>1, StillKept DEF Close, pool
  <2>4. ASSUME NEW f \in Futures, f = job[a]  PROVE KeptFor(f)'
    <3>1. state'[f] \in {"finished", "cancelled"} /\ f \in done'
      BY <1>4, <2>1, <2>4 DEF Hands, Close
    <3>. QED  BY <3>1 DEF KeptFor
  <2>. QED  BY <2>3, <2>4 DEF Kept
<1>5. ASSUME NEW t \in Clients, NEW f \in Futures, state[f] = "pending",
             state' = [state EXCEPT ![f] = "cancelled"],
             job' = [job EXCEPT ![t] = f], Goto(t, "taking"),
             pc[t] \in {"idle", "draining"}, UNCHANGED done,
             \A g \in Futures : g # f /\ Has(jobs, g) => Has(jobs', g)
      PROVE  Kept'
  <2>1. /\ \A b \in Actors : b # t => pc'[b] = pc[b] /\ job'[b] = job[b]
        /\ pc'[t] = "taking" /\ job'[t] = f
        /\ \A g \in Futures : state'[g] = IF g = f THEN "cancelled" ELSE state[g]
    BY <1>0, <1>5 DEF Types, RolesOK, DataOK, Goto
  <2>2. ASSUME NEW g \in Futures, g # f  PROVE KeptFor(g)'
    <3>1. \A b \in Actors : HeldBy(b, g) => b # t
      BY <1>5 DEF HeldBy
    <3>. QED  BY <1>0, <1>5, <2>1, <2>2, <3>1, StillKept
  <2>3. KeptFor(f)'
    BY <2>1 DEF KeptFor
  <2>. QED  BY <2>2, <2>3 DEF Kept
<1>6. ASSUME NEW a \in Actors, Notify(a)
      PROVE  Kept'
  <2>1. CASE UNCHANGED <<job, pc>>
    BY <1>0, <1>6, <2>1, StillKept DEF Kept, Notify, pool
  <2>2. CASE /\ job' = [job EXCEPT ![a] = NoFuture]
             /\ Goto(a, IF a \in drains THEN "draining" ELSE "idle")
    BY <1>6, <2>2, FreeHands DEF Notify, pool
  <2>. QED  BY <1>6, <2>1, <2>2 DEF Notify
<1>7. ASSUME NEW t \in Clients, NEW f \in Futures, SubmitCall(t, f)
      PROVE  Kept'
  BY <1>0, <1>7, FreeHands DEF SubmitCall
<1>8. ASSUME NEW t \in Clients, Send(t)
      PROVE  Kept'
  <2>1. job[t] \in Futures
    BY <1>0, <1>8 DEF Send, Busy
  <2>2. /\ \A b \in Actors : b # t => pc'[b] = pc[b] /\ job'[b] = job[b]
        /\ \A f \in Futures : state'[f] = IF f = job[t] THEN "pending" ELSE state[f]
    BY <1>0, <1>8, <2>1 DEF Types, RolesOK, DataOK, Goto, Send
  <2>3. \A f \in Futures : Has(jobs', f) <=> Has(jobs, f) \/ f = job[t]
    BY <1>8, <2>1, AtTheEnd DEF Types, DataOK, Send
  <2>4. ASSUME NEW f \in Futures, f # job[t]  PROVE KeptFor(f)'
    <3>1. \A a \in Actors : HeldBy(a, f) => a # t
      BY <1>8 DEF HeldBy, Send
    <3>. QED  BY <1>0, <1>8, <2>2, <2>3, <2>4, <3>1, StillKept DEF Send
  <2>5. ASSUME NEW f \in Futures, f = job[t]  PROVE KeptFor(f)'
    BY <2>2, <2>3, <2>5 DEF KeptFor
  <2>. QED  BY <2>4, <2>5 DEF Kept
<1>9. ASSUME NEW t \in Clients, NEW f \in Futures, CancelCall(t, f)
      PROVE  Kept'
  <2>1. CASE state[f] = "pending"
    BY <1>5, <1>9, <2>1 DEF CancelCall, CancelClaim, pool
  <2>2. CASE state[f] # "pending"
    BY <1>0, <1>9, <2>2, FreeHands DEF CancelCall, CancelClaim, pool
  <2>. QED  BY <2>1, <2>2
<1>10. ASSUME NEW t \in Clients, Take(t)
       PROVE  Kept'
  <2>1. /\ \A b \in Actors : b # t => pc'[b] = pc[b] /\ job'[b] = job[b]
        /\ pc[t] = "taking" /\ pc'[t] = "closing" /\ job'[t] = job[t]
        /\ UNCHANGED <<state, done, jobs>>
    BY <1>0, <1>10 DEF Types, RolesOK, Goto, Take, pool
  <2>2. job[t] \in Futures /\ state[job[t]] = "cancelled"
    BY <1>0, <1>10 DEF Hands, Take, Busy
  <2>3. ASSUME NEW f \in Futures, f # job[t]  PROVE KeptFor(f)'
    <3>1. \A a \in Actors : HeldBy(a, f) => a # t
      BY <2>3 DEF HeldBy
    <3>. QED  BY <1>0, <2>1, <3>1, StillKept
  <2>4. ASSUME NEW f \in Futures, f = job[t]  PROVE KeptFor(f)'
    BY <2>1, <2>2, <2>4 DEF KeptFor
  <2>. QED  BY <2>3, <2>4 DEF Kept
<1>11. ASSUME NEW t \in Clients, NEW f \in Futures, NEW c \in Callbacks, AddCallback(t, f, c)
       PROVE  Kept'
  BY <1>0, <1>11, StillKept DEF Kept, AddCallback, pool
<1>12. ASSUME NEW t \in Clients, NEW wait \in BOOLEAN, NEW cancel \in BOOLEAN,
              ShutdownCall(t, wait, cancel)
       PROVE  Kept'
  BY <1>0, <1>12, FreeHands DEF ShutdownCall
<1>13. ASSUME NEW t \in Clients, Drain(t)
       PROVE  Kept'
  <2>1. CASE jobs # <<>> /\ state[Head(jobs)] = "pending"
    BY <1>5, <1>13, <2>1, FromTheChannel DEF Drain, CancelClaim
  <2>2. CASE jobs # <<>> /\ state[Head(jobs)] # "pending"
    <3>1. /\ \A b \in Actors : b # t => pc'[b] = pc[b]
          /\ UNCHANGED <<state, done, job>>
      BY <1>13, <2>2 DEF Types, RolesOK, Goto, Drain, CancelClaim
    <3>2. \A f \in Futures : state[f] = "pending" /\ Has(jobs, f) => Has(jobs', f)
      BY <1>13, <2>2, FromTheChannel DEF Drain
    <3>3. \A f \in Futures : \A a \in Actors :
             HeldBy(a, f) => pc'[a] = pc[a] /\ job'[a] = job[a]
      BY <1>13, <3>1 DEF HeldBy, Drain
    <3>4. ASSUME NEW f \in Futures  PROVE KeptFor(f)'
      BY <1>0, <3>1, <3>2, <3>3 DEF KeptFor, HeldBy
    <3>. QED  BY <3>4 DEF Kept
  <2>3. CASE jobs = <<>> /\ ~closed
    BY <1>0, <1>13, <2>3, FreeHands DEF Drain
  <2>4. CASE jobs = <<>> /\ closed
    BY <1>0, <1>13, <2>4, StillKept DEF Kept, Drain
  <2>. QED  BY <2>1, <2>2, <2>3, <2>4
<1>14. ASSUME NEW w \in Workers, Exit(w)
       PROVE  Kept'
  BY <1>0, <1>14, FreeHands DEF Exit, pool
<1>15. ASSUME NEW t \in Clients, CloseJobs(t) \/ WaitEnds(t)
       PROVE  Kept'
  BY <1>0, <1>15, FreeHands DEF CloseJobs, WaitEnds, pool
<1>. QED  BY <1>0, <1>1, <1>2, <1>3, <1>4, <1>6, <1>7, <1>8, <1>9, <1>10, <1>11, <1>12, <1>13,
          <1>14, <1>15 DEF Next, Work, GoOn

-----------------------------------------------------------------------------
(* Once *)

LEMMA NothingInEmpty == Distinct(<<>>) /\ \A c : ~Has(<<>>, c)
  BY EmptySeq DEF Distinct, Has

(* Where no callback moves, only the places of goroutines matter.          *)
LEMMA NoCallbackMoves ==
    ASSUME Types, Once, UNCHANGED <<callbacks, taken, ran>>,
           \A f \in Futures : f \in done' \/ state'[f] = "new" => callbacks[f] = <<>>,
           NEW a \in Actors, \A b \in Actors : b # a => pc'[b] = pc[b] /\ job'[b] = job[b],
           pc'[a] = "closing" => callbacks[job'[a]] = <<>>,
           taken[a] # <<>> => pc'[a] \in {"closing", "notifying"}
    PROVE  Once'
  BY DEF Once

(* Goroutine a copies the callbacks of the future it settles.              *)
LEMMA CopyKeeps ==
    ASSUME Types, Once, NEW a \in Actors, NEW k \in Futures, job[a] = k,
           pc[a] \in {"calling", "taking"}, TakeCallbacks(a), Goto(a, "closing"),
           UNCHANGED <<job, done, ran>>,
           \A f \in Futures : state'[f] = "new" => state[f] = "new"
    PROVE  Once'
<1>1. /\ \A b \in Actors : pc'[b] = IF b = a THEN "closing" ELSE pc[b]
      /\ \A b \in Actors : taken'[b] = IF b = a THEN callbacks[k] ELSE taken[b]
      /\ \A f \in Futures : callbacks'[f] = IF f = k THEN <<>> ELSE callbacks[f]
  BY DEF Types, RolesOK, DataOK, Goto, TakeCallbacks
<1>2. taken[a] = <<>> /\ \A c : ~Has(taken[a], c)
  BY NothingInEmpty DEF Once
<1>3. \A f \in Futures : Distinct(callbacks'[f]) /\ \A c : Has(callbacks'[f], c) =>
                            f # k /\ Has(callbacks[f], c)
  BY <1>1, NothingInEmpty DEF Once
<1>4. \A b \in Actors : Distinct(taken'[b]) /\ \A c : Has(taken'[b], c) =>
                           IF b = a THEN Has(callbacks[k], c) ELSE Has(taken[b], c)
  BY <1>1 DEF Once
<1>5. \A b \in Actors : pc'[b] = "closing" => callbacks'[job'[b]] = <<>>
  <2>1. ASSUME NEW b \in Actors, pc'[b] = "closing"  PROVE callbacks'[job[b]] = <<>>
    <3>1. job[b] \in Futures
      BY <1>1, <2>1 DEF Types, RolesOK, Busy
    <3>. QED  BY <1>1, <2>1, <3>1 DEF Once
  <2>. QED  BY <2>1
<1>6. \A f \in Futures : f \in done' \/ state'[f] = "new" => callbacks'[f] = <<>>
  BY <1>1 DEF Once
<1>7. \A b \in Actors : taken'[b] # <<>> => pc'[b] \in {"closing", "notifying"}
  BY <1>1 DEF Once
<1>8. \A c \in Callbacks : \A f, g \in Futures :
         Has(callbacks'[f], c) /\ Has(callbacks'[g], c) => f = g
  BY <1>3 DEF Once
<1>9. \A c \in Callbacks : \A b, d \in Actors :
         Has(taken'[b], c) /\ Has(taken'[d], c) => b = d
  BY <1>4 DEF Once
<1>10. \A c \in Callbacks : \A f \in Futures : \A b \in Actors :
          ~(Has(callbacks'[f], c) /\ Has(taken'[b], c))
  BY <1>3, <1>4 DEF Once
<1>11. \A c \in Callbacks : ran[c] > 0 =>
          /\ \A f \in Futures : ~Has(callbacks'[f], c)
          /\ \A b \in Actors : ~Has(taken'[b], c)
  BY <1>3, <1>4 DEF Once
<1>. QED  BY <1>3, <1>4, <1>5, <1>6, <1>7, <1>8, <1>9, <1>10, <1>11 DEF Once

(* The first callback that was copied is called.                           *)
LEMMA CallKeeps ==
    ASSUME Types, Once, NEW a \in Actors, taken[a] # <<>>, UNCHANGED <<state, callbacks, done, job, pc>>,
           ran' = [ran EXCEPT ![Head(taken[a])] = @ + 1],
           taken' = [taken EXCEPT ![a] = Tail(@)]
    PROVE  Once'
<1>. DEFINE h == Head(taken[a])
<1>1. /\ h \in Callbacks /\ Has(taken[a], h)
      /\ Distinct(Tail(taken[a])) /\ ~Has(Tail(taken[a]), h)
      /\ \A c : Has(Tail(taken[a]), c) => Has(taken[a], c)
  BY HeadAndTail DEF Types, DataOK, Once
<1>2. /\ \A b \in Actors : taken'[b] = IF b = a THEN Tail(taken[a]) ELSE taken[b]
      /\ \A c \in Callbacks : ran'[c] = IF c = h THEN ran[h] + 1 ELSE ran[c]
      /\ \A c \in Callbacks : ran[c] \in Nat
  BY <1>1 DEF Types, DataOK
<1>. HIDE DEF h
<1>3. ran[h] = 0
  BY <1>1, <1>2 DEF Once
<1>4. /\ \A b \in Actors : Distinct(taken'[b])
      /\ \A b \in Actors : \A c : Has(taken'[b], c) => Has(taken[b], c)
      /\ \A b \in Actors : taken'[b] # <<>> => taken[b] # <<>>
  BY <1>1, <1>2 DEF Once
<1>5. \A b \in Actors : ~Has(taken'[b], h)
  BY <1>1, <1>2 DEF Once
<1>6. \A f \in Futures : ~Has(callbacks[f], h)
  BY <1>1 DEF Once
<1>7. \A c \in Callbacks : ran'[c] <= 1 /\ (ran'[c] > 0 => c = h \/ ran[c] > 0)
  BY <1>2, <1>3 DEF Once
<1>8. \A c \in Callbacks : ran'[c] > 0 =>
         /\ \A f \in Futures : ~Has(callbacks[f], c)
         /\ \A b \in Actors : ~Has(taken'[b], c)
  BY <1>4, <1>5, <1>6, <1>7 DEF Once
<1>9. \A c \in Callbacks : \A b, d \in Actors :
         Has(taken'[b], c) /\ Has(taken'[d], c) => b = d
  BY <1>4 DEF Once
<1>10. \A c \in Callbacks : \A f \in Futures : \A b \in Actors :
          ~(Has(callbacks[f], c) /\ Has(taken'[b], c))
  BY <1>4 DEF Once
<1>. QED  BY <1>4, <1>7, <1>8, <1>9, <1>10 DEF Once

(* add_done_callback, of a callback that is nowhere yet.                   *)
LEMMA AddKeeps ==
    ASSUME Types, Hands, Once, NEW t, NEW f \in Futures, NEW c \in Callbacks,
           AddCallback(t, f, c)
    PROVE  Once'
<1>1. /\ ran[c] = 0
      /\ \A g \in Futures : ~Has(callbacks[g], c)
      /\ \A a \in Actors : ~Has(taken[a], c)
      /\ UNCHANGED <<state, done, pc, job, taken>>
      /\ \A g \in Futures : callbacks[g] \in Seq(Callbacks)
      /\ \A d \in Callbacks : ran[d] \in Nat
  BY DEF Types, DataOK, AddCallback, Listed, ToSet, Has
<1>2. CASE Settled(f)
  <2>1. /\ callbacks' = callbacks
        /\ \A d \in Callbacks : ran'[d] = IF d = c THEN 1 ELSE ran[d]
    BY <1>1, <1>2 DEF AddCallback, Types, DataOK
  <2>. QED  BY <1>1, <2>1 DEF Once
<1>3. CASE ~Settled(f)
  <2>1. /\ ran' = ran
        /\ \A g \in Futures : callbacks'[g] = IF g = f THEN Append(callbacks[f], c)
                                              ELSE callbacks[g]
    BY <1>3 DEF AddCallback, Types, DataOK
  <2>2. /\ Distinct(Append(callbacks[f], c))
        /\ \A d : Has(Append(callbacks[f], c), d) <=> Has(callbacks[f], d) \/ d = c
    BY <1>1, Longer DEF Once
  <2>3. /\ \A g \in Futures : \A d : d # c => (Has(callbacks'[g], d) <=> Has(callbacks[g], d))
        /\ \A g \in Futures : Has(callbacks'[g], c) => g = f
    BY <1>1, <2>1, <2>2
  <2>4. state[f] # "new" /\ f \notin done /\ \A a \in Actors : pc[a] = "closing" => job[a] # f
    BY <1>3 DEF Hands, Settled, AddCallback
  <2>5. \A a \in Actors : pc[a] = "closing" => callbacks'[job[a]] = <<>>
    BY <2>1, <2>4 DEF Once, Types, RolesOK, Busy
  <2>6. \A g \in Futures : Distinct(callbacks'[g]) /\ (g \in done \/ state[g] = "new" => callbacks'[g] = <<>>)
    BY <2>1, <2>2, <2>4 DEF Once
  <2>7. \A d \in Callbacks : \A g, h \in Futures :
           Has(callbacks'[g], d) /\ Has(callbacks'[h], d) => g = h
    <3>1. ASSUME NEW d \in Callbacks, d # c  PROVE \A g, h \in Futures :
                Has(callbacks'[g], d) /\ Has(callbacks'[h], d) => g = h
      BY <2>3, <3>1 DEF Once
    <3>. QED  BY <1>1, <2>3, <3>1
  <2>8. \A d \in Callbacks : \A g \in Futures : \A a \in Actors :
           ~(Has(callbacks'[g], d) /\ Has(taken[a], d))
    <3>1. ASSUME NEW d \in Callbacks, d # c  PROVE \A g \in Futures : \A a \in Actors :
                ~(Has(callbacks'[g], d) /\ Has(taken[a], d))
      BY <2>3, <3>1 DEF Once
    <3>. QED  BY <1>1, <2>3, <3>1
  <2>9. \A d \in Callbacks : ran[d] > 0 =>
           /\ \A g \in Futures : ~Has(callbacks'[g], d)
           /\ \A a \in Actors : ~Has(taken[a], d)
    <3>1. ASSUME NEW d \in Callbacks, d # c  PROVE ran[d] > 0 =>
                /\ \A g \in Futures : ~Has(callbacks'[g], d)
                /\ \A a \in Actors : ~Has(taken[a], d)
      BY <2>3, <3>1 DEF Once
    <3>. QED  BY <1>1, <2>3, <3>1
  <2>. QED  BY <1>1, <2>1, <2>5, <2>6, <2>7, <2>8, <2>9 DEF Once
<1>. QED  BY <1>2, <1>3

LEMMA OnceKept ==
    ASSUME Types, Hands, Once, Next
    PROVE  Once'
<1>0. /\ Workers \subseteq Actors /\ Clients \subseteq Actors
      /\ \A a \in Actors : pc[a] \in Busy => job[a] \in Futures
      /\ done \subseteq Futures
  BY DEF Actors, Types, RolesOK, DataOK
<1>1. ASSUME NEW a \in Actors, NEW place, place # "closing", Goto(a, place),
             taken[a] = <<>> \/ place = "notifying",
             NEW f, job' = job \/ job' = [job EXCEPT ![a] = f],
             UNCHANGED <<callbacks, taken, ran>>,
             \A g \in Futures : g \in done' \/ state'[g] = "new" => callbacks[g] = <<>>
      PROVE  Once'
  BY <1>1, NoCallbackMoves DEF Types, RolesOK, Goto
<1>2. \A a \in Actors : pc[a] \notin {"closing", "notifying"} => taken[a] = <<>>
  BY DEF Once
<1>3. \A g \in Futures : g \in done \/ state[g] = "new" => callbacks[g] = <<>>
  BY DEF Once
<1>4. ASSUME NEW w \in Workers, Receive(w) \/ Exit(w)
      PROVE  Once'
  BY <1>0, <1>1, <1>2, <1>3, <1>4 DEF Receive, Exit, pool, stop, history
<1>5. ASSUME NEW w \in Workers, Claim(w)
      PROVE  Once'
  <2>1. \A g \in Futures : state'[g] = "new" => state[g] = "new"
    BY <1>0, <1>5 DEF Types, DataOK, Claim, Busy
  <2>. QED  BY <1>0, <1>1, <1>2, <1>3, <1>5, <2>1 DEF Claim, pool, stop
<1>6. ASSUME NEW w \in Workers, Finish(w)
      PROVE  Once'
  <2>1. \A g \in Futures : state'[g] = "new" => state[g] = "new"
    BY <1>0, <1>6 DEF Types, DataOK, Finish, Busy
  <2>. QED  BY <1>0, <1>6, <2>1, CopyKeeps DEF Finish, Busy, pool, stop, history
<1>7. ASSUME NEW a \in Actors, Close(a)
      PROVE  Once'
  <2>1. \A g \in Futures : g \in done' \/ state'[g] = "new" => callbacks[g] = <<>>
    BY <1>7 DEF Once, Close
  <2>. QED  BY <1>1, <1>7, <2>1 DEF Close, pool, stop, history
<1>8. ASSUME NEW a \in Actors, Notify(a)
      PROVE  Once'
  <2>1. CASE taken[a] # <<>>
    BY <1>8, <2>1, CallKeeps DEF Notify
  <2>2. CASE taken[a] = <<>>
    <3>1. (IF a \in drains THEN "draining" ELSE "idle") # "closing"
      OBVIOUS
    <3>. QED  BY <1>1, <1>3, <1>8, <2>2, <3>1 DEF Notify
  <2>. QED  BY <2>1, <2>2
<1>9. ASSUME NEW t \in Clients, NEW f \in Futures, SubmitCall(t, f)
      PROVE  Once'
  BY <1>0, <1>1, <1>2, <1>3, <1>9 DEF SubmitCall, stop, history
<1>10. ASSUME NEW t \in Clients, Send(t)
       PROVE  Once'
  <2>1. \A g \in Futures : state'[g] = "new" => state[g] = "new"
    BY <1>0, <1>10 DEF Types, DataOK, Send, Busy
  <2>. QED  BY <1>0, <1>1, <1>2, <1>3, <1>10, <2>1 DEF Send, stop, history
<1>11. ASSUME NEW t \in Clients, NEW f \in Futures, NEW next \in {"idle", "draining"},
              CancelClaim(t, f, next), pc[t] \in {"idle", "draining"},
              UNCHANGED <<callbacks, done, taken, ran>>
       PROVE  Once'
  <2>1. \A g \in Futures : state'[g] = "new" => state[g] = "new"
    BY <1>11 DEF Types, DataOK, CancelClaim
  <2>2. taken[t] = <<>>
    BY <1>0, <1>2, <1>11
  <2>3. CASE state[f] = "pending"
    BY <1>0, <1>1, <1>3, <1>11, <2>1, <2>2, <2>3 DEF CancelClaim
  <2>4. CASE state[f] # "pending"
    BY <1>0, <1>1, <1>3, <1>11, <2>1, <2>2, <2>4 DEF CancelClaim
  <2>. QED  BY <2>3, <2>4
<1>12. ASSUME NEW t \in Clients, NEW f \in Futures, CancelCall(t, f)
       PROVE  Once'
  BY <1>11, <1>12 DEF CancelCall, history
<1>13. ASSUME NEW t \in Clients, Take(t)
       PROVE  Once'
  BY <1>0, <1>13, CopyKeeps DEF Take, Busy, pool, stop, history
<1>14. ASSUME NEW t \in Clients, NEW wait \in BOOLEAN, NEW cancel \in BOOLEAN,
              ShutdownCall(t, wait, cancel)
       PROVE  Once'
  <2>1. (IF cancel THEN "draining" ELSE "stopping") # "closing"
    OBVIOUS
  <2>. QED  BY <1>0, <1>1, <1>2, <1>3, <1>14, <2>1 DEF ShutdownCall, history
<1>15. ASSUME NEW t \in Clients, Drain(t)
       PROVE  Once'
  <2>1. CASE jobs # <<>>
    BY <1>11, <1>15, <2>1, FromTheChannel DEF Drain, history
  <2>2. CASE jobs = <<>> /\ ~closed
    BY <1>0, <1>1, <1>2, <1>3, <1>15, <2>2 DEF Drain, history
  <2>3. CASE jobs = <<>> /\ closed
    BY <1>15, <2>3 DEF Once, Drain, history
  <2>. QED  BY <2>1, <2>2, <2>3
<1>16. ASSUME NEW t \in Clients, CloseJobs(t) \/ WaitEnds(t)
       PROVE  Once'
  <2>1. (IF t \in waits THEN "waiting" ELSE "idle") # "closing"
    OBVIOUS
  <2>2. CASE CloseJobs(t)
    BY <1>0, <1>1, <1>2, <1>3, <2>1, <2>2 DEF CloseJobs, stop, history
  <2>3. CASE WaitEnds(t)
    BY <1>0, <1>1, <1>2, <1>3, <2>3 DEF WaitEnds, pool, stop, history
  <2>. QED  BY <1>16, <2>2, <2>3
<1>. QED  BY <1>0, <1>4, <1>5, <1>6, <1>7, <1>8, <1>9, <1>10, <1>12, <1>13, <1>14, <1>15,
          <1>16, AddKeeps DEF Next, Work, GoOn

-----------------------------------------------------------------------------
(* Theorems *)

(* The five parts hold at first and every step keeps them.                 *)
LEMMA Invariance == Spec => []IInv
<1>1. Init => IInv
  <2> SUFFICES ASSUME Init  PROVE IInv
    OBVIOUS
  <2>1. Types
    <3>1. Len(<<>>) = 0 /\ <<>> \in Seq(Futures) /\ <<>> \in Seq(Callbacks)
      BY EmptySeq
    <3>2. /\ state \in [Futures -> {"new", "pending", "running", "cancelled", "finished"}]
          /\ callbacks \in [Futures -> Seq(Callbacks)]
          /\ taken \in [Actors -> Seq(Callbacks)]
      BY <3>1 DEF Init
    <3>4. ran \in [Callbacks -> Nat] /\ calls \in [Futures -> Nat]
      <4>1. 0 \in Nat
        OBVIOUS
      <4>. QED  BY <4>1 DEF Init
    <3>5. jobs \in Seq(Futures) /\ Len(jobs) <= Capacity
      BY <3>1, CapacityType DEF Init
    <3>6. shutdowns \in 0..MaxShutdowns
      BY SizesAssumption DEF Init
    <3>7. closed \in BOOLEAN /\ shutdown \in BOOLEAN /\ crashed \in BOOLEAN
      BY DEF Init
    <3>8. done \in SUBSET Futures /\ mu \in Clients \cup {Nobody}
          /\ waits \in SUBSET Clients /\ drains \in SUBSET Clients
      BY DEF Init
    <3>9. DataOK
      BY <3>2, <3>4, <3>5, <3>6, <3>7, <3>8 DEF DataOK
    <3>3. RolesOK
      BY DEF Init, RolesOK, Places, WorkerPlaces, ClientPlaces, Busy, Actors
    <3>. QED  BY <3>3, <3>9 DEF Types
  <2>2. Gate
    BY DEF Init, Gate, Actors
  <2>3. Hands /\ Kept /\ Once
    BY NothingInEmpty
       DEF Init, Hands, Kept, KeptFor, Once, Settles, Settled, Actors
  <2>. QED  BY <2>1, <2>2, <2>3 DEF IInv
<1>2. IInv /\ [Next]_vars => IInv'
  <2> SUFFICES ASSUME IInv, [Next]_vars  PROVE IInv'
    OBVIOUS
  <2>1. CASE UNCHANGED vars
    BY <2>1 DEF vars, IInv, Types, DataOK, RolesOK, Gate, Hands, Kept, KeptFor, Once, Settles,
       Settled, Capacity
  <2>2. CASE Next
    BY <2>2, RolesKept, DataKept, GateKept, HandsKept, KeptKept, OnceKept DEF IInv, Types
  <2>. QED  BY <2>1, <2>2
<1>. QED  BY <1>1, <1>2, PTL DEF Spec

(* Every variable keeps its type and the channel its capacity.             *)
THEOREM Typing == Spec => []TypeOK
<1>1. IInv => TypeOK
  BY DEF IInv, Types, DataOK, RolesOK, TypeOK
<1>. QED  BY <1>1, Invariance, PTL

(* No submit is at its send when the channel is closed (trySubmit,         *)
(* shutdown and doClose).                                                  *)
THEOREM SendsAreSafe == Spec => []NoSendOnClosed
<1>1. IInv => NoSendOnClosed
  <2> SUFFICES ASSUME IInv, NEW t \in Clients, pc[t] = "sending"  PROVE ~closed
    BY DEF NoSendOnClosed
  <2>1. mu = t /\ mu # Nobody
    BY DEF IInv, Gate
  <2>. QED  BY <2>1 DEF IInv, Gate
<1>. QED  BY <1>1, Invariance, PTL

(* One goroutine settles a future, and closes its done channel once (the   *)
(* worker's loop and cfCancelFuture).                                      *)
THEOREM SettledByOne == Spec => []SettledOnce
<1>1. IInv => SettledOnce
  BY DEF IInv, Hands, Settles, SettledOnce
<1>. QED  BY <1>1, Invariance, PTL

(* A callback is in one place and called once (add_done_callback, cancel   *)
(* and the worker).                                                        *)
THEOREM CalledOnce == Spec => []CallbackOnce
<1>1. IInv => CallbackOnce
  <2> SUFFICES ASSUME IInv  PROVE CallbackOnce
    OBVIOUS
  <2>1. ASSUME NEW c \in Callbacks
        PROVE  ran[c] + Cardinality({f \in Futures : c \in ToSet(callbacks[f])})
                      + Cardinality({a \in Actors : c \in ToSet(taken[a])}) <= 1
    <3>. DEFINE F == {f \in Futures : c \in ToSet(callbacks[f])}
                A == {a \in Actors : c \in ToSet(taken[a])}
    <3>1. /\ \A f \in F : f \in Futures /\ Has(callbacks[f], c)
          /\ \A a \in A : a \in Actors /\ Has(taken[a], c)
      BY DEF ToSet, Has
    <3>2. /\ \A f, g \in F : f = g
          /\ \A a, b \in A : a = b
          /\ F # {} => A = {}
          /\ ran[c] > 0 => F = {} /\ A = {}
          /\ ran[c] \in Nat /\ ran[c] <= 1
      BY <3>1 DEF IInv, Once, Types, DataOK
    <3>3. ASSUME NEW S, \A x, y \in S : x = y
          PROVE  /\ Cardinality(S) \in {0, 1}
                 /\ S = {} => Cardinality(S) = 0
      <4>1. CASE S = {}
        BY <4>1, FS_EmptySet
      <4>2. CASE S # {}
        <5>1. PICK x \in S : S = {x}
          BY <3>3, <4>2
        <5>. QED  BY <4>2, <5>1, FS_Singleton
      <4>. QED  BY <4>1, <4>2
    <3>. HIDE DEF F, A
    <3>4. /\ Cardinality(F) \in {0, 1} /\ Cardinality(A) \in {0, 1}
          /\ F = {} => Cardinality(F) = 0
          /\ A = {} => Cardinality(A) = 0
      BY <3>2, <3>3
    <3>5. ran[c] + Cardinality(F) + Cardinality(A) <= 1
      BY <3>2, <3>4
    <3>. QED  BY <3>5 DEF F, A
  <2>. QED  BY <2>1 DEF IInv, Types, DataOK, Once, CallbackOnce
<1>. QED  BY <1>1, Invariance, PTL

(* Where everything has come to rest nothing was left behind: each future  *)
(* and each callback has met its end and every call has returned.          *)
THEOREM RestIsEnd == Spec => []NothingLeftBehind
<1>1. IInv => NothingLeftBehind
  <2> SUFFICES ASSUME IInv, AtRest
               PROVE  /\ \A f \in Futures : state[f] # "new" => f \in done
                      /\ \A c \in Callbacks : Listed(c) => ran[c] > 0
                      /\ mu = Nobody /\ \A t \in Clients : pc[t] = "idle"
    BY DEF NothingLeftBehind
  <2>1. jobs = <<>>
    BY DEF IInv, Gate, AtRest
  <2>2. ~(Len(jobs) >= Capacity)
    <3>1. Len(jobs) = 0
      BY <2>1, EmptySeq
    <3>. QED  BY <3>1, CapacityType
  <2>3. \A t \in Clients : pc[t] # "sending"
    BY <2>2 DEF AtRest
  <2>4. ASSUME NEW t \in Clients, pc[t] = "waiting"  PROVE FALSE
    BY <2>4 DEF AtRest, IInv, Gate
  <2>5. \A t \in Clients : pc[t] = "idle"
    BY <2>3, <2>4 DEF AtRest
  <2>6. mu = Nobody
    BY <2>3 DEF IInv, Gate, Types, DataOK
  <2>7. \A a \in Actors : pc[a] \in {"idle", "exited"}
    BY <2>5 DEF AtRest, Actors
  <2>8. ASSUME NEW f \in Futures, state[f] # "new"  PROVE f \in done
    <3>1. ~Has(jobs, f)
      BY <2>1, NothingInEmpty
    <3>2. Workers \subseteq Actors /\ Clients \subseteq Actors
      BY DEF Actors
    <3>. QED  BY <2>7, <2>8, <3>1, <3>2 DEF IInv, Types, DataOK, Kept, KeptFor
  <2>9. ASSUME NEW c \in Callbacks, Listed(c)  PROVE ran[c] > 0
    <3>1. \A f \in Futures : callbacks[f] = <<>>
      BY <2>8 DEF IInv, Once
    <3>2. \A a \in Actors : taken[a] = <<>>
      BY <2>7 DEF IInv, Once
    <3>3. c \notin ToSet(<<>>)
      BY NothingInEmpty DEF ToSet, Has
    <3>. QED  BY <2>9, <3>1, <3>2, <3>3 DEF Listed
  <2>. QED  BY <2>5, <2>6, <2>8, <2>9
<1>. QED  BY <1>1, Invariance, PTL

(* A function is called at most once and what became of a future stays:    *)
(* the compare-and-swaps of the worker and of cancel.                      *)
THEOREM OutcomeStays == Spec => CancelledNeverRuns
<1>1. IInv /\ IInv' /\ [Next]_vars =>
         [\A f \in Futures :
             /\ calls'[f] <= 1
             /\ Settled(f) => state'[f] = state[f] /\ calls'[f] = calls[f]]_vars
  <2> SUFFICES ASSUME IInv, IInv', Next, NEW f \in Futures
               PROVE  /\ calls'[f] <= 1
                      /\ Settled(f) => state'[f] = state[f] /\ calls'[f] = calls[f]
    OBVIOUS
  <2>0. /\ state \in [Futures -> {"new", "pending", "running", "cancelled", "finished"}]
        /\ calls \in [Futures -> Nat]
    BY DEF IInv, Types, DataOK
  <2>1. calls'[f] <= 1
    BY DEF IInv, Hands
  <2>2. ASSUME NEW k, state[k] \in {"new", "pending", "running"}, NEW s,
               state' = [state EXCEPT ![k] = s] \/ state' = state,
               calls' = [calls EXCEPT ![k] = @ + 1] \/ calls' = calls
        PROVE  Settled(f) => state'[f] = state[f] /\ calls'[f] = calls[f]
    BY <2>0, <2>2 DEF Settled
  <2>3. ASSUME NEW w \in Workers, Claim(w)
        PROVE  Settled(f) => state'[f] = state[f] /\ calls'[f] = calls[f]
    BY <2>2, <2>3 DEF Claim
  <2>4. ASSUME NEW w \in Workers, Finish(w)
        PROVE  Settled(f) => state'[f] = state[f] /\ calls'[f] = calls[f]
    <3>1. state[job[w]] = "running"
      BY <2>4 DEF IInv, Hands, Finish, Actors
    <3>2. /\ state' = [state EXCEPT ![job[w]] = "finished"]
          /\ calls' = calls
      BY <2>4 DEF Finish, history
    <3>3. Settled(f) => f # job[w]
      BY <3>1 DEF Settled
    <3>. QED  BY <2>0, <3>2, <3>3
  <2>5. ASSUME NEW t \in Clients, Send(t)
        PROVE  Settled(f) => state'[f] = state[f] /\ calls'[f] = calls[f]
    <3>1. state[job[t]] = "new"
      BY <2>5 DEF IInv, Hands, Send
    <3>2. /\ state' = [state EXCEPT ![job[t]] = "pending"]
          /\ calls' = calls
      BY <2>5 DEF Send, history
    <3>3. Settled(f) => f # job[t]
      BY <3>1 DEF Settled
    <3>. QED  BY <2>0, <3>2, <3>3
  <2>6. ASSUME NEW t \in Clients, NEW g, NEW next, CancelClaim(t, g, next), UNCHANGED calls
        PROVE  Settled(f) => state'[f] = state[f] /\ calls'[f] = calls[f]
    BY <2>2, <2>6 DEF CancelClaim
  <2>7. ASSUME NEW t \in Clients, Drain(t)
        PROVE  Settled(f) => state'[f] = state[f] /\ calls'[f] = calls[f]
    <3>1. CASE jobs # <<>>
      BY <2>6, <2>7, <3>1 DEF Drain, history
    <3>2. CASE jobs = <<>>
      BY <2>7, <3>2 DEF Drain, history
    <3>. QED  BY <3>1, <3>2
  <2>8. UNCHANGED <<state, calls>> => (Settled(f) => state'[f] = state[f] /\ calls'[f] = calls[f])
    OBVIOUS
  <2>9. ASSUME NEW w \in Workers, Work(w)
        PROVE  Settled(f) => state'[f] = state[f] /\ calls'[f] = calls[f]
    BY <2>3, <2>4, <2>8, <2>9 DEF Work, Receive, Exit, Close, Notify, history
  <2>10. ASSUME NEW t \in Clients, GoOn(t)
         PROVE  Settled(f) => state'[f] = state[f] /\ calls'[f] = calls[f]
    BY <2>5, <2>7, <2>8, <2>10 DEF GoOn, Take, Close, Notify, CloseJobs, WaitEnds, history
  <2>11. ASSUME NEW t \in Clients, NEW g \in Futures,
                \/ SubmitCall(t, g) \/ CancelCall(t, g)
                \/ \E c \in Callbacks : AddCallback(t, g, c)
         PROVE  Settled(f) => state'[f] = state[f] /\ calls'[f] = calls[f]
    BY <2>6, <2>8, <2>11 DEF SubmitCall, CancelCall, AddCallback, history
  <2>12. ASSUME NEW t \in Clients, NEW wait \in BOOLEAN, NEW cancel \in BOOLEAN,
                ShutdownCall(t, wait, cancel)
         PROVE  Settled(f) => state'[f] = state[f] /\ calls'[f] = calls[f]
    BY <2>8, <2>12 DEF ShutdownCall, history
  <2>. QED  BY <2>1, <2>9, <2>10, <2>11, <2>12 DEF Next
<1>. QED  BY <1>1, Invariance, PTL DEF Spec, CancelledNeverRuns

(* When shutdown(wait=True) comes back the work is over: it waited for the *)
(* workers, who leave only a closed and empty channel behind.              *)
THEOREM WorkIsOver == Spec => ShutdownCompletes
<1>1. IInv /\ [Next]_vars =>
         [\A t \in Clients : pc[t] = "waiting" /\ pc'[t] = "idle" =>
             /\ shutdown /\ mu = Nobody
             /\ \A f \in Futures :
                   /\ state[f] \in {"new", "cancelled", "finished"}
                   /\ state[f] = "finished" => f \in done
             /\ \A w \in Workers : taken[w] = <<>>]_vars
  <2> SUFFICES ASSUME IInv, Next, NEW t \in Clients, pc[t] = "waiting", pc'[t] = "idle"
               PROVE  /\ shutdown /\ mu = Nobody
                      /\ \A f \in Futures :
                            /\ state[f] \in {"new", "cancelled", "finished"}
                            /\ state[f] = "finished" => f \in done
                      /\ \A w \in Workers : taken[w] = <<>>
    OBVIOUS
  <2>1. ASSUME NEW a \in Actors, a # t, NEW place, Goto(a, place) \/ UNCHANGED pc
        PROVE  FALSE
    BY <2>1 DEF IInv, Types, RolesOK, Goto, Actors
  <2>2. \A a \in Actors : pc[a] # "waiting" => a # t
    OBVIOUS
  <2>3. t \in Actors /\ t \notin Workers /\ Workers \subseteq Actors /\ Clients \subseteq Actors
    BY DEF Actors
  <2>4. ASSUME NEW w \in Workers  PROVE ~Work(w)
    BY <2>1, <2>3 DEF Work, Receive, Claim, Finish, Exit, Close, Notify
  <2>5. ASSUME NEW s \in Clients  PROVE GoOn(s) => WaitEnds(s) /\ s = t
    <3>1. Send(s) \/ Take(s) \/ Close(s) \/ Notify(s) \/ CloseJobs(s) => FALSE
      BY <2>1, <2>2, <2>3 DEF Send, Take, Close, Notify, CloseJobs
    <3>2. Drain(s) => FALSE
      BY <2>1, <2>2, <2>3 DEF Drain, CancelClaim
    <3>3. WaitEnds(s) => s = t
      BY <2>1, <2>3 DEF WaitEnds
    <3>. QED  BY <3>1, <3>2, <3>3 DEF GoOn
  <2>6. ASSUME NEW s \in Clients, NEW f \in Futures
        PROVE  /\ ~SubmitCall(s, f) /\ ~CancelCall(s, f)
               /\ \A c \in Callbacks : ~AddCallback(s, f, c)
    BY <2>1, <2>2, <2>3 DEF SubmitCall, CancelCall, CancelClaim, AddCallback
  <2>7. ASSUME NEW s \in Clients, NEW wait \in BOOLEAN, NEW cancel \in BOOLEAN
        PROVE  ~ShutdownCall(s, wait, cancel)
    BY <2>1, <2>2, <2>3 DEF ShutdownCall
  <2>8. WaitEnds(t)
    BY <2>4, <2>5, <2>6, <2>7 DEF Next
  <2>9. \A w \in Workers : pc[w] = "exited"
    BY <2>8 DEF WaitEnds
  <2>10. jobs = <<>> /\ closed /\ shutdown
    BY <2>9 DEF IInv, Gate
  <2>11. mu = Nobody
    BY <2>10 DEF IInv, Gate
  <2>12. \A w \in Workers : taken[w] = <<>>
    BY <2>3, <2>9 DEF IInv, Once
  <2>13. ASSUME NEW f \in Futures
         PROVE  /\ state[f] \in {"new", "cancelled", "finished"}
                /\ state[f] = "finished" => f \in done
    <3>1. ~Has(jobs, f)
      BY <2>10, NothingInEmpty
    <3>. QED  BY <2>9, <3>1 DEF IInv, Types, DataOK, Kept, KeptFor
  <2>. QED  BY <2>10, <2>11, <2>12, <2>13
<1>. QED  BY <1>1, Invariance, PTL DEF Spec, ShutdownCompletes
=============================================================================
