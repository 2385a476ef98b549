---------------------------- MODULE SyncQueueProofs ----------------------------
(***************************************************************************)
(* Theorems about SyncQueue, for every set of threads, every maxsize, every*)
(* number of puts and each of the three kinds of queue.                    *)
(***************************************************************************)
EXTENDS SyncQueue, SequenceLemmas, FiniteSetTheorems

-----------------------------------------------------------------------------
(* Types *)

USE SizeAssumption

LEMMA NoItems == <<>> \in Seq(1..MaxPuts)
  BY EmptySeq

LEMMA SignalType ==
    ASSUME TypeOK, NEW c \in Conds, NEW w \in Signalled(c)
    PROVE  w \in [Conds -> SUBSET Threads]
<1>1. CASE waiting[c] = {}
  BY <1>1 DEF TypeOK, Signalled
<1>2. CASE waiting[c] # {}
  <2>1. PICK t \in waiting[c] : w = [waiting EXCEPT ![c] = @ \ {t}]
    BY <1>2 DEF Signalled
  <2>. QED  BY <2>1 DEF TypeOK
<1>. QED  BY <1>1, <1>2

LEMMA BroadcastType ==
    ASSUME TypeOK, NEW C
    PROVE  Broadcasted(C) \in [Conds -> SUBSET Threads]
  BY DEF TypeOK, Broadcasted

(* The variables of a call: everything but the buffer, the wait lists and  *)
(* the histories.                                                          *)
CallTypeOK ==
    /\ pc \in [Threads -> Calls]
    /\ arg \in [Threads -> 0..MaxPuts]
    /\ \A t \in Threads : pc[t] = "put" => arg[t] # 0
    /\ tmo \in [Threads -> Timeouts]
    /\ due \in SUBSET Threads
    /\ armed \in SUBSET Threads
    /\ stale \in SUBSET Conds

LEMMA CondOfType == \A call \in Calls : CondOf(call) \in Conds
  BY DEF Calls, Conds, CondOf

LEMMA ReturnType ==
    ASSUME TypeOK, NEW t \in Threads, Return(t)
    PROVE  CallTypeOK'
<1>1. CondOf(pc[t]) \in Conds
  BY CondOfType DEF TypeOK
<1>2. "idle" \in Calls /\ -1 \in Timeouts /\ 0 \in 0..MaxPuts
  BY DEF Calls, Timeouts
<1>. QED  BY <1>1, <1>2 DEF TypeOK, Return, CallTypeOK

LEMMA ParkType ==
    ASSUME TypeOK, NEW t \in Threads, Park(t), UNCHANGED puts
    PROVE  TypeOK'
<1>1. waiting' \in [Conds -> SUBSET Threads]
  BY DEF TypeOK, Park
<1>. QED  BY <1>1 DEF TypeOK, Park, buffer

LEMMA RaiseType ==
    ASSUME TypeOK, NEW t \in Threads, Raise(t), puts' \in 0..MaxPuts
    PROVE  TypeOK'
  BY ReturnType DEF TypeOK, Raise, CallTypeOK, buffer

LEMMA StartWaitType ==
    ASSUME TypeOK, NEW t \in Threads, NEW call \in Calls,
           NEW x \in 0..MaxPuts, NEW timeout \in Timeouts,
           call = "put" => x # 0,
           StartWait(t, call, x, timeout), puts' \in 0..MaxPuts
    PROVE  TypeOK'
<1>1. waiting' \in [Conds -> SUBSET Threads]
  BY DEF TypeOK, StartWait
<1>2. armed' \in SUBSET Threads
  BY DEF TypeOK, StartWait
<1>. QED  BY <1>1, <1>2 DEF TypeOK, StartWait, buffer

LEMMA ExpireType ==
    ASSUME TypeOK, NEW call \in Calls, NEW timeout,
           ExpireAtOnce(call, timeout), puts' \in 0..MaxPuts
    PROVE  TypeOK'
  BY CondOfType DEF TypeOK, ExpireAtOnce, buffer

LEMMA AcceptType ==
    ASSUME TypeOK, NEW t \in Threads, NEW x \in 1..MaxPuts,
           Accept(t, x), puts' \in 0..MaxPuts
    PROVE  TypeOK'
<1>1. items' \in Seq(1..MaxPuts) /\ unfinished' \in Nat
  BY AppendProperties DEF TypeOK, Accept
<1>2. waiting' \in [Conds -> SUBSET Threads]
  BY SignalType DEF Accept, Conds
<1>3. CallTypeOK'
  BY ReturnType DEF Accept
<1>. QED  BY <1>1, <1>2, <1>3 DEF TypeOK, Accept, CallTypeOK, config

LEMMA TakeType ==
    ASSUME TypeOK, NEW t \in Threads, Take(t), UNCHANGED puts
    PROVE  TypeOK'
<1>1. items' \in Seq(1..MaxPuts)
  BY TakenAway DEF TypeOK, Take, Removable
<1>2. waiting' \in [Conds -> SUBSET Threads]
  BY SignalType DEF Take, Conds
<1>3. CallTypeOK'
  BY ReturnType DEF Take
<1>. QED  BY <1>1, <1>2, <1>3 DEF TypeOK, Take, CallTypeOK, config

(* Every action keeps the types.                                           *)
LEMMA StepType ==
    ASSUME TypeOK, [Next]_vars
    PROVE  TypeOK'
<1>1. ASSUME NEW t \in Threads, NEW block \in BOOLEAN,
             NEW timeout \in Timeouts, PutCall(t, block, timeout)
      PROVE  TypeOK'
  <2>1. puts' \in 0..MaxPuts /\ puts + 1 \in 1..MaxPuts /\ "put" \in Calls
    BY <1>1 DEF PutCall, TypeOK, Calls
  <2>. QED  BY <1>1, <2>1, RaiseType, AcceptType, StartWaitType, ExpireType
            DEF PutCall
<1>2. ASSUME NEW t \in Threads, PutResume(t)
      PROVE  TypeOK'
  <2>1. puts' \in 0..MaxPuts /\ arg[t] \in 1..MaxPuts
    BY <1>2 DEF PutResume, TypeOK
  <2>. QED  BY <1>2, <2>1, RaiseType, AcceptType, ParkType DEF PutResume
<1>3. ASSUME NEW t \in Threads, NEW block \in BOOLEAN,
             NEW timeout \in Timeouts, GetCall(t, block, timeout)
      PROVE  TypeOK'
  <2>1. puts' \in 0..MaxPuts /\ 0 \in 0..MaxPuts /\ "get" \in Calls
    BY <1>3 DEF GetCall, TypeOK, Calls
  <2>. QED  BY <1>3, <2>1, RaiseType, TakeType, StartWaitType, ExpireType
            DEF GetCall
<1>4. ASSUME NEW t \in Threads, GetResume(t)
      PROVE  TypeOK'
  <2>1. puts' \in 0..MaxPuts
    BY <1>4 DEF GetResume, TypeOK
  <2>. QED  BY <1>4, <2>1, RaiseType, TakeType, ParkType DEF GetResume
<1>5. ASSUME NEW t \in Threads, TaskDone(t)
      PROVE  TypeOK'
  <2>1. waiting' \in [Conds -> SUBSET Threads]
    BY <1>5, BroadcastType DEF TaskDone, TypeOK
  <2>. QED  BY <1>5, <2>1 DEF TaskDone, TypeOK, config
<1>6. ASSUME NEW t \in Threads, JoinCall(t)
      PROVE  TypeOK'
  <2>1. puts' \in 0..MaxPuts /\ 0 \in 0..MaxPuts /\ "join" \in Calls
        /\ -1 \in Timeouts
    BY <1>6 DEF JoinCall, TypeOK, Calls, Timeouts
  <2>. QED  BY <1>6, <2>1, StartWaitType DEF JoinCall
<1>7. ASSUME NEW t \in Threads, JoinResume(t)
      PROVE  TypeOK'
  <2>1. puts' \in 0..MaxPuts
    BY <1>7 DEF JoinResume, TypeOK
  <2>. QED  BY <1>7, <2>1, RaiseType, ParkType DEF JoinResume
<1>8. ASSUME NEW t \in Threads, NEW immediate \in BOOLEAN,
             Shutdown(t, immediate)
      PROVE  TypeOK'
  <2>1. waiting' \in [Conds -> SUBSET Threads]
    BY <1>8, BroadcastType DEF Shutdown
  <2>2. items' \in Seq(1..MaxPuts) /\ unfinished' \in Nat
    <3>1. CASE immediate
      <4>1. items' = <<>> /\ unfinished' = 0
        BY <1>8, <3>1 DEF Shutdown
      <4>. QED  BY <4>1, NoItems
    <3>2. CASE ~immediate
      BY <1>8, <3>2 DEF Shutdown, TypeOK
    <3>. QED  BY <3>1, <3>2
  <2>. QED  BY <1>8, <2>1, <2>2 DEF Shutdown, TypeOK, config
<1>9. ASSUME NEW t \in Threads, DeadlinePasses(t) \/ TimerFires(t)
      PROVE  TypeOK'
  <2>1. waiting' \in [Conds -> SUBSET Threads]
    BY <1>9, BroadcastType DEF DeadlinePasses, TimerFires, TypeOK
  <2>. QED  BY <1>9, <2>1 DEF DeadlinePasses, TimerFires, TypeOK, buffer
<1>10. ASSUME NEW c \in Conds, StaleTimer(c)
       PROVE  TypeOK'
  <2>1. waiting' \in [Conds -> SUBSET Threads]
    BY <1>10, BroadcastType DEF StaleTimer, TypeOK
  <2>. QED  BY <1>10, <2>1 DEF StaleTimer, TypeOK, buffer
<1>11. CASE UNCHANGED vars
  BY <1>11 DEF vars, TypeOK
<1>. QED
  BY <1>1, <1>2, <1>3, <1>4, <1>5, <1>6, <1>7, <1>8, <1>9, <1>10, <1>11
  DEF Next, Resume, Conds

LEMMA InitType == Init => TypeOK
<1> SUFFICES ASSUME Init  PROVE TypeOK
  OBVIOUS
<1>1. items \in Seq(1..MaxPuts)
  BY NoItems DEF Init
<1>2. shutdown \in BOOLEAN /\ shutImm \in BOOLEAN
  BY DEF Init
<1>3. waiting \in [Conds -> SUBSET Threads]
  BY DEF Init
<1>4. pc \in [Threads -> Calls] /\ tmo \in [Threads -> Timeouts]
  BY DEF Init, Calls, Timeouts
<1>. QED  BY <1>1, <1>2, <1>3, <1>4 DEF Init, TypeOK

(* Every variable of the queue keeps its type, whatever the threads, the   *)
(* bound and the kind: the counters never go negative and the buffer never *)
(* holds anything that was not put.                                        *)
THEOREM Typing == Spec => []TypeOK
<1>1. Init => TypeOK
  BY InitType
<1>2. TypeOK /\ [Next]_vars => TypeOK'
  BY StepType
<1>. QED  BY <1>1, <1>2, PTL DEF Spec

-----------------------------------------------------------------------------
(* The bound *)

BoundedInv == TypeOK /\ Bounded

(* Only a put that found room adds to the buffer.                          *)
LEMMA AcceptBounded ==
    ASSUME BoundedInv, NEW t \in Threads, NEW x \in 1..MaxPuts,
           ~IsFull, Accept(t, x)
    PROVE  Bounded'
<1>1. Len(items') = Len(items) + 1 /\ Len(items) \in Nat
  BY AppendProperties, LenProperties DEF BoundedInv, TypeOK, Accept
<1>2. maxsize' = maxsize /\ maxsize \in Int
  BY DEF BoundedInv, TypeOK, Accept, config
<1>. QED  BY <1>1, <1>2 DEF IsFull, Bounded

LEMMA TakeBounded ==
    ASSUME BoundedInv, NEW t \in Threads, Take(t)
    PROVE  Bounded'
<1>1. Len(items') = Len(items) - 1 /\ Len(items) \in Nat
  BY TakenAway, LenProperties DEF BoundedInv, TypeOK, Take, Removable
<1>2. maxsize' = maxsize /\ maxsize \in Int
  BY DEF BoundedInv, TypeOK, Take, config
<1>. QED  BY <1>1, <1>2 DEF BoundedInv, Bounded

LEMMA StepBounded ==
    ASSUME BoundedInv, [Next]_vars
    PROVE  Bounded'
<1>1. ASSUME UNCHANGED <<maxsize, items>>  PROVE Bounded'
  BY <1>1 DEF BoundedInv, Bounded
<1>2. ASSUME NEW t \in Threads, NEW block \in BOOLEAN,
             NEW timeout \in Timeouts, PutCall(t, block, timeout)
      PROVE  Bounded'
  <2>1. puts + 1 \in 1..MaxPuts
    BY <1>2 DEF PutCall, BoundedInv, TypeOK
  <2>. QED  BY <1>1, <1>2, <2>1, AcceptBounded
            DEF PutCall, Raise, StartWait, ExpireAtOnce, buffer
<1>3. ASSUME NEW t \in Threads, PutResume(t)
      PROVE  Bounded'
  <2>1. arg[t] \in 1..MaxPuts
    BY <1>3 DEF PutResume, BoundedInv, TypeOK
  <2>. QED  BY <1>1, <1>3, <2>1, AcceptBounded
            DEF PutResume, Raise, Park, buffer
<1>4. ASSUME NEW t \in Threads, NEW block \in BOOLEAN,
             NEW timeout \in Timeouts, GetCall(t, block, timeout)
      PROVE  Bounded'
  BY <1>1, <1>4, TakeBounded DEF GetCall, Raise, StartWait, ExpireAtOnce, buffer
<1>5. ASSUME NEW t \in Threads, GetResume(t)
      PROVE  Bounded'
  BY <1>1, <1>5, TakeBounded DEF GetResume, Raise, Park, buffer
<1>6. ASSUME NEW t \in Threads, TaskDone(t) \/ JoinCall(t) \/ JoinResume(t)
      PROVE  Bounded'
  BY <1>1, <1>6 DEF TaskDone, JoinCall, JoinResume, Raise, StartWait, Park, buffer, config
<1>7. ASSUME NEW t \in Threads, NEW immediate \in BOOLEAN,
             Shutdown(t, immediate)
      PROVE  Bounded'
  <2>1. Len(<<>>) = 0
    BY EmptySeq
  <2>2. maxsize' = maxsize /\ maxsize \in Int /\ (items' = <<>> \/ items' = items)
    BY <1>7 DEF Shutdown, config, BoundedInv, TypeOK
  <2>. QED  BY <1>1, <2>1, <2>2 DEF Bounded
<1>8. ASSUME NEW t \in Threads, DeadlinePasses(t) \/ TimerFires(t)
      PROVE  Bounded'
  BY <1>1, <1>8 DEF DeadlinePasses, TimerFires, buffer
<1>9. ASSUME NEW c \in Conds, StaleTimer(c)
      PROVE  Bounded'
  BY <1>1, <1>9 DEF StaleTimer, buffer
<1>10. CASE UNCHANGED vars
  BY <1>1, <1>10 DEF vars
<1>. QED
  BY <1>2, <1>3, <1>4, <1>5, <1>6, <1>7, <1>8, <1>9, <1>10
  DEF Next, Resume, Conds

(* A bounded queue never exceeds maxsize, although every put that slept    *)
(* lost the mutex between seeing the queue full and adding its item.       *)
THEOREM BoundHolds == Spec => []Bounded
<1>1. Init => Bounded
  <2>1. Len(<<>>) = 0
    BY EmptySeq
  <2>. QED  BY <2>1 DEF Init, Bounded
<1>2. TypeOK /\ Bounded /\ [Next]_vars => Bounded'
  BY StepBounded DEF BoundedInv
<1>. QED  BY <1>1, <1>2, Typing, PTL DEF Spec

-----------------------------------------------------------------------------
(* Shutdown *)

(* ShutdownWakes is not inductive by itself: it needs that an immediate    *)
(* shutdown is a shutdown and has zeroed unfinished for good, so that join *)
(* does not go to sleep after it.                                          *)
ShutdownInv ==
    /\ TypeOK
    /\ shutImm => shutdown /\ unfinished = 0
    /\ ShutdownWakes

(* A step that puts nobody to sleep and leaves the gate alone.             *)
Quiet ==
    /\ \A c \in Conds : waiting'[c] \subseteq waiting[c]
    /\ UNCHANGED <<shutdown, shutImm>>
    /\ shutImm => UNCHANGED unfinished

LEMMA QuietKeeps ==
    ASSUME ShutdownInv, TypeOK', Quiet
    PROVE  ShutdownInv'
  BY DEF ShutdownInv, Quiet, ShutdownWakes, Conds

LEMMA SignalShrinks ==
    ASSUME TypeOK, NEW c \in Conds, NEW w \in Signalled(c)
    PROVE  \A d \in Conds : w[d] \subseteq waiting[d]
<1>1. CASE waiting[c] = {}
  BY <1>1 DEF Signalled
<1>2. CASE waiting[c] # {}
  <2>1. PICK t \in waiting[c] : w = [waiting EXCEPT ![c] = @ \ {t}]
    BY <1>2 DEF Signalled
  <2>. QED  BY <2>1 DEF TypeOK
<1>. QED  BY <1>1, <1>2

LEMMA BroadcastShrinks ==
    \A C : \A d \in Conds : Broadcasted(C)[d] \subseteq waiting[d]
  BY DEF Broadcasted

LEMMA RaiseQuiet ==
    ASSUME NEW t, Raise(t)  PROVE Quiet
  BY DEF Raise, Quiet, buffer

LEMMA ExpireQuiet ==
    ASSUME NEW call, NEW timeout, ExpireAtOnce(call, timeout)  PROVE Quiet
  BY DEF ExpireAtOnce, Quiet, buffer

LEMMA AcceptQuiet ==
    ASSUME ShutdownInv, NEW t, NEW x, ~shutdown, Accept(t, x)
    PROVE  Quiet
<1>1. \A d \in Conds : waiting'[d] \subseteq waiting[d]
  BY SignalShrinks DEF ShutdownInv, Accept, Conds
<1>. QED  BY <1>1 DEF ShutdownInv, Accept, Quiet

LEMMA TakeQuiet ==
    ASSUME ShutdownInv, NEW t, Take(t)
    PROVE  Quiet
<1>1. \A d \in Conds : waiting'[d] \subseteq waiting[d]
  BY SignalShrinks DEF ShutdownInv, Take, Conds
<1>. QED  BY <1>1 DEF Take, Quiet

(* A thread goes to sleep in put or get before a shutdown only, in join    *)
(* before an immediate one only.                                           *)
MaySleepIn(c) == IF c = "allDone" THEN ~shutImm ELSE ~shutdown

LEMMA SleepKeeps ==
    ASSUME ShutdownInv, TypeOK', NEW c \in Conds, NEW t, MaySleepIn(c),
           waiting' = [waiting EXCEPT ![c] = @ \cup {t}],
           UNCHANGED <<shutdown, shutImm, unfinished>>
    PROVE  ShutdownInv'
<1>1. \A d \in Conds : d # c => waiting'[d] = waiting[d]
  BY DEF ShutdownInv, TypeOK
<1>2. CASE c = "allDone"
  <2>1. waiting'["notEmpty"] = waiting["notEmpty"]
        /\ waiting'["notFull"] = waiting["notFull"]
    BY <1>1, <1>2 DEF Conds
  <2>. QED  BY <1>2, <2>1 DEF ShutdownInv, ShutdownWakes, MaySleepIn
<1>3. CASE c # "allDone"
  <2>1. waiting'["allDone"] = waiting["allDone"]
    BY <1>1, <1>3 DEF Conds
  <2>. QED  BY <1>3, <2>1 DEF ShutdownInv, ShutdownWakes, MaySleepIn
<1>. QED  BY <1>2, <1>3

LEMMA StartWaitKeeps ==
    ASSUME ShutdownInv, TypeOK', NEW t, NEW call \in Calls, NEW x, NEW timeout,
           MaySleepIn(CondOf(call)), StartWait(t, call, x, timeout)
    PROVE  ShutdownInv'
  BY SleepKeeps, CondOfType DEF StartWait, buffer

LEMMA ParkKeeps ==
    ASSUME ShutdownInv, TypeOK', NEW t \in Threads,
           MaySleepIn(CondOf(pc[t])), Park(t)
    PROVE  ShutdownInv'
<1>1. CondOf(pc[t]) \in Conds
  BY CondOfType DEF ShutdownInv, TypeOK
<1>. QED  BY <1>1, SleepKeeps DEF Park, buffer

LEMMA StepShutdown ==
    ASSUME ShutdownInv, [Next]_vars
    PROVE  ShutdownInv'
<1>1. TypeOK'
  BY StepType DEF ShutdownInv
<1>2. ASSUME Quiet  PROVE ShutdownInv'
  BY <1>1, <1>2, QuietKeeps
<1>3. ASSUME NEW t \in Threads, NEW block \in BOOLEAN,
             NEW timeout \in Timeouts, PutCall(t, block, timeout)
      PROVE  ShutdownInv'
  <2>1. ASSUME ~shutdown, StartWait(t, "put", puts + 1, timeout)
        PROVE  ShutdownInv'
    BY <1>1, <2>1, StartWaitKeeps DEF MaySleepIn, CondOf, Calls
  <2>. QED  BY <1>2, <1>3, <2>1, RaiseQuiet, AcceptQuiet, ExpireQuiet DEF PutCall
<1>4. ASSUME NEW t \in Threads, PutResume(t)
      PROVE  ShutdownInv'
  <2>1. ASSUME ~shutdown, Park(t)  PROVE ShutdownInv'
    BY <1>1, <1>4, <2>1, ParkKeeps DEF MaySleepIn, CondOf, PutResume
  <2>. QED  BY <1>2, <1>4, <2>1, RaiseQuiet, AcceptQuiet DEF PutResume
<1>5. ASSUME NEW t \in Threads, NEW block \in BOOLEAN,
             NEW timeout \in Timeouts, GetCall(t, block, timeout)
      PROVE  ShutdownInv'
  <2>1. ASSUME ~shutdown, StartWait(t, "get", 0, timeout)
        PROVE  ShutdownInv'
    BY <1>1, <2>1, StartWaitKeeps DEF MaySleepIn, CondOf, Calls
  <2>. QED  BY <1>2, <1>5, <2>1, RaiseQuiet, TakeQuiet, ExpireQuiet DEF GetCall
<1>6. ASSUME NEW t \in Threads, GetResume(t)
      PROVE  ShutdownInv'
  <2>1. ASSUME ~shutdown, Park(t)  PROVE ShutdownInv'
    BY <1>1, <1>6, <2>1, ParkKeeps DEF MaySleepIn, CondOf, GetResume
  <2>. QED  BY <1>2, <1>6, <2>1, RaiseQuiet, TakeQuiet DEF GetResume
<1>7. ASSUME NEW t \in Threads, TaskDone(t)
      PROVE  ShutdownInv'
  <2>1. \A c \in Conds : waiting'[c] \subseteq waiting[c]
    BY <1>7, BroadcastShrinks DEF TaskDone
  <2>2. Quiet
    BY <1>7, <2>1 DEF TaskDone, Quiet, ShutdownInv
  <2>. QED  BY <1>2, <2>2
<1>8. ASSUME NEW t \in Threads, JoinCall(t)
      PROVE  ShutdownInv'
  <2>1. MaySleepIn(CondOf("join")) /\ "join" \in Calls
    BY <1>8 DEF JoinCall, ShutdownInv, MaySleepIn, CondOf, Calls
  <2>. QED  BY <1>1, <1>8, <2>1, StartWaitKeeps DEF JoinCall
<1>9. ASSUME NEW t \in Threads, JoinResume(t)
      PROVE  ShutdownInv'
  <2>1. ASSUME unfinished > 0, Park(t)  PROVE ShutdownInv'
    <3>1. MaySleepIn(CondOf(pc[t]))
      BY <1>9, <2>1 DEF JoinResume, ShutdownInv, MaySleepIn, CondOf
    <3>. QED  BY <1>1, <2>1, <3>1, ParkKeeps
  <2>. QED  BY <1>2, <1>9, <2>1, RaiseQuiet DEF JoinResume
<1>10. ASSUME NEW t \in Threads, NEW immediate \in BOOLEAN,
              Shutdown(t, immediate)
       PROVE  ShutdownInv'
  <2>1. CASE immediate
    BY <1>1, <1>10, <2>1 DEF Shutdown, ShutdownInv, ShutdownWakes, Broadcasted, Conds
  <2>2. CASE ~immediate
    BY <1>1, <1>10, <2>2 DEF Shutdown, ShutdownInv, ShutdownWakes, Broadcasted, Conds
  <2>. QED  BY <2>1, <2>2
<1>11. ASSUME NEW t \in Threads, DeadlinePasses(t) \/ TimerFires(t)
       PROVE  ShutdownInv'
  BY <1>2, <1>11, BroadcastShrinks DEF DeadlinePasses, TimerFires, Quiet, buffer
<1>12. ASSUME NEW c \in Conds, StaleTimer(c)
       PROVE  ShutdownInv'
  BY <1>2, <1>12, BroadcastShrinks DEF StaleTimer, Quiet, buffer
<1>13. CASE UNCHANGED vars
  BY <1>2, <1>13 DEF vars, Quiet
<1>. QED
  BY <1>3, <1>4, <1>5, <1>6, <1>7, <1>8, <1>9, <1>10, <1>11, <1>12, <1>13
  DEF Next, Resume, Conds

(* The invariant above holds of every reachable state.                     *)
LEMMA ShutdownInvariance == Spec => []ShutdownInv
<1>1. Init => ShutdownInv
  <2>1. Init => TypeOK
    BY InitType
  <2>. QED  BY <2>1 DEF Init, ShutdownInv, ShutdownWakes, Conds
<1>2. ShutdownInv /\ [Next]_vars => ShutdownInv'
  BY StepShutdown
<1>. QED  BY <1>1, <1>2, PTL DEF Spec

(* shutdown() leaves nobody asleep in put and get, an immediate one nobody *)
(* in join either, and nobody falls asleep there afterwards.               *)
THEOREM ShutdownReachesAll == Spec => []ShutdownWakes
<1>1. ShutdownInv => ShutdownWakes
  BY DEF ShutdownInv
<1>. QED  BY <1>1, ShutdownInvariance, PTL

-----------------------------------------------------------------------------
(* Effects: what a step does to the buffer and the counts, whichever thread*)
(* takes it and whether or not it slept; and what follows from that: join()*)
(* counts exactly, and the queue implements QueueSpec.                     *)

USE RankAssumption

(* An item is added, taken, or reported done; the queue is shut down.      *)
Added ==
    /\ ~shutdown /\ ~IsFull
    /\ \E x \in 1..MaxPuts : items' = Append(items, x)
    /\ unfinished' = unfinished + 1
    /\ UNCHANGED <<config, shutdown, shutImm, inHand>>

Removed ==
    /\ ~shutImm
    /\ \E n \in Removable : items' = RemoveAt(items, n)
    /\ inHand' = inHand + 1
    /\ UNCHANGED <<config, unfinished, shutdown, shutImm>>

Reported ==
    /\ inHand > 0 /\ inHand' = inHand - 1
    /\ \/ unfinished = 0 /\ unfinished' = 0
       \/ unfinished > 0 /\ unfinished' = unfinished - 1
    /\ UNCHANGED <<config, items, shutdown, shutImm>>

Stopped ==
    /\ shutdown'
    /\ \/ shutImm' /\ items' = <<>> /\ unfinished' = 0
       \/ UNCHANGED <<shutImm, items, unfinished>>
    /\ UNCHANGED <<config, inHand>>

Effect == Added \/ Removed \/ Reported \/ Stopped \/ UNCHANGED <<buffer, inHand>>

LEMMA AcceptAdds ==
    ASSUME NEW t, NEW x \in 1..MaxPuts, ~shutdown, ~IsFull, Accept(t, x)
    PROVE  Added
  BY DEF Accept, Added

LEMMA TakeRemoves ==
    ASSUME NEW t, ~shutImm, Take(t)
    PROVE  Removed
  BY DEF Take, Removed

(* Every step has one of these effects.                                    *)
LEMMA StepEffect ==
    ASSUME TypeOK, [Next]_vars
    PROVE  Effect
<1>1. ASSUME NEW t \in Threads, NEW block \in BOOLEAN,
             NEW timeout \in Timeouts, PutCall(t, block, timeout)
      PROVE  Effect
  <2>1. puts + 1 \in 1..MaxPuts
    BY <1>1 DEF PutCall, TypeOK
  <2>. QED  BY <1>1, <2>1, AcceptAdds
            DEF PutCall, Raise, StartWait, ExpireAtOnce, Effect
<1>2. ASSUME NEW t \in Threads, PutResume(t)
      PROVE  Effect
  <2>1. arg[t] \in 1..MaxPuts
    BY <1>2 DEF PutResume, TypeOK
  <2>. QED  BY <1>2, <2>1, AcceptAdds DEF PutResume, Raise, Park, Effect
<1>3. ASSUME NEW t \in Threads, NEW block \in BOOLEAN,
             NEW timeout \in Timeouts, GetCall(t, block, timeout)
      PROVE  Effect
  BY <1>3, TakeRemoves DEF GetCall, Raise, StartWait, ExpireAtOnce, Effect
<1>4. ASSUME NEW t \in Threads, GetResume(t)
      PROVE  Effect
  BY <1>4, TakeRemoves DEF GetResume, Raise, Park, Effect
<1>5. ASSUME NEW t \in Threads, TaskDone(t)
      PROVE  Reported
  BY <1>5 DEF TaskDone, Reported
<1>6. ASSUME NEW t \in Threads, JoinCall(t) \/ JoinResume(t)
      PROVE  UNCHANGED <<buffer, inHand>>
  BY <1>6 DEF JoinCall, JoinResume, Raise, StartWait, Park
<1>7. ASSUME NEW t \in Threads, NEW immediate \in BOOLEAN,
             Shutdown(t, immediate)
      PROVE  Stopped
  BY <1>7 DEF Shutdown, Stopped
<1>8. ASSUME NEW t \in Threads, DeadlinePasses(t) \/ TimerFires(t)
      PROVE  UNCHANGED <<buffer, inHand>>
  BY <1>8 DEF DeadlinePasses, TimerFires
<1>9. ASSUME NEW c \in Conds, StaleTimer(c)
      PROVE  UNCHANGED <<buffer, inHand>>
  BY <1>9 DEF StaleTimer
<1>10. CASE UNCHANGED vars
  BY <1>10 DEF vars, buffer, Effect
<1>. QED
  BY <1>1, <1>2, <1>3, <1>4, <1>5, <1>6, <1>7, <1>8, <1>9, <1>10
  DEF Next, Resume, Conds, Effect

-----------------------------------------------------------------------------
(* join *)

CountsExact == ~shutImm => unfinished = Len(items) + inHand

LEMMA EffectCounts ==
    ASSUME ShutdownInv, CountsExact, Effect
    PROVE  CountsExact'
<1>1. Len(items) \in Nat /\ unfinished \in Nat /\ inHand \in Nat
  BY LenProperties DEF ShutdownInv, TypeOK
<1>2. CASE Added
  <2>1. Len(items') = Len(items) + 1
    BY <1>2, AppendProperties DEF Added, ShutdownInv, TypeOK
  <2>. QED  BY <1>1, <1>2, <2>1 DEF Added, CountsExact
<1>3. CASE Removed
  <2>1. Len(items') = Len(items) - 1
    BY <1>3, TakenAway DEF Removed, Removable, ShutdownInv, TypeOK
  <2>. QED  BY <1>1, <1>3, <2>1 DEF Removed, CountsExact
<1>4. CASE Reported
  BY <1>1, <1>4 DEF Reported, CountsExact
<1>5. CASE Stopped
  BY <1>5 DEF Stopped, CountsExact
<1>6. CASE UNCHANGED <<buffer, inHand>>
  BY <1>6 DEF buffer, CountsExact
<1>. QED  BY <1>2, <1>3, <1>4, <1>5, <1>6 DEF Effect

(* A step leaves nobody asleep in join, or work to be done, or it changes  *)
(* neither the work nor, except for waking, the sleepers.                  *)
JoinersSafe ==
    \/ waiting'["allDone"] = {}
    \/ unfinished' > 0
    \/ /\ waiting'["allDone"] \subseteq waiting["allDone"]
       /\ unfinished' = unfinished

LEMMA SleepElsewhere ==
    ASSUME TypeOK, NEW t, NEW c \in Conds \ {"allDone"},
           waiting' = [waiting EXCEPT ![c] = @ \cup {t}],
           unfinished' = unfinished
    PROVE  JoinersSafe
<1>1. waiting'["allDone"] = waiting["allDone"]
  BY DEF TypeOK, Conds
<1>. QED  BY <1>1 DEF JoinersSafe

LEMMA RaiseJoiners ==
    ASSUME NEW t, Raise(t)  PROVE JoinersSafe
  BY DEF Raise, buffer, JoinersSafe

LEMMA AcceptJoiners ==
    ASSUME TypeOK, NEW t, NEW x, Accept(t, x)  PROVE JoinersSafe
  BY DEF TypeOK, Accept, JoinersSafe

LEMMA TakeJoiners ==
    ASSUME TypeOK, NEW t, Take(t)  PROVE JoinersSafe
<1>1. \A d \in Conds : waiting'[d] \subseteq waiting[d]
  BY SignalShrinks DEF Take, Conds
<1>. QED  BY <1>1 DEF Take, JoinersSafe, Conds

LEMMA StepJoiners ==
    ASSUME TypeOK, [Next]_vars
    PROVE  JoinersSafe
<1>1. ASSUME NEW t \in Threads, NEW block \in BOOLEAN,
             NEW timeout \in Timeouts, PutCall(t, block, timeout)
      PROVE  JoinersSafe
  <2>1. ASSUME StartWait(t, "put", puts + 1, timeout)  PROVE JoinersSafe
    <3>1. /\ waiting' = [waiting EXCEPT !["notFull"] = @ \cup {t}]
          /\ unfinished' = unfinished
      BY <2>1 DEF StartWait, CondOf, buffer
    <3>. QED  BY <3>1, SleepElsewhere DEF Conds
  <2>2. ASSUME ExpireAtOnce("put", timeout)  PROVE JoinersSafe
    BY <2>2 DEF ExpireAtOnce, buffer, JoinersSafe
  <2>. QED  BY <1>1, <2>1, <2>2, RaiseJoiners, AcceptJoiners DEF PutCall
<1>2. ASSUME NEW t \in Threads, PutResume(t)
      PROVE  JoinersSafe
  <2>1. ASSUME Park(t)  PROVE JoinersSafe
    BY <1>2, <2>1, SleepElsewhere DEF PutResume, Park, CondOf, Conds, buffer
  <2>. QED  BY <1>2, <2>1, RaiseJoiners, AcceptJoiners DEF PutResume
<1>3. ASSUME NEW t \in Threads, NEW block \in BOOLEAN,
             NEW timeout \in Timeouts, GetCall(t, block, timeout)
      PROVE  JoinersSafe
  <2>1. ASSUME StartWait(t, "get", 0, timeout)  PROVE JoinersSafe
    <3>1. /\ waiting' = [waiting EXCEPT !["notEmpty"] = @ \cup {t}]
          /\ unfinished' = unfinished
      BY <2>1 DEF StartWait, CondOf, buffer
    <3>. QED  BY <3>1, SleepElsewhere DEF Conds
  <2>2. ASSUME ExpireAtOnce("get", timeout)  PROVE JoinersSafe
    BY <2>2 DEF ExpireAtOnce, buffer, JoinersSafe
  <2>. QED  BY <1>3, <2>1, <2>2, RaiseJoiners, TakeJoiners DEF GetCall
<1>4. ASSUME NEW t \in Threads, GetResume(t)
      PROVE  JoinersSafe
  <2>1. ASSUME Park(t)  PROVE JoinersSafe
    BY <1>4, <2>1, SleepElsewhere DEF GetResume, Park, CondOf, Conds, buffer
  <2>. QED  BY <1>4, <2>1, RaiseJoiners, TakeJoiners DEF GetResume
<1>5. ASSUME NEW t \in Threads, TaskDone(t)
      PROVE  JoinersSafe
  <2>1. CASE unfinished = 1
    BY <1>5, <2>1 DEF TaskDone, Broadcasted, Conds, JoinersSafe
  <2>2. CASE unfinished # 1
    BY <1>5, <2>2 DEF TaskDone, TypeOK, JoinersSafe
  <2>. QED  BY <2>1, <2>2
<1>6. ASSUME NEW t \in Threads, JoinCall(t)
      PROVE  JoinersSafe
  BY <1>6 DEF JoinCall, StartWait, buffer, JoinersSafe
<1>7. ASSUME NEW t \in Threads, JoinResume(t)
      PROVE  JoinersSafe
  BY <1>7, RaiseJoiners DEF JoinResume, Park, buffer, JoinersSafe
<1>8. ASSUME NEW t \in Threads, NEW immediate \in BOOLEAN,
             Shutdown(t, immediate)
      PROVE  JoinersSafe
  BY <1>8 DEF Shutdown, Broadcasted, Conds, JoinersSafe
<1>9. ASSUME NEW t \in Threads, DeadlinePasses(t) \/ TimerFires(t)
      PROVE  JoinersSafe
  BY <1>9, BroadcastShrinks
  DEF DeadlinePasses, TimerFires, Conds, buffer, JoinersSafe
<1>10. ASSUME NEW c \in Conds, StaleTimer(c)
       PROVE  JoinersSafe
  BY <1>10, BroadcastShrinks DEF StaleTimer, Conds, buffer, JoinersSafe
<1>11. CASE UNCHANGED vars
  BY <1>11 DEF vars, JoinersSafe
<1>. QED
  BY <1>1, <1>2, <1>3, <1>4, <1>5, <1>6, <1>7, <1>8, <1>9, <1>10, <1>11
  DEF Next, Resume, Conds

(* unfinished is what is queued and what is being worked on, until an      *)
(* immediate shutdown, and nobody sleeps in join with nothing to wait for. *)
THEOREM JoinIsExact == Spec => []JoinExact
<1>1. Init => JoinExact
  <2>1. Len(<<>>) = 0
    BY EmptySeq
  <2>. QED  BY <2>1 DEF Init, JoinExact, Conds
<1>2. ShutdownInv /\ JoinExact /\ [Next]_vars => JoinExact'
  <2> SUFFICES ASSUME ShutdownInv, JoinExact, [Next]_vars
               PROVE  JoinExact'
    OBVIOUS
  <2>1. Effect /\ JoinersSafe
    BY StepEffect, StepJoiners DEF ShutdownInv
  <2>2. CountsExact'
    BY <2>1, EffectCounts DEF JoinExact, CountsExact
  <2>3. waiting'["allDone"] # {} => unfinished' > 0
    BY <2>1 DEF JoinersSafe, JoinExact
  <2>. QED  BY <2>2, <2>3 DEF JoinExact, CountsExact
<1>. QED  BY <1>1, <1>2, ShutdownInvariance, PTL DEF Spec

-----------------------------------------------------------------------------
(* The refinement *)

LEMMA AddedIsPut ==
    ASSUME ShutdownInv, Added
    PROVE  Abstract!Next
<1>1. PICK x \in 1..MaxPuts : items' = Append(items, x)
  BY DEF Added
<1>2. Len(items) \in Nat /\ maxsize \in Int
  BY LenProperties DEF ShutdownInv, TypeOK
<1>3. Abstract!Put(x)
  BY <1>1, <1>2 DEF Added, IsFull, ShutdownInv, Abstract!Put
<1>. QED  BY <1>3 DEF Added, config, Abstract!Next

LEMMA RemovedIsGet ==
    ASSUME ShutdownInv, Removed
    PROVE  Abstract!Next
<1>1. PICK n \in Removable : items' = RemoveAt(items, n)
  BY DEF Removed
<1>2. DOMAIN items = 1..Len(items) /\ Len(items) \in Nat
  <2>1. TypeOK
    BY DEF ShutdownInv
  <2>2. items \in Seq(1..MaxPuts)
    BY <2>1, Zenon DEF TypeOK
  <2>. QED  BY <2>2, LenProperties
<1>3. n \in DOMAIN items
  BY <1>2 DEF Removable
<1>4. ASSUME NEW m \in DOMAIN items, Abstract!Before(m, n)
      PROVE  FALSE
  <2>1. items[m] \in 1..MaxPuts /\ items[n] \in 1..MaxPuts
    BY <1>2, <1>3, ElementOfSeq DEF ShutdownInv, TypeOK
  <2>2. Rank[items[m]] \in Nat /\ Rank[items[n]] \in Nat
    BY <2>1
  <2>3. m \in 1..Len(items) /\ n \in 1..Len(items)
    BY <1>2, <1>3
  <2>4. CASE kind = "fifo"
    BY <1>2, <1>4, <2>3, <2>4 DEF Removable, Abstract!Before
  <2>5. CASE kind = "lifo"
    BY <1>2, <1>4, <2>3, <2>5 DEF Removable, Abstract!Before
  <2>6. CASE kind = "priority"
    <3>1. Rank[items[n]] <= Rank[items[m]]
      BY <2>3, <2>6 DEF Removable
    <3>2. Rank[items[m]] < Rank[items[n]]
      BY <1>4, <2>6 DEF Abstract!Before
    <3>. QED  BY <2>2, <3>1, <3>2
  <2>. QED  BY <2>4, <2>5, <2>6 DEF ShutdownInv, TypeOK, Kinds
<1>5. items' = Abstract!RemoveAt(items, n)
  BY <1>1 DEF RemoveAt, Abstract!RemoveAt
<1>6. Abstract!Get
  BY <1>3, <1>4, <1>5 DEF Removed, Abstract!Get
<1>. QED  BY <1>6 DEF Removed, config, Abstract!Next

LEMMA ReportedIsDone ==
    ASSUME ShutdownInv, Reported
    PROVE  Abstract!Next \/ UNCHANGED Abstract!qvars
  BY DEF Reported, config, Abstract!Next, Abstract!Done, Abstract!qvars

LEMMA StoppedIsDrainOrClose ==
    ASSUME ShutdownInv, Stopped
    PROVE  Abstract!Next \/ UNCHANGED Abstract!qvars
<1>1. CASE shutImm' /\ items' = <<>> /\ unfinished' = 0
  BY <1>1 DEF Stopped, config, Abstract!Next, Abstract!Close
<1>2. CASE UNCHANGED <<shutImm, items, unfinished>>
  BY <1>2 DEF Stopped, ShutdownInv, config, Abstract!Next, Abstract!Drain,
              Abstract!qvars
<1>. QED  BY <1>1, <1>2 DEF Stopped

(* The queue implements the abstract one for every set of threads, every   *)
(* maxsize and every order of priorities: same order, same bound, nothing  *)
(* accepted after shutdown() and nothing handed out after an immediate one.*)
THEOREM Implementation == Spec => ImplementsQueue
<1>1. Init => Abstract!Init
  BY DEF Init, Abstract!Init
<1>2. ShutdownInv /\ [Next]_vars => [Abstract!Next]_(Abstract!qvars)
  <2> SUFFICES ASSUME ShutdownInv, [Next]_vars
               PROVE  Abstract!Next \/ UNCHANGED Abstract!qvars
    OBVIOUS
  <2>1. Effect
    BY StepEffect DEF ShutdownInv
  <2>2. CASE UNCHANGED <<buffer, inHand>>
    BY <2>2 DEF buffer, Abstract!qvars
  <2>. QED  BY <2>1, <2>2, AddedIsPut, RemovedIsGet, ReportedIsDone,
               StoppedIsDrainOrClose DEF Effect
<1>. QED  BY <1>1, <1>2, ShutdownInvariance, PTL
          DEF Spec, ImplementsQueue, Abstract!Spec

-----------------------------------------------------------------------------
(* Wake-ups                                                                *)
(*                                                                         *)
(* No wake-up is lost, for any finite set of threads: each item next to a  *)
(* sleeping getter, and each free place next to a sleeping putter, has a   *)
(* woken thread of its own.                                                *)
(*                                                                         *)
(* The two halves are alike.  `need' is the number of items for getters    *)
(* and of free places for putters, W the woken ones; a step may raise the  *)
(* need by one if it wakes another, and take one of W away if it lowers it.*)

(* What the proof needs besides: whoever is in a wait list is in the call  *)
(* that sleeps there.                                                      *)
QueuedInCall ==
    \A c \in Conds : \A s \in waiting[c] : pc[s] # "idle" /\ CondOf(pc[s]) = c

WakeUpInv == ShutdownInv /\ QueuedInCall /\ NoLostWakeUp

-----------------------------------------------------------------------------

(* From waiting list a, woken set W and need n to b, V and m.              *)
Safe(a, b, W, V, n, m) ==
    \/ b = {}
    \/ m <= 0
    \/ /\ a # {}
       /\ \/ m <= n /\ W \subseteq V
          \/ m <= n + 1 /\ \E s \in Threads \ W : W \cup {s} \subseteq V
          \/ m <= n - 1 /\ \E s \in Threads : W \ {s} \subseteq V

LEMMA Balance ==
    ASSUME IsFiniteSet(Threads), NEW a, NEW b, NEW W \in SUBSET Threads,
           NEW V \in SUBSET Threads, NEW n \in Int, NEW m \in Int,
           Safe(a, b, W, V, n, m),
           a # {} => n <= Cardinality(W)
    PROVE  b # {} => m <= Cardinality(V)
<1>1. /\ IsFiniteSet(W) /\ IsFiniteSet(V)
      /\ Cardinality(W) \in Nat /\ Cardinality(V) \in Nat
  BY FS_Subset, FS_CardinalityType
<1>2. CASE m <= 0
  BY <1>1, <1>2
<1>3. CASE a # {} /\ m <= n /\ W \subseteq V
  <2>1. Cardinality(W) <= Cardinality(V)
    BY <1>1, <1>3, FS_Subset
  <2>. QED  BY <1>1, <1>3, <2>1
<1>4. ASSUME a # {}, m <= n + 1, NEW s \in Threads \ W, W \cup {s} \subseteq V
      PROVE  m <= Cardinality(V)
  <2>1. Cardinality(W \cup {s}) = Cardinality(W) + 1
    BY <1>1, FS_AddElement
  <2>2. Cardinality(W \cup {s}) <= Cardinality(V)
    BY <1>1, <1>4, FS_Subset
  <2>. QED  BY <1>1, <1>4, <2>1, <2>2
<1>5. ASSUME a # {}, m <= n - 1, NEW s \in Threads, W \ {s} \subseteq V
      PROVE  m <= Cardinality(V)
  <2>1. /\ IsFiniteSet(W \ {s})
        /\ Cardinality(W \ {s}) \in Nat
        /\ Cardinality(W) <= Cardinality(W \ {s}) + 1
    <3>1. IsFiniteSet(W \ {s})
      BY <1>1, FS_Subset
    <3>2. Cardinality(W \ {s}) = IF s \in W THEN Cardinality(W) - 1 ELSE Cardinality(W)
      BY <1>1, FS_RemoveElement
    <3>3. Cardinality(W \ {s}) \in Nat
      BY <3>1, FS_CardinalityType
    <3>. QED  BY <1>1, <3>1, <3>2, <3>3
  <2>2. Cardinality(W \ {s}) <= Cardinality(V)
    BY <1>1, <1>5, FS_Subset
  <2>. QED  BY <1>1, <1>5, <2>1, <2>2
<1>. QED  BY <1>2, <1>3, <1>4, <1>5 DEF Safe

-----------------------------------------------------------------------------
(* What happens to those who are in put, or in get *)

CallSafe(call, n, m) ==
    Safe(waiting[CondOf(call)], waiting'[CondOf(call)],
         WokenIn(call), WokenIn(call)', n, m)

(* Everyone in the call stays in it.                                       *)
Stay(call) == \A s \in Threads : pc[s] = call => pc'[s] = call

LEMMA WokenInIs ==
    \A call \in {"put", "get"} :
        /\ WokenIn(call) =
              {s \in Threads : pc[s] = call /\ s \notin waiting[CondOf(call)]}
        /\ WokenIn(call)' =
              {s \in Threads : pc'[s] = call /\ s \notin waiting'[CondOf(call)]}
  BY DEF WokenIn, Woken, Parked, CondOf

LEMMA Emptied ==
    ASSUME NEW call, NEW n, NEW m, waiting'[CondOf(call)] = {}
    PROVE  CallSafe(call, n, m)
  BY DEF CallSafe, Safe

LEMMA NoNeed ==
    ASSUME NEW call, NEW n, NEW m, m <= 0
    PROVE  CallSafe(call, n, m)
  BY DEF CallSafe, Safe

LEMMA Untouched ==
    ASSUME NEW call \in {"put", "get"}, NEW n \in Int, Stay(call),
           waiting'[CondOf(call)] = waiting[CondOf(call)]
    PROVE  CallSafe(call, n, n)
<1>1. WokenIn(call) \subseteq WokenIn(call)'
  BY WokenInIs DEF Stay
<1>. QED  BY <1>1 DEF CallSafe, Safe

LEMMA OneLeaves ==
    ASSUME NEW call \in {"put", "get"}, NEW n \in Int, NEW t \in Threads,
           waiting'[CondOf(call)] = waiting[CondOf(call)],
           \A s \in Threads \ {t} : pc'[s] = pc[s]
    PROVE  CallSafe(call, n, n - 1)
<1>1. WokenIn(call) \ {t} \subseteq WokenIn(call)'
  BY WokenInIs
<1>. QED  BY <1>1 DEF CallSafe, Safe

LEMMA OneIsWoken ==
    ASSUME WakeUpInv, NEW call \in {"put", "get"}, NEW n \in Int,
           Stay(call), waiting' \in Signalled(CondOf(call))
    PROVE  CallSafe(call, n, n + 1)
<1>1. CASE waiting[CondOf(call)] = {}
  BY <1>1, Emptied DEF Signalled
<1>2. CASE waiting[CondOf(call)] # {}
  <2>1. CondOf(call) \in Conds
    BY DEF CondOf, Conds
  <2>2. PICK s \in waiting[CondOf(call)] :
              waiting' = [waiting EXCEPT ![CondOf(call)] = @ \ {s}]
    BY <1>2 DEF Signalled
  <2>3. s \in Threads /\ pc[s] \in Calls /\ pc[s] # "idle" /\ CondOf(pc[s]) = CondOf(call)
    BY <2>1, <2>2 DEF WakeUpInv, QueuedInCall, ShutdownInv, TypeOK
  <2>4. pc[s] = call
    BY <2>3 DEF CondOf, Calls
  <2>5. waiting'[CondOf(call)] = waiting[CondOf(call)] \ {s}
    BY <2>1, <2>2 DEF WakeUpInv, ShutdownInv, TypeOK
  <2>6. s \notin WokenIn(call) /\ WokenIn(call) \cup {s} \subseteq WokenIn(call)'
    BY <2>2, <2>3, <2>4, <2>5, WokenInIs DEF Stay
  <2>. QED  BY <1>2, <2>3, <2>6 DEF CallSafe, Safe
<1>. QED  BY <1>1, <1>2

-----------------------------------------------------------------------------
(* The parts actions are made of *)

WakeUpStep ==
    /\ QueuedInCall'
    /\ CallSafe("get", Len(items), Len(items'))
    /\ CallSafe("put", maxsize - Len(items), maxsize' - Len(items'))

LEMMA Numbers ==
    ASSUME WakeUpInv
    PROVE  /\ Len(items) \in Nat /\ maxsize \in Int
           /\ maxsize - Len(items) \in Int
           /\ items = <<>> => Len(items) = 0
           /\ CondOf("get") = "notEmpty" /\ CondOf("put") = "notFull"
           /\ IsFull => maxsize - Len(items) <= 0
<1>1. Len(items) \in Nat /\ maxsize \in Int
  BY LenProperties DEF WakeUpInv, ShutdownInv, TypeOK
<1>2. items = <<>> => Len(items) = 0
  BY EmptySeq
<1>3. CondOf("get") = "notEmpty" /\ CondOf("put") = "notFull"
  BY DEF CondOf
<1>. QED  BY <1>1, <1>2, <1>3 DEF IsFull

(* A thread that is idle or woken is in no wait list.                      *)
LEMMA NotQueued ==
    ASSUME WakeUpInv, NEW t \in Threads, pc[t] = "idle" \/ Woken(t)
    PROVE  \A d \in Conds : t \notin waiting[d]
  BY DEF WakeUpInv, QueuedInCall, Woken, Parked

LEMMA Leaves ==
    ASSUME WakeUpInv, NEW t \in Threads, pc[t] = "idle" \/ Woken(t), Return(t),
           \A d \in Conds : waiting'[d] \subseteq waiting[d]
    PROVE  /\ QueuedInCall'
           /\ \A s \in Threads \ {t} : pc'[s] = pc[s]
           /\ \A call \in {"put", "get"} : pc[t] # call => Stay(call)
<1>1. \A s \in Threads \ {t} : pc'[s] = pc[s]
  BY DEF Return, WakeUpInv, ShutdownInv, TypeOK
<1>2. \A d \in Conds : waiting'[d] \subseteq Threads \ {t}
  BY NotQueued DEF WakeUpInv, ShutdownInv, TypeOK
<1>3. QueuedInCall'
  BY <1>1, <1>2 DEF QueuedInCall, WakeUpInv, CondOf
<1>. QED  BY <1>1, <1>3 DEF Stay

LEMMA RaiseStep ==
    ASSUME WakeUpInv, NEW t \in Threads, pc[t] = "idle" \/ Woken(t), Raise(t),
           pc[t] = "get" => items = <<>> \/ shutdown,
           pc[t] = "put" => IsFull \/ shutdown
    PROVE  WakeUpStep
<1>1. waiting' = waiting /\ items' = items /\ maxsize' = maxsize
  BY DEF Raise, buffer
<1>2. /\ QueuedInCall'
      /\ \A call \in {"put", "get"} : pc[t] # call => Stay(call)
  BY <1>1, Leaves DEF Raise
<1>3. CallSafe("get", Len(items), Len(items'))
  BY <1>1, <1>2, Numbers, Untouched, NoNeed, Emptied
  DEF WakeUpInv, ShutdownInv, ShutdownWakes
<1>4. CallSafe("put", maxsize - Len(items), maxsize' - Len(items'))
  BY <1>1, <1>2, Numbers, Untouched, NoNeed, Emptied
  DEF WakeUpInv, ShutdownInv, ShutdownWakes
<1>. QED  BY <1>2, <1>3, <1>4 DEF WakeUpStep

LEMMA SleepStep ==
    ASSUME WakeUpInv, NEW t \in Threads, NEW k \in {"put", "get", "join"},
           pc[t] \in {"idle", k},
           pc' = [pc EXCEPT ![t] = k],
           waiting' = [waiting EXCEPT ![CondOf(k)] = @ \cup {t}],
           UNCHANGED <<maxsize, items>>,
           k = "get" => items = <<>>,
           k = "put" => IsFull
    PROVE  WakeUpStep
<1>1. \A s \in Threads : pc'[s] = IF s = t THEN k ELSE pc[s]
  BY DEF WakeUpInv, ShutdownInv, TypeOK
<1>2. \A d \in Conds : waiting'[d] =
            IF d = CondOf(k) THEN waiting[d] \cup {t} ELSE waiting[d]
  BY DEF WakeUpInv, ShutdownInv, TypeOK
<1>3. \A d \in Conds : waiting[d] \subseteq Threads
  BY DEF WakeUpInv, ShutdownInv, TypeOK
<1>4. QueuedInCall'
  <2> SUFFICES ASSUME NEW d \in Conds, NEW s \in waiting'[d]
               PROVE  pc'[s] # "idle" /\ CondOf(pc'[s]) = d
    BY DEF QueuedInCall, CondOf
  <2>1. CASE s \in waiting[d]
    <3>1. s \in Threads /\ pc[s] # "idle" /\ CondOf(pc[s]) = d
      BY <1>3, <2>1 DEF WakeUpInv, QueuedInCall
    <3>2. s # t \/ pc[s] = k
      BY <3>1
    <3>. QED  BY <1>1, <3>1, <3>2
  <2>2. CASE s = t /\ d = CondOf(k)
    BY <1>1, <2>2
  <2>. QED  BY <1>2, <2>1, <2>2
<1>5. \A call \in {"put", "get"} : Stay(call)
  BY <1>1 DEF Stay
<1>6. CallSafe("get", Len(items), Len(items'))
  <2>1. CASE k = "get"
    BY <2>1, Numbers, NoNeed
  <2>2. CASE k # "get"
    <3>1. waiting'[CondOf("get")] = waiting[CondOf("get")]
      BY <1>2, <2>2 DEF CondOf, Conds
    <3>2. Stay("get") /\ Len(items) \in Int
      BY <1>5, Numbers
    <3>3. CallSafe("get", Len(items), Len(items))
      BY <3>1, <3>2, Untouched
    <3>. QED  BY <3>3
  <2>. QED  BY <2>1, <2>2
<1>7. CallSafe("put", maxsize - Len(items), maxsize' - Len(items'))
  <2>1. CASE k = "put"
    BY <2>1, Numbers, NoNeed
  <2>2. CASE k # "put"
    <3>1. waiting'[CondOf("put")] = waiting[CondOf("put")]
      BY <1>2, <2>2 DEF CondOf, Conds
    <3>. QED  BY <1>5, <3>1, Numbers, Untouched
  <2>. QED  BY <2>1, <2>2
<1>. QED  BY <1>4, <1>6, <1>7 DEF WakeUpStep

LEMMA AcceptStep ==
    ASSUME WakeUpInv, NEW t \in Threads, pc[t] = "idle" \/ Woken(t),
           pc[t] # "get", NEW x \in 1..MaxPuts, Accept(t, x)
    PROVE  WakeUpStep
<1>1. Len(items') = Len(items) + 1 /\ maxsize' = maxsize
  BY AppendProperties DEF Accept, config, WakeUpInv, ShutdownInv, TypeOK
<1>2. \A d \in Conds : waiting'[d] \subseteq waiting[d]
  BY SignalShrinks DEF Accept, Conds, WakeUpInv, ShutdownInv
<1>3. /\ QueuedInCall'
      /\ \A s \in Threads \ {t} : pc'[s] = pc[s]
      /\ Stay("get")
  BY <1>2, Leaves DEF Accept
<1>4. CallSafe("get", Len(items), Len(items) + 1)
  BY <1>3, Numbers, OneIsWoken DEF Accept
<1>5. waiting'["notFull"] = waiting["notFull"]
  BY DEF Accept, Signalled, Conds, WakeUpInv, ShutdownInv, TypeOK
<1>6. CallSafe("put", maxsize - Len(items), (maxsize - Len(items)) - 1)
  BY <1>3, <1>5, Numbers, OneLeaves
<1>7. (maxsize - Len(items)) - 1 = maxsize' - Len(items')
  BY <1>1, Numbers
<1>. QED  BY <1>1, <1>3, <1>4, <1>6, <1>7 DEF WakeUpStep

LEMMA TakeStep ==
    ASSUME WakeUpInv, NEW t \in Threads, pc[t] = "idle" \/ Woken(t),
           pc[t] # "put", Take(t)
    PROVE  WakeUpStep
<1>1. Len(items') = Len(items) - 1 /\ maxsize' = maxsize
  BY TakenAway DEF Take, Removable, config, WakeUpInv, ShutdownInv, TypeOK
<1>2. \A d \in Conds : waiting'[d] \subseteq waiting[d]
  BY SignalShrinks DEF Take, Conds, WakeUpInv, ShutdownInv
<1>3. /\ QueuedInCall'
      /\ \A s \in Threads \ {t} : pc'[s] = pc[s]
      /\ Stay("put")
  BY <1>2, Leaves DEF Take
<1>4. CallSafe("put", maxsize - Len(items), (maxsize - Len(items)) + 1)
  BY <1>3, Numbers, OneIsWoken DEF Take
<1>5. waiting'["notEmpty"] = waiting["notEmpty"]
  BY DEF Take, Signalled, Conds, WakeUpInv, ShutdownInv, TypeOK
<1>6. CallSafe("get", Len(items), Len(items) - 1)
  BY <1>3, <1>5, Numbers, OneLeaves
<1>7. (maxsize - Len(items)) + 1 = maxsize' - Len(items')
  BY <1>1, Numbers
<1>. QED  BY <1>1, <1>3, <1>4, <1>6, <1>7 DEF WakeUpStep

(* Nobody enters or leaves a call; wait lists are emptied or left alone.   *)
LEMMA QuietStep ==
    ASSUME WakeUpInv, UNCHANGED <<pc, maxsize, items>>,
           \A d \in Conds : waiting'[d] \in {waiting[d], {}}
    PROVE  WakeUpStep
<1>1. QueuedInCall'
  BY DEF WakeUpInv, QueuedInCall, CondOf
<1>2. Stay("get") /\ Stay("put")
  BY DEF Stay
<1>3. CallSafe("get", Len(items), Len(items))
  BY <1>2, Numbers, Untouched, Emptied DEF Conds
<1>4. CallSafe("put", maxsize - Len(items), maxsize - Len(items))
  BY <1>2, Numbers, Untouched, Emptied DEF Conds
<1>. QED  BY <1>1, <1>3, <1>4 DEF WakeUpStep

LEMMA ShutdownStep ==
    ASSUME WakeUpInv, NEW t, NEW immediate \in BOOLEAN, Shutdown(t, immediate)
    PROVE  WakeUpStep
<1>1. pc' = pc /\ waiting'["notEmpty"] = {} /\ waiting'["notFull"] = {}
      /\ waiting'["allDone"] \subseteq waiting["allDone"]
  BY DEF Shutdown, Broadcasted, Conds
<1>2. QueuedInCall'
  BY <1>1 DEF WakeUpInv, QueuedInCall, CondOf, Conds
<1>. QED  BY <1>1, <1>2, Numbers, Emptied DEF WakeUpStep

LEMMA StepWakes ==
    ASSUME WakeUpInv, [Next]_vars
    PROVE  WakeUpStep
<1>0. TypeOK /\ ShutdownInv
  BY DEF WakeUpInv, ShutdownInv
<1>1. ASSUME NEW t \in Threads, NEW block \in BOOLEAN,
             NEW timeout \in Timeouts, PutCall(t, block, timeout)
      PROVE  WakeUpStep
  <2>1. puts + 1 \in 1..MaxPuts /\ pc[t] = "idle"
    BY <1>0, <1>1 DEF PutCall, TypeOK
  <2>2. ASSUME IsFull, StartWait(t, "put", puts + 1, timeout)
        PROVE  WakeUpStep
    BY <2>1, <2>2, SleepStep DEF StartWait, buffer
  <2>3. ASSUME ExpireAtOnce("put", timeout)  PROVE WakeUpStep
    BY <2>3, QuietStep DEF ExpireAtOnce, buffer
  <2>. QED  BY <1>1, <2>1, <2>2, <2>3, RaiseStep, AcceptStep DEF PutCall
<1>2. ASSUME NEW t \in Threads, PutResume(t)
      PROVE  WakeUpStep
  <2>1. arg[t] \in 1..MaxPuts /\ pc[t] = "put" /\ Woken(t)
    BY <1>0, <1>2 DEF PutResume, TypeOK
  <2>2. ASSUME IsFull, Park(t)  PROVE WakeUpStep
    <3>1. pc' = [pc EXCEPT ![t] = "put"]
      BY <1>0, <2>1, <2>2 DEF Park, TypeOK
    <3>. QED  BY <2>1, <2>2, <3>1, SleepStep DEF Park, buffer
  <2>. QED  BY <1>2, <2>1, <2>2, RaiseStep, AcceptStep DEF PutResume
<1>3. ASSUME NEW t \in Threads, NEW block \in BOOLEAN,
             NEW timeout \in Timeouts, GetCall(t, block, timeout)
      PROVE  WakeUpStep
  <2>1. pc[t] = "idle"
    BY <1>3 DEF GetCall
  <2>2. ASSUME items = <<>>, StartWait(t, "get", 0, timeout)
        PROVE  WakeUpStep
    BY <2>1, <2>2, SleepStep DEF StartWait, buffer
  <2>3. ASSUME ExpireAtOnce("get", timeout)  PROVE WakeUpStep
    BY <2>3, QuietStep DEF ExpireAtOnce, buffer
  <2>. QED  BY <1>3, <2>1, <2>2, <2>3, RaiseStep, TakeStep DEF GetCall
<1>4. ASSUME NEW t \in Threads, GetResume(t)
      PROVE  WakeUpStep
  <2>1. pc[t] = "get" /\ Woken(t)
    BY <1>4 DEF GetResume
  <2>2. ASSUME items = <<>>, Park(t)  PROVE WakeUpStep
    <3>1. pc' = [pc EXCEPT ![t] = "get"]
      BY <1>0, <2>1, <2>2 DEF Park, TypeOK
    <3>. QED  BY <2>1, <2>2, <3>1, SleepStep DEF Park, buffer
  <2>. QED  BY <1>0, <1>4, <2>1, <2>2, RaiseStep, TakeStep DEF GetResume, ShutdownInv
<1>5. ASSUME NEW t \in Threads, TaskDone(t)
      PROVE  WakeUpStep
  <2>1. \A d \in Conds : waiting'[d] \in {waiting[d], {}}
    BY <1>5 DEF TaskDone, Broadcasted
  <2>. QED  BY <1>5, <2>1, QuietStep DEF TaskDone, config
<1>6. ASSUME NEW t \in Threads, JoinCall(t)
      PROVE  WakeUpStep
  BY <1>6, SleepStep DEF JoinCall, StartWait, buffer
<1>7. ASSUME NEW t \in Threads, JoinResume(t)
      PROVE  WakeUpStep
  <2>1. pc[t] = "join" /\ Woken(t)
    BY <1>7 DEF JoinResume
  <2>2. ASSUME Park(t)  PROVE WakeUpStep
    <3>1. pc' = [pc EXCEPT ![t] = "join"]
      BY <1>0, <2>1, <2>2 DEF Park, TypeOK
    <3>. QED  BY <2>1, <2>2, <3>1, SleepStep DEF Park, buffer
  <2>. QED  BY <1>7, <2>1, <2>2, RaiseStep DEF JoinResume
<1>8. ASSUME NEW t \in Threads, NEW immediate \in BOOLEAN,
             Shutdown(t, immediate)
      PROVE  WakeUpStep
  BY <1>8, ShutdownStep
<1>9. ASSUME NEW t \in Threads, DeadlinePasses(t) \/ TimerFires(t)
      PROVE  WakeUpStep
  <2>1. \A d \in Conds : waiting'[d] \in {waiting[d], {}}
    BY <1>9 DEF DeadlinePasses, TimerFires, Broadcasted
  <2>. QED  BY <1>9, <2>1, QuietStep DEF DeadlinePasses, TimerFires, buffer
<1>10. ASSUME NEW c \in Conds, StaleTimer(c)
       PROVE  WakeUpStep
  <2>1. \A d \in Conds : waiting'[d] \in {waiting[d], {}}
    BY <1>10 DEF StaleTimer, Broadcasted
  <2>. QED  BY <1>10, <2>1, QuietStep DEF StaleTimer, buffer
<1>11. CASE UNCHANGED vars
  BY <1>11, QuietStep DEF vars
<1>. QED
  BY <1>1, <1>2, <1>3, <1>4, <1>5, <1>6, <1>7, <1>8, <1>9, <1>10, <1>11
  DEF Next, Resume, Conds

-----------------------------------------------------------------------------

(* With finitely many threads no wake-up is lost: a getter sleeps only     *)
(* while each item has a woken getter on its way to it, and a putter only  *)
(* while each free place has such a putter, whoever overtakes whom.        *)
THEOREM WakeUpsKept ==
    ASSUME IsFiniteSet(Threads)
    PROVE  Spec => []NoLostWakeUp
<1>1. Init => WakeUpInv
  <2>1. Init => ShutdownInv
    BY InitType DEF Init, ShutdownInv, ShutdownWakes, Conds
  <2>. QED  BY <2>1 DEF Init, WakeUpInv, QueuedInCall, NoLostWakeUp, Conds
<1>2. WakeUpInv /\ [Next]_vars => WakeUpInv'
  <2> SUFFICES ASSUME WakeUpInv, [Next]_vars
               PROVE  WakeUpInv'
    OBVIOUS
  <2>1. ShutdownInv' /\ WakeUpStep
    BY StepShutdown, StepWakes DEF WakeUpInv
  <2>2. /\ Len(items) \in Int /\ Len(items') \in Int
        /\ maxsize - Len(items) \in Int /\ maxsize' - Len(items') \in Int
    BY <2>1, LenProperties DEF WakeUpInv, ShutdownInv, TypeOK
  <2>3. \A call \in {"put", "get"} :
           WokenIn(call) \in SUBSET Threads /\ WokenIn(call)' \in SUBSET Threads
    BY WokenInIs
  <2>4. waiting'["notEmpty"] # {} => Len(items') <= Cardinality(WokenIn("get")')
    <3>1. waiting["notEmpty"] # {} => Len(items) <= Cardinality(WokenIn("get"))
      BY DEF WakeUpInv, NoLostWakeUp
    <3>2. Safe(waiting["notEmpty"], waiting'["notEmpty"], WokenIn("get"),
               WokenIn("get")', Len(items), Len(items'))
      BY <2>1 DEF WakeUpStep, CallSafe, CondOf
    <3>. QED  BY <2>2, <2>3, <3>1, <3>2, Balance
  <2>5. waiting'["notFull"] # {}
           => maxsize' - Len(items') <= Cardinality(WokenIn("put")')
    <3>1. waiting["notFull"] # {}
             => maxsize - Len(items) <= Cardinality(WokenIn("put"))
      BY DEF WakeUpInv, NoLostWakeUp
    <3>2. Safe(waiting["notFull"], waiting'["notFull"], WokenIn("put"),
               WokenIn("put")', maxsize - Len(items), maxsize' - Len(items'))
      BY <2>1 DEF WakeUpStep, CallSafe, CondOf
    <3>. QED  BY <2>2, <2>3, <3>1, <3>2, Balance
  <2>. QED  BY <2>1, <2>4, <2>5 DEF WakeUpInv, WakeUpStep, NoLostWakeUp
<1>3. WakeUpInv => NoLostWakeUp
  BY DEF WakeUpInv
<1>. QED  BY <1>1, <1>2, <1>3, PTL DEF Spec
===============================================================================
