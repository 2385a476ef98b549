---------------------------- MODULE ThreadingProofs ----------------------------
(***************************************************************************)
(* The objects of the threading module, for every set of threads and every *)
(* value of the other constants.                                           *)
(***************************************************************************)
EXTENDS Threading, SequenceLemmas, FiniteSetTheorems

(* The chCond that Semaphore, Event, Condition and Barrier share.          *)
Ch == INSTANCE ChCond

-----------------------------------------------------------------------------
(* chCond *)

Queued(t) == Has(waiters, t)

(* CondOK, put so that the lemmas on sequences apply.                      *)
Apart ==
    /\ waiters \in Seq(Threads)
    /\ Distinct(waiters)
    /\ signalled \in SUBSET Threads
    /\ late \in SUBSET Threads
    /\ pc \in [Threads -> {"idle", "asleep", "awake"}]
    /\ timed \in SUBSET Threads
    /\ due \in SUBSET timed
    /\ \A t \in Threads :
          /\ ~(Queued(t) /\ t \in signalled)
          /\ pc[t] = "asleep" <=> Queued(t) \/ t \in signalled
    /\ \A t \in late : pc[t] = "asleep" /\ t \in due
    /\ \A t \in timed : pc[t] # "idle"

LEMMA Members ==
    ASSUME NEW t  PROVE Ch!Waiting(t) <=> Queued(t)
  BY DEF Ch!Waiting, Ch!ToSet, Queued, Has

LEMMA ApartIsOK == Apart <=> Ch!CondOK
<1>1. ASSUME waiters \in Seq(Threads)
      PROVE  DOMAIN waiters = 1..Len(waiters) /\ \A i \in DOMAIN waiters : waiters[i] \in Threads
  BY <1>1, LenProperties, ElementOfSeq
<1>2. ASSUME Apart  PROVE Ch!CondOK
  BY <1>1, <1>2, Members DEF Apart, Ch!CondOK, Distinct, Has, Queued
<1>3. ASSUME Ch!CondOK  PROVE Apart
  BY <1>1, <1>3, Members DEF Apart, Ch!CondOK, Distinct, Has, Queued
<1>. QED  BY <1>2, <1>3

(* The part of Wait up to its select, by a thread that is not in Wait.     *)
LEMMA SleepKeeps ==
    ASSUME Apart, NEW t \in Threads, pc[t] # "asleep", NEW d \in BOOLEAN, Ch!Sleep(t, d)
    PROVE  /\ Apart'
           /\ \A s : Queued(s)' <=> Queued(s) \/ s = t
           /\ \A s \in Threads : pc'[s] = IF s = t THEN "asleep" ELSE pc[s]
<1>1. ~Queued(t) /\ t \notin signalled /\ t \notin late
  BY DEF Apart
<1>2. waiters' = Append(waiters, t)
  BY DEF Ch!Sleep
<1>3. /\ waiters' \in Seq(Threads)
      /\ Distinct(waiters')
      /\ \A s : Has(waiters', s) <=> Has(waiters, s) \/ s = t
  BY <1>1, <1>2, Longer DEF Apart, Queued
<1>4. \A s : Queued(s)' <=> Queued(s) \/ s = t
  BY <1>3 DEF Queued
<1>5. \A s \in Threads : pc'[s] = IF s = t THEN "asleep" ELSE pc[s]
  BY DEF Apart, Ch!Sleep
<1>6. Distinct(waiters)'
  BY <1>3 DEF Distinct
<1>7. /\ pc' \in [Threads -> {"idle", "asleep", "awake"}]
      /\ timed' \in SUBSET Threads /\ due' \in SUBSET timed'
      /\ \A s \in timed' : pc'[s] # "idle"
  BY <1>5 DEF Apart, Ch!Sleep
<1>8. \A s \in late' : pc'[s] = "asleep" /\ s \in due'
  BY <1>5 DEF Apart, Ch!Sleep
<1>9. \A s \in Threads : /\ ~(Queued(s)' /\ s \in signalled')
                         /\ pc'[s] = "asleep" <=> Queued(s)' \/ s \in signalled'
  BY <1>1, <1>4, <1>5 DEF Apart, Ch!Sleep
<1>. QED  BY <1>3, <1>4, <1>5, <1>6, <1>7, <1>8, <1>9 DEF Apart, Ch!Sleep

LEMMA Capped ==
    ASSUME NEW n \in Int, NEW length \in Nat,
           NEW k, k = IF n <= 0 \/ n > length THEN length ELSE n
    PROVE  /\ k \in 0..length /\ (n = 0 => k = length)
           /\ \A j \in 1..k : j \in 1..length
           /\ k # length => k < length /\ k = n
OBVIOUS

(* Notify moves some of the queued threads, all of them when n <= 0, to    *)
(* those with a token.                                                     *)
LEMMA NotifySplits ==
    ASSUME Apart, NEW n \in Int, Ch!Notify(n)
    PROVE  /\ waiters' \in Seq(Threads) /\ Distinct(waiters')
           /\ signalled \subseteq signalled' /\ signalled' \in SUBSET Threads
           /\ late' = late
           /\ \A s : Queued(s)' => Queued(s)
           /\ \A s : Queued(s) \/ s \in signalled <=> Queued(s)' \/ s \in signalled'
           /\ \A s : ~(Queued(s)' /\ s \in signalled')
           /\ n = 0 => waiters' = <<>>
           /\ signalled' = signalled \cup Ch!Popped(n)
           /\ \A s \in Ch!Popped(n) : Queued(s)
<1>. DEFINE k == Ch!NotifyCount(n)
<1>1. Len(waiters) \in Nat /\ DOMAIN waiters = 1..Len(waiters)
      /\ \A j \in 1..Len(waiters) : waiters[j] \in Threads
  <2>1. waiters \in Seq(Threads)
    BY Zenon DEF Apart
  <2>. QED  BY <2>1, LenProperties, ElementOfSeq
<1>2. /\ k \in 0..Len(waiters) /\ (n = 0 => k = Len(waiters))
      /\ \A j \in 1..k : j \in 1..Len(waiters)
  <2>1. k = IF n <= 0 \/ n > Len(waiters) THEN Len(waiters) ELSE n
    BY DEF Ch!NotifyCount
  <2>. QED  BY <1>1, <2>1, Capped
<1>3. /\ waiters' = SubSeq(waiters, k + 1, Len(waiters))
      /\ signalled' = signalled \cup {waiters[j] : j \in 1..k}
      /\ Ch!Popped(n) = {waiters[j] : j \in 1..k}
      /\ late' = late
  BY DEF Ch!Notify, Ch!Popped
<1>. HIDE DEF k
<1>4. /\ waiters' \in Seq(Threads)
      /\ Distinct(waiters')
      /\ \A v : Has(waiters, v) <=> Has(waiters', v) \/ \E j \in 1..k : waiters[j] = v
      /\ \A v : ~(Has(waiters', v) /\ \E j \in 1..k : waiters[j] = v)
  BY <1>2, <1>3, DroppedOnce DEF Apart
<1>5. signalled' \in SUBSET Threads
  <2>1. \A j \in 1..k : waiters[j] \in Threads
    BY <1>1, <1>2
  <2>2. signalled \in SUBSET Threads
    BY DEF Apart
  <2>. QED  BY <1>3, <2>1, <2>2
<1>6. \A s : ~(Has(waiters', s) /\ s \in signalled')
  <2>1. \A s : Has(waiters', s) => Has(waiters, s) /\ s \notin {waiters[j] : j \in 1..k}
    BY <1>4
  <2>2. \A s : Has(waiters, s) => s \in Threads
    BY <1>1 DEF Has
  <2>. QED  BY <1>3, <2>1, <2>2 DEF Apart, Queued
<1>7. n = 0 => waiters' = <<>>
  BY <1>1, <1>2, <1>3, SubSeqEmpty
<1>8. /\ \A s : Queued(s)' <=> Has(waiters', s)
      /\ \A s : Queued(s) <=> Has(waiters, s)
  BY DEF Queued
<1>9. \A s : Queued(s) \/ s \in signalled <=> Queued(s)' \/ s \in signalled'
  BY <1>3, <1>4, <1>8
<1>10. \A s \in Ch!Popped(n) : Queued(s)
  BY <1>3, <1>4, <1>8
<1>11. signalled' = signalled \cup Ch!Popped(n)
  BY <1>3
<1>. QED  BY <1>3, <1>4, <1>5, <1>6, <1>7, <1>8, <1>9, <1>10, <1>11

(* A call ends that is not in Wait.                                        *)
LEMMA ReturnsOut ==
    ASSUME Apart, NEW t \in Threads, pc[t] # "asleep", Ch!Return(t)
    PROVE  /\ pc' \in [Threads -> {"idle", "asleep", "awake"}]
           /\ \A s \in Threads : pc'[s] = IF s = t THEN "idle" ELSE pc[s]
           /\ timed' \in SUBSET Threads /\ due' \in SUBSET timed'
           /\ \A s \in timed' : pc'[s] # "idle"
           /\ \A s \in late : pc'[s] = "asleep" /\ s \in due'
  BY DEF Apart, Ch!Return

LEMMA ReturnKeeps ==
    ASSUME Apart, NEW t \in Threads, pc[t] # "asleep", Ch!Return(t), UNCHANGED queues
    PROVE  /\ Apart'
           /\ \A s : Queued(s)' <=> Queued(s)
           /\ \A s \in Threads : pc'[s] = IF s = t THEN "idle" ELSE pc[s]
<1>1. /\ waiters' = waiters /\ signalled' = signalled /\ late' = late
      /\ \A s : Queued(s)' <=> Queued(s)
  BY DEF queues, Queued
<1>2. Distinct(waiters)'
  BY <1>1 DEF Apart, Distinct
<1>. QED  BY <1>1, <1>2, ReturnsOut DEF Apart

(* Notify by a thread that then goes on, or returns.                       *)
LEMMA NotifyKeeps ==
    ASSUME Apart, NEW n \in Int, Ch!Notify(n), UNCHANGED calls
    PROVE  Apart'
<1>1. pc' = pc /\ timed' = timed /\ due' = due
  BY DEF calls
<1>2. Distinct(waiters)'
  BY NotifySplits DEF Distinct
<1>. QED  BY <1>1, <1>2, NotifySplits DEF Apart

LEMMA NotifyReturnKeeps ==
    ASSUME Apart, NEW n \in Int, Ch!Notify(n),
           NEW t \in Threads, pc[t] # "asleep", Ch!Return(t)
    PROVE  Apart'
<1>1. Distinct(waiters)'
  BY NotifySplits DEF Distinct
<1>. QED  BY <1>1, NotifySplits, ReturnsOut DEF Apart

(* Wait lets a thread go, with the token or without.                       *)
LEMMA ReceiveKeeps ==
    ASSUME Apart, NEW t \in Threads, Ch!Receive(t)
    PROVE  /\ Apart'
           /\ \A s : Queued(s)' <=> Queued(s)
           /\ pc[t] = "asleep"
           /\ \A s \in Threads : pc'[s] = IF s = t THEN "awake" ELSE pc[s]
<1>1. /\ waiters' = waiters /\ \A s : Queued(s)' <=> Queued(s)
  BY DEF Ch!Receive, Queued
<1>2. Distinct(waiters)'
  BY <1>1 DEF Apart, Distinct
<1>3. \A s \in Threads : pc'[s] = IF s = t THEN "awake" ELSE pc[s]
  BY DEF Apart, Ch!Receive
<1>4. pc[t] = "asleep" /\ ~Queued(t)
  BY DEF Apart, Ch!Receive
<1>. QED  BY <1>1, <1>2, <1>3, <1>4 DEF Apart, Ch!Receive

LEMMA CleanUpKeeps ==
    ASSUME Apart, NEW t \in Threads, Ch!CleanUp(t)
    PROVE  /\ Apart'
           /\ \A s : Queued(s)' <=> Queued(s) /\ s # t
           /\ pc[t] = "asleep"
           /\ \A s \in Threads : pc'[s] = IF s = t THEN "awake" ELSE pc[s]
<1>1. \A s \in Threads : pc'[s] = IF s = t THEN "awake" ELSE pc[s]
  BY DEF Apart, Ch!CleanUp
<1>2. pc[t] = "asleep"
  BY DEF Apart, Ch!CleanUp
<1>3. /\ waiters' \in Seq(Threads) /\ Distinct(waiters')
      /\ \A s : Has(waiters', s) <=> Has(waiters, s) /\ s # t
  <2>1. CASE ~Queued(t)
    BY <2>1, Members DEF Apart, Ch!CleanUp, Queued
  <2>2. CASE Queued(t)
    <3>. DEFINE p == Ch!PlaceOf(t)
    <3>1. p \in DOMAIN waiters /\ waiters[p] = t
      BY <2>2 DEF Ch!PlaceOf, Queued, Has
    <3>2. p \in 1..Len(waiters)
      BY <3>1, LenProperties DEF Apart
    <3>3. waiters' = RemoveAt(waiters, p)
      BY <2>2, Members DEF Ch!CleanUp, Ch!RemoveAt, RemoveAt
    <3>. HIDE DEF p
    <3>. QED  BY <3>1, <3>2, <3>3, TakenAwayOnce DEF Apart
  <2>. QED  BY <2>1, <2>2
<1>4. \A s : Queued(s)' <=> Queued(s) /\ s # t
  BY <1>3 DEF Queued
<1>5. Distinct(waiters)'
  BY <1>3 DEF Distinct
<1>. QED  BY <1>1, <1>2, <1>3, <1>4, <1>5 DEF Apart, Ch!CleanUp

(* A deadline passes, or the timer wins.                                   *)
LEMMA ClockKeeps ==
    ASSUME Apart, NEW t \in Threads, Ch!DeadlinePasses(t) \/ Ch!TimerWins(t)
    PROVE  Apart' /\ waiters' = waiters /\ signalled' = signalled /\ pc' = pc
<1>1. waiters' = waiters /\ signalled' = signalled /\ pc' = pc
  BY DEF Ch!DeadlinePasses, Ch!TimerWins
<1>2. Distinct(waiters)' /\ \A s : Queued(s)' <=> Queued(s)
  BY <1>1 DEF Apart, Distinct, Queued
<1>. QED  BY <1>1, <1>2 DEF Apart, Ch!DeadlinePasses, Ch!TimerWins

(* Nothing happens to it.                                                  *)
LEMMA IdleKeeps ==
    ASSUME Apart, UNCHANGED <<queues, calls>>
    PROVE  Apart'
<1>1. /\ waiters' = waiters /\ signalled' = signalled /\ late' = late
      /\ pc' = pc /\ timed' = timed /\ due' = due
  BY DEF queues, calls
<1>2. Distinct(waiters)' /\ \A s : Queued(s)' <=> Queued(s)
  BY <1>1 DEF Apart, Distinct, Queued
<1>. QED  BY <1>1, <1>2 DEF Apart

LEMMA StartsApart == Ch!CondInit => Apart /\ \A s : ~Queued(s)
<1>1. ASSUME Ch!CondInit  PROVE Distinct(waiters) /\ \A s : ~Queued(s)
  BY <1>1 DEF Ch!CondInit, Distinct, Queued, Has
<1>2. ASSUME Ch!CondInit  PROVE waiters \in Seq(Threads)
  BY <1>2, EmptySeq DEF Ch!CondInit
<1>. QED  BY <1>1, <1>2 DEF Ch!CondInit, Apart

-----------------------------------------------------------------------------
(* One object *)

(* A step is one of the object in use, or none.                            *)
LEMMA OneObject ==
    ASSUME [Step]_allVars
    PROVE  /\ use' = use
           /\ use = "Semaphore" => [Se!Next]_Se!vars
           /\ use = "Condition" => [Co!Next]_Co!vars
           /\ use = "Barrier" => [Ba!Next]_Ba!vars
           /\ use = "Lock" => [Lo!Next]_Lo!vars
           /\ use = "Thread" => [Th!Next]_Th!vars
<1>1. CASE UNCHANGED allVars
  BY <1>1 DEF allVars, queues, calls, condition, barrier, lock, thread, Se!vars,
     Co!vars, Ba!vars, Lo!vars, Th!vars, Th!thread, Th!history
<1>2. CASE Step
  BY <1>2 DEF Step, Uses
<1>. QED  BY <1>1, <1>2

-----------------------------------------------------------------------------
(* Semaphore *)

(* The first k elements of a sequence without repetitions are k elements.  *)
LEMMA FirstOnes ==
    ASSUME NEW S, NEW s \in Seq(S), Distinct(s), NEW k \in 0..Len(s)
    PROVE  /\ IsFiniteSet({s[j] : j \in 1..k})
           /\ Cardinality({s[j] : j \in 1..k}) = k
<1>. DEFINE T == {s[j] : j \in 1..k}
            f == [j \in 1..k |-> s[j]]
<1>1. DOMAIN s = 1..Len(s) /\ Len(s) \in Nat
  BY LenProperties
<1>2. \A j \in 1..k : j \in DOMAIN s
  BY <1>1
<1>3. f \in Surjection(1..k, T)
  BY DEF Surjection
<1>4. f \in Injection(1..k, T)
  BY <1>2 DEF Injection, Distinct, IsInjective
<1>5. IsFiniteSet(1..k) /\ Cardinality(1..k) = k
  BY FS_Interval, 1 \in Int, k \in Int, <1>1
<1>. HIDE DEF T, f
<1>6. IsFiniteSet(T) /\ Cardinality(T) = k
  BY <1>3, <1>4, <1>5, FS_Surjection
<1>. QED  BY <1>6 DEF T

SemaphoreInv ==
    /\ Apart
    /\ count \in Nat
    /\ IsFiniteSet(Se!OnTheWay)
    /\ waiters # <<>> => count <= Cardinality(Se!OnTheWay)

SemaphoreSafe == use = "Semaphore" => SemaphoreInv

LEMMA SameCardinality == \A S : Se!Cardinality(S) = Cardinality(S)
  BY DEF Se!Cardinality, Cardinality, Se!IsFiniteSet, IsFiniteSet

(* A thread that is not in Wait takes a permit, gives up or sleeps.        *)
LEMMA OffTheWay ==
    ASSUME Apart, NEW t \in Threads, pc[t] # "asleep", signalled' = signalled,
           NEW place \in {"idle", "asleep"},
           \A s \in Threads : pc'[s] = IF s = t THEN place ELSE pc[s]
    PROVE  Se!OnTheWay' = Se!OnTheWay \ {t}
  BY DEF Apart, Se!OnTheWay

LEMMA TakeExact ==
    ASSUME SemaphoreInv, NEW t \in Threads, pc[t] # "asleep", count > 0, Se!Take(t)
    PROVE  SemaphoreInv'
<1>1. Ch!Return(t) /\ UNCHANGED queues /\ count' = count - 1
  BY DEF Se!Take, Se!Return, Ch!Return, Se!waitVars, queues
<1>2. Apart' /\ \A s \in Threads : pc'[s] = IF s = t THEN "idle" ELSE pc[s]
  BY <1>1, ReturnKeeps DEF SemaphoreInv
<1>3. Se!OnTheWay' = Se!OnTheWay \ {t}
  BY <1>1, <1>2, OffTheWay DEF SemaphoreInv, queues
<1>4. /\ IsFiniteSet(Se!OnTheWay')
      /\ Cardinality(Se!OnTheWay') >= Cardinality(Se!OnTheWay) - 1
  BY <1>3, FS_RemoveElement, FS_CardinalityType DEF SemaphoreInv
<1>. QED  BY <1>1, <1>2, <1>4, FS_CardinalityType DEF SemaphoreInv, queues

LEMMA RefuseExact ==
    ASSUME SemaphoreInv, NEW t \in Threads, pc[t] # "asleep", count <= 0, Se!Refuse(t)
    PROVE  SemaphoreInv'
<1>1. Ch!Return(t) /\ UNCHANGED queues /\ count' = count
  BY DEF Se!Refuse, Se!Return, Ch!Return, Se!waitVars, Se!semaphore, queues
<1>2. Apart' /\ \A s \in Threads : pc'[s] = IF s = t THEN "idle" ELSE pc[s]
  BY <1>1, ReturnKeeps DEF SemaphoreInv
<1>3. Se!OnTheWay' = Se!OnTheWay \ {t}
  BY <1>1, <1>2, OffTheWay DEF SemaphoreInv, queues
<1>4. IsFiniteSet(Se!OnTheWay') /\ Cardinality(Se!OnTheWay') \in Nat
  BY <1>3, FS_RemoveElement, FS_CardinalityType DEF SemaphoreInv
<1>. QED  BY <1>1, <1>2, <1>4 DEF SemaphoreInv

LEMMA SleepExact ==
    ASSUME SemaphoreInv, NEW t \in Threads, pc[t] # "asleep", count <= 0,
           NEW d \in BOOLEAN, Se!Sleep(t, d), UNCHANGED Se!semaphore
    PROVE  SemaphoreInv'
<1>1. Ch!Sleep(t, d) /\ count' = count /\ signalled' = signalled
  BY DEF Se!Sleep, Ch!Sleep, Se!semaphore
<1>2. Apart' /\ \A s \in Threads : pc'[s] = IF s = t THEN "asleep" ELSE pc[s]
  BY <1>1, SleepKeeps DEF SemaphoreInv
<1>3. Se!OnTheWay' = Se!OnTheWay \ {t}
  BY <1>1, <1>2, OffTheWay DEF SemaphoreInv
<1>4. IsFiniteSet(Se!OnTheWay') /\ Cardinality(Se!OnTheWay') \in Nat
  BY <1>3, FS_RemoveElement, FS_CardinalityType DEF SemaphoreInv
<1>. QED  BY <1>1, <1>2, <1>4 DEF SemaphoreInv

(* n permits more, and n threads more on their way, or nobody is queued.   *)
LEMMA NotifyExact ==
    ASSUME SemaphoreInv, NEW n \in Nat, Se!Notify(n), count' = count + n,
           UNCHANGED calls
    PROVE  SemaphoreInv'
<1>. DEFINE k == Ch!NotifyCount(n)
            P == {waiters[j] : j \in 1..k}
<1>1. Ch!Notify(n)
  BY DEF Se!Notify, Ch!Notify, Se!NotifyCount, Ch!NotifyCount, Se!Popped, Ch!Popped
<1>2. Apart'
  BY <1>1, NotifyKeeps, n \in Int DEF SemaphoreInv
<1>3. Len(waiters) \in Nat /\ DOMAIN waiters = 1..Len(waiters)
  BY LenProperties DEF SemaphoreInv, Apart
<1>4. /\ k = IF n <= 0 \/ n > Len(waiters) THEN Len(waiters) ELSE n
      /\ waiters' = SubSeq(waiters, k + 1, Len(waiters))
      /\ signalled' = signalled \cup P
  BY <1>1 DEF Ch!Notify, Ch!NotifyCount, Ch!Popped
<1>5. /\ k \in 0..Len(waiters) /\ \A j \in 1..k : j \in 1..Len(waiters)
      /\ k # Len(waiters) => k < Len(waiters) /\ k = n
  <2>. HIDE DEF k
  <2>. QED  BY <1>3, <1>4, Capped, n \in Int
<1>. HIDE DEF k
<1>6. IsFiniteSet(P) /\ Cardinality(P) = k
  <2>1. waiters \in Seq(Threads) /\ Distinct(waiters)
    BY DEF SemaphoreInv, Apart
  <2>. QED  BY <1>5, <2>1, FirstOnes
<1>7. \A v \in P : Queued(v)
  BY <1>3, <1>5 DEF Queued, Has
<1>. HIDE DEF P
<1>8. Se!OnTheWay' = Se!OnTheWay \cup P
  BY <1>4 DEF Se!OnTheWay, calls
<1>9. Se!OnTheWay \cap P = {}
  <2>1. \A v \in Threads : Queued(v) => v \notin signalled /\ pc[v] = "asleep"
    BY DEF SemaphoreInv, Apart
  <2>2. Se!OnTheWay \subseteq Threads
    BY DEF SemaphoreInv, Apart, Se!OnTheWay
  <2>. QED  BY <1>7, <2>1, <2>2 DEF Se!OnTheWay
<1>10. /\ IsFiniteSet(Se!OnTheWay') /\ Cardinality(Se!OnTheWay) \in Nat
       /\ Cardinality(Se!OnTheWay') = Cardinality(Se!OnTheWay) + k
  <2>1. Cardinality(Se!OnTheWay \cup P)
            = Cardinality(Se!OnTheWay) + Cardinality(P) - Cardinality({})
    BY <1>6, <1>9, FS_Union DEF SemaphoreInv
  <2>2. IsFiniteSet(Se!OnTheWay \cup P) /\ Cardinality(Se!OnTheWay) \in Nat
    BY <1>6, FS_Union, FS_CardinalityType DEF SemaphoreInv
  <2>3. Cardinality({}) = 0
    BY FS_EmptySet
  <2>. QED  BY <1>5, <1>6, <1>8, <2>1, <2>2, <2>3
<1>11. ASSUME waiters' # <<>>  PROVE waiters # <<>> /\ k = n
  <2>1. k # Len(waiters)
    <3>1. ASSUME k = Len(waiters)  PROVE waiters' = <<>>
      <4>1. Len(waiters) \in Int /\ k + 1 \in Int /\ Len(waiters) < k + 1
        BY <1>3, <3>1
      <4>. QED  BY <1>4, <4>1, SubSeqEmpty
    <3>. QED  BY <1>11, <3>1
  <2>2. waiters # <<>>
    BY <1>5, <2>1, EmptySeq
  <2>. QED  BY <1>5, <2>1, <2>2
<1>. QED  BY <1>2, <1>10, <1>11 DEF SemaphoreInv

LEMMA WakesExact ==
    ASSUME SemaphoreInv, NEW t \in Threads, Se!Wakes(t)
    PROVE  SemaphoreInv'
<1>1. count' = count
  BY DEF Se!Wakes, Se!semaphore
<1>2. CASE Se!Receive(t)
  <2>1. Ch!Receive(t) /\ waiters' = waiters
    BY <1>2 DEF Se!Receive, Ch!Receive
  <2>2. Apart' /\ \A s \in Threads : pc'[s] = IF s = t THEN "awake" ELSE pc[s]
    BY <2>1, ReceiveKeeps DEF SemaphoreInv
  <2>3. Se!OnTheWay' = Se!OnTheWay
    BY <2>1, <2>2 DEF Se!OnTheWay, Ch!Receive
  <2>. QED  BY <1>1, <2>1, <2>2, <2>3 DEF SemaphoreInv
<1>3. CASE Se!CleanUp(t)
  <2>1. Ch!CleanUp(t)
    BY <1>3 DEF Se!CleanUp, Ch!CleanUp, Se!Waiting, Ch!Waiting, Se!ToSet, Ch!ToSet,
       Se!PlaceOf, Ch!PlaceOf, Se!RemoveAt, Ch!RemoveAt
  <2>2. Apart' /\ \A s \in Threads : pc'[s] = IF s = t THEN "awake" ELSE pc[s]
    BY <2>1, CleanUpKeeps DEF SemaphoreInv
  <2>3. Se!OnTheWay' = Se!OnTheWay \cup {t}
    BY <2>1, <2>2 DEF Se!OnTheWay, Ch!CleanUp
  <2>4. /\ IsFiniteSet(Se!OnTheWay') /\ Cardinality(Se!OnTheWay) \in Nat
        /\ Cardinality(Se!OnTheWay') >= Cardinality(Se!OnTheWay)
    BY <2>3, FS_AddElement, FS_CardinalityType DEF SemaphoreInv
  <2>5. waiters = <<>> => waiters' = <<>>
    BY <2>1 DEF Ch!CleanUp, Ch!Waiting, Ch!ToSet
  <2>6. Cardinality(Se!OnTheWay') \in Nat
    BY <2>4, FS_CardinalityType
  <2>. QED  BY <1>1, <2>2, <2>4, <2>5, <2>6 DEF SemaphoreInv
<1>. QED  BY <1>2, <1>3 DEF Se!Wakes

LEMMA SemaphoreStep ==
    ASSUME SemaphoreInv, [Se!Next]_Se!vars
    PROVE  SemaphoreInv'
<1>1. CASE UNCHANGED Se!vars
  BY <1>1, IdleKeeps DEF SemaphoreInv, Se!vars, queues, calls, Se!OnTheWay
<1>2. ASSUME NEW t \in Threads, NEW blocking \in BOOLEAN, NEW d \in BOOLEAN,
             Se!Acquire(t, blocking, d)
      PROVE  SemaphoreInv'
  BY <1>2, TakeExact, RefuseExact, SleepExact DEF Se!Acquire
<1>3. ASSUME NEW t \in Threads, Se!AcquireResume(t)
      PROVE  SemaphoreInv'
  <2>1. (t \in timed) \in BOOLEAN
    OBVIOUS
  <2>. QED  BY <1>3, <2>1, TakeExact, RefuseExact, SleepExact DEF Se!AcquireResume
<1>4. ASSUME NEW t \in Threads, NEW n \in Releases, Se!Release(t, n)
      PROVE  SemaphoreInv'
  BY <1>4, NotifyExact, ValuesAssumption DEF Se!Release, calls
<1>5. ASSUME NEW t \in Threads, Se!Exit(t)
      PROVE  SemaphoreInv'
  BY <1>5, NotifyExact, 1 \in Nat DEF Se!Exit, calls
<1>6. ASSUME NEW t \in Threads, Se!Wakes(t)
      PROVE  SemaphoreInv'
  BY <1>6, WakesExact
<1>7. ASSUME NEW t \in Threads, Se!Clock(t)
      PROVE  SemaphoreInv'
  <2>1. Ch!DeadlinePasses(t) \/ Ch!TimerWins(t)
    BY <1>7 DEF Se!Clock, Se!DeadlinePasses, Ch!DeadlinePasses, Se!TimerWins, Ch!TimerWins
  <2>. QED  BY <1>7, <2>1, ClockKeeps DEF SemaphoreInv, Se!Clock, Se!semaphore, Se!OnTheWay
<1>. QED  BY <1>1, <1>2, <1>3, <1>4, <1>5, <1>6, <1>7 DEF Se!Next

(* No permit is handed out twice or left over next to sleepers (acquire,   *)
(* release and __exit__ of Semaphore and BoundedSemaphore).                *)
THEOREM Permits == ThreadingSpec => []PermitsAreExact
<1>1. Create => SemaphoreSafe
  <2> SUFFICES ASSUME Create  PROVE SemaphoreInv
    BY DEF SemaphoreSafe
  <2>1. Ch!CondInit /\ count \in Nat
    BY ValuesAssumption DEF Create, Se!Init, Se!CondInit, Ch!CondInit
  <2>2. Se!OnTheWay = {}
    BY <2>1 DEF Ch!CondInit, Se!OnTheWay
  <2>. QED  BY <2>1, <2>2, StartsApart, FS_EmptySet DEF SemaphoreInv, Ch!CondInit
<1>2. SemaphoreSafe /\ [Step]_allVars => SemaphoreSafe'
  BY OneObject, SemaphoreStep DEF SemaphoreSafe
<1>3. SemaphoreSafe => PermitsAreExact
  BY SameCardinality DEF SemaphoreSafe, SemaphoreInv, PermitsAreExact, Se!PermitsAreExact
<1>. QED  BY <1>1, <1>2, <1>3, PTL DEF ThreadingSpec

-----------------------------------------------------------------------------
(* Condition *)

(* Who was picked and sleeps on has its token; who was and has left Wait   *)
(* was told so, and the others had a deadline and it is over.              *)
Told ==
    \A t \in Threads :
        /\ pc[t] = "asleep" => (t \in picked <=> t \in signalled)
        /\ pc[t] # "asleep" => (answer[t] = TRUE <=> t \in picked)
        /\ pc[t] = "awake" /\ answer[t] = FALSE => t \in due

ConditionInv ==
    /\ Apart
    /\ holder \in Threads \cup {NoThread}
    /\ wants \in SUBSET Threads /\ holder \notin wants
    /\ call \in [Threads -> {"none", "wait", "wait_for"}]
    /\ answer \in [Threads -> BOOLEAN]
    /\ picked \in SUBSET Threads /\ Told
    /\ pred \in BOOLEAN /\ announced \in BOOLEAN
    /\ \A t \in Threads : pc[t] # "idle" => holder # t /\ t \notin wants
    /\ \A t \in Threads : pred /\ announced /\ Queued(t) => call[t] # "wait_for"

ConditionSafe == use = "Condition" => ConditionInv

(* The mutex changes hands, or the predicate changes, and nobody sleeps or *)
(* wakes up.                                                               *)
LEMMA AwakeKeeps ==
    ASSUME ConditionInv, UNCHANGED Co!condVars, UNCHANGED <<call, answer, picked>>,
           holder' \in Threads \cup {NoThread}, wants' \in SUBSET Threads,
           holder' \notin wants',
           pred' \in BOOLEAN, announced' \in BOOLEAN,
           \A t \in Threads : pc[t] # "idle" => holder' # t /\ t \notin wants',
           pred' /\ announced' => pred /\ announced
    PROVE  ConditionInv'
<1>1. UNCHANGED <<queues, calls>> /\ \A s : Queued(s)' <=> Queued(s)
  BY DEF Co!condVars, queues, calls, Queued
<1>2. Apart'
  BY <1>1, IdleKeeps DEF ConditionInv
<1>3. Told'
  BY DEF ConditionInv, Told, Co!condVars
<1>. QED  BY <1>1, <1>2, <1>3 DEF ConditionInv, Co!condVars

(* A thread sleeps in wait, or in wait_for while the predicate is false.   *)
LEMMA BlockKeeps ==
    ASSUME ConditionInv, NEW t \in Threads, pc[t] # "asleep", t \notin wants,
           NEW c \in {"wait", "wait_for"}, c = "wait_for" => ~pred,
           NEW d \in BOOLEAN, Co!Block(t, c, d)
    PROVE  ConditionInv'
<1>1. Ch!Sleep(t, d) /\ UNCHANGED <<wants, answer, pred, announced>>
  BY DEF Co!Block, Co!Sleep, Ch!Sleep, Co!guarded
<1>2. /\ Apart'
      /\ \A s : Queued(s)' <=> Queued(s) \/ s = t
      /\ \A s \in Threads : pc'[s] = IF s = t THEN "asleep" ELSE pc[s]
  BY <1>1, SleepKeeps DEF ConditionInv
<1>3. /\ call' \in [Threads -> {"none", "wait", "wait_for"}]
      /\ \A s \in Threads : call'[s] = IF s = t THEN c ELSE call[s]
      /\ holder' = NoThread
  BY DEF ConditionInv, Co!Block
<1>4. \A s \in Threads : pred' /\ announced' /\ Queued(s)' => call'[s] # "wait_for"
  BY <1>1, <1>2, <1>3 DEF ConditionInv
<1>5. \A s \in Threads : pc'[s] # "idle" => s \notin wants'
  BY <1>1, <1>2 DEF ConditionInv
<1>6. picked' \in SUBSET Threads /\ Told'
  <2>1. /\ picked' = picked \ {t} /\ signalled' = signalled /\ due' = due
        /\ answer' = answer /\ t \notin signalled
    BY <1>1 DEF ConditionInv, Apart, Co!Block, Ch!Sleep
  <2>. QED  BY <1>2, <2>1 DEF ConditionInv, Told
<1>. QED  BY <1>1, <1>2, <1>3, <1>4, <1>5, <1>6, NoThreadAssumption DEF ConditionInv

LEMMA LeaveKeeps ==
    ASSUME ConditionInv, NEW t \in Threads, pc[t] = "awake", Co!Leave(t)
    PROVE  ConditionInv'
<1>1. /\ Ch!Return(t) /\ UNCHANGED queues /\ UNCHANGED <<wants, answer, pred, announced>>
      /\ holder' = t
  BY DEF Co!Leave, Co!Return, Ch!Return, Co!guarded, Co!waitVars, queues
<1>2. /\ Apart' /\ \A s : Queued(s)' <=> Queued(s)
      /\ \A s \in Threads : pc'[s] = IF s = t THEN "idle" ELSE pc[s]
  BY <1>1, ReturnKeeps DEF ConditionInv
<1>3. ~Queued(t)
  BY DEF ConditionInv, Apart
<1>4. /\ call' \in [Threads -> {"none", "wait", "wait_for"}]
      /\ \A s \in Threads : s # t => call'[s] = call[s]
  BY DEF ConditionInv, Co!Leave
<1>5. picked' \in SUBSET Threads /\ Told'
  <2>1. /\ picked' = picked /\ answer' = answer /\ signalled' = signalled
        /\ due' = due \ {t}
    BY <1>1 DEF Co!Leave, Ch!Return, queues
  <2>. QED  BY <1>2, <2>1 DEF ConditionInv, Told
<1>. QED  BY <1>1, <1>2, <1>3, <1>4, <1>5 DEF ConditionInv

LEMMA LetGoKeeps ==
    ASSUME ConditionInv, NEW t \in Threads, Co!Wakes(t)
    PROVE  ConditionInv'
<1>1. UNCHANGED <<holder, wants, call, picked, pred, announced>>
  BY DEF Co!Wakes, Co!guarded
<1>2. /\ Apart' /\ \A s : Queued(s)' => Queued(s)
      /\ pc[t] = "asleep"
      /\ (t \notin signalled) => t \in due
      /\ \A s \in Threads : pc'[s] = IF s = t THEN "awake" ELSE pc[s]
      /\ signalled' = signalled \ {t} /\ due' = due
      /\ answer' = [answer EXCEPT ![t] = (t \in signalled)]
  <2>1. CASE Co!Receive(t) /\ answer' = [answer EXCEPT ![t] = TRUE]
    <3>1. Ch!Receive(t)
      BY <2>1 DEF Co!Receive, Ch!Receive
    <3>2. t \in signalled /\ signalled' = signalled \ {t} /\ due' = due
      BY <3>1 DEF Ch!Receive
    <3>3. (t \in signalled) = TRUE
      BY <3>2
    <3>. QED  BY <2>1, <3>1, <3>2, <3>3, ReceiveKeeps DEF ConditionInv
  <2>2. CASE Co!CleanUp(t) /\ answer' = [answer EXCEPT ![t] = Co!CleanUpAnswer(t)]
    <3>1. Ch!CleanUp(t)
      BY <2>2 DEF Co!CleanUp, Ch!CleanUp, Co!Waiting, Ch!Waiting, Co!ToSet, Ch!ToSet,
         Co!PlaceOf, Ch!PlaceOf, Co!RemoveAt, Ch!RemoveAt
    <3>2. t \in due /\ signalled' = signalled \ {t} /\ due' = due
      BY <3>1 DEF Ch!CleanUp, ConditionInv, Apart
    <3>3. answer' = [answer EXCEPT ![t] = (t \in signalled)]
      BY <2>2 DEF Co!CleanUpAnswer
    <3>. QED  BY <3>1, <3>2, <3>3, CleanUpKeeps DEF ConditionInv
  <2>. QED  BY <2>1, <2>2 DEF Co!Wakes
<1>3. answer' \in [Threads -> BOOLEAN]
      /\ \A s \in Threads : answer'[s] = IF s = t THEN (t \in signalled) ELSE answer[s]
  BY <1>2 DEF ConditionInv
<1>4. Told'
  <2>1. t \in picked <=> t \in signalled
    BY <1>2 DEF ConditionInv, Told
  <2>2. ASSUME NEW s \in Threads, s # t
        PROVE  /\ pc'[s] = pc[s] /\ answer'[s] = answer[s]
               /\ s \in signalled' <=> s \in signalled
    BY <1>2, <1>3, <2>2
  <2>3. pc'[t] = "awake" /\ (answer'[t] = TRUE <=> t \in signalled)
    BY <1>2, <1>3
  <2>. QED  BY <1>1, <1>2, <2>1, <2>2, <2>3 DEF ConditionInv, Told
<1>. QED  BY <1>1, <1>2, <1>3, <1>4 DEF ConditionInv

LEMMA RelockKeeps ==
    ASSUME ConditionInv, NEW t \in Threads, Co!Relock(t)
    PROVE  ConditionInv'
<1>1. pc[t] = "awake" /\ t \notin wants
  BY DEF ConditionInv, Co!Relock
<1>2. CASE Co!Leave(t)
  BY <1>1, <1>2, LeaveKeeps
<1>3. CASE ~pred /\ Co!Block(t, "wait_for", t \in timed)
  <2>1. (t \in timed) \in BOOLEAN
    OBVIOUS
  <2>. QED  BY <1>1, <1>3, <2>1, BlockKeeps
<1>. QED  BY <1>2, <1>3 DEF Co!Relock

(* notify and notify_all only take threads off the queue; notify_all, by   *)
(* which a change is announced, takes them all.                            *)
LEMMA TellKeeps ==
    ASSUME ConditionInv, NEW n \in Int, Co!Notify(n), UNCHANGED calls,
           UNCHANGED <<holder, wants, call, answer, pred>>, announced' \in BOOLEAN,
           announced' = announced \/ n = 0, picked' = picked \cup Co!Popped(n)
    PROVE  ConditionInv'
<1>1. Ch!Notify(n)
  BY DEF Co!Notify, Ch!Notify, Co!NotifyCount, Ch!NotifyCount,
     Co!Popped, Ch!Popped
<1>2. Apart' /\ \A s : Queued(s)' => Queued(s)
  BY <1>1, NotifyKeeps, NotifySplits DEF ConditionInv
<1>3. n = 0 => \A s : ~Queued(s)'
  <2>1. n = 0 => waiters' = <<>>
    BY <1>1, NotifySplits DEF ConditionInv
  <2>. QED  BY <2>1 DEF Queued, Has
<1>4. picked' \in SUBSET Threads /\ Told'
  <2>1. /\ signalled' = signalled \cup Ch!Popped(n) /\ signalled' \in SUBSET Threads
        /\ \A s \in Ch!Popped(n) : Queued(s)
    BY <1>1, NotifySplits DEF ConditionInv
  <2>2. Co!Popped(n) = Ch!Popped(n)
    BY DEF Co!Popped, Ch!Popped, Co!NotifyCount, Ch!NotifyCount
  <2>3. \A s \in Threads : s \in Ch!Popped(n) => pc[s] = "asleep"
    BY <2>1 DEF ConditionInv, Apart
  <2>. QED  BY <2>1, <2>2, <2>3 DEF ConditionInv, Told, calls
<1>. QED  BY <1>2, <1>3, <1>4 DEF ConditionInv, calls

LEMMA ConditionStep ==
    ASSUME ConditionInv, [Co!Next]_Co!vars
    PROVE  ConditionInv'
<1>. USE DEF Co!guarded, Co!calls
<1>1. CASE UNCHANGED Co!vars
  BY <1>1, AwakeKeeps DEF ConditionInv, Co!vars, Co!condVars
<1>2. ASSUME NEW t \in Threads, Co!Acquire(t)  PROVE ConditionInv'
  <2>1. \A s \in Threads : pc[s] # "idle" => s \notin wants'
    BY <1>2 DEF ConditionInv, Co!Acquire
  <2>. QED  BY <1>2, <2>1, AwakeKeeps DEF ConditionInv, Co!Acquire
<1>3. ASSUME NEW t \in Threads, Co!Lock(t)  PROVE ConditionInv'
  <2>1. pc[t] = "idle"
    BY <1>3 DEF ConditionInv, Co!Lock
  <2>. QED  BY <1>3, <2>1, AwakeKeeps DEF ConditionInv, Co!Lock
<1>4. ASSUME NEW t \in Threads, Co!Release(t)  PROVE ConditionInv'
  BY <1>4, AwakeKeeps, NoThreadAssumption DEF ConditionInv, Co!Release
<1>5. ASSUME NEW t \in Threads, NEW d \in BOOLEAN,
             Co!WaitCall(t, d) \/ Co!WaitForCall(t, d)
      PROVE  ConditionInv'
  <2>1. pc[t] = "idle" /\ t \notin wants
    BY <1>5, NoThreadAssumption DEF ConditionInv, Apart, Co!WaitCall, Co!WaitForCall
  <2>. QED  BY <1>5, <2>1, BlockKeeps DEF Co!WaitCall, Co!WaitForCall
<1>6. ASSUME NEW t \in Threads, Co!Wakes(t)  PROVE ConditionInv'
  BY <1>6, LetGoKeeps
<1>7. ASSUME NEW t \in Threads, Co!Relock(t)  PROVE ConditionInv'
  BY <1>7, RelockKeeps
<1>8. ASSUME NEW t \in Threads, NEW n \in Counts, Co!NotifyCall(t, n)
      PROVE  ConditionInv'
  <2>1. n \in Int
    BY ValuesAssumption
  <2>. QED  BY <1>8, <2>1, TellKeeps DEF ConditionInv, Co!NotifyCall, calls
<1>9. ASSUME NEW t \in Threads, Co!NotifyAllCall(t)  PROVE ConditionInv'
  BY <1>9, TellKeeps, 0 \in Int DEF ConditionInv, Co!NotifyAllCall, Co!Broadcast, calls
<1>10. ASSUME NEW t \in Threads, Co!Change(t)  PROVE ConditionInv'
  BY <1>10, AwakeKeeps DEF ConditionInv, Co!Change
<1>11. ASSUME NEW t \in Threads, Co!Clock(t)  PROVE ConditionInv'
  <2>1. Ch!DeadlinePasses(t) \/ Ch!TimerWins(t)
    BY <1>11 DEF Co!Clock, Co!DeadlinePasses, Ch!DeadlinePasses, Co!TimerWins, Ch!TimerWins
  <2>2. Apart' /\ pc' = pc /\ \A s : Queued(s)' <=> Queued(s)
    BY <2>1, ClockKeeps DEF ConditionInv, Queued
  <2>3. signalled' = signalled /\ due \subseteq due' /\ UNCHANGED <<answer, picked>>
    BY <1>11, <2>1 DEF Ch!DeadlinePasses, Ch!TimerWins, Co!Clock
  <2>4. Told'
    BY <2>2, <2>3 DEF ConditionInv, Told
  <2>. QED  BY <1>11, <2>2, <2>4 DEF ConditionInv, Co!Clock
<1>. QED  BY <1>1, <1>2, <1>3, <1>4, <1>5, <1>6, <1>7, <1>8, <1>9, <1>10, <1>11 DEF Co!Next

LEMMA ConditionInvariance == ThreadingSpec => []ConditionSafe
<1>1. Create => ConditionSafe
  <2> SUFFICES ASSUME Create  PROVE ConditionInv
    BY DEF ConditionSafe
  <2>1. Ch!CondInit
    BY DEF Create, Co!Init, Co!CondInit, Ch!CondInit
  <2>2. picked \in SUBSET Threads /\ Told
    BY <2>1 DEF Create, Co!Init, Ch!CondInit, Told
  <2>. QED  BY <2>1, <2>2, StartsApart, NoThreadAssumption
       DEF Create, Co!Init, ConditionInv, Ch!CondInit
<1>2. ConditionSafe /\ [Step]_allVars => ConditionSafe'
  BY OneObject, ConditionStep DEF ConditionSafe
<1>. QED  BY <1>1, <1>2, PTL DEF ThreadingSpec

(* No change that was announced by notify_all is missed by a wait_for that *)
(* sleeps (wait_for, notify and notify_all of Condition).                  *)
THEOREM ChangesAreSeen == ThreadingSpec => []NoMissedChange
<1>1. ConditionSafe => NoMissedChange
  <2> SUFFICES ASSUME ConditionInv, pred, announced, NEW t \in Co!ToSet(waiters)
               PROVE  call[t] # "wait_for"
    BY DEF ConditionSafe, NoMissedChange, Co!NoMissedChange
  <2>1. Queued(t)
    BY DEF Co!ToSet, Queued, Has
  <2>2. t \in Threads
    BY <2>1, LenProperties, ElementOfSeq DEF ConditionInv, Apart, Queued, Has
  <2>. QED  BY <2>1, <2>2 DEF ConditionInv
<1>. QED  BY <1>1, ConditionInvariance, PTL

(* wait() returns True to those a notify picked while they waited, to      *)
(* nobody else, and False only after the deadline, although the token races*)
(* with the timer and the thread has to wait for the mutex (chCond.Wait,   *)
(* chCond.Notify and wait of Condition).                                   *)
THEOREM AnswersAreTrue == ThreadingSpec => []WaitTellsTruth
<1>1. ConditionSafe => WaitTellsTruth
  BY DEF ConditionSafe, WaitTellsTruth, Co!WaitTellsTruth, ConditionInv, Told
<1>. QED  BY <1>1, ConditionInvariance, PTL

-----------------------------------------------------------------------------
(* Barrier *)

(* Who has arrived in the current generation, while the barrier is whole.  *)
Counted ==
    ~broken => /\ waiting = Cardinality(Ba!Present) /\ waiting < parties
               /\ \A t \in Ba!Present : myIndex[t] < waiting

Indexed ==
    \A s, t \in Ba!InCall :
        /\ myIndex[t] < parties - 1
        /\ s # t /\ myGen[s] = myGen[t] => myIndex[s] # myIndex[t]

(* Who called wait in generation g, of the arrivals A.                     *)
Came(A, g) == {t \in Threads : <<g, t>> \in A}

(* They are those that wait in it, as long as it is the current one and    *)
(* whole; nobody is early for a later one, and each that is past had all   *)
(* its parties or was reset.                                               *)
Gathered ==
    /\ ~broken => Came(arrived, generation) = Ba!Present
    /\ \A g \in Nat : g > generation => Came(arrived, g) = {}
    /\ \A g \in Nat :
          g < generation => Cardinality(Came(arrived, g)) = parties \/ g \in resets

BarrierInv ==
    /\ Apart
    /\ parties \in Nat \ {0} /\ waiting \in Nat /\ generation \in Nat
    /\ broken \in BOOLEAN
    /\ myGen \in [Threads -> Nat] /\ myIndex \in [Threads -> Nat]
    /\ arrived \in SUBSET (Nat \X Threads) /\ resets \in SUBSET Nat
    /\ IsFiniteSet(Ba!Present)
    /\ \A t \in Ba!InCall : myGen[t] <= generation
    /\ \A t \in Threads : Queued(t) => ~broken /\ myGen[t] = generation
    /\ Counted /\ Indexed /\ Gathered

BarrierSafe == use = "Barrier" => BarrierInv

(* Nobody arrives, and whoever leaves was not counted any more or leaves a *)
(* broken barrier.                                                         *)
LEMMA NobodyArrives ==
    ASSUME BarrierInv, Apart', UNCHANGED <<parties, waiting, generation>>,
           UNCHANGED <<myGen, myIndex, arrived, resets>>,
           broken' \in BOOLEAN, broken => broken',
           Ba!InCall' \subseteq Ba!InCall,
           ~broken' => Ba!Present' = Ba!Present,
           \A t \in Threads : Queued(t)' => ~broken' /\ myGen[t] = generation
    PROVE  BarrierInv'
<1>1. Ba!Present' \subseteq Ba!Present
  BY DEF Ba!Present
<1>2. IsFiniteSet(Ba!Present')
  BY <1>1, FS_Subset DEF BarrierInv
<1>3. Counted' /\ Indexed'
  BY DEF BarrierInv, Counted, Indexed
<1>4. Gathered'
  BY DEF BarrierInv, Gathered
<1>. QED  BY <1>2, <1>3, <1>4 DEF BarrierInv

LEMMA LeaveBarrierKeeps ==
    ASSUME BarrierInv, NEW t \in Threads, pc[t] = "awake",
           broken \/ generation # myGen[t], Ba!Leave(t)
    PROVE  BarrierInv'
<1>1. /\ Ch!Return(t) /\ UNCHANGED queues
      /\ UNCHANGED <<parties, waiting, broken, generation, myGen, myIndex, arrived, resets>>
  BY DEF Ba!Leave, Ba!Return, Ch!Return, Ba!waitVars, Ba!barrier, Ba!mine, queues
<1>2. /\ Apart' /\ \A s : Queued(s)' <=> Queued(s)
      /\ \A s \in Threads : pc'[s] = IF s = t THEN "idle" ELSE pc[s]
  BY <1>1, ReturnKeeps DEF BarrierInv
<1>3. Ba!InCall' = Ba!InCall \ {t}
  BY <1>2 DEF Ba!InCall
<1>4. ~broken' => Ba!Present' = Ba!Present
  BY <1>1, <1>3 DEF Ba!Present
<1>. QED  BY <1>1, <1>2, <1>3, <1>4, NobodyArrives DEF BarrierInv

(* A deadline breaks the barrier, by a thread that had slept or by one that*)
(* has not.                                                                *)
LEMMA BreakKeeps ==
    ASSUME BarrierInv, NEW t \in Threads, pc[t] = "awake", Ba!Break(t)
    PROVE  BarrierInv'
<1>1. /\ Ch!Notify(0) /\ Ch!Return(t) /\ broken' = TRUE
      /\ UNCHANGED <<parties, waiting, generation, myGen, myIndex, arrived, resets>>
  BY DEF Ba!Break, Ba!Broadcast, Ba!Notify, Ch!Notify, Ba!NotifyCount, Ch!NotifyCount,
     Ba!Popped, Ch!Popped,
     Ba!Return, Ch!Return, Ba!mine
<1>2. Apart'
  BY <1>1, NotifyReturnKeeps, 0 \in Int DEF BarrierInv
<1>3. \A s : ~Queued(s)'
  <2>1. waiters' = <<>>
    BY <1>1, NotifySplits, 0 \in Int DEF BarrierInv
  <2>. QED  BY <2>1 DEF Queued, Has
<1>4. Ba!InCall' \subseteq Ba!InCall
  BY <1>1, ReturnsOut DEF BarrierInv, Ba!InCall
<1>. QED  BY <1>1, <1>2, <1>3, <1>4, NobodyArrives DEF BarrierInv

(* The barrier breaks for everyone in it, by abort.                        *)
LEMMA AbortKeeps ==
    ASSUME BarrierInv, NEW t \in Threads, Ba!Abort(t)
    PROVE  BarrierInv'
<1>1. /\ Ch!Notify(0) /\ UNCHANGED calls /\ broken' = TRUE
      /\ UNCHANGED <<parties, waiting, generation, myGen, myIndex, arrived, resets>>
  BY DEF Ba!Abort, Ba!Broadcast, Ba!Notify, Ch!Notify, Ba!NotifyCount, Ch!NotifyCount,
     Ba!Popped, Ch!Popped,
     Ba!mine, Ba!history, calls
<1>2. Apart'
  BY <1>1, NotifyKeeps, 0 \in Int DEF BarrierInv
<1>3. \A s : ~Queued(s)'
  <2>1. waiters' = <<>>
    BY <1>1, NotifySplits, 0 \in Int DEF BarrierInv
  <2>. QED  BY <2>1 DEF Queued, Has
<1>4. Ba!InCall' = Ba!InCall
  BY <1>1 DEF Ba!InCall, calls
<1>. QED  BY <1>1, <1>2, <1>3, <1>4, NobodyArrives DEF BarrierInv

(* A new generation begins, with nobody in it: the last party trips the    *)
(* barrier, or it is reset.                                                *)
LEMMA NextGenerationKeeps ==
    ASSUME BarrierInv, Ba!Broadcast, UNCHANGED <<calls, parties, myGen, myIndex>>,
           generation' = generation + 1, waiting' = 0, broken' \in BOOLEAN,
           arrived' \in SUBSET (Nat \X Threads), resets' \in SUBSET Nat,
           resets \subseteq resets',
           \A g \in Nat : g # generation => Came(arrived', g) = Came(arrived, g),
           Cardinality(Came(arrived', generation)) = parties \/ generation \in resets'
    PROVE  BarrierInv'
<1>1. Ch!Notify(0)
  BY DEF Ba!Broadcast, Ba!Notify, Ch!Notify, Ba!NotifyCount, Ch!NotifyCount,
     Ba!Popped, Ch!Popped
<1>2. Apart'
  BY <1>1, NotifyKeeps, 0 \in Int DEF BarrierInv
<1>3. \A s : ~Queued(s)'
  <2>1. waiters' = <<>>
    BY <1>1, NotifySplits, 0 \in Int DEF BarrierInv
  <2>. QED  BY <2>1 DEF Queued, Has
<1>4. Ba!InCall' = Ba!InCall /\ Ba!InCall \subseteq Threads
  BY DEF Ba!InCall, calls
<1>5. \A t \in Ba!InCall : myGen[t] \in Nat /\ myGen[t] <= generation
  BY <1>4 DEF BarrierInv
<1>6. Ba!Present' = {}
  BY <1>4, <1>5 DEF Ba!Present, BarrierInv
<1>7. Counted'
  BY <1>6, FS_EmptySet DEF Counted, BarrierInv
<1>8. Indexed'
  BY <1>4 DEF Indexed, BarrierInv
<1>9. Gathered'
  <2>1. generation \in Nat /\ generation' \in Nat /\ generation' > generation
    BY DEF BarrierInv
  <2>2. \A g \in Nat : g > generation => Came(arrived', g) = {}
    BY <2>1 DEF BarrierInv, Gathered
  <2>3. \A g \in Nat : g > generation' => g > generation
    BY <2>1
  <2>4. Came(arrived', generation') = Ba!Present'
    BY <1>6, <2>1, <2>2
  <2>5. ASSUME NEW g \in Nat, g < generation'
        PROVE  Cardinality(Came(arrived', g)) = parties' \/ g \in resets'
    <3>1. CASE g = generation
      BY <3>1
    <3>2. CASE g # generation
      <4>1. g < generation
        BY <2>1, <2>5, <3>2
      <4>. QED  BY <3>2, <4>1 DEF BarrierInv, Gathered
    <3>. QED  BY <3>1, <3>2
  <2>. QED  BY <2>2, <2>3, <2>4, <2>5 DEF Gathered
<1>10. \A t \in Ba!InCall' : myGen'[t] <= generation'
  BY <1>4, <1>5 DEF BarrierInv
<1>. QED  BY <1>2, <1>3, <1>6, <1>7, <1>8, <1>9, <1>10, FS_EmptySet DEF BarrierInv

(* An early party is counted, gets the next index and sleeps.              *)
LEMMA ArriveKeeps ==
    ASSUME BarrierInv, NEW t \in Threads, pc[t] = "idle", ~broken, waiting + 1 # parties,
           NEW d \in BOOLEAN, Ba!Sleep(t, d), waiting' = waiting + 1,
           myGen' = [myGen EXCEPT ![t] = generation],
           myIndex' = [myIndex EXCEPT ![t] = waiting],
           arrived' = arrived \cup {<<generation, t>>},
           UNCHANGED <<parties, broken, generation, resets>>
    PROVE  BarrierInv'
<1>1. Ch!Sleep(t, d)
  BY DEF Ba!Sleep, Ch!Sleep
<1>2. /\ Apart' /\ \A s : Queued(s)' <=> Queued(s) \/ s = t
      /\ \A s \in Threads : pc'[s] = IF s = t THEN "asleep" ELSE pc[s]
  BY <1>1, SleepKeeps DEF BarrierInv
<1>3. t \notin Ba!InCall /\ Ba!InCall' = Ba!InCall \cup {t} /\ Ba!InCall \subseteq Threads
  BY <1>2 DEF Ba!InCall
<1>4. /\ \A s \in Threads : myGen'[s] = IF s = t THEN generation ELSE myGen[s]
      /\ \A s \in Threads : myIndex'[s] = IF s = t THEN waiting ELSE myIndex[s]
      /\ myGen' \in [Threads -> Nat] /\ myIndex' \in [Threads -> Nat]
  BY DEF BarrierInv
<1>5. t \notin Ba!Present /\ Ba!Present' = Ba!Present \cup {t}
  BY <1>3, <1>4 DEF Ba!Present
<1>6. /\ IsFiniteSet(Ba!Present')
      /\ Cardinality(Ba!Present') = Cardinality(Ba!Present) + 1
  BY <1>5, FS_AddElement DEF BarrierInv
<1>7. waiting \in Nat /\ parties \in Nat /\ waiting < parties /\ waiting < parties - 1
  BY DEF BarrierInv, Counted
<1>8. \A s \in Ba!Present : s \in Threads /\ s # t /\ myIndex[s] \in Nat /\ myIndex[s] < waiting
  BY <1>3, <1>5 DEF BarrierInv, Counted, Ba!Present
<1>9. Counted'
  <2>1. \A s \in Ba!Present' : myIndex'[s] < waiting'
    BY <1>4, <1>5, <1>7, <1>8
  <2>. QED  BY <1>6, <1>7, <2>1 DEF BarrierInv, Counted
<1>10. Indexed'
  <2>1. ASSUME NEW s \in Ba!InCall, myGen[s] = generation  PROVE myIndex[s] # waiting
    BY <1>7, <1>8, <2>1 DEF Ba!Present
  <2>2. \A s \in Ba!InCall' : myIndex'[s] < parties' - 1
    BY <1>3, <1>4, <1>7 DEF BarrierInv, Indexed
  <2>3. ASSUME NEW r \in Ba!InCall', NEW s \in Ba!InCall', r # s, myGen'[r] = myGen'[s]
        PROVE  myIndex'[r] # myIndex'[s]
    <3>1. CASE r \in Ba!InCall /\ s \in Ba!InCall
      BY <1>3, <1>4, <2>3, <3>1 DEF BarrierInv, Indexed
    <3>2. CASE r = t
      <4>1. s \in Ba!InCall /\ myGen[s] = generation
        BY <1>3, <1>4, <2>3, <3>2
      <4>. QED  BY <1>3, <1>4, <2>1, <3>2, <4>1
    <3>3. CASE s = t
      <4>1. r \in Ba!InCall /\ myGen[r] = generation
        BY <1>3, <1>4, <2>3, <3>3
      <4>. QED  BY <1>3, <1>4, <2>1, <3>3, <4>1
    <3>. QED  BY <1>3, <2>3, <3>1, <3>2, <3>3
  <2>. QED  BY <2>2, <2>3 DEF Indexed
<1>11. \A s \in Ba!InCall' : myGen'[s] <= generation'
  BY <1>3, <1>4 DEF BarrierInv
<1>12. \A s \in Threads : Queued(s)' => ~broken' /\ myGen'[s] = generation'
  BY <1>2, <1>4 DEF BarrierInv
<1>13. arrived' \in SUBSET (Nat \X Threads) /\ Gathered'
  <2>0. arrived \in SUBSET (Nat \X Threads) /\ generation \in Nat
    BY DEF BarrierInv
  <2>1. /\ arrived' \in SUBSET (Nat \X Threads)
        /\ Came(arrived', generation) = Came(arrived, generation) \cup {t}
        /\ \A h : h # generation => Came(arrived', h) = Came(arrived, h)
    BY <2>0 DEF Came
  <2>2. \A g \in Nat : (g < generation \/ g > generation) => g # generation
    BY DEF BarrierInv
  <2>. QED  BY <1>5, <2>1, <2>2 DEF BarrierInv, Gathered
<1>. QED  BY <1>2, <1>4, <1>6, <1>7, <1>9, <1>10, <1>11, <1>12, <1>13 DEF BarrierInv

(* An early party whose deadline passes at once breaks the barrier.        *)
LEMMA ArriveLateKeeps ==
    ASSUME BarrierInv, NEW t \in Threads, pc[t] = "idle",
           Ba!Broadcast, UNCHANGED calls, waiting' = waiting + 1, broken' = TRUE,
           myGen' = [myGen EXCEPT ![t] = generation],
           myIndex' = [myIndex EXCEPT ![t] = waiting],
           arrived' = arrived \cup {<<generation, t>>},
           UNCHANGED <<parties, generation, resets>>
    PROVE  BarrierInv'
<1>1. Ch!Notify(0)
  BY DEF Ba!Broadcast, Ba!Notify, Ch!Notify, Ba!NotifyCount, Ch!NotifyCount,
     Ba!Popped, Ch!Popped
<1>2. Apart'
  BY <1>1, NotifyKeeps, 0 \in Int DEF BarrierInv
<1>3. \A s : ~Queued(s)'
  <2>1. waiters' = <<>>
    BY <1>1, NotifySplits, 0 \in Int DEF BarrierInv
  <2>. QED  BY <2>1 DEF Queued, Has
<1>4. Ba!InCall' = Ba!InCall /\ Ba!InCall \subseteq Threads /\ t \notin Ba!InCall
  BY DEF Ba!InCall, calls
<1>5. /\ \A s \in Ba!InCall : myGen'[s] = myGen[s] /\ myIndex'[s] = myIndex[s]
      /\ myGen' \in [Threads -> Nat] /\ myIndex' \in [Threads -> Nat]
  BY <1>4 DEF BarrierInv
<1>6. Ba!Present' = Ba!Present
  BY <1>4, <1>5 DEF Ba!Present
<1>7. Indexed'
  BY <1>4, <1>5 DEF BarrierInv, Indexed
<1>8. Counted' /\ \A s \in Ba!InCall' : myGen'[s] <= generation'
  BY <1>4, <1>5 DEF BarrierInv, Counted
<1>9. arrived' \in SUBSET (Nat \X Threads) /\ Gathered'
  <2>0. arrived \in SUBSET (Nat \X Threads) /\ generation \in Nat
    BY DEF BarrierInv
  <2>1. /\ arrived' \in SUBSET (Nat \X Threads)
        /\ \A h : h # generation => Came(arrived', h) = Came(arrived, h)
    BY <2>0 DEF Came
  <2>2. \A g \in Nat : (g < generation \/ g > generation) => g # generation
    BY DEF BarrierInv
  <2>. QED  BY <2>1, <2>2 DEF BarrierInv, Gathered
<1>. QED  BY <1>2, <1>3, <1>5, <1>6, <1>7, <1>8, <1>9 DEF BarrierInv

LEMMA WaitCallKeeps ==
    ASSUME BarrierInv, NEW t \in Threads, NEW d \in BOOLEAN, Ba!WaitCall(t, d)
    PROVE  BarrierInv'
<1>1. CASE waiting + 1 = parties /\ Ba!Trip(t)
  <2>1. /\ arrived' \in SUBSET (Nat \X Threads)
        /\ Came(arrived', generation) = Ba!Present \cup {t}
        /\ \A h : h # generation => Came(arrived', h) = Came(arrived, h)
    <3>1. /\ arrived \in SUBSET (Nat \X Threads) /\ generation \in Nat
          /\ ~broken /\ arrived' = arrived \cup {<<generation, t>>}
      BY DEF BarrierInv, Ba!WaitCall
    <3>2. Came(arrived, generation) = Ba!Present
      BY <3>1 DEF BarrierInv, Gathered
    <3>3. /\ arrived' \in SUBSET (Nat \X Threads)
          /\ Came(arrived', generation) = Came(arrived, generation) \cup {t}
          /\ \A h : h # generation => Came(arrived', h) = Came(arrived, h)
      BY <3>1 DEF Came
    <3>. QED  BY <3>2, <3>3
  <2>2. t \notin Ba!Present /\ IsFiniteSet(Ba!Present) /\ Cardinality(Ba!Present) = waiting
    BY DEF BarrierInv, Counted, Ba!WaitCall, Ba!Present, Ba!InCall
  <2>3. Cardinality(Ba!Present \cup {t}) = parties
    BY <1>1, <2>2, FS_AddElement
  <2>. QED  BY <1>1, <2>1, <2>3, NextGenerationKeeps
       DEF Ba!WaitCall, Ba!Trip, Ba!mine, calls, BarrierInv
<1>2. CASE waiting + 1 # parties /\ Ba!Arrive(t, d)
  BY <1>2, ArriveKeeps, ArriveLateKeeps DEF Ba!Arrive, Ba!WaitCall, calls
<1>. QED  BY <1>1, <1>2 DEF Ba!WaitCall

LEMMA ResumeKeeps ==
    ASSUME BarrierInv, NEW t \in Threads, Ba!Resume(t)
    PROVE  BarrierInv'
<1>1. CASE (broken \/ generation # myGen[t]) /\ Ba!Leave(t)
  BY <1>1, LeaveBarrierKeeps DEF Ba!Resume
<1>2. CASE Ba!Break(t)
  BY <1>2, BreakKeeps DEF Ba!Resume
<1>3. CASE /\ ~broken /\ generation = myGen[t]
           /\ Ba!Sleep(t, t \in timed) /\ UNCHANGED <<Ba!barrier, Ba!mine, Ba!history>>
  <2>1. Ch!Sleep(t, t \in timed) /\ (t \in timed) \in BOOLEAN /\ pc[t] = "awake"
    BY <1>3 DEF Ba!Sleep, Ch!Sleep, Ba!Resume
  <2>2. /\ Apart' /\ \A s : Queued(s)' <=> Queued(s) \/ s = t
        /\ \A s \in Threads : pc'[s] = IF s = t THEN "asleep" ELSE pc[s]
    BY <2>1, SleepKeeps DEF BarrierInv
  <2>3. Ba!InCall' = Ba!InCall
    BY <2>1, <2>2 DEF Ba!InCall
  <2>4. UNCHANGED <<parties, waiting, broken, generation, myGen, myIndex, arrived, resets>>
    BY <1>3 DEF Ba!barrier, Ba!mine, Ba!history
  <2>5. Ba!Present' = Ba!Present
    BY <2>3, <2>4 DEF Ba!Present
  <2>. QED  BY <1>3, <2>2, <2>3, <2>4, <2>5, NobodyArrives DEF BarrierInv
<1>. QED  BY <1>1, <1>2, <1>3 DEF Ba!Resume

LEMMA PassiveKeeps ==
    ASSUME BarrierInv, NEW t \in Threads, Ba!Wakes(t) \/ Ba!Clock(t)
    PROVE  BarrierInv'
<1>1. UNCHANGED <<parties, waiting, broken, generation, myGen, myIndex, arrived, resets>>
  BY DEF Ba!Wakes, Ba!Clock, Ba!barrier, Ba!mine, Ba!history
<1>2. /\ Apart' /\ \A s : Queued(s)' => Queued(s)
      /\ \A s \in Threads : pc'[s] # "idle" <=> pc[s] # "idle"
  <2>1. CASE Ba!Receive(t)
    <3>1. Ch!Receive(t)
      BY <2>1 DEF Ba!Receive, Ch!Receive
    <3>. QED  BY <3>1, ReceiveKeeps DEF BarrierInv
  <2>2. CASE Ba!CleanUp(t)
    <3>1. Ch!CleanUp(t)
      BY <2>2 DEF Ba!CleanUp, Ch!CleanUp, Ba!Waiting, Ch!Waiting, Ba!ToSet, Ch!ToSet,
         Ba!PlaceOf, Ch!PlaceOf, Ba!RemoveAt, Ch!RemoveAt
    <3>. QED  BY <3>1, CleanUpKeeps DEF BarrierInv
  <2>3. CASE Ba!DeadlinePasses(t) \/ Ba!TimerWins(t)
    <3>1. Ch!DeadlinePasses(t) \/ Ch!TimerWins(t)
      BY <2>3 DEF Ba!DeadlinePasses, Ch!DeadlinePasses, Ba!TimerWins, Ch!TimerWins
    <3>. QED  BY <3>1, ClockKeeps DEF BarrierInv, Queued
  <2>. QED  BY <2>1, <2>2, <2>3 DEF Ba!Wakes, Ba!Clock
<1>3. Ba!InCall' = Ba!InCall /\ Ba!Present' = Ba!Present
  BY <1>1, <1>2 DEF Ba!InCall, Ba!Present
<1>. QED  BY <1>1, <1>2, <1>3, NobodyArrives DEF BarrierInv

LEMMA BarrierStep ==
    ASSUME BarrierInv, [Ba!Next]_Ba!vars
    PROVE  BarrierInv'
<1>1. CASE UNCHANGED Ba!vars
  <2>1. Apart'
    BY <1>1, IdleKeeps DEF BarrierInv, Ba!vars, queues, calls
  <2>. QED  BY <1>1, <2>1, NobodyArrives DEF BarrierInv, Ba!vars, Ba!InCall, Ba!Present, Queued
<1>2. ASSUME NEW t \in Threads, NEW d \in BOOLEAN, Ba!WaitCall(t, d)  PROVE BarrierInv'
  BY <1>2, WaitCallKeeps
<1>3. ASSUME NEW t \in Threads, Ba!Resume(t)  PROVE BarrierInv'
  BY <1>3, ResumeKeeps
<1>4. ASSUME NEW t \in Threads, Ba!Reset(t)  PROVE BarrierInv'
  <2>1. generation \in Nat /\ resets' = resets \cup {generation} /\ arrived' = arrived
    BY <1>4 DEF Ba!Reset, BarrierInv
  <2>. QED  BY <1>4, <2>1, NextGenerationKeeps DEF Ba!Reset, Ba!mine, calls, BarrierInv
<1>5. ASSUME NEW t \in Threads, Ba!Abort(t)  PROVE BarrierInv'
  BY <1>5, AbortKeeps
<1>6. ASSUME NEW t \in Threads, Ba!Wakes(t) \/ Ba!Clock(t)  PROVE BarrierInv'
  BY <1>6, PassiveKeeps
<1>. QED  BY <1>1, <1>2, <1>3, <1>4, <1>5, <1>6 DEF Ba!Next

LEMMA BarrierInvariance == ThreadingSpec => []BarrierSafe
<1>1. Create => BarrierSafe
  <2> SUFFICES ASSUME Create  PROVE BarrierInv
    BY DEF BarrierSafe
  <2>1. Ch!CondInit
    BY DEF Create, Ba!Init, Ba!CondInit, Ch!CondInit
  <2>2. Ba!InCall = {} /\ Ba!Present = {}
    BY <2>1 DEF Ch!CondInit, Ba!InCall, Ba!Present
  <2>3. Counted /\ Indexed /\ parties \in Nat \ {0}
    BY <2>2, FS_EmptySet, ValuesAssumption DEF Create, Ba!Init, Counted, Indexed
  <2>4. Gathered
    BY <2>2 DEF Create, Ba!Init, Gathered, Came
  <2>. QED  BY <2>1, <2>2, <2>3, <2>4, StartsApart, FS_EmptySet DEF Create, Ba!Init, BarrierInv
<1>2. BarrierSafe /\ [Step]_allVars => BarrierSafe'
  BY OneObject, BarrierStep DEF BarrierSafe
<1>. QED  BY <1>1, <1>2, PTL DEF ThreadingSpec

LEMMA SameCount == \A S : Ba!Cardinality(S) = Cardinality(S)
  BY DEF Ba!Cardinality, Cardinality, Ba!IsFiniteSet, IsFiniteSet

(* Nobody sleeps through the end of its generation, n_waiting is the number*)
(* of parties that have arrived in it, and their indices differ (wait,     *)
(* reset and abort of Barrier).                                            *)
THEOREM ArrivalsAreExact == ThreadingSpec => []BarrierIsExact
<1>1. BarrierSafe => BarrierIsExact
  <2> SUFFICES ASSUME BarrierInv
               PROVE  Ba!QueuedForThisGeneration /\ Ba!CountIsExact
    BY DEF BarrierSafe, BarrierIsExact
  <2>1. ASSUME NEW t \in Ba!ToSet(waiters)  PROVE t \in Threads /\ Queued(t)
    BY LenProperties, ElementOfSeq DEF BarrierInv, Apart, Ba!ToSet, Queued, Has
  <2>3. Ba!CountIsExact
    BY SameCount DEF BarrierInv, Counted, Indexed, Ba!CountIsExact
  <2>. QED  BY <2>1, <2>3 DEF BarrierInv, Ba!QueuedForThisGeneration
<1>. QED  BY <1>1, BarrierInvariance, PTL

LEMMA OverIs ==
    ASSUME NEW g
    PROVE  /\ Ba!Met(g) <=> Cardinality(Came(arrived, g)) = parties
           /\ Ba!Over(g) <=> Cardinality(Came(arrived, g)) = parties \/ g \in resets
  BY SameCount DEF Ba!Met, Ba!Over, Ba!PartiesOf, Came

(* wait() returns to a party only when exactly as many threads as there are*)
(* parties called it in that generation, or after a reset; no deadline     *)
(* breaks the barrier for a generation that has met, and none ends in      *)
(* another way (the count of arrivals and the order of the checks after    *)
(* chCond.Wait in wait of Barrier, and reset).                             *)
THEOREM NobodyPassesAlone == ThreadingSpec => PassMeansMet
<1>1. BarrierSafe /\ BarrierSafe' /\ [Step]_allVars
      => [use = "Barrier" => Ba!PassMeansMet]_allVars
  <2> SUFFICES ASSUME BarrierInv, BarrierInv', [Ba!Next]_Ba!vars  PROVE Ba!PassMeansMet
    BY OneObject DEF BarrierSafe
  <2>1. (\A g \in 0..generation - 1 : Ba!Over(g))'
    <3>1. generation' \in Nat
      BY DEF BarrierInv
    <3>2. \A n \in Nat : \A g \in 0..n - 1 : g \in Nat /\ g < n
      OBVIOUS
    <3>3. \A g \in 0..generation' - 1 :
             Cardinality(Came(arrived', g)) = parties' \/ g \in resets'
      BY <3>1, <3>2 DEF BarrierInv, Gathered
    <3>. QED  BY <3>3, SameCount DEF Ba!Over, Ba!Met, Ba!PartiesOf, Came
  <2>2. ASSUME NEW t \in Threads, pc[t] = "awake", pc'[t] = "idle", ~broken
        PROVE  IF broken' THEN ~Ba!Met(myGen[t]) ELSE Ba!Over(myGen[t])
    <3>1. pc \in [Threads -> {"idle", "asleep", "awake"}]
      BY DEF BarrierInv, Apart
    <3>2. \/ broken' = broken /\ generation # myGen[t]
          \/ broken' = TRUE /\ generation = myGen[t]
      <4>1. ASSUME NEW s \in Threads, Ba!Resume(s)
            PROVE  \/ broken' = broken /\ generation # myGen[t]
                   \/ broken' = TRUE /\ generation = myGen[t]
        <5>1. CASE (broken \/ generation # myGen[s]) /\ Ba!Leave(s)
          BY <2>2, <3>1, <5>1 DEF Ba!Leave, Ba!Return, Ba!barrier
        <5>2. CASE generation = myGen[s] /\ Ba!Break(s)
          BY <2>2, <3>1, <5>2 DEF Ba!Break, Ba!Return
        <5>3. CASE Ba!Sleep(s, s \in timed)
          BY <2>2, <3>1, <5>3 DEF Ba!Sleep
        <5>. QED  BY <4>1, <5>1, <5>2, <5>3 DEF Ba!Resume
      <4>2. ASSUME NEW s \in Threads, NEW d \in BOOLEAN, Ba!WaitCall(s, d)  PROVE FALSE
        BY <2>2, <3>1, <4>2 DEF Ba!WaitCall, Ba!Trip, Ba!Arrive, Ba!Sleep
      <4>3. ASSUME NEW s \in Threads, Ba!Wakes(s)  PROVE FALSE
        BY <2>2, <3>1, <4>3 DEF Ba!Wakes, Ba!Receive, Ba!CleanUp
      <4>4. ASSUME NEW s \in Threads, Ba!Reset(s) \/ Ba!Abort(s) \/ Ba!Clock(s)
            PROVE  pc' = pc
        BY <4>4 DEF Ba!Reset, Ba!Abort, Ba!Clock, Ba!DeadlinePasses, Ba!TimerWins
      <4>5. CASE UNCHANGED Ba!vars
        BY <2>2, <4>5 DEF Ba!vars
      <4>. QED  BY <2>2, <4>1, <4>2, <4>3, <4>4, <4>5 DEF Ba!Next
    <3>3. t \in Ba!InCall /\ myGen[t] \in Nat /\ generation \in Nat /\ myGen[t] <= generation
      BY <2>2 DEF BarrierInv, Ba!InCall
    <3>4. CASE broken' = broken /\ generation # myGen[t]
      <4>1. myGen[t] < generation
        BY <3>3, <3>4
      <4>2. Ba!Over(myGen[t])
        BY <3>3, <4>1, OverIs DEF BarrierInv, Gathered
      <4>. QED  BY <2>2, <3>4, <4>2
    <3>5. CASE broken' = TRUE /\ generation = myGen[t]
      <4>1. Came(arrived, myGen[t]) = Ba!Present
        BY <2>2, <3>5 DEF BarrierInv, Gathered
      <4>2. Cardinality(Ba!Present) # parties
        BY <2>2 DEF BarrierInv, Counted
      <4>. QED  BY <3>5, <4>1, <4>2, OverIs
    <3>. QED  BY <3>2, <3>4, <3>5
  <2>. QED  BY <2>1, <2>2 DEF Ba!PassMeansMet
<1>. QED  BY <1>1, BarrierInvariance, PTL DEF PassMeansMet, ThreadingSpec

-----------------------------------------------------------------------------
(* Thread and Process *)

Starting == {"chosen", "marked", "counted", "added"}
Outside(t) == pc[t] \in {"idle", "joining"}
Untouched == returned = FALSE /\ joined = FALSE /\ after = {} /\ listed = {}

(* Nobody has called start.                                                *)
Fresh ==
    /\ \A s \in Threads : Outside(s) /\ body[s] = "none"
    /\ Untouched /\ ~started
    /\ alive = 0 /\ counted = 0 /\ wg = 0

(* t is in start, and alone there.                                         *)
StartedBy(t) ==
    /\ pc[t] \in Starting
    /\ \A s \in Threads : body[s] = "none" /\ (s # t => Outside(s))
    /\ Untouched /\ (process \/ started)
    /\ alive = IF pc[t] = "chosen" THEN 0 ELSE 1
    /\ counted = IF pc[t] \in {"counted", "added"} THEN 1 ELSE 0
    /\ wg = IF pc[t] = "added" THEN 1 ELSE 0

(* start has returned in b, whose goroutine is the only one.               *)
Living(b) ==
    /\ body[b] # "none"
    /\ \A s \in Threads : Outside(s) /\ (s # b => body[s] = "none")
    /\ returned = TRUE /\ joined \in BOOLEAN /\ (process \/ started)
    /\ alive = IF body[b] \in {"dead", "uncounted", "gone"} THEN 2 ELSE 1
    /\ counted = IF body[b] \in {"uncounted", "gone"} THEN 0 ELSE 1
    /\ wg = IF body[b] = "gone" THEN 0 ELSE 1
    /\ listed = IF body[b] \in {"running", "ended"} THEN {b} ELSE {}
    /\ joined => body[b] = "gone"

ThreadTypes ==
    /\ process \in BOOLEAN /\ started \in BOOLEAN
    /\ pc \in [Threads -> Starting \cup {"idle", "joining"}]
    /\ body \in [Threads -> {"none", "begun", "running", "ended", "delisted", "dead",
                             "uncounted", "gone"}]

ThreadInv ==
    /\ ThreadTypes
    /\ Fresh \/ (\E t \in Threads : StartedBy(t)) \/ (\E b \in Threads : Living(b))

ThreadSafe == use = "Thread" => ThreadInv

LEMMA ThreadTypesKept ==
    ASSUME ThreadTypes, [Th!Next]_Th!vars
    PROVE  ThreadTypes'
<1>. USE DEF ThreadTypes, Starting
<1>1. CASE UNCHANGED Th!vars
  BY <1>1 DEF Th!vars, Th!thread
<1>2. ASSUME NEW t \in Threads,
             \/ Th!StartCall(t) \/ Th!Starts(t)
             \/ Th!TargetEnds(t) /\ UNCHANGED <<Th!history, pc, timed, due>>
      PROVE  ThreadTypes'
  BY <1>2 DEF Th!StartCall, Th!Starts, Th!Mark, Th!CountUp, Th!WgAdd, Th!Spawn, Th!At,
     Th!TargetEnds, Th!Become
<1>3. ASSUME NEW t \in Threads, Th!Winds(t)  PROVE ThreadTypes'
  BY <1>3 DEF Th!Winds, Th!Enlist, Th!Delist, Th!MarkDone, Th!CountDown, Th!WgDone, Th!Become
<1>4. ASSUME NEW t \in Threads, NEW d \in BOOLEAN,
             Th!JoinCall(t, d) \/ Th!JoinReturns(t) \/ Th!DeadlinePasses(t)
      PROVE  ThreadTypes'
  BY <1>4 DEF Th!JoinCall, Th!JoinReturns, Th!JoinLeave, Th!DeadlinePasses, Th!At, Th!thread
<1>. HIDE DEF ThreadTypes, Starting
<1>5. CASE Th!Next
  BY <1>2, <1>3, <1>4, <1>5, TRUE \in BOOLEAN DEF Th!Next, Th!Runs
<1>. QED  BY <1>1, <1>5

(* join, and the passing of its deadline, change nothing but who is in it, *)
(* and joined when the WaitGroup is at zero.                               *)
LEMMA JoinSteps ==
    ASSUME ThreadTypes, NEW t \in Threads, NEW d \in BOOLEAN,
           Th!JoinCall(t, d) \/ Th!JoinReturns(t) \/ Th!DeadlinePasses(t)
    PROVE  /\ UNCHANGED <<process, started, alive, counted, wg, listed, body, returned>>
           /\ \A s \in Threads : pc'[s] = pc[s] \/ (Outside(s) /\ Outside(s)')
           /\ joined' = joined \/ (wg = 0 /\ joined' = (joined \/ t \in after))
           /\ ~returned /\ after = {} => after' = {}
<1>1. CASE Th!JoinCall(t, d)
  BY <1>1 DEF ThreadTypes, Outside, Th!JoinCall, Th!At, Th!thread
<1>2. CASE Th!JoinReturns(t)
  BY <1>2 DEF ThreadTypes, Outside, Th!JoinReturns, Th!JoinLeave, Th!At, Th!thread
<1>3. CASE Th!DeadlinePasses(t)
  BY <1>3 DEF Th!DeadlinePasses, Th!thread, Th!history
<1>. QED  BY <1>1, <1>2, <1>3

LEMMA FreshStep ==
    ASSUME ThreadTypes, Fresh, Th!Next
    PROVE  Fresh' \/ \E t \in Threads : StartedBy(t)'
<1>1. ASSUME NEW t \in Threads, Th!StartCall(t)
      PROVE  StartedBy(t)'
  <2>1. \A s \in Threads : pc'[s] = IF s = t THEN "chosen" ELSE pc[s]
    BY <1>1 DEF ThreadTypes, Th!StartCall, Th!At
  <2>. QED  BY <1>1, <2>1 DEF Fresh, StartedBy, Untouched, Outside, Starting, Th!StartCall,
            Th!history
<1>2. ASSUME NEW t \in Threads
      PROVE  ~Th!Starts(t) /\ ~Th!TargetEnds(t) /\ ~Th!Winds(t)
  BY DEF Fresh, Outside, Th!Starts, Th!Mark, Th!CountUp, Th!WgAdd, Th!Spawn, Th!TargetEnds,
     Th!Winds, Th!Enlist, Th!Delist, Th!MarkDone, Th!CountDown, Th!WgDone
<1>3. ASSUME NEW t \in Threads, NEW d \in BOOLEAN,
             Th!JoinCall(t, d) \/ Th!JoinReturns(t) \/ Th!DeadlinePasses(t)
      PROVE  Fresh'
  BY <1>3, JoinSteps DEF Fresh, Untouched, Outside
<1>. QED  BY <1>1, <1>2, <1>3, TRUE \in BOOLEAN DEF Th!Next, Th!Runs

LEMMA StartedStep ==
    ASSUME ThreadTypes, NEW t \in Threads, StartedBy(t), Th!Next
    PROVE  StartedBy(t)' \/ Living(t)'
<1>1. ASSUME NEW s \in Threads, Th!Starts(s)
      PROVE  StartedBy(t)' \/ Living(t)'
  <2>1. s = t
    BY <1>1 DEF StartedBy, Outside, Th!Starts, Th!Mark, Th!CountUp, Th!WgAdd, Th!Spawn
  <2>2. CASE Th!Mark(t)
    BY <2>2 DEF ThreadTypes, StartedBy, Untouched, Outside, Starting, Th!Mark, Th!At, Th!history
  <2>3. CASE Th!CountUp(t)
    BY <2>3 DEF ThreadTypes, StartedBy, Untouched, Outside, Starting, Th!CountUp, Th!At,
       Th!history
  <2>4. CASE Th!WgAdd(t)
    BY <2>4 DEF ThreadTypes, StartedBy, Untouched, Outside, Starting, Th!WgAdd, Th!At,
       Th!history
  <2>5. CASE Th!Spawn(t)
    <3>1. /\ body'[t] = "begun"
          /\ \A r \in Threads : r # t => body'[r] = "none"
          /\ \A r \in Threads : Outside(r)'
      BY <2>5 DEF ThreadTypes, StartedBy, Outside, Th!Spawn, Th!At
    <3>. QED  BY <2>5, <3>1 DEF StartedBy, Living, Untouched, Th!Spawn
  <2>. QED  BY <1>1, <2>1, <2>2, <2>3, <2>4, <2>5 DEF Th!Starts
<1>2. ASSUME NEW s \in Threads
      PROVE  ~Th!StartCall(s) /\ ~Th!TargetEnds(s) /\ ~Th!Winds(s)
  BY DEF StartedBy, Starting, Th!StartCall, Th!TargetEnds,
     Th!Winds, Th!Enlist, Th!Delist, Th!MarkDone, Th!CountDown, Th!WgDone
<1>3. ASSUME NEW s \in Threads, NEW d \in BOOLEAN,
             Th!JoinCall(s, d) \/ Th!JoinReturns(s) \/ Th!DeadlinePasses(s)
      PROVE  StartedBy(t)'
  <2>1. pc'[t] = pc[t]
    BY <1>3, JoinSteps DEF StartedBy, Starting, Outside
  <2>. QED  BY <1>3, <2>1, JoinSteps DEF StartedBy, Untouched, Outside
<1>. QED  BY <1>1, <1>2, <1>3, TRUE \in BOOLEAN DEF Th!Next, Th!Runs

LEMMA LivingStep ==
    ASSUME ThreadTypes, NEW b \in Threads, Living(b), Th!Next
    PROVE  Living(b)'
<1>1. ASSUME NEW s \in Threads
      PROVE  ~Th!StartCall(s) /\ ~Th!Starts(s)
  BY DEF Living, Outside, Th!StartCall, Th!Starts, Th!Mark, Th!CountUp, Th!WgAdd, Th!Spawn
<1>2. ASSUME NEW s \in Threads,
             (Th!TargetEnds(s) /\ UNCHANGED <<Th!history, pc>>) \/ Th!Winds(s)
      PROVE  Living(b)'
  <2>1. s = b
    BY <1>2 DEF Living, Th!TargetEnds, Th!Winds, Th!Enlist, Th!Delist, Th!MarkDone,
       Th!CountDown, Th!WgDone
  <2>2. ASSUME NEW place, Th!Become(b, place)
        PROVE  body'[b] = place /\ \A r \in Threads : r # b => body'[r] = body[r]
    BY <2>2 DEF ThreadTypes, Th!Become
  <2>3. UNCHANGED <<Th!history, pc>>
    BY <1>2 DEF Th!Winds
  <2>4. CASE Th!TargetEnds(b) \/ Th!Enlist(b) \/ Th!Delist(b)
    BY <2>2, <2>3, <2>4 DEF Living, Outside, Th!TargetEnds, Th!Enlist, Th!Delist, Th!history
  <2>5. CASE Th!MarkDone(b) \/ Th!CountDown(b) \/ Th!WgDone(b)
    BY <2>2, <2>3, <2>5 DEF Living, Outside, Th!MarkDone, Th!CountDown, Th!WgDone, Th!history
  <2>. QED  BY <1>2, <2>1, <2>4, <2>5 DEF Th!Winds
<1>3. ASSUME NEW s \in Threads, NEW d \in BOOLEAN,
             Th!JoinCall(s, d) \/ Th!JoinReturns(s) \/ Th!DeadlinePasses(s)
      PROVE  Living(b)'
  <2>1. /\ UNCHANGED <<process, started, alive, counted, wg, listed, body, returned>>
        /\ joined' = joined \/ (wg = 0 /\ joined' = (joined \/ s \in after))
    BY <1>3, JoinSteps
  <2>2. \A r \in Threads : Outside(r)'
    BY <1>3, JoinSteps DEF Living, Outside
  <2>3. (s \in after) \in BOOLEAN
    OBVIOUS
  <2>4. joined' \in BOOLEAN
    BY <2>1, <2>3 DEF Living
  <2>5. joined' => body[b] = "gone"
    <3>1. CASE wg = 0
      BY <3>1 DEF Living
    <3>2. CASE joined' = joined
      BY <3>2 DEF Living
    <3>. QED  BY <2>1, <3>1, <3>2
  <2>. QED  BY <2>1, <2>2, <2>4, <2>5 DEF Living
<1>. QED  BY <1>1, <1>2, <1>3, TRUE \in BOOLEAN DEF Th!Next, Th!Runs

(* What others see of a thread is true where they rely on it (start, the   *)
(* goroutine it spawns, and join).                                         *)
THEOREM LivesAreSeen == ThreadingSpec => []LifeIsSeen
<1>1. Create => ThreadSafe
  BY DEF Create, Th!Init, ThreadSafe, ThreadInv, ThreadTypes, Fresh, Outside, Untouched
<1>2. ThreadSafe /\ [Step]_allVars => ThreadSafe'
  <2> SUFFICES ASSUME ThreadInv, [Th!Next]_Th!vars  PROVE ThreadInv'
    BY OneObject DEF ThreadSafe
  <2>1. ThreadTypes'
    BY ThreadTypesKept DEF ThreadInv
  <2>2. CASE UNCHANGED Th!vars
    BY <2>1, <2>2 DEF ThreadInv, Fresh, StartedBy, Living, Outside, Untouched, Th!vars,
       Th!thread, Th!history
  <2>3. CASE Th!Next
    BY <2>1, <2>3, FreshStep, StartedStep, LivingStep DEF ThreadInv
  <2>. QED  BY <2>2, <2>3
<1>3. ThreadSafe => LifeIsSeen
  <2> SUFFICES ASSUME ThreadInv  PROVE Th!LifeIsSeen
    BY DEF ThreadSafe, LifeIsSeen
  <2>1. CASE Fresh \/ \E t \in Threads : StartedBy(t)
    BY <2>1 DEF Fresh, StartedBy, Untouched, Th!LifeIsSeen
  <2>2. CASE \E b \in Threads : Living(b)
    BY <2>2 DEF Living, Th!LifeIsSeen, Th!Bodies
  <2>. QED  BY <2>1, <2>2 DEF ThreadInv
<1>. QED  BY <1>1, <1>2, <1>3, PTL DEF ThreadingSpec

-----------------------------------------------------------------------------
(* Lock *)

(* Whoever is between the two steps of acquire or release is alone there,  *)
(* with the mutex taken and the flag down; elsewhere the two agree.        *)
Inside(t) == pc[t] \in {"took", "freeing"}

LockInv ==
    /\ Lo!TypeOK
    /\ isLocked => taken
    /\ taken /\ ~isLocked => \E t \in Threads : Inside(t)
    /\ \A t \in Threads : Inside(t) => taken /\ ~isLocked
    /\ \A s, t \in Threads : Inside(s) /\ Inside(t) => s = t

LockSafe == use = "Lock" => LockInv

(* Where the threads are after one of them has moved.                      *)
LEMMA Moved ==
    ASSUME Lo!TypeOK, NEW t \in Threads, NEW place, Lo!At(t, place)
    PROVE  \A s \in Threads : pc'[s] = IF s = t THEN place ELSE pc[s]
  BY DEF Lo!TypeOK, Lo!At

(* The mutex is locked: it was free, so nobody was in between, and the     *)
(* flag was down.                                                          *)
LEMMA TakeLockKeeps ==
    ASSUME LockInv, NEW t \in Threads, Lo!Take(t)
    PROVE  LockInv'
<1>1. Lo!TypeOK'
  BY DEF LockInv, Lo!TypeOK, Lo!Take, Lo!At
<1>2. \A s \in Threads : Inside(s)' <=> s = t
  BY Moved DEF LockInv, Inside, Lo!Take
<1>. QED  BY <1>1, <1>2 DEF LockInv, Lo!Take

(* A thread waits, gives up or reads the clock: mutex and flag stay.       *)
LEMMA OutsideLockKeeps ==
    ASSUME LockInv, NEW t \in Threads, ~Inside(t),
           NEW place \in {"idle", "locking", "polling"}, Lo!At(t, place),
           timed' \in SUBSET Threads, due' \in SUBSET timed', UNCHANGED <<taken, isLocked>>
    PROVE  LockInv'
<1>1. Lo!TypeOK'
  BY DEF LockInv, Lo!TypeOK, Lo!At
<1>2. \A s \in Threads : Inside(s)' <=> Inside(s)
  BY Moved DEF LockInv, Inside
<1>. QED  BY <1>1, <1>2 DEF LockInv

(* The second of its two steps: the thread was alone in between.           *)
LEMMA SecondStepKeeps ==
    ASSUME LockInv, NEW t \in Threads, Lo!Raise(t) \/ Lo!Unlock(t)
    PROVE  LockInv'
<1>1. Lo!TypeOK'
  BY DEF LockInv, Lo!TypeOK, Lo!Raise, Lo!Unlock, Lo!At
<1>2. Inside(t)
  BY DEF Inside, Lo!Raise, Lo!Unlock
<1>3. \A s \in Threads : ~Inside(s)'
  BY <1>2, Moved DEF LockInv, Inside, Lo!Raise, Lo!Unlock
<1>. QED  BY <1>1, <1>2, <1>3 DEF LockInv, Lo!Raise, Lo!Unlock

(* release lowers the flag: an acquire has returned, so the flag was up    *)
(* and nobody was in between.                                              *)
LEMMA ReleaseLockKeeps ==
    ASSUME LockInv, NEW t \in Threads, Lo!Release(t)
    PROVE  LockInv'
<1>1. Lo!TypeOK'
  BY DEF LockInv, Lo!TypeOK, Lo!Release, Lo!At
<1>2. \A s \in Threads : Inside(s)' <=> s = t
  BY Moved DEF LockInv, Inside, Lo!Release, Lo!Releasable
<1>. QED  BY <1>1, <1>2 DEF LockInv, Lo!Release, Lo!Releasable

LEMMA LockStep ==
    ASSUME LockInv, [Lo!Next]_Lo!vars
    PROVE  LockInv'
<1>1. CASE UNCHANGED Lo!vars
  BY <1>1 DEF LockInv, Inside, Lo!TypeOK, Lo!vars
<1>2. ASSUME NEW t \in Threads, NEW d \in BOOLEAN, Lo!Acquire(t, d)
      PROVE  LockInv'
  BY <1>2, TakeLockKeeps, OutsideLockKeeps
     DEF LockInv, Lo!TypeOK, Inside, Lo!Acquire, Lo!lock
<1>3. ASSUME NEW t \in Threads, Lo!Locks(t) \/ Lo!Poll(t)
      PROVE  LockInv'
  BY <1>3, TakeLockKeeps, OutsideLockKeeps
     DEF LockInv, Lo!TypeOK, Inside, Lo!Locks, Lo!Poll, Lo!lock
<1>4. ASSUME NEW t \in Threads, Lo!DeadlinePasses(t)
      PROVE  LockInv'
  BY <1>4 DEF LockInv, Lo!TypeOK, Inside, Lo!DeadlinePasses, Lo!lock
<1>5. CASE Lo!Next
  BY <1>2, <1>3, <1>4, <1>5, SecondStepKeeps, ReleaseLockKeeps DEF Lo!Next, Lo!Runs
<1>. QED  BY <1>1, <1>5

(* locked() is true only of a lock that is taken, and false of one only    *)
(* while one thread is between its two steps (the flag and the mutex of    *)
(* acquire and release).                                                   *)
THEOREM FlagTellsTruth == ThreadingSpec => []LockedTellsTruth
<1>1. Create => LockSafe
  BY DEF Create, Lo!Init, LockSafe, LockInv, Inside, Lo!TypeOK
<1>2. LockSafe /\ [Step]_allVars => LockSafe'
  BY OneObject, LockStep DEF LockSafe
<1>3. LockSafe => LockedTellsTruth
  <2> SUFFICES ASSUME LockInv  PROVE Lo!LockedTellsTruth
    BY DEF LockSafe, LockedTellsTruth
  <2>1. ASSUME NEW t \in Threads, Inside(t)  PROVE Lo!Between = {t}
    BY <2>1 DEF LockInv, Inside, Lo!Between
  <2>2. \A t : Lo!Cardinality({t}) = 1
    BY FS_Singleton DEF Lo!Cardinality, Cardinality
  <2>3. \A t \in Lo!Between : t \in Threads /\ Inside(t)
    BY DEF Lo!Between, Inside
  <2>. QED  BY <2>1, <2>2, <2>3 DEF LockInv, Lo!LockedTellsTruth
<1>. QED  BY <1>1, <1>2, <1>3, PTL DEF ThreadingSpec

-----------------------------------------------------------------------------
(* Re-entrant lock *)

USE NoThreadAssumption, DepthAssumption

(* What every step preserves: the types, the exact count, and that a free  *)
(* lock with parked threads has one on its way.                            *)
RLockInv == TypeOK /\ DepthIsExact /\ NoLostRelease

(* A thread that takes a free lock is its only holder, at depth one.       *)
LEMMA GrabExact ==
    ASSUME TypeOK, DepthIsExact, NEW t \in Threads, owner = NoThread, Grab(t)
    PROVE  /\ owner' \in Threads \cup {NoThread}
           /\ depth' \in 0..MaxDepth
           /\ held' \in [Threads -> Nat]
           /\ DepthIsExact'
           /\ owner' # NoThread
<1>1. /\ owner' = t
      /\ depth' = 1
      /\ held' = [held EXCEPT ![t] = @ + 1]
      /\ depth = 0
      /\ \A s \in Threads : held[s] = 0
  BY DEF Grab, DepthIsExact, TypeOK
<1>2. \A s \in Threads : held'[s] = IF t = s THEN 1 ELSE 0
  BY <1>1 DEF TypeOK
<1> QED
  BY <1>1, <1>2 DEF TypeOK, DepthIsExact

(* The owner goes one level deeper.                                        *)
LEMMA AcquireExact ==
    ASSUME RLockInv, NEW t \in Threads, NEW blocking \in BOOLEAN,
           Acquire(t, blocking)
    PROVE  RLockInv'
<1> USE DEF RLockInv
<1>1. CASE /\ owner = t /\ depth < MaxDepth
           /\ depth' = depth + 1
           /\ held' = [held EXCEPT ![t] = @ + 1]
           /\ UNCHANGED <<owner, parked, woken>>
  <2>1. depth' \in 0..MaxDepth
    BY <1>1 DEF TypeOK
  <2>2. \A s \in Threads : held'[s] = IF owner' = s THEN depth' ELSE 0
    BY <1>1 DEF TypeOK, DepthIsExact
  <2> QED
    BY <1>1, <2>1, <2>2 DEF TypeOK, DepthIsExact, NoLostRelease
<1>2. CASE owner = NoThread /\ Grab(t) /\ UNCHANGED <<parked, woken>>
  BY <1>2, GrabExact DEF TypeOK, NoLostRelease
<1>3. CASE /\ owner \notin {t, NoThread} /\ blocking
           /\ parked' = parked \cup {t}
           /\ UNCHANGED <<owner, depth, woken, held>>
  BY <1>3 DEF Acquire, Idle, TypeOK, DepthIsExact, NoLostRelease
<1> QED
  BY <1>1, <1>2, <1>3 DEF Acquire

LEMMA AcquireResumeExact ==
    ASSUME RLockInv, NEW t \in Threads, AcquireResume(t)
    PROVE  RLockInv'
<1> USE DEF RLockInv
<1>1. CASE owner = NoThread /\ Grab(t) /\ UNCHANGED parked
  BY <1>1, GrabExact DEF AcquireResume, TypeOK, NoLostRelease
<1>2. CASE /\ owner # NoThread
           /\ parked' = parked \cup {t}
           /\ UNCHANGED <<owner, depth, held>>
  BY <1>2 DEF AcquireResume, TypeOK, DepthIsExact, NoLostRelease
<1> QED
  BY <1>1, <1>2 DEF AcquireResume

(* Signal keeps the wait list apart from the woken threads, and leaves     *)
(* nobody parked without a woken thread.                                   *)
LEMMA SignalWakes ==
    ASSUME TypeOK, Signal
    PROVE  /\ parked' \in SUBSET Threads /\ woken' \in SUBSET Threads
           /\ parked' \cap woken' = {}
           /\ parked' # {} => woken' # {}
BY DEF TypeOK, Signal

LEMMA ReleaseExact ==
    ASSUME RLockInv, NEW t \in Threads, Release(t)
    PROVE  RLockInv'
<1> USE DEF RLockInv
<1>1. /\ owner = t
      /\ depth \in 1..MaxDepth
      /\ depth' = depth - 1
      /\ held' = [held EXCEPT ![t] = @ - 1]
      /\ held[t] = depth
  BY DEF Release, TypeOK, DepthIsExact
<1>2. held' \in [Threads -> Nat] /\ depth' \in 0..MaxDepth
  BY <1>1 DEF TypeOK
<1>3. CASE depth = 1 /\ owner' = NoThread /\ Signal
  <2>1. \A s \in Threads : held'[s] = 0
    BY <1>1, <1>3 DEF TypeOK, DepthIsExact
  <2>2. DepthIsExact'
    BY <1>1, <1>3, <2>1 DEF DepthIsExact
  <2> QED
    BY <1>2, <1>3, <2>2, SignalWakes DEF TypeOK, NoLostRelease
<1>4. CASE depth # 1 /\ UNCHANGED <<owner, parked, woken>>
  <2>1. \A s \in Threads : held'[s] = IF owner' = s THEN depth' ELSE 0
    BY <1>1, <1>4 DEF TypeOK, DepthIsExact
  <2>2. DepthIsExact'
    BY <1>1, <1>4, <2>1 DEF DepthIsExact, TypeOK
  <2> QED
    BY <1>2, <1>4, <2>2 DEF TypeOK, NoLostRelease
<1> QED
  BY <1>3, <1>4 DEF Release

(* RLockInv is an invariant: it holds at first and every step preserves it.    *)
THEOREM RLockInvariance == Spec => []RLockInv
<1>1. Init => RLockInv
  BY DEF Init, RLockInv, TypeOK, DepthIsExact, NoLostRelease
<1>2. RLockInv /\ [Next]_vars => RLockInv'
  <2> SUFFICES ASSUME RLockInv, [Next]_vars
               PROVE  RLockInv'
    OBVIOUS
  <2>1. CASE UNCHANGED vars
    BY <2>1 DEF vars, RLockInv, TypeOK, DepthIsExact, NoLostRelease
  <2>2. ASSUME NEW t \in Threads, NEW blocking \in BOOLEAN, Acquire(t, blocking)
        PROVE  RLockInv'
    BY <2>2, AcquireExact
  <2>3. ASSUME NEW t \in Threads, AcquireResume(t)
        PROVE  RLockInv'
    BY <2>3, AcquireResumeExact
  <2>4. ASSUME NEW t \in Threads, Release(t)
        PROVE  RLockInv'
    BY <2>4, ReleaseExact
  <2> QED
    BY <2>1, <2>2, <2>3, <2>4 DEF Next
<1> QED
  BY <1>1, <1>2, PTL DEF Spec

(* Mutual exclusion of the lock: whoever acquired more often than it       *)
(* released is the owner, so there is at most one such thread.             *)
THEOREM Exclusion == Spec => []MutualExclusion
<1>1. RLockInv => MutualExclusion
  BY DEF RLockInv, TypeOK, DepthIsExact, MutualExclusion
<1> QED
  BY <1>1, RLockInvariance, PTL

(* The depth counts the owner's acquires exactly.                          *)
THEOREM Exactness == Spec => []DepthIsExact
<1>1. RLockInv => DepthIsExact
  BY DEF RLockInv
<1> QED
  BY <1>1, RLockInvariance, PTL

(* No release of the lock is lost on the threads parked in sync.Cond.      *)
THEOREM ReleaseWakes == Spec => []NoLostRelease
<1>1. RLockInv => NoLostRelease
  BY DEF RLockInv
<1> QED
  BY <1>1, RLockInvariance, PTL

(* Among the objects of the threading module the lock behaves as it does   *)
(* alone: no step of another object touches it.                            *)
THEOREM RLockIsPart == ThreadingSpec => Spec
<1>1. Create => Init
  BY DEF Create
<1>2. [Step]_allVars => [Next]_vars
  BY DEF Step, Uses, allVars
<1> QED
  BY <1>1, <1>2, PTL DEF ThreadingSpec, Spec
=============================================================================
