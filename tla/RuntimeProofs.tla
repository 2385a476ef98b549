----------------------------- MODULE RuntimeProofs -----------------------------
(***************************************************************************)
(* Proofs about three parts of the library, for every value of the         *)
(* constants: sched runs each event at most once, and in its turn;         *)
(* graphlib gives a node out only behind its predecessors, and finds a     *)
(* cycle when there is one; lru_cache drops what was used least recently.  *)
(***************************************************************************)
EXTENDS Runtime, SequenceLemmas, FiniteSetTheorems, WellFoundedInduction

-----------------------------------------------------------------------------
(* sched *)

RunPlaces == {"idle", "looking", "timing", "sleeping", "taking", "taken", "acting"}
EventSet == [time : Nat, priority : Nat]

SchedTypes ==
    /\ now \in Nat
    /\ entered \in Seq(EventSet)
    /\ starts \in Seq(Nat) /\ Len(starts) = Len(entered)
    /\ heap \subseteq Sc!Events /\ cancelled \subseteq Sc!Events
    /\ failed \subseteq Sc!Events
    /\ place \in [Runners -> RunPlaces]
    /\ held \in [Runners -> Nat]
    /\ \A r \in Runners :
          place[r] \in {"timing", "sleeping", "taking", "taken", "acting"} =>
             held[r] \in Sc!Events

(* Whoever is about to take an event has found it due.                     *)
Due == \A r \in Runners : place[r] = "taking" => entered[held[r]].time <= now

(* Where an event is: in one place, and with one runner.                   *)
With(r, e) == place[r] = "taken" /\ held[r] = e
Handled(e) ==
    /\ starts[e] <= 1
    /\ \A r, s \in Runners : With(r, e) /\ With(s, e) => r = s
    /\ e \in heap => starts[e] = 0 /\ e \notin cancelled /\ e \notin failed
    /\ e \in cancelled => starts[e] = 0 /\ e \notin failed
    /\ e \in failed => starts[e] = 0
    /\ (\E r \in Runners : With(r, e)) =>
          starts[e] = 0 /\ e \notin heap /\ e \notin cancelled /\ e \notin failed
    /\ \/ starts[e] = 1 \/ e \in heap \/ e \in cancelled \/ e \in failed
       \/ \E r \in Runners : With(r, e)

SchedInv == SchedTypes /\ Due /\ \A e \in Sc!Events : Handled(e)

LEMMA EventsAre ==
    ASSUME SchedTypes
    PROVE  /\ Sc!Events = 1..Len(entered) /\ Len(entered) \in Nat
           /\ DOMAIN starts = 1..Len(entered)
           /\ \A e \in Sc!Events :
                 entered[e] \in EventSet /\ entered[e].time \in Nat /\ starts[e] \in Nat
<1>1. /\ DOMAIN entered = 1..Len(entered) /\ DOMAIN starts = 1..Len(starts)
      /\ Len(entered) \in Nat
  BY LenProperties DEF SchedTypes
<1>2. ASSUME NEW e \in 1..Len(entered)  PROVE entered[e] \in EventSet /\ starts[e] \in Nat
  <2>1. entered[e] \in EventSet
    BY <1>2, ElementOfSeq DEF SchedTypes
  <2>2. starts[e] \in Nat
    BY <1>2, ElementOfSeq DEF SchedTypes
  <2>. QED  BY <2>1, <2>2
<1>. QED  BY <1>1, <1>2 DEF SchedTypes, Sc!Events, EventSet

LEMMA SchedCreated == ASSUME Sc!Init  PROVE SchedInv
<1>1. <<>> \in Seq(EventSet) /\ <<>> \in Seq(Nat) /\ Len(<<>>) = 0 /\ DOMAIN <<>> = {}
  BY EmptySeq
<1>2. 0 \in Nat
  OBVIOUS
<1>. QED  BY <1>1, <1>2 DEF Sc!Init, SchedInv, SchedTypes, Due, Sc!Events, RunPlaces

(* enterabs *)
LEMMA EnterKeeps ==
    ASSUME SchedInv, NEW time \in Nat, NEW priority \in Nat, Sc!Enter(time, priority)
    PROVE  SchedInv'
<1>. DEFINE new == [time |-> time, priority |-> priority]
            n == Len(entered) + 1
<1>1. /\ entered' = Append(entered, new) /\ heap' = heap \cup {n}
      /\ starts' = Append(starts, 0)
      /\ UNCHANGED <<now, place, held, cancelled, failed>>
  BY DEF Sc!Enter
<1>2. entered \in Seq(EventSet) /\ starts \in Seq(Nat) /\ Len(starts) = Len(entered)
      /\ Len(entered) \in Nat /\ new \in EventSet /\ 0 \in Nat
  BY LenProperties DEF SchedInv, SchedTypes, EventSet
<1>3. /\ entered' \in Seq(EventSet) /\ Len(entered') = n
      /\ \A e \in 1..Len(entered) : entered'[e] = entered[e]
  BY <1>1, <1>2, AppendProperties, AtTheEnd
<1>4. /\ starts' \in Seq(Nat) /\ Len(starts') = n
      /\ \A e \in 1..Len(entered) : starts'[e] = starts[e]
      /\ starts'[n] = 0
  BY <1>1, <1>2, AppendProperties, AtTheEnd
<1>5. Sc!Events = 1..Len(entered) /\ Sc!Events' = 1..n
  BY <1>2, <1>3, LenProperties DEF Sc!Events
<1>. HIDE DEF n, new
<1>6. /\ \A e \in 1..Len(entered) : e \in 1..n /\ e # n
      /\ \A e \in 1..n : e \in 1..Len(entered) \/ e = n
      /\ n \in 1..n
  BY <1>2 DEF n
<1>7. SchedTypes'
  BY <1>1, <1>3, <1>4, <1>5, <1>6 DEF SchedInv, SchedTypes
<1>8. Due'
  BY <1>1, <1>3, <1>5 DEF SchedInv, SchedTypes, Due
<1>9. \A e : \A r \in Runners : With(r, e)' <=> With(r, e)
  BY <1>1 DEF With
<1>10. ASSUME NEW e \in 1..Len(entered)  PROVE Handled(e)'
  <2>1. Handled(e)
    BY <1>5 DEF SchedInv
  <2>2. starts'[e] = starts[e] /\ (e \in heap' <=> e \in heap)
    BY <1>1, <1>4, <1>6
  <2>. QED  BY <1>1, <1>9, <2>1, <2>2 DEF Handled
<1>11. ASSUME NEW e, e = n  PROVE Handled(e)'
  <2>1. e \notin Sc!Events
    BY <1>5, <1>6, <1>11
  <2>2. /\ e \notin cancelled' /\ e \notin failed' /\ \A r \in Runners : ~With(r, e)
        /\ e \in heap'
    BY <1>1, <1>11, <2>1 DEF SchedInv, SchedTypes, With
  <2>3. starts'[e] = 0
    BY <1>4, <1>11
  <2>. QED  BY <1>9, <2>2, <2>3 DEF Handled
<1>12. \A e \in 1..n : Handled(e)'
  BY <1>6, <1>10, <1>11
<1>. QED  BY <1>5, <1>7, <1>8, <1>12 DEF SchedInv

LEMMA OthersKeepEvents ==
    ASSUME SchedInv,
           \/ \E e \in Sc!Events : Sc!Cancel(e)
           \/ Sc!Tick
           \/ \E r \in Runners :
                 \/ \E blocks \in BOOLEAN : Sc!Run(r, blocks)
                 \/ Sc!Look(r) \/ Sc!Judge(r) \/ Sc!Wake(r) \/ Sc!Finish(r)
    PROVE  SchedInv'
<1>0. Sc!Events' = Sc!Events /\ 0 \in Nat
  BY DEF Sc!Events, Sc!Cancel, Sc!Tick, Sc!Run, Sc!Look, Sc!Judge, Sc!Wake, Sc!Finish
<1>1. ASSUME NEW e \in Sc!Events, Sc!Cancel(e)  PROVE SchedInv'
  <2>1. SchedTypes' /\ Due'
    BY <1>0, <1>1 DEF Sc!Cancel, SchedInv, SchedTypes, Due
  <2>2. \A d \in Sc!Events : Handled(d)'
    BY <1>1 DEF Sc!Cancel, SchedInv, Handled, With
  <2>. QED  BY <1>0, <2>1, <2>2 DEF SchedInv
<1>2. CASE Sc!Tick
  <2>1. SchedTypes'
    BY <1>0, <1>2 DEF Sc!Tick, SchedInv, SchedTypes
  <2>2. Due'
    BY <1>2, EventsAre DEF Sc!Tick, SchedInv, SchedTypes, Due
  <2>3. \A d \in Sc!Events : Handled(d)'
    BY <1>2 DEF Sc!Tick, SchedInv, Handled, With
  <2>. QED  BY <1>0, <2>1, <2>2, <2>3 DEF SchedInv
<1>3. ASSUME NEW r \in Runners, NEW p \in RunPlaces \ {"taken"}, NEW e,
             UNCHANGED <<now, entered, heap, starts, cancelled, failed>>,
             place[r] # "taken", place' = [place EXCEPT ![r] = p],
             held' = held \/ (held' = [held EXCEPT ![r] = e] /\ e \in Nat),
             p \in {"timing", "sleeping", "taking", "acting"} => held'[r] \in Sc!Events,
             p = "taking" => entered[held'[r]].time <= now
      PROVE  SchedInv'
  <2>1. /\ place'[r] = p /\ \A s \in Runners : s # r => place'[s] = place[s] /\ held'[s] = held[s]
        /\ place' \in [Runners -> RunPlaces] /\ held' \in [Runners -> Nat]
    BY <1>3 DEF SchedInv, SchedTypes
  <2>2. SchedTypes' /\ Due'
    BY <1>0, <1>3, <2>1 DEF SchedInv, SchedTypes, Due
  <2>3. \A d : \A s \in Runners : With(s, d)' <=> With(s, d)
    BY <1>3, <2>1 DEF With
  <2>4. \A d \in Sc!Events : Handled(d)'
    BY <1>3, <2>3 DEF SchedInv, Handled
  <2>. QED  BY <1>0, <2>2, <2>4 DEF SchedInv
<1>4. ASSUME NEW r \in Runners, NEW blocks \in BOOLEAN, Sc!Run(r, blocks)  PROVE SchedInv'
  <2>1. "looking" \in RunPlaces \ {"taken"}
    BY DEF RunPlaces
  <2>. QED  BY <1>0, <1>3, <1>4, <2>1 DEF Sc!Run, Sc!Back
<1>5. ASSUME NEW r \in Runners, Sc!Look(r)  PROVE SchedInv'
  <2>0. {"idle", "timing"} \subseteq RunPlaces \ {"taken"}
    BY DEF RunPlaces
  <2>1. CASE heap = {} /\ Sc!Back(r, "idle")
    BY <1>0, <1>3, <1>5, <2>0, <2>1 DEF Sc!Look, Sc!Back
  <2>2. ASSUME NEW e \in heap, held' = [held EXCEPT ![r] = e],
               place' = [place EXCEPT ![r] = "timing"]
        PROVE  SchedInv'
    <3>1. e \in Sc!Events /\ e \in Nat /\ held'[r] = e
      BY <2>2, EventsAre DEF SchedInv, SchedTypes
    <3>. QED  BY <1>3, <1>5, <2>0, <2>2, <3>1 DEF Sc!Look
  <2>. QED  BY <1>5, <2>1, <2>2 DEF Sc!Look
<1>6. ASSUME NEW r \in Runners, Sc!Judge(r)  PROVE SchedInv'
  <2>0. {"idle", "taking", "sleeping"} \subseteq RunPlaces \ {"taken"}
    BY DEF RunPlaces
  <2>1. held[r] \in Sc!Events /\ place[r] = "timing"
        /\ UNCHANGED <<now, entered, heap, starts, cancelled, failed>>
    BY <1>6 DEF Sc!Judge, SchedInv, SchedTypes
  <2>2. CASE entered[held[r]].time <= now /\ Sc!At(r, "taking")
    BY <1>3, <2>0, <2>1, <2>2 DEF Sc!At
  <2>3. CASE Sc!At(r, "sleeping")
    BY <1>3, <2>0, <2>1, <2>3 DEF Sc!At
  <2>4. CASE Sc!Back(r, "idle")
    BY <1>0, <1>3, <2>0, <2>1, <2>4 DEF Sc!Back
  <2>. QED  BY <1>6, <2>2, <2>3, <2>4 DEF Sc!Judge
<1>7. ASSUME NEW r \in Runners, Sc!Wake(r)  PROVE SchedInv'
  <2>1. "looking" \in RunPlaces \ {"taken"}
    BY DEF RunPlaces
  <2>. QED  BY <1>0, <1>3, <1>7, <2>1 DEF Sc!Wake, Sc!Back
<1>8. ASSUME NEW r \in Runners, Sc!Finish(r)  PROVE SchedInv'
  <2>1. {"idle", "looking"} \subseteq RunPlaces \ {"taken"}
    BY DEF RunPlaces
  <2>2. \E p \in {"idle", "looking"} : Sc!Back(r, p)
    BY <1>8 DEF Sc!Finish
  <2>. QED  BY <1>0, <1>3, <1>8, <2>1, <2>2 DEF Sc!Finish, Sc!Back
<1>. QED  BY <1>1, <1>2, <1>4, <1>5, <1>6, <1>7, <1>8

(* The event goes from the heap to the runner ...                          *)
LEMMA PopKeeps ==
    ASSUME SchedInv, NEW r \in Runners, Sc!Pop(r)
    PROVE  SchedInv'
<1>0. /\ Sc!Events' = Sc!Events /\ place[r] = "taking" /\ held[r] \in Sc!Events
      /\ UNCHANGED <<now, entered, starts, cancelled, failed>> /\ 0 \in Nat
  BY DEF Sc!Pop, Sc!Events, SchedInv, SchedTypes
<1>1. CASE /\ Sc!IsHead(held[r]) /\ heap' = heap \ {held[r]}
           /\ place' = [place EXCEPT ![r] = "taken"] /\ held' = held
  <2>1. held[r] \in heap
    BY <1>1 DEF Sc!IsHead
  <2>2. place'[r] = "taken" /\ \A s \in Runners : s # r => place'[s] = place[s]
    BY <1>1 DEF SchedInv, SchedTypes
  <2>3. SchedTypes'
    BY <1>0, <1>1, <2>2 DEF SchedInv, SchedTypes, RunPlaces
  <2>4. Due'
    BY <1>0, <1>1, <2>2 DEF SchedInv, Due
  <2>5. \A d : \A s \in Runners : With(s, d)' <=> With(s, d) \/ (s = r /\ d = held[r])
    BY <1>0, <1>1, <2>2 DEF With
  <2>6. \A d \in Sc!Events : Handled(d)'
    BY <1>0, <1>1, <2>1, <2>5 DEF SchedInv, Handled
  <2>. QED  BY <1>0, <2>3, <2>4, <2>6 DEF SchedInv
<1>2. CASE /\ heap' = heap
           /\ place' = [place EXCEPT ![r] = "looking"] /\ held' = [held EXCEPT ![r] = 0]
  <2>1. /\ place'[r] = "looking"
        /\ \A s \in Runners : s # r => place'[s] = place[s] /\ held'[s] = held[s]
    BY <1>2 DEF SchedInv, SchedTypes
  <2>2. SchedTypes' /\ Due'
    BY <1>0, <1>2, <2>1 DEF SchedInv, SchedTypes, RunPlaces, Due
  <2>3. \A d : \A s \in Runners : With(s, d)' <=> With(s, d)
    BY <1>0, <2>1 DEF With
  <2>4. \A d \in Sc!Events : Handled(d)'
    BY <1>0, <1>2, <2>3 DEF SchedInv, Handled
  <2>. QED  BY <1>0, <2>2, <2>4 DEF SchedInv
<1>. QED  BY <1>1, <1>2 DEF Sc!Pop, Sc!At, Sc!Back

(* ... is started by it ...                                                *)
LEMMA StartKeeps ==
    ASSUME SchedInv, NEW r \in Runners, Sc!Start(r), NEW e, e = held[r]
    PROVE  SchedInv'
<1>1. /\ Sc!Events' = Sc!Events /\ place[r] = "taken" /\ e \in Sc!Events
      /\ starts' = [starts EXCEPT ![e] = @ + 1]
      /\ place' = [place EXCEPT ![r] = "acting"]
      /\ UNCHANGED <<now, entered, heap, held, cancelled, failed>>
  BY DEF Sc!Start, Sc!At, Sc!Events, SchedInv, SchedTypes
<1>2. /\ place'[r] = "acting" /\ \A s \in Runners : s # r => place'[s] = place[s]
      /\ place' \in [Runners -> RunPlaces]
  BY <1>1 DEF SchedInv, SchedTypes, RunPlaces
<1>3. With(r, e) /\ starts[e] = 0 /\ e \notin heap /\ e \notin cancelled /\ e \notin failed
  BY <1>1 DEF SchedInv, Handled, With
<1>4. /\ starts'[e] = 1 /\ \A d \in Sc!Events : d # e => starts'[d] = starts[d]
      /\ starts' \in Seq(Nat) /\ Len(starts') = Len(starts)
  <2>1. DOMAIN starts = 1..Len(entered) /\ Sc!Events = 1..Len(entered)
        /\ Len(entered) \in Nat
    BY EventsAre DEF SchedInv
  <2>2. starts \in Seq(Nat) /\ Len(starts) = Len(entered) /\ e \in 1..Len(starts) /\ 1 \in Nat
    BY <1>1, <2>1 DEF SchedInv, SchedTypes
  <2>3. starts' = [starts EXCEPT ![e] = 1]
    BY <1>1, <1>3
  <2>4. starts' \in Seq(Nat) /\ Len(starts') = Len(starts)
    BY <2>2, <2>3, ExceptSeq
  <2>. QED  BY <1>1, <2>1, <2>3, <2>4
<1>5. SchedTypes' /\ Due'
  BY <1>1, <1>2, <1>4 DEF SchedInv, SchedTypes, Due
<1>6. \A d : \A s \in Runners : With(s, d)' <=> With(s, d) /\ s # r
  BY <1>1, <1>2 DEF With
<1>7. Handled(e)'
  <2>1. \A s \in Runners : ~With(s, e)'
    BY <1>1, <1>3, <1>6 DEF SchedInv, Handled
  <2>. QED  BY <1>1, <1>3, <1>4, <2>1 DEF Handled
<1>8. ASSUME NEW d \in Sc!Events, d # e  PROVE Handled(d)'
  <2>1. \A s \in Runners : With(s, d)' <=> With(s, d)
    BY <1>6, <1>8 DEF With
  <2>2. Handled(d) /\ starts'[d] = starts[d]
    BY <1>4, <1>8 DEF SchedInv
  <2>. QED  BY <1>1, <2>1, <2>2 DEF Handled
<1>. QED  BY <1>1, <1>5, <1>7, <1>8 DEF SchedInv

(* ... or is lost with it.                                                 *)
LEMMA FailKeeps ==
    ASSUME SchedInv, NEW r \in Runners, Sc!Fail(r)
    PROVE  SchedInv'
<1>1. /\ Sc!Events' = Sc!Events /\ held[r] \in Sc!Events /\ 0 \in Nat
      /\ failed' = IF place[r] = "taken" THEN failed \cup {held[r]} ELSE failed
      /\ place' = [place EXCEPT ![r] = "idle"] /\ held' = [held EXCEPT ![r] = 0]
      /\ UNCHANGED <<now, entered, heap, starts, cancelled>>
  BY DEF Sc!Fail, Sc!Back, Sc!Events, SchedInv, SchedTypes
<1>2. /\ place'[r] = "idle"
      /\ \A s \in Runners : s # r => place'[s] = place[s] /\ held'[s] = held[s]
  BY <1>1 DEF SchedInv, SchedTypes
<1>3. SchedTypes' /\ Due'
  BY <1>1, <1>2 DEF SchedInv, SchedTypes, RunPlaces, Due
<1>4. \A d : \A s \in Runners : With(s, d)' <=> With(s, d) /\ s # r
  BY <1>1, <1>2 DEF With
<1>5. ASSUME NEW d \in Sc!Events  PROVE Handled(d)'
  <2>1. CASE With(r, d)
    <3>1. d \in failed' /\ \A s \in Runners : ~With(s, d)'
      BY <1>1, <1>4, <2>1 DEF SchedInv, Handled, With
    <3>. QED  BY <1>1, <2>1, <3>1 DEF SchedInv, Handled
  <2>2. CASE ~With(r, d)
    <3>1. d \in failed' <=> d \in failed
      BY <1>1, <2>2 DEF With
    <3>2. \A s \in Runners : With(s, d)' <=> With(s, d)
      BY <1>4, <2>2
    <3>. QED  BY <1>1, <3>1, <3>2 DEF SchedInv, Handled
  <2>. QED  BY <2>1, <2>2
<1>. QED  BY <1>1, <1>3, <1>5 DEF SchedInv

LEMMA SchedKept == ASSUME SchedInv, Sc!Next  PROVE SchedInv'
<1>1. \A time \in 0..MaxTime : time \in Nat
  OBVIOUS
<1>2. \A priority \in Priorities : priority \in Nat
  BY SchedulerAssumption DEF Sc!SchedulerConstants
<1>. QED  BY <1>1, <1>2, EnterKeeps, OthersKeepEvents, PopKeeps, StartKeeps, FailKeeps DEF Sc!Next

SchedSafe == use = "scheduler" => SchedInv

(* The five places of an event add up to one.                              *)
LEMMA HandledIsOnce ==
    ASSUME SchedInv  PROVE Sc!HandledOnce
<1> SUFFICES ASSUME NEW e \in Sc!Events
             PROVE  starts[e] + Sc!Cardinality(Sc!Taken(e)) + Sc!Among(heap, e)
                    + Sc!Among(cancelled, e) + Sc!Among(failed, e) = 1
  BY DEF Sc!HandledOnce
<1>1. Handled(e) /\ starts[e] \in Nat
  BY EventsAre DEF SchedInv
<1>2. Sc!Cardinality(Sc!Taken(e)) = IF \E r \in Runners : With(r, e) THEN 1 ELSE 0
  <2>1. \A S : Sc!Cardinality(S) = Cardinality(S)
    BY DEF Sc!Cardinality, Cardinality, Sc!IsFiniteSet, IsFiniteSet
  <2>2. ASSUME NEW r \in Runners, With(r, e)  PROVE Sc!Taken(e) = {r}
    BY <1>1, <2>2 DEF Handled, With, Sc!Taken
  <2>3. (\A r \in Runners : ~With(r, e)) => Sc!Taken(e) = {}
    BY DEF With, Sc!Taken
  <2>. QED  BY <2>1, <2>2, <2>3, FS_Singleton, FS_EmptySet
<1>. QED  BY <1>1, <1>2 DEF Handled, Sc!Among

LEMMA SchedInvariant == RuntimeSpec => []SchedSafe
<1>1. Create => SchedSafe
  BY SchedCreated DEF Create, SchedSafe
<1>2. SchedSafe /\ [Step]_runtime => SchedSafe'
  <2> SUFFICES ASSUME SchedSafe, [Step]_runtime, use' = "scheduler"  PROVE SchedInv'
    BY DEF SchedSafe
  <2>1. CASE UNCHANGED runtime
    BY <2>1 DEF runtime, scheduler, SchedSafe, SchedInv, SchedTypes, Due, Handled, With,
       Sc!Events
  <2>2. CASE Step
    BY <2>2, SchedKept DEF Step, SchedSafe
  <2>. QED  BY <2>1, <2>2
<1>. QED  BY <1>1, <1>2, PTL DEF RuntimeSpec

(* sched runs an event once, when it is due and at the head of the heap    *)
(* (schedRun, enterabs and cancel in vm/stdlib_sched.go).                  *)
THEOREM TurnsAreKept == RuntimeSpec => EventsRunInTurn
<1>1. SchedSafe /\ SchedSafe' /\ [Step]_runtime =>
         [use = "scheduler" => Sc!EventsRunInTurn]_runtime
  <2> SUFFICES ASSUME SchedSafe, SchedSafe', Step, use = "scheduler"
               PROVE  Sc!HandledOnce' /\ Sc!TakenInTurn
    BY DEF Sc!EventsRunInTurn
  <2>1. SchedInv /\ SchedInv' /\ Sc!Next
    BY DEF SchedSafe, Step
  <2>2. Sc!HandledOnce'
    <3>1. SchedInv' => Sc!HandledOnce'
      BY HandledIsOnce, PTL
    <3>. QED  BY <2>1, <3>1
  <2>3. ASSUME NEW e \in heap, e \notin heap'
        PROVE  e \in cancelled' \/ (Sc!IsHead(e) /\ entered[e].time <= now)
    <3>1. CASE \E d \in Sc!Events : Sc!Cancel(d)
      BY <2>3, <3>1 DEF Sc!Cancel
    <3>2. ASSUME NEW r \in Runners, Sc!Pop(r)
          PROVE  Sc!IsHead(e) /\ entered[e].time <= now
      BY <2>1, <2>3, <3>2 DEF Sc!Pop, SchedInv, Due
    <3>3. heap' = heap \/ (\E d \in Sc!Events : Sc!Cancel(d))
          \/ (\E r \in Runners : Sc!Pop(r)) \/ e \in heap'
      BY <2>1, <2>3 DEF Sc!Next, Sc!Enter, Sc!Tick, Sc!Run, Sc!Look, Sc!Judge, Sc!Wake, Sc!Start,
         Sc!Finish, Sc!Fail
    <3>. QED  BY <2>3, <3>1, <3>2, <3>3
  <2>. QED  BY <2>2, <2>3 DEF Sc!TakenInTurn
<1>. QED  BY <1>1, SchedInvariant, PTL DEF RuntimeSpec, EventsRunInTurn

-----------------------------------------------------------------------------
(* graphlib *)

Edges == [node : Nodes, left : SUBSET Nodes]

(* The path leads from a node to one of its predecessors, no node twice;   *)
(* what it has left of a node are edges it has not followed.               *)
PathIs(v, w, P) ==
    /\ w \in Seq(Edges)
    /\ \A i \in 1..Len(w) :
          /\ v[w[i].node] = 1
          /\ w[i].left \subseteq P[w[i].node]
          /\ \A p \in P[w[i].node] \ w[i].left :
                v[p] = 2 \/ (i < Len(w) /\ p = w[i + 1].node)
    /\ \A i \in 1..Len(w) - 1 : w[i + 1].node \in P[w[i].node]
    /\ \A i, j \in 1..Len(w) : w[i].node = w[j].node => i = j
    /\ \A n \in Nodes : v[n] = 1 => \E i \in 1..Len(w) : w[i].node = n

(* Among these nodes there is no cycle.                                    *)
Acyclic(S, P) == \A U \in SUBSET S : U # {} => \E n \in U : P[n] \cap U = {}

(* What is finished is finished with all its predecessors, and acyclic.    *)
Finished(v) == {n \in Nodes : v[n] = 2}
BehindIs(v, P) ==
    /\ \A n \in Finished(v) : P[n] \subseteq Finished(v)
    /\ Acyclic(Finished(v), P)

GraphInv ==
    /\ added \subseteq Nodes
    /\ preds \in [Nodes -> SUBSET added]
    /\ phase \in {"new", "searching", "prepared", "active"}
    /\ visited \in [Nodes -> 0..2]

SearchInv ==
    /\ phase = "searching" => PathIs(visited, path, preds) /\ BehindIs(visited, preds)
    /\ phase \in {"prepared", "active"} => Acyclic(added, preds)

CycleIs(c, P) ==
    /\ Len(c) > 1 /\ c[1] = Ts!Last(c)
    /\ \A n \in 1..(Len(c) - 1) : c[n + 1] \in P[c[n]]
CycleInv == cycle # <<>> => CycleIs(cycle, preds)

(* Who waits for how many, and which nodes wait for none.                  *)
WorkIs(i, r, o, n, f) ==
    /\ r \subseteq added /\ o \subseteq added /\ f \subseteq added
    /\ \A m \in Nodes : i[m] = Cardinality(preds[m] \ f)
    /\ \A m \in added : preds[m] \subseteq f <=> m \in r \cup o \cup f
    /\ r \cap o = {} /\ f \cap (r \cup o) = {}
    /\ n \in Nat /\ n <= Cardinality(f)
WorkInv ==
    /\ inDegree \in [Nodes -> Nat]
    /\ phase \in {"prepared", "active"} => WorkIs(inDegree, ready, outReady, nDone, finished)

SorterInv == GraphInv /\ SearchInv /\ CycleInv /\ WorkInv

LEMMA NodesAreFinite ==
    ASSUME NEW S \in SUBSET Nodes
    PROVE  /\ IsFiniteSet(S) /\ Cardinality(S) \in Nat
           /\ \A T : Ts!Cardinality(T) = Cardinality(T)
<1>1. IsFiniteSet(Nodes)
  BY SorterAssumption DEF Ts!SorterConstants, Ts!IsFiniteSet, IsFiniteSet
<1>2. IsFiniteSet(S)
  BY <1>1, FS_Subset
<1>3. Cardinality(S) \in Nat
  BY <1>2, FS_CardinalityType
<1>4. ASSUME NEW T  PROVE Ts!Cardinality(T) = Cardinality(T)
  BY DEF Ts!Cardinality, Cardinality, Ts!IsFiniteSet, IsFiniteSet
<1>. QED  BY <1>2, <1>3, <1>4

LEMMA SorterCreated == ASSUME Ts!Init  PROVE SorterInv
<1>1. /\ added = {} /\ preds = [n \in Nodes |-> {}] /\ phase = "new"
      /\ visited = [n \in Nodes |-> 0] /\ cycle = <<>> /\ inDegree = [n \in Nodes |-> 0]
  BY DEF Ts!Init
<1>2. 0 \in Nat /\ 0 \in 0..2
  OBVIOUS
<1>. QED  BY <1>1, <1>2 DEF SorterInv, GraphInv, SearchInv, CycleInv, WorkInv

LEMMA AddNodeKeeps ==
    ASSUME SorterInv, NEW n \in Nodes, NEW ps \in SUBSET Nodes, Ts!AddNode(n, ps)
    PROVE  SorterInv'
<1>1. /\ phase = "new" /\ phase' = "new" /\ added' = added \cup {n} \cup ps
      /\ preds' = [preds EXCEPT ![n] = @ \cup ps] /\ cycle' = <<>>
      /\ visited' = visited /\ inDegree' = inDegree
  BY DEF Ts!AddNode, Ts!work
<1>2. preds' \in [Nodes -> SUBSET added'] /\ added' \subseteq Nodes
  BY <1>1 DEF SorterInv, GraphInv
<1>. QED  BY <1>1, <1>2 DEF SorterInv, GraphInv, SearchInv, CycleInv, WorkInv

LEMMA PrepareKeeps ==
    ASSUME SorterInv, Ts!Prepare  PROVE SorterInv'
<1>1. /\ phase' = "searching" /\ visited' = [n \in Nodes |-> 0] /\ path' = <<>>
      /\ cycle' = <<>> /\ added' = added /\ preds' = preds /\ inDegree' = inDegree
  BY DEF Ts!Prepare, Ts!work, Ts!graph
<1>2. 0 \in 0..2 /\ <<>> \in Seq(Edges) /\ Len(<<>>) = 0
  BY EmptySeq
<1>3. \A m \in Nodes : visited'[m] = 0
  BY <1>1
<1>4. PathIs(visited', <<>>, preds)
  BY <1>2, <1>3 DEF PathIs
<1>5. Finished(visited') = {}
  BY <1>3 DEF Finished
<1>6. BehindIs(visited', preds)
  BY <1>5 DEF BehindIs, Acyclic
<1>7. GraphInv'
  BY <1>1, <1>2 DEF SorterInv, GraphInv
<1>. QED  BY <1>1, <1>4, <1>6, <1>7 DEF SorterInv, SearchInv, CycleInv, WorkInv

(* A node that has not been seen comes to the end of the path, where it is *)
(* a predecessor of the last one.                                          *)
LEMMA PathGrows ==
    ASSUME GraphInv, NEW w \in Seq(Edges), PathIs(visited, w, preds), NEW n \in Nodes,
           visited[n] = 0, NEW u \in Seq(Edges), Len(u) = Len(w),
           \A i \in 1..Len(w) - 1 : u[i] = w[i],
           Len(w) > 0 =>
              /\ u[Len(w)].node = w[Len(w)].node
              /\ n \in preds[w[Len(w)].node]
              /\ u[Len(w)].left = w[Len(w)].left \ {n},
           BehindIs(visited, preds)
    PROVE  /\ PathIs([visited EXCEPT ![n] = 1],
                     Append(u, [node |-> n, left |-> preds[n]]), preds)
           /\ BehindIs([visited EXCEPT ![n] = 1], preds)
<1>. DEFINE v == [visited EXCEPT ![n] = 1]
            f == [node |-> n, left |-> preds[n]]
            x == Append(u, f)
<1>1. /\ Len(w) \in Nat /\ visited \in [Nodes -> 0..2] /\ preds \in [Nodes -> SUBSET Nodes]
      /\ \A i \in 1..Len(w) : w[i].node \in Nodes /\ w[i] \in Edges
  <2>1. \A i \in 1..Len(w) : w[i] \in Edges
    BY ElementOfSeq
  <2>. QED  BY <2>1, LenProperties DEF GraphInv, Edges
<1>2. v[n] = 1 /\ \A m \in Nodes : m # n => v[m] = visited[m]
  BY <1>1
<1>3. f \in Edges /\ f.node = n /\ f.left = preds[n]
  BY <1>1 DEF Edges
<1>. HIDE DEF v, f
<1>4. /\ x \in Seq(Edges) /\ Len(x) = Len(w) + 1 /\ x[Len(w) + 1] = f
      /\ \A i \in 1..Len(w) : x[i] = u[i]
  BY <1>3, AppendProperties
<1>. HIDE DEF x
<1>5. ASSUME NEW i \in 1..Len(w)
      PROVE  /\ x[i].node = w[i].node /\ x[i].left \subseteq w[i].left
             /\ i < Len(w) => x[i] = w[i]
             /\ i = Len(w) => n \in preds[w[i].node] /\ x[i].left = w[i].left \ {n}
             /\ w[i].node # n
  <2>1. visited[w[i].node] = 1
    BY DEF PathIs
  <2>2. CASE i < Len(w)
    <3>1. i \in 1..Len(w) - 1
      BY <1>1, <2>2
    <3>. QED  BY <1>4, <2>1, <2>2, <3>1
  <2>3. CASE i = Len(w)
    <3>1. Len(w) > 0
      BY <1>1, <2>3
    <3>. QED  BY <1>4, <2>1, <2>3, <3>1
  <2>. QED  BY <1>1, <2>2, <2>3
<1>6. ASSUME NEW i \in 1..Len(w) + 1
      PROVE  /\ v[x[i].node] = 1
             /\ x[i].left \subseteq preds[x[i].node]
             /\ \A p \in preds[x[i].node] \ x[i].left :
                   v[p] = 2 \/ (i < Len(w) + 1 /\ p = x[i + 1].node)
  <2>1. CASE i = Len(w) + 1
    BY <1>2, <1>3, <1>4, <2>1
  <2>2. CASE i \in 1..Len(w)
    <3>1. /\ visited[w[i].node] = 1 /\ w[i].left \subseteq preds[w[i].node]
          /\ \A p \in preds[w[i].node] \ w[i].left :
                visited[p] = 2 \/ (i < Len(w) /\ p = w[i + 1].node)
      BY <2>2 DEF PathIs
    <3>2. v[x[i].node] = 1 /\ x[i].left \subseteq preds[x[i].node]
      BY <1>1, <1>2, <1>5, <2>2, <3>1
    <3>3. ASSUME NEW p \in preds[x[i].node] \ x[i].left
          PROVE  v[p] = 2 \/ (i < Len(w) + 1 /\ p = x[i + 1].node)
      <4>1. p \in Nodes /\ p \in preds[w[i].node]
        BY <1>1, <1>5, <2>2
      <4>2. CASE visited[p] = 2
        BY <1>2, <4>1, <4>2
      <4>3. CASE i < Len(w) /\ p = w[i + 1].node
        <5>1. i + 1 \in 1..Len(w)
          BY <1>1, <2>2, <4>3
        <5>. QED  BY <1>1, <1>5, <2>2, <4>3, <5>1
      <4>4. CASE i = Len(w) /\ p = n
        BY <1>1, <1>3, <1>4, <2>2, <4>4
      <4>5. p \notin w[i].left \/ (i = Len(w) /\ p = n)
        BY <1>1, <1>5, <2>2
      <4>. QED  BY <3>1, <4>1, <4>2, <4>3, <4>4, <4>5
    <3>. QED  BY <3>2, <3>3
  <2>. QED  BY <1>1, <2>1, <2>2
<1>7. ASSUME NEW i \in 1..Len(w)  PROVE x[i + 1].node \in preds[x[i].node]
  <2>1. CASE i = Len(w)
    BY <1>3, <1>4, <1>5, <2>1
  <2>2. CASE i # Len(w)
    <3>1. i \in 1..Len(w) - 1 /\ i + 1 \in 1..Len(w)
      BY <1>1, <2>2
    <3>2. w[i + 1].node \in preds[w[i].node]
      BY <3>1 DEF PathIs
    <3>. QED  BY <1>5, <3>1, <3>2
  <2>. QED  BY <2>1, <2>2
<1>8. ASSUME NEW i \in 1..Len(w) + 1, NEW j \in 1..Len(w) + 1, x[i].node = x[j].node
      PROVE  i = j
  <2>1. \A k \in 1..Len(w) + 1 : k = Len(w) + 1 \/ k \in 1..Len(w)
    BY <1>1
  <2>2. \A k \in 1..Len(w) : x[k].node = w[k].node /\ x[k].node # n
    BY <1>5
  <2>3. x[Len(w) + 1].node = n
    BY <1>3, <1>4
  <2>4. \A k, m \in 1..Len(w) : w[k].node = w[m].node => k = m
    BY DEF PathIs
  <2>. QED  BY <1>8, <2>1, <2>2, <2>3, <2>4
<1>9. ASSUME NEW m \in Nodes, v[m] = 1  PROVE \E i \in 1..Len(w) + 1 : x[i].node = m
  <2>1. CASE m = n
    <3>1. Len(w) + 1 \in 1..Len(w) + 1
      BY <1>1
    <3>. QED  BY <1>3, <1>4, <2>1, <3>1
  <2>2. CASE m # n
    <3>1. PICK i \in 1..Len(w) : w[i].node = m
      BY <1>2, <1>9, <2>2 DEF PathIs
    <3>2. i \in 1..Len(w) + 1
      BY <1>1
    <3>. QED  BY <1>5, <3>1, <3>2
  <2>. QED  BY <2>1, <2>2
<1>10. Len(x) - 1 = Len(w)
  BY <1>1, <1>4
<1>11. PathIs(v, x, preds)
  <2>1. \A i \in 1..Len(x) :
              /\ v[x[i].node] = 1
              /\ x[i].left \subseteq preds[x[i].node]
              /\ \A p \in preds[x[i].node] \ x[i].left :
                    v[p] = 2 \/ (i < Len(x) /\ p = x[i + 1].node)
    BY <1>4, <1>6
  <2>2. \A i \in 1..Len(x) - 1 : x[i + 1].node \in preds[x[i].node]
    BY <1>7, <1>10
  <2>3. \A i, j \in 1..Len(x) : x[i].node = x[j].node => i = j
    BY <1>4, <1>8
  <2>4. \A m \in Nodes : v[m] = 1 => \E i \in 1..Len(x) : x[i].node = m
    BY <1>4, <1>9
  <2>. QED  BY <1>4, <2>1, <2>2, <2>3, <2>4 DEF PathIs
<1>12. Finished(v) = Finished(visited)
  BY <1>1, <1>2 DEF Finished
<1>13. BehindIs(v, preds)
  BY <1>12 DEF BehindIs
<1>. QED  BY <1>11, <1>13 DEF v, f, x

LEMMA SearchFromKeeps ==
    ASSUME SorterInv, NEW n \in Nodes, Ts!SearchFrom(n)  PROVE SorterInv'
<1>1. /\ phase = "searching" /\ path = <<>> /\ visited[n] = 0
      /\ visited' = [visited EXCEPT ![n] = 1]
      /\ path' = Append(path, [node |-> n, left |-> preds[n]])
      /\ added' = added /\ preds' = preds /\ phase' = phase /\ cycle' = cycle
      /\ inDegree' = inDegree
  BY DEF Ts!SearchFrom, Ts!Push, Ts!graph, Ts!work
<1>2. GraphInv /\ PathIs(visited, path, preds) /\ BehindIs(visited, preds)
      /\ path \in Seq(Edges) /\ Len(path) = 0
  BY <1>1, EmptySeq DEF SorterInv, SearchInv
<1>3. \A i \in 1..Len(path) - 1 : path[i] = path[i]
  OBVIOUS
<1>4. ~(Len(path) > 0)
  BY <1>2
<1>5. PathIs(visited', path', preds) /\ BehindIs(visited', preds)
  BY <1>1, <1>2, <1>3, <1>4, PathGrows
<1>6. visited' \in [Nodes -> 0..2]
  BY <1>1 DEF SorterInv, GraphInv
<1>. QED  BY <1>1, <1>5, <1>6 DEF SorterInv, GraphInv, SearchInv, CycleInv, WorkInv

(* The last node of the path, with an edge less.                           *)
LEMMA EdgeFollowed ==
    ASSUME NEW w \in Seq(Edges), w # <<>>, NEW p
    PROVE  LET here == [w EXCEPT ![Len(w)].left = @ \ {p}] IN
           /\ Len(w) \in Nat \ {0} /\ Ts!Last(w) = w[Len(w)] /\ Ts!Last(w) \in Edges
           /\ here \in Seq(Edges) /\ Len(here) = Len(w)
           /\ \A i \in 1..Len(w) - 1 : here[i] = w[i]
           /\ here[Len(w)].node = w[Len(w)].node
           /\ here[Len(w)].left = w[Len(w)].left \ {p}
<1>1. Len(w) \in Nat \ {0} /\ \A i \in 1..Len(w) : w[i] \in Edges
  BY EmptySeq, LenProperties, ElementOfSeq
<1>2. w[Len(w)] \in Edges /\ Len(w) \in 1..Len(w)
  BY <1>1
<1>. DEFINE e == [w[Len(w)] EXCEPT !.left = @ \ {p}]
            here == [w EXCEPT ![Len(w)] = e]
<1>3. e \in Edges /\ e.node = w[Len(w)].node /\ e.left = w[Len(w)].left \ {p}
  BY <1>2 DEF Edges
<1>4. [w EXCEPT ![Len(w)].left = @ \ {p}] = here
  OBVIOUS
<1>. HIDE DEF e
<1>5. /\ here \in Seq(Edges) /\ Len(here) = Len(w) /\ here[Len(w)] = e
      /\ \A i \in 1..Len(w) - 1 : here[i] = w[i]
  <2>1. here \in Seq(Edges) /\ Len(here) = Len(w)
        /\ \A i \in 1..Len(w) : here[i] = IF i = Len(w) THEN e ELSE w[i]
    BY <1>2, <1>3, ExceptSeq
  <2>2. \A i \in 1..Len(w) - 1 : i \in 1..Len(w) /\ i # Len(w)
    BY <1>1
  <2>. HIDE DEF here
  <2>. QED  BY <1>2, <2>1, <2>2
<1>. HIDE DEF here
<1>. QED  BY <1>1, <1>2, <1>3, <1>4, <1>5 DEF Ts!Last

(* An edge to a node the search is done with.                              *)
LEMMA PathStays ==
    ASSUME GraphInv, NEW w \in Seq(Edges), w # <<>>, PathIs(visited, w, preds),
           NEW p \in Nodes, visited[p] = 2, NEW u \in Seq(Edges), Len(u) = Len(w),
           \A i \in 1..Len(w) - 1 : u[i] = w[i],
           u[Len(w)].node = w[Len(w)].node, u[Len(w)].left = w[Len(w)].left \ {p}
    PROVE  PathIs(visited, u, preds)
<1>1. Len(w) \in Nat \ {0}
  BY LenProperties, EmptySeq
<1>2. ASSUME NEW i \in 1..Len(w)
      PROVE  /\ u[i].node = w[i].node /\ u[i].left \subseteq w[i].left
             /\ w[i].left \ {p} \subseteq u[i].left
  <2>1. i \in 1..Len(w) - 1 \/ i = Len(w)
    BY <1>1
  <2>. QED  BY <2>1
<1>3. ASSUME NEW i \in 1..Len(w)
      PROVE  /\ visited[u[i].node] = 1 /\ u[i].left \subseteq preds[u[i].node]
             /\ \A q \in preds[u[i].node] \ u[i].left :
                   visited[q] = 2 \/ (i < Len(w) /\ q = u[i + 1].node)
  <2>1. /\ visited[w[i].node] = 1 /\ w[i].left \subseteq preds[w[i].node]
        /\ \A q \in preds[w[i].node] \ w[i].left :
              visited[q] = 2 \/ (i < Len(w) /\ q = w[i + 1].node)
    BY DEF PathIs
  <2>2. i < Len(w) => u[i + 1].node = w[i + 1].node
    BY <1>1, <1>2
  <2>. QED  BY <1>2, <2>1, <2>2
<1>4. \A i \in 1..Len(w) - 1 : u[i + 1].node \in preds[u[i].node]
  <2>1. \A i \in 1..Len(w) - 1 : i \in 1..Len(w) /\ i + 1 \in 1..Len(w)
    BY <1>1
  <2>. QED  BY <1>2, <2>1 DEF PathIs
<1>. QED  BY <1>2, <1>3, <1>4 DEF PathIs

LEMMA FollowKeeps ==
    ASSUME SorterInv, NEW p \in Nodes, Ts!Follow(p)  PROVE SorterInv'
<1>. DEFINE here == [path EXCEPT ![Len(path)].left = @ \ {p}]
            start == Ts!SelectInSeq(path, LAMBDA f : f.node = p)
<1>1. /\ phase = "searching" /\ path # <<>> /\ p \in Ts!Last(path).left
      /\ added' = added /\ preds' = preds /\ inDegree' = inDegree
  BY DEF Ts!Follow, Ts!graph, Ts!work
<1>2. /\ GraphInv /\ PathIs(visited, path, preds) /\ BehindIs(visited, preds)
      /\ path \in Seq(Edges) /\ WorkInv /\ CycleInv
  BY <1>1 DEF SorterInv, SearchInv, PathIs
<1>3. /\ Len(path) \in Nat \ {0} /\ Ts!Last(path) = path[Len(path)]
      /\ here \in Seq(Edges) /\ Len(here) = Len(path)
      /\ \A i \in 1..Len(path) - 1 : here[i] = path[i]
      /\ here[Len(path)].node = path[Len(path)].node
      /\ here[Len(path)].left = path[Len(path)].left \ {p}
  BY <1>1, <1>2, EdgeFollowed
<1>4. p \in preds[path[Len(path)].node]
  <2>1. Len(path) \in 1..Len(path)
    BY <1>3
  <2>. QED  BY <1>1, <1>2, <1>3, <2>1 DEF PathIs
<1>5. CASE /\ visited[p] = 0
           /\ visited' = [visited EXCEPT ![p] = 1]
           /\ path' = Append(here, [node |-> p, left |-> preds[p]])
           /\ phase' = phase /\ cycle' = cycle
  <2>. HIDE DEF here
  <2>1. PathIs(visited', path', preds) /\ BehindIs(visited', preds)
    BY <1>2, <1>3, <1>4, <1>5, PathGrows
  <2>2. visited' \in [Nodes -> 0..2]
    BY <1>2, <1>5 DEF GraphInv
  <2>. QED  BY <1>1, <1>2, <1>5, <2>1, <2>2
            DEF SorterInv, GraphInv, SearchInv, CycleInv, WorkInv
<1>6. CASE visited[p] = 2 /\ path' = here /\ UNCHANGED <<phase, visited, cycle>>
  <2>. HIDE DEF here
  <2>1. PathIs(visited, here, preds)
    BY <1>1, <1>2, <1>3, <1>6, PathStays
  <2>. QED  BY <1>1, <1>2, <1>6, <2>1 DEF SorterInv, GraphInv, SearchInv, CycleInv, WorkInv
<1>7. CASE /\ visited[p] = 1
           /\ cycle' = [n \in 1..(Len(path) - start + 1) |-> path[start + n - 1].node] \o <<p>>
           /\ phase' = "new" /\ path' = <<>> /\ visited' = visited
  <2>1. start \in 1..Len(path) /\ path[start].node = p
    <3>. DEFINE I == {i \in 1..Len(path) : path[i].node = p}
    <3>1. I # {} /\ I \subseteq Nat
      BY <1>2, <1>7 DEF PathIs
    <3>2. start = Ts!Min(I)
      BY <3>1 DEF Ts!SelectInSeq
    <3>3. PICK c \in I : \A b \in I : ~(b < c)
      <4>. HIDE DEF I
      <4>. QED  BY <3>1, LeastOne
    <3>4. \A b \in I : c =< b
      <4>1. \A b \in I : b \in Nat
        BY <3>1
      <4>. QED  BY <3>3, <4>1
    <3>5. Ts!Min(I) \in I
      <4>. HIDE DEF I
      <4>. QED  BY <3>3, <3>4 DEF Ts!Min
    <3>. HIDE DEF start
    <3>. QED  BY <3>2, <3>5
  <2>. HIDE DEF start, here
  <2>. DEFINE k == Len(path) - start + 1
              c == [n \in 1..k |-> path[start + n - 1].node]
  <2>2. k \in Nat \ {0} /\ start + k - 1 = Len(path) /\ start \in Nat \ {0}
    BY <1>3, <2>1
  <2>3. \A n \in 1..k : start + n - 1 \in 1..Len(path)
    BY <1>3, <2>1, <2>2
  <2>4. \A i \in 1..Len(path) : path[i].node \in Nodes
    <3>1. \A i \in 1..Len(path) : path[i] \in Edges
      BY <1>2, ElementOfSeq
    <3>. QED  BY <3>1 DEF Edges
  <2>. DEFINE j == k
  <2>5. c \in Seq(Nodes) /\ Len(c) = k /\ \A n \in 1..k : c[n] = path[start + n - 1].node
    <3>1. \A n \in 1..k : path[start + n - 1].node \in Nodes
      BY <2>3, <2>4
    <3>. HIDE DEF k
    <3>2. c \in [1..k -> Nodes]
      BY <3>1
    <3>3. c \in Seq(Nodes)
      BY <2>2, <3>2, SeqDef
    <3>4. Len(c) = k
      BY <2>2, <3>2, <3>3, LenProperties
    <3>. QED  BY <3>3, <3>4
  <2>6. cycle' = c \o <<p>>
    BY <1>7
  <2>. HIDE DEF c, k
  <2>7. /\ Len(c \o <<p>>) = k + 1 /\ (c \o <<p>>)[k + 1] = p
        /\ \A n \in 1..k : (c \o <<p>>)[n] = c[n]
    <3>1. <<p>> \in Seq(Nodes) /\ Len(<<p>>) = 1 /\ <<p>>[1] = p
      OBVIOUS
    <3>. DEFINE e == <<p>>
    <3>. HIDE DEF e
    <3>2. /\ Len(c \o e) = Len(c) + Len(e)
          /\ \A n \in 1..Len(c) + Len(e) :
                (c \o e)[n] = IF n <= Len(c) THEN c[n] ELSE e[n - Len(c)]
      BY <2>5, <3>1, ConcatProperties DEF e
    <3>3. Len(e) = 1 /\ e[1] = p
      BY <3>1 DEF e
    <3>4. (c \o e)[k + 1] = e[1]
      BY <2>2, <2>5, <3>2, <3>3
    <3>5. \A n \in 1..k : (c \o e)[n] = c[n]
      BY <2>2, <2>5, <3>2, <3>3
    <3>. QED  BY <2>2, <2>5, <3>2, <3>3, <3>4, <3>5 DEF e
  <2>8. c[1] = p
    BY <2>1, <2>2, <2>5
  <2>9. ASSUME NEW n \in 1..k  PROVE cycle'[n + 1] \in preds[cycle'[n]]
    <3>1. CASE n = k
      BY <1>4, <2>2, <2>5, <2>6, <2>7, <3>1
    <3>2. CASE n # k
      <4>1. n + 1 \in 1..k /\ start + n - 1 \in 1..Len(path) - 1
            /\ start + (n + 1) - 1 = (start + n - 1) + 1
        BY <2>1, <2>2, <3>2
      <4>2. path[(start + n - 1) + 1].node \in preds[path[start + n - 1].node]
        BY <1>2, <4>1 DEF PathIs
      <4>. QED  BY <2>5, <2>6, <2>7, <4>1, <4>2
    <3>. QED  BY <3>1, <3>2
  <2>10. /\ Len(cycle') = k + 1 /\ Ts!Last(cycle') = p /\ cycle'[1] = p
         /\ Len(cycle') > 1 /\ Len(cycle') - 1 = k
    BY <2>2, <2>6, <2>7, <2>8 DEF Ts!Last
  <2>11. CycleIs(cycle', preds)
    BY <2>9, <2>10 DEF CycleIs
  <2>. QED  BY <1>1, <1>2, <1>7, <2>11 DEF SorterInv, GraphInv, SearchInv, CycleInv, WorkInv
<1>. QED  BY <1>5, <1>6, <1>7 DEF Ts!Follow, Ts!Push

(* A node is left when the search is done with all its predecessors.       *)
LEMMA LeaveKeeps ==
    ASSUME SorterInv, Ts!Leave  PROVE SorterInv'
<1>. DEFINE x == Ts!Last(path).node
            last == Len(path)
            w == Ts!Front(path)
<1>1. /\ phase = "searching" /\ path # <<>> /\ Ts!Last(path).left = {}
      /\ visited' = [visited EXCEPT ![x] = 2] /\ path' = w
      /\ added' = added /\ preds' = preds /\ inDegree' = inDegree
      /\ phase' = phase /\ cycle' = cycle
  BY DEF Ts!Leave, Ts!graph, Ts!work
<1>2. /\ GraphInv /\ PathIs(visited, path, preds) /\ BehindIs(visited, preds)
      /\ path \in Seq(Edges) /\ WorkInv /\ CycleInv
  BY <1>1 DEF SorterInv, SearchInv, PathIs
<1>3. /\ last \in Nat \ {0} /\ Ts!Last(path) = path[last]
      /\ \A i \in 1..last : path[i] \in Edges /\ path[i].node \in Nodes
  <2>1. \A i \in 1..last : path[i] \in Edges
    BY <1>2, ElementOfSeq
  <2>. QED  BY <1>1, <1>2, <2>1, EmptySeq, LenProperties DEF Ts!Last, Edges
<1>4. w \in Seq(Edges) /\ Len(w) = last - 1 /\ \A i \in 1..last - 1 : w[i] = path[i]
  <2>. DEFINE n == last - 1
  <2>1. n \in Nat /\ \A i \in 1..n : path[i] \in Edges
    BY <1>3
  <2>. HIDE DEF n
  <2>2. SubSeq(path, 1, n) \in Seq(Edges) /\ Len(SubSeq(path, 1, n)) = n
        /\ \A i \in 1..n : SubSeq(path, 1, n)[i] = path[i]
    BY <2>1, ButLast
  <2>. QED  BY <2>2 DEF n, Ts!Front
<1>5. /\ visited \in [Nodes -> 0..2] /\ preds \in [Nodes -> SUBSET Nodes]
      /\ x \in Nodes /\ x = path[last].node /\ visited[x] = 1
      /\ \A p \in preds[x] : visited[p] = 2 /\ p \in Nodes
  <2>1. last \in 1..last
    BY <1>3
  <2>2. visited \in [Nodes -> 0..2] /\ preds \in [Nodes -> SUBSET Nodes]
    BY <1>2 DEF GraphInv
  <2>. QED  BY <1>1, <1>2, <1>3, <2>1, <2>2 DEF PathIs
<1>6. visited' \in [Nodes -> 0..2] /\ visited'[x] = 2
      /\ \A m \in Nodes : m # x => visited'[m] = visited[m]
  BY <1>1, <1>5
<1>. HIDE DEF w, x
<1>7. PathIs(visited', w, preds)
  <2>0. \A i \in 1..last - 1 : i \in 1..last /\ i + 1 \in 1..last /\ i # last
    BY <1>3
  <2>1. ASSUME NEW i \in 1..last - 1  PROVE w[i].node # x /\ w[i].node \in Nodes
    <3>1. last \in 1..last /\ path[i].node # path[last].node
      BY <1>2, <1>3, <2>0 DEF PathIs
    <3>. QED  BY <1>3, <1>4, <1>5, <2>0, <3>1
  <2>2. ASSUME NEW i \in 1..last - 1
        PROVE  /\ visited'[w[i].node] = 1 /\ w[i].left \subseteq preds[w[i].node]
               /\ \A p \in preds[w[i].node] \ w[i].left :
                     visited'[p] = 2 \/ (i < last - 1 /\ p = w[i + 1].node)
    <3>1. /\ visited[path[i].node] = 1 /\ path[i].left \subseteq preds[path[i].node]
          /\ \A p \in preds[path[i].node] \ path[i].left :
                visited[p] = 2 \/ (i < last /\ p = path[i + 1].node)
      BY <1>2, <2>0 DEF PathIs
    <3>2. ASSUME NEW p \in preds[w[i].node] \ w[i].left
          PROVE  visited'[p] = 2 \/ (i < last - 1 /\ p = w[i + 1].node)
      <4>1. p \in Nodes /\ p \in preds[path[i].node] \ path[i].left
        BY <1>4, <1>5, <2>1
      <4>2. CASE visited[p] = 2
        BY <1>5, <1>6, <4>1, <4>2
      <4>3. CASE p = path[i + 1].node /\ i = last - 1
        BY <1>3, <1>5, <1>6, <4>3
      <4>4. CASE p = path[i + 1].node /\ i # last - 1
        <5>1. i + 1 \in 1..last - 1 /\ i < last - 1
          BY <1>3, <4>4
        <5>. QED  BY <1>4, <4>4, <5>1
      <4>. QED  BY <3>1, <4>1, <4>2, <4>3, <4>4
    <3>. QED  BY <1>4, <1>6, <2>1, <3>1, <3>2
  <2>3. ASSUME NEW i \in 1..last - 1 - 1  PROVE w[i + 1].node \in preds[w[i].node]
    <3>1. i \in 1..last - 1 /\ i + 1 \in 1..last - 1
      BY <1>3
    <3>. QED  BY <1>2, <1>4, <3>1 DEF PathIs
  <2>4. ASSUME NEW i \in 1..last - 1, NEW j \in 1..last - 1, w[i].node = w[j].node
        PROVE  i = j
    BY <1>2, <1>4, <2>0, <2>4 DEF PathIs
  <2>5. ASSUME NEW m \in Nodes, visited'[m] = 1  PROVE \E i \in 1..last - 1 : w[i].node = m
    <3>1. m # x /\ visited[m] = 1
      BY <1>6, <2>5
    <3>2. PICK i \in 1..last : path[i].node = m
      BY <1>2, <3>1 DEF PathIs
    <3>3. i \in 1..last - 1
      BY <1>3, <1>5, <3>1, <3>2
    <3>. QED  BY <1>4, <3>2, <3>3
  <2>. QED  BY <1>4, <2>2, <2>3, <2>4, <2>5 DEF PathIs
<1>8. BehindIs(visited', preds)
  <2>1. Finished(visited') = Finished(visited) \cup {x} /\ x \notin Finished(visited)
    BY <1>5, <1>6 DEF Finished
  <2>2. preds[x] \subseteq Finished(visited)
    BY <1>5 DEF Finished
  <2>3. \A n \in Finished(visited) : preds[n] \subseteq Finished(visited)
    BY <1>2 DEF BehindIs
  <2>4. ASSUME NEW U \in SUBSET Finished(visited'), U # {}
        PROVE  \E n \in U : preds[n] \cap U = {}
    <3>. DEFINE V == U \ {x}
    <3>1. CASE V = {}
      BY <2>1, <2>2, <2>4, <3>1
    <3>2. CASE V # {}
      <4>1. V \in SUBSET Finished(visited)
        BY <2>1, <2>4
      <4>2. PICK n \in V : preds[n] \cap V = {}
        BY <1>2, <3>2, <4>1 DEF BehindIs, Acyclic
      <4>. QED  BY <2>1, <2>3, <4>1, <4>2
    <3>. QED  BY <3>1, <3>2
  <2>. QED  BY <2>1, <2>2, <2>3, <2>4 DEF BehindIs, Acyclic
<1>. QED  BY <1>1, <1>2, <1>6, <1>7, <1>8
          DEF SorterInv, GraphInv, SearchInv, CycleInv, WorkInv

(* The search has seen all there is: nothing is on a cycle.                *)
LEMMA PreparedKeeps ==
    ASSUME SorterInv, Ts!Prepared  PROVE SorterInv'
<1>1. /\ phase = "searching" /\ path = <<>> /\ \A n \in added : visited[n] # 0
      /\ phase' = "prepared" /\ inDegree' = [n \in Nodes |-> Ts!Cardinality(preds[n])]
      /\ ready' = {n \in added : preds[n] = {}} /\ outReady' = {} /\ nDone' = 0
      /\ finished' = {}
      /\ added' = added /\ preds' = preds /\ visited' = visited /\ path' = path
      /\ cycle' = cycle
  BY DEF Ts!Prepared, Ts!graph, Ts!search
<1>2. /\ GraphInv /\ PathIs(visited, path, preds) /\ BehindIs(visited, preds) /\ CycleInv
  BY <1>1 DEF SorterInv, SearchInv
<1>3. /\ visited \in [Nodes -> 0..2] /\ preds \in [Nodes -> SUBSET added]
      /\ added \subseteq Nodes
  BY <1>2 DEF GraphInv
<1>4. added \subseteq Finished(visited)
  <2>1. ASSUME NEW n \in added  PROVE visited[n] = 2
    <3>1. Len(path) = 0
      BY <1>1, EmptySeq
    <3>2. visited[n] # 1
      BY <1>2, <1>3, <3>1 DEF PathIs
    <3>. QED  BY <1>1, <1>3, <3>2
  <2>. QED  BY <1>3, <2>1 DEF Finished
<1>5. Acyclic(added, preds)
  BY <1>2, <1>4 DEF BehindIs, Acyclic
<1>6. ASSUME NEW n \in Nodes
      PROVE  inDegree'[n] = Cardinality(preds[n] \ {}) /\ inDegree'[n] \in Nat
  <2>1. preds[n] \in SUBSET Nodes /\ preds[n] \ {} = preds[n]
    BY <1>3
  <2>. QED  BY <1>1, <2>1, NodesAreFinite
<1>7. inDegree' \in [Nodes -> Nat]
  BY <1>1, <1>6
<1>8. WorkIs(inDegree', ready', {}, 0, {})
  <2>1. Cardinality({}) = 0
    BY FS_EmptySet
  <2>. QED  BY <1>1, <1>6, <2>1 DEF WorkIs
<1>9. WorkIs(inDegree, ready, outReady, nDone, finished)'
  BY <1>1, <1>8 DEF WorkIs
<1>. QED  BY <1>1, <1>2, <1>5, <1>7, <1>9 DEF SorterInv, GraphInv, SearchInv, CycleInv, WorkInv

LEMMA GetReadyKeeps ==
    ASSUME SorterInv, Ts!GetReady  PROVE SorterInv'
<1>1. /\ phase \in {"prepared", "active"} /\ phase' = "active" /\ ready' = {}
      /\ outReady' = outReady \cup ready /\ inDegree' = inDegree /\ nDone' = nDone
      /\ finished' = finished
      /\ added' = added /\ preds' = preds /\ visited' = visited /\ path' = path
      /\ cycle' = cycle
  BY DEF Ts!GetReady, Ts!graph, Ts!search
<1>2. WorkIs(inDegree, ready, outReady, nDone, finished)
  BY <1>1 DEF SorterInv, WorkInv
<1>3. WorkIs(inDegree, ready, outReady, nDone, finished)'
  BY <1>1, <1>2 DEF WorkIs
<1>. QED  BY <1>1, <1>3 DEF SorterInv, GraphInv, SearchInv, CycleInv, WorkInv

(* done() accepts a first part of its batch: nodes handed out, each once.  *)
LEMMA AcceptedIs ==
    ASSUME NEW k \in Nat, NEW batch \in [1..k -> Nodes \cup {Stranger}], outReady \subseteq Nodes
    PROVE  LET n == Ts!Accepted(batch)
               D == Ts!ToSet(SubSeq(batch, 1, n)) IN
           /\ n \in 0..Len(batch) /\ Len(batch) = k
           /\ D \subseteq outReady /\ Cardinality(D) = n
<1>. DEFINE T == {j \in 0..k : j < k => \/ batch[j + 1] \notin outReady
                                        \/ \E m \in 1..j : batch[m] = batch[j + 1]}
            Given == Nodes \cup {Stranger}
<1>1. batch \in Seq(Given) /\ Len(batch) = k
  <2>1. batch \in Seq(Given)
    BY SeqDef
  <2>. QED  BY <2>1, LenProperties
<1>2. k \in T /\ T \subseteq Nat
  OBVIOUS
<1>3. PICK j \in T : \A b \in T : ~(b < j)
  <2>. HIDE DEF T
  <2>. QED  BY <1>2, LeastOne
<1>4. ASSUME NEW i \in 0..j - 1
      PROVE  batch[i + 1] \in outReady /\ \A m \in 1..i : batch[m] # batch[i + 1]
  <2>1. i \in 0..k /\ i < j /\ i < k
    BY <1>3
  <2>2. i \notin T
    <3>. HIDE DEF T
    <3>. QED  BY <1>3, <2>1
  <2>. QED  BY <2>1, <2>2
<1>5. ASSUME NEW m \in 1..j  PROVE batch[m] \in outReady
  <2>1. m - 1 \in 0..j - 1 /\ m - 1 + 1 = m
    BY <1>3
  <2>. QED  BY <1>4, <2>1
<1>6. ASSUME NEW a \in 1..j, NEW b \in 1..j, a < b  PROVE batch[a] # batch[b]
  <2>1. b - 1 \in 0..j - 1 /\ a \in 1..b - 1 /\ b - 1 + 1 = b
    BY <1>3, <1>6
  <2>. QED  BY <1>4, <2>1
<1>7. ASSUME NEW n \in 0..k
      PROVE  /\ SubSeq(batch, 1, n) \in Seq(Given) /\ DOMAIN SubSeq(batch, 1, n) = 1..n
             /\ \A i \in 1..n : SubSeq(batch, 1, n)[i] = batch[i]
  <2>1. n \in Nat /\ \A i \in 1..n : batch[i] \in Given
    BY <1>7
  <2>2. /\ SubSeq(batch, 1, n) \in Seq(Given) /\ Len(SubSeq(batch, 1, n)) = n
        /\ \A i \in 1..n : SubSeq(batch, 1, n)[i] = batch[i]
    BY <2>1, ButLast
  <2>. QED  BY <2>2, LenProperties
<1>. DEFINE Ok(n) == /\ \A m \in 1..n : batch[m] \in outReady
                     /\ Ts!IsInjective(SubSeq(batch, 1, n))
                     /\ n < Len(batch) => \/ batch[n + 1] \notin outReady
                                          \/ \E m \in 1..n : batch[m] = batch[n + 1]
            n == Ts!Accepted(batch)
<1>8. Ok(j) /\ j \in 0..Len(batch)
  <2>1. Ts!IsInjective(SubSeq(batch, 1, j))
    <3>1. ASSUME NEW a \in 1..j, NEW b \in 1..j, batch[a] = batch[b]  PROVE a = b
      BY <1>3, <1>6, <3>1
    <3>. QED  BY <1>3, <1>7, <3>1 DEF Ts!IsInjective
  <2>. QED  BY <1>1, <1>3, <1>5, <2>1
<1>9. n \in 0..Len(batch) /\ Ok(n)
  <2>1. n = CHOOSE i \in 0..Len(batch) : Ok(i)
    BY DEF Ts!Accepted
  <2>. HIDE DEF Ok, n
  <2>. QED  BY <1>8, <2>1
<1>. HIDE DEF n
<1>. DEFINE s == SubSeq(batch, 1, n)
            D == Ts!ToSet(s)
<1>10. s \in Seq(Given) /\ DOMAIN s = 1..n /\ \A i \in 1..n : s[i] = batch[i]
  BY <1>1, <1>7, <1>9
<1>11. Ts!IsInjective(s)
  BY <1>9
<1>. HIDE DEF s
<1>12. D = {s[i] : i \in 1..n}
  BY <1>10 DEF Ts!ToSet
<1>13. D \subseteq outReady
  BY <1>9, <1>10, <1>12
<1>14. Cardinality(D) = n
  <2>. DEFINE f == [i \in 1..n |-> s[i]]
  <2>1. f \in Bijection(1..n, D)
    BY <1>10, <1>11, <1>12 DEF Ts!IsInjective, Bijection, Injection, Surjection, IsInjective
  <2>2. ExistsBijection(1..n, D)
    BY <2>1 DEF ExistsBijection
  <2>3. n \in Nat
    BY <1>1, <1>9
  <2>. QED  BY <2>2, <2>3, FS_CountingElements
<1>. QED  BY <1>1, <1>9, <1>13, <1>14 DEF s, n

LEMMA SetLess ==
    ASSUME NEW S, IsFiniteSet(S), NEW E \in SUBSET S
    PROVE  /\ Cardinality(S \ E) = Cardinality(S) - Cardinality(E)
           /\ Cardinality(S) \in Nat /\ Cardinality(E) \in Nat /\ Cardinality(S \ E) \in Nat
<1>1. IsFiniteSet(E) /\ IsFiniteSet(S \ E)
  BY FS_Subset
<1>2. /\ Cardinality((S \ E) \cup E)
            = Cardinality(S \ E) + Cardinality(E) - Cardinality((S \ E) \cap E)
  BY <1>1, FS_Union
<1>3. (S \ E) \cup E = S /\ (S \ E) \cap E = {}
  OBVIOUS
<1>4. Cardinality(S) \in Nat /\ Cardinality(E) \in Nat /\ Cardinality(S \ E) \in Nat
  BY <1>1, FS_CardinalityType
<1>5. Cardinality({}) = 0
  BY FS_EmptySet
<1>6. Cardinality(S) = Cardinality(S \ E) + Cardinality(E) - 0
  BY <1>2, <1>3, <1>5
<1>. QED  BY <1>4, <1>6

LEMMA DoneKeeps ==
    ASSUME SorterInv, NEW batch \in Ts!Batches, Ts!Done(batch)  PROVE SorterInv'
<1>. DEFINE k == Ts!Accepted(batch)
            D == Ts!ToSet(SubSeq(batch, 1, k))
            degree == [n \in Nodes |-> inDegree[n] - Ts!Cardinality(preds[n] \cap D)]
            now2 == IF k = Len(batch) THEN nDone + k ELSE nDone
            more == {n \in added : preds[n] \cap D # {} /\ degree[n] = 0}
<1>1. /\ phase = "active" /\ outReady' = outReady \ D /\ finished' = finished \cup D
      /\ inDegree' = degree /\ ready' = ready \cup more
      /\ nDone' = IF k = Len(batch) THEN nDone + k ELSE nDone
      /\ added' = added /\ preds' = preds /\ visited' = visited /\ path' = path
      /\ cycle' = cycle /\ phase' = phase
  BY DEF Ts!Done, Ts!graph, Ts!search
<1>2. /\ GraphInv /\ WorkIs(inDegree, ready, outReady, nDone, finished)
      /\ inDegree \in [Nodes -> Nat]
  BY <1>1 DEF SorterInv, WorkInv
<1>3. /\ preds \in [Nodes -> SUBSET added] /\ added \subseteq Nodes
      /\ ready \subseteq added /\ outReady \subseteq added /\ finished \subseteq added
      /\ \A m \in Nodes : inDegree[m] = Cardinality(preds[m] \ finished)
      /\ \A m \in added : preds[m] \subseteq finished <=> m \in ready \cup outReady \cup finished
      /\ ready \cap outReady = {} /\ finished \cap (ready \cup outReady) = {}
      /\ nDone \in Nat /\ nDone <= Cardinality(finished)
  BY <1>2 DEF GraphInv, WorkIs
<1>4. k \in Nat /\ D \subseteq outReady /\ Cardinality(D) = k
  <2>1. PICK b \in 1..MaxBatch : batch \in [1..b -> Nodes \cup {Stranger}]
    BY DEF Ts!Batches
  <2>2. MaxBatch \in Nat
    BY SorterAssumption DEF Ts!SorterConstants
  <2>3. b \in Nat /\ outReady \subseteq Nodes
    BY <1>3, <2>2
  <2>4. k \in 0..Len(batch) /\ Len(batch) = b /\ D \subseteq outReady /\ Cardinality(D) = k
    BY <2>1, <2>3, AcceptedIs
  <2>. QED  BY <2>3, <2>4
<1>. HIDE DEF k, D
<1>5. ASSUME NEW m \in Nodes
      PROVE  /\ degree[m] = Cardinality(preds[m] \ (finished \cup D)) /\ degree[m] \in Nat
             /\ degree[m] = 0 <=> preds[m] \subseteq finished \cup D
  <2>1. /\ preds[m] \ finished \in SUBSET Nodes
        /\ preds[m] \cap D \in SUBSET (preds[m] \ finished)
        /\ preds[m] \ (finished \cup D) \in SUBSET Nodes
    BY <1>3, <1>4
  <2>2. IsFiniteSet(preds[m] \ finished) /\ IsFiniteSet(preds[m] \ (finished \cup D))
        /\ Ts!Cardinality(preds[m] \cap D) = Cardinality(preds[m] \cap D)
    BY <2>1, NodesAreFinite
  <2>3. (preds[m] \ finished) \ (preds[m] \cap D) = preds[m] \ (finished \cup D)
    OBVIOUS
  <2>4. /\ Cardinality(preds[m] \ (finished \cup D))
              = Cardinality(preds[m] \ finished) - Cardinality(preds[m] \cap D)
        /\ Cardinality(preds[m] \ (finished \cup D)) \in Nat
    BY <2>1, <2>2, <2>3, SetLess
  <2>5. Cardinality(preds[m] \ (finished \cup D)) = 0 <=> preds[m] \ (finished \cup D) = {}
    BY <2>2, FS_EmptySet
  <2>6. degree[m] = inDegree[m] - Cardinality(preds[m] \cap D)
    BY <2>2
  <2>7. degree[m] = Cardinality(preds[m] \ (finished \cup D))
    BY <1>3, <2>4, <2>6
  <2>. HIDE DEF degree
  <2>. QED  BY <2>4, <2>5, <2>7
<1>6. degree \in [Nodes -> Nat]
  <2>1. \A m \in Nodes : inDegree[m] - Ts!Cardinality(preds[m] \cap D) \in Nat
    BY <1>5
  <2>. QED  BY <2>1
<1>. HIDE DEF degree
<1>7. more = {n \in added : preds[n] \cap D # {} /\ preds[n] \subseteq finished \cup D}
  BY <1>3, <1>5
<1>. HIDE DEF more
<1>8. ASSUME NEW m \in added
      PROVE  preds[m] \subseteq finished \cup D
                <=> m \in (ready \cup more) \cup (outReady \ D) \cup (finished \cup D)
  <2>1. CASE preds[m] \cap D = {}
    BY <1>3, <1>4, <1>7, <2>1
  <2>2. CASE preds[m] \cap D # {}
    <3>1. ~(preds[m] \subseteq finished)
      BY <1>3, <1>4, <2>2
    <3>2. m \notin ready \cup outReady \cup finished \cup D
      BY <1>3, <1>4, <3>1
    <3>. QED  BY <1>7, <2>2, <3>2
  <2>. QED  BY <2>1, <2>2
<1>9. ASSUME NEW m \in more  PROVE m \notin ready \cup outReady \cup finished \cup D
  <2>1. ~(preds[m] \subseteq finished) /\ m \in added
    BY <1>3, <1>4, <1>7
  <2>. QED  BY <1>3, <1>4, <2>1
<1>10. /\ (ready \cup more) \cap (outReady \ D) = {}
       /\ (finished \cup D) \cap ((ready \cup more) \cup (outReady \ D)) = {}
  BY <1>3, <1>4, <1>9
<1>11. nDone' \in Nat /\ nDone' <= Cardinality(finished \cup D)
  <2>1. finished \in SUBSET Nodes /\ D \in SUBSET Nodes /\ finished \cap D = {}
    BY <1>3, <1>4
  <2>2. IsFiniteSet(finished) /\ IsFiniteSet(D) /\ Cardinality(finished) \in Nat
    BY <2>1, NodesAreFinite
  <2>3. Cardinality(finished \cup D)
           = Cardinality(finished) + Cardinality(D) - Cardinality(finished \cap D)
    BY <2>2, FS_Union
  <2>4. Cardinality({}) = 0
    BY FS_EmptySet
  <2>5. Cardinality(finished \cap D) = 0 /\ Cardinality(D) = k
    BY <1>4, <2>1, <2>4
  <2>6. Cardinality(finished \cup D) = Cardinality(finished) + k
    BY <1>4, <2>2, <2>3, <2>5
  <2>. QED  BY <1>1, <1>3, <1>4, <2>2, <2>6
<1>12. /\ ready \cup more \subseteq added /\ outReady \ D \subseteq added
       /\ finished \cup D \subseteq added
  BY <1>3, <1>4, <1>7
<1>13. WorkIs(degree, ready \cup more, outReady \ D, nDone', finished \cup D)
  BY <1>5, <1>8, <1>10, <1>11, <1>12 DEF WorkIs
<1>14. WorkIs(inDegree, ready, outReady, nDone, finished)'
  BY <1>1, <1>13 DEF WorkIs
<1>. QED  BY <1>1, <1>6, <1>14 DEF SorterInv, GraphInv, SearchInv, CycleInv, WorkInv

-----------------------------------------------------------------------------

LEMMA SorterKept == ASSUME SorterInv, Ts!Next  PROVE SorterInv'
BY AddNodeKeeps, PrepareKeeps, SearchFromKeeps, FollowKeeps, LeaveKeeps, PreparedKeeps,
   GetReadyKeeps, DoneKeeps DEF Ts!Next

LEMMA SorterInvariant == RuntimeSpec => []SorterInv
<1>1. Create => SorterInv
  BY SorterCreated DEF Create
<1>2. SorterInv /\ [Step]_runtime => SorterInv'
  <2> SUFFICES ASSUME SorterInv, [Step]_runtime  PROVE SorterInv'
    OBVIOUS
  <2>1. CASE Ts!Next
    BY <2>1, SorterKept
  <2>2. CASE UNCHANGED sorter
    BY <2>2 DEF sorter, SorterInv, GraphInv, SearchInv, CycleInv, WorkInv, WorkIs
  <2>. QED  BY <2>1, <2>2 DEF Step, runtime
<1>. QED  BY <1>1, <1>2, PTL DEF RuntimeSpec

(* If nothing can be handed out and nothing is being worked on, no node is *)
(* left: the first of those that remain would be ready.                    *)
LEMMA NoneIsLeft ==
    ASSUME SorterInv, phase \in {"prepared", "active"}, ~Ts!IsActive
    PROVE  finished = added
<1>1. /\ WorkIs(inDegree, ready, outReady, nDone, finished) /\ Acyclic(added, preds)
      /\ preds \in [Nodes -> SUBSET added] /\ added \subseteq Nodes
  BY DEF SorterInv, WorkInv, SearchInv, GraphInv
<1>2. finished \subseteq added
  BY <1>1 DEF WorkIs
<1>3. CASE ~(nDone < Ts!Cardinality(added))
  <2>1. added \in SUBSET Nodes /\ finished \in SUBSET Nodes
    BY <1>1, <1>2
  <2>2. /\ IsFiniteSet(added) /\ Cardinality(added) \in Nat /\ Cardinality(finished) \in Nat
        /\ Ts!Cardinality(added) = Cardinality(added)
    BY <2>1, NodesAreFinite
  <2>3. nDone \in Nat /\ nDone <= Cardinality(finished)
    BY <1>1 DEF WorkIs
  <2>4. Cardinality(finished) <= Cardinality(added)
        /\ (Cardinality(added) = Cardinality(finished) => added = finished)
    BY <1>2, <2>2, FS_Subset
  <2>. QED  BY <1>3, <2>2, <2>3, <2>4
<1>4. CASE ready = {} /\ outReady = {}
  <2>. DEFINE U == added \ finished
  <2>1. SUFFICES ASSUME U # {}  PROVE FALSE
    BY <1>2
  <2>2. PICK n \in U : preds[n] \cap U = {}
    BY <1>1, <2>1 DEF Acyclic
  <2>3. preds[n] \subseteq finished
    BY <1>1, <2>2
  <2>. QED  BY <1>1, <1>4, <2>2, <2>3 DEF WorkIs
<1>. QED  BY <1>3, <1>4 DEF Ts!IsActive

(* A node is handed out after its predecessors, and once; the loop over    *)
(* is_active() leaves none out; a CycleError names a cycle: whatever the   *)
(* graph and the batches given to done() (vm/stdlib_graphlib.go).          *)
THEOREM NodesGoInOrder == RuntimeSpec => []SorterKeepsOrder
<1>1. SorterInv => SorterKeepsOrder
  <2> SUFFICES ASSUME SorterInv  PROVE Ts!SorterKeepsOrder
    BY DEF SorterKeepsOrder
  <2>1. ASSUME phase \in {"prepared", "active"}
        PROVE  /\ \A n \in ready \cup outReady \cup finished : preds[n] \subseteq finished
               /\ ready \cap outReady = {} /\ finished \cap (ready \cup outReady) = {}
               /\ ~Ts!IsActive => finished = added
    BY <2>1, NoneIsLeft DEF SorterInv, WorkInv, WorkIs
  <2>2. ASSUME cycle # <<>>  PROVE CycleIs(cycle, preds)
    BY <2>2 DEF SorterInv, CycleInv
  <2>. QED  BY <2>1, <2>2 DEF Ts!SorterKeepsOrder, CycleIs
<1>. QED  BY <1>1, SorterInvariant, PTL

-----------------------------------------------------------------------------
(* lru_cache *)

(* u comes before v in s.                                                  *)
Before(s, u, v) == \E i, j \in DOMAIN s : i < j /\ s[i] = u /\ s[j] = v

(* What moving a key to the end does to a sequence that has it.            *)
LEMMA PutLast ==
    ASSUME NEW S, NEW s \in Seq(S), NEW n \in 1..Len(s),
           NEW t, t = Append(RemoveAt(s, n), s[n])
    PROVE  /\ t \in Seq(S) /\ Len(t) = Len(s)
           /\ \A v : Has(t, v) <=> Has(s, v)
           /\ Distinct(s) =>
                /\ Distinct(t)
                /\ \A u, v : Before(t, u, v) <=>
                      u # s[n] /\ IF v = s[n] THEN Has(s, u) ELSE Before(s, u, v)
<1>0. PICK len \in Nat : len = Len(s)
  BY LenProperties
<1>1. /\ DOMAIN s = 1..len /\ n \in 1..len /\ \A i \in 1..len : s[i] \in S
  BY <1>0, LenProperties, ElementOfSeq
<1>. DEFINE r == RemoveAt(s, n)
<1>2. /\ r \in Seq(S) /\ Len(r) = len - 1
      /\ \A i \in 1..len - 1 : r[i] = IF i < n THEN s[i] ELSE s[i + 1]
  BY <1>0, TakenAway
<1>. HIDE DEF r
<1>3. /\ t \in Seq(S) /\ Len(t) = Len(r) + 1
      /\ \A i \in 1..Len(r) : t[i] = r[i]
      /\ t[Len(r) + 1] = s[n]
  BY <1>1, <1>2, AppendProperties DEF r
<1>30. Len(r) + 1 = len
  BY <1>0, <1>2
<1>4. /\ Len(t) = len /\ DOMAIN t = 1..len /\ t[len] = s[n]
      /\ \A i \in 1..len - 1 : t[i] = IF i < n THEN s[i] ELSE s[i + 1]
  BY <1>2, <1>3, <1>30, LenProperties
<1>5. ASSUME NEW v  PROVE Has(t, v) <=> Has(s, v)
  <2>1. ASSUME Has(t, v)  PROVE Has(s, v)
    <3>1. PICK i \in 1..len : t[i] = v
      BY <1>4, <2>1 DEF Has
    <3>2. CASE i = len
      BY <1>1, <1>4, <3>1, <3>2 DEF Has
    <3>3. CASE i # len
      <4>1. i \in 1..len - 1 /\ i + 1 \in 1..len
        BY <1>0, <3>3
      <4>2. v = IF i < n THEN s[i] ELSE s[i + 1]
        BY <1>4, <3>1, <4>1
      <4>. QED  BY <1>1, <4>1, <4>2 DEF Has
    <3>. QED  BY <3>2, <3>3
  <2>2. ASSUME Has(s, v)  PROVE Has(t, v)
    <3>1. PICK i \in 1..len : s[i] = v
      BY <1>1, <2>2 DEF Has
    <3>2. CASE i = n
      BY <1>1, <1>4, <3>1, <3>2 DEF Has
    <3>3. CASE i < n
      BY <1>1, <1>4, <3>1, <3>3 DEF Has
    <3>4. CASE i > n
      <4>1. i - 1 \in 1..len - 1 /\ ~(i - 1 < n) /\ i - 1 + 1 = i /\ i - 1 \in 1..len
        BY <1>1, <3>4
      <4>2. t[i - 1] = v
        BY <1>4, <3>1, <4>1
      <4>. QED  BY <1>4, <4>1, <4>2 DEF Has
    <3>. QED  BY <3>2, <3>3, <3>4
  <2>. QED  BY <2>1, <2>2
<1>6. ASSUME Distinct(s)  PROVE Distinct(t)
  <2>1. \A i, j \in 1..len : s[i] = s[j] => i = j
    BY <1>1, <1>6 DEF Distinct
  <2>2. ASSUME NEW i \in 1..len, NEW j \in 1..len, t[i] = t[j], i < j  PROVE FALSE
    <3>1. i \in 1..len - 1
      BY <1>1, <2>2
    <3>2. CASE j = len
      BY <1>1, <1>4, <2>1, <2>2, <3>1, <3>2
    <3>3. CASE j # len
      <4>1. j \in 1..len - 1
        BY <1>1, <3>3
      <4>. QED  BY <1>1, <1>4, <2>1, <2>2, <3>1, <4>1
    <3>. QED  BY <3>2, <3>3
  <2>. QED  BY <1>1, <1>4, <2>2 DEF Distinct
<1>7. ASSUME Distinct(s), NEW u, NEW v
      PROVE  Before(t, u, v) <=>
                u # s[n] /\ IF v = s[n] THEN Has(s, u) ELSE Before(s, u, v)
  <2>1. \A i, j \in 1..len : s[i] = s[j] => i = j
    BY <1>1, <1>7 DEF Distinct
  <2>2. ASSUME Before(t, u, v)
        PROVE  u # s[n] /\ IF v = s[n] THEN Has(s, u) ELSE Before(s, u, v)
    <3>1. PICK i \in 1..len, j \in 1..len : i < j /\ t[i] = u /\ t[j] = v
      BY <1>4, <2>2 DEF Before
    <3>2. i \in 1..len - 1 /\ u = IF i < n THEN s[i] ELSE s[i + 1]
      BY <1>1, <1>4, <3>1
    <3>3. u # s[n]
      BY <1>1, <2>1, <3>2
    <3>4. CASE v = s[n]
      BY <1>5, <1>4, <3>1, <3>3, <3>4 DEF Has
    <3>5. CASE v # s[n]
      <4>1. j \in 1..len - 1 /\ v = IF j < n THEN s[j] ELSE s[j + 1]
        BY <1>1, <1>4, <3>1, <3>5
      <4>. DEFINE a == IF i < n THEN i ELSE i + 1
                  b == IF j < n THEN j ELSE j + 1
      <4>2. a \in 1..len /\ b \in 1..len /\ a < b
        BY <1>1, <3>1, <3>2, <4>1
      <4>3. s[a] = u /\ s[b] = v
        BY <3>2, <4>1
      <4>4. Before(s, u, v)
        BY <1>1, <4>2, <4>3 DEF Before
      <4>. QED  BY <3>3, <3>5, <4>4
    <3>. QED  BY <3>4, <3>5
  <2>3. ASSUME u # s[n], v = s[n], Has(s, u)  PROVE Before(t, u, v)
    <3>1. PICK i \in 1..len : t[i] = u
      BY <1>4, <1>5, <2>3 DEF Has
    <3>2. i < len /\ len \in 1..len
      BY <1>1, <1>4, <2>3, <3>1
    <3>. QED  BY <1>4, <2>3, <3>1, <3>2 DEF Before
  <2>4. ASSUME u # s[n], v # s[n], Before(s, u, v)  PROVE Before(t, u, v)
    <3>1. PICK i \in 1..len, j \in 1..len : i < j /\ s[i] = u /\ s[j] = v
      BY <1>1, <2>4 DEF Before
    <3>. DEFINE a == IF i < n THEN i ELSE i - 1
                b == IF j < n THEN j ELSE j - 1
    <3>2. i # n /\ j # n
      BY <2>4, <3>1
    <3>3. a \in 1..len - 1 /\ b \in 1..len - 1 /\ a < b
      BY <1>1, <3>1, <3>2
    <3>4. (IF a < n THEN a ELSE a + 1) = i /\ (IF b < n THEN b ELSE b + 1) = j
      BY <1>1, <3>2
    <3>5. t[a] = u /\ t[b] = v
      BY <1>4, <3>1, <3>3, <3>4
    <3>. HIDE DEF a, b
    <3>6. a \in 1..len /\ b \in 1..len
      BY <1>1, <3>3
    <3>. QED  BY <1>4, <3>3, <3>5, <3>6 DEF Before
  <2>. QED  BY <2>2, <2>3, <2>4
<1>. QED  BY <1>0, <1>3, <1>4, <1>5, <1>6, <1>7

(* A sequence with a new element behind all others.                        *)
LEMMA AddLast ==
    ASSUME NEW S, NEW s \in Seq(S), NEW k \in S, ~Has(s, k), Distinct(s)
    PROVE  \A u, v : Before(Append(s, k), u, v) <=>
              u # k /\ IF v = k THEN Has(s, u) ELSE Before(s, u, v)
<1>. DEFINE t == Append(s, k)
<1>1. /\ Len(s) \in Nat /\ DOMAIN s = 1..Len(s)
      /\ DOMAIN t = 1..Len(s) + 1 /\ t[Len(s) + 1] = k
      /\ \A i \in 1..Len(s) : t[i] = s[i]
  BY LenProperties, AppendProperties
<1>. HIDE DEF t
<1>2. \A i \in 1..Len(s) : s[i] # k
  BY <1>1 DEF Has
<1>3. ASSUME NEW u, NEW v, Before(t, u, v)
      PROVE  u # k /\ IF v = k THEN Has(s, u) ELSE Before(s, u, v)
  <2>1. PICK i \in 1..Len(s) + 1, j \in 1..Len(s) + 1 : i < j /\ t[i] = u /\ t[j] = v
    BY <1>1, <1>3 DEF Before
  <2>2. i \in 1..Len(s) /\ s[i] = u /\ u # k
    BY <1>1, <1>2, <2>1
  <2>3. CASE j = Len(s) + 1
    BY <1>1, <2>1, <2>2, <2>3 DEF Has
  <2>4. CASE j # Len(s) + 1
    <3>1. j \in 1..Len(s) /\ s[j] = v /\ v # k
      BY <1>1, <1>2, <2>1, <2>4
    <3>. QED  BY <1>1, <2>1, <2>2, <3>1 DEF Before
  <2>. QED  BY <2>3, <2>4
<1>4. ASSUME NEW u, NEW v, u # k, v = k, Has(s, u)  PROVE Before(t, u, v)
  <2>1. PICK i \in 1..Len(s) : s[i] = u
    BY <1>1, <1>4 DEF Has
  <2>2. i \in 1..Len(s) + 1 /\ Len(s) + 1 \in 1..Len(s) + 1 /\ i < Len(s) + 1
    BY <1>1
  <2>. QED  BY <1>1, <1>4, <2>1, <2>2 DEF Before
<1>5. ASSUME NEW u, NEW v, Before(s, u, v)  PROVE Before(t, u, v)
  <2>1. PICK i \in 1..Len(s), j \in 1..Len(s) : i < j /\ s[i] = u /\ s[j] = v
    BY <1>1, <1>5 DEF Before
  <2>2. i \in 1..Len(s) + 1 /\ j \in 1..Len(s) + 1
    BY <1>1
  <2>. QED  BY <1>1, <2>1, <2>2 DEF Before
<1>. QED  BY <1>3, <1>4, <1>5 DEF t

(* A sequence without its head.                                            *)
LEMMA BehindHead ==
    ASSUME NEW S, NEW s \in Seq(S), s # <<>>, NEW u, NEW v, Before(Tail(s), u, v)
    PROVE  Before(s, u, v)
<1>0. PICK len \in Nat : len = Len(s)
  BY LenProperties
<1>1. /\ DOMAIN s = 1..len /\ DOMAIN Tail(s) = 1..len - 1
      /\ \A i \in 1..len - 1 : Tail(s)[i] = s[i + 1]
  BY <1>0, LenProperties, HeadTailProperties
<1>2. PICK i \in 1..len - 1, j \in 1..len - 1 :
         i < j /\ Tail(s)[i] = u /\ Tail(s)[j] = v
  BY <1>1 DEF Before
<1>3. i + 1 \in 1..len /\ j + 1 \in 1..len /\ i + 1 < j + 1
  BY <1>0, <1>2
<1>4. s[i + 1] = u /\ s[j + 1] = v
  BY <1>1, <1>2
<1>. QED  BY <1>1, <1>3, <1>4 DEF Before

LruTypes ==
    /\ maxsize \in Nat /\ recent \in Seq(Arguments) /\ used \in Seq(Arguments)
    /\ calls \in Seq(Arguments) /\ cached \in SUBSET Arguments

(* The slice has its size and whatever is cached.  As long as nothing is   *)
(* tangled it has each key once, nothing else, and in the order of use.    *)
LruInv ==
    /\ LruTypes
    /\ maxsize > 0 => Len(recent) <= maxsize
    /\ Distinct(used) /\ \A k : Has(recent, k) => Has(used, k)
    /\ \A k \in cached : Has(recent, k)
    /\ ~tangled =>
          /\ Distinct(recent)
          /\ \A k : Has(recent, k) => k \in cached
          /\ \A u, v : Before(recent, u, v) => Before(used, u, v)

(* The invariant after a step, with each operator at what the step leaves. *)
LEMMA LruNext ==
    ASSUME LruTypes', maxsize' > 0 => Len(recent') <= maxsize',
           Distinct(used'), \A k : Has(recent', k) => Has(used', k),
           \A k \in cached' : Has(recent', k),
           ~tangled' =>
              /\ Distinct(recent')
              /\ \A k : Has(recent', k) => k \in cached'
              /\ \A u, v : Before(recent', u, v) => Before(used', u, v)
    PROVE  LruInv'
<1>. HIDE DEF LruTypes
<1>. QED  BY DEF LruInv, Distinct, Has, Before

(* MoveToEnd, whether or not the key is there.                             *)
LEMMA Moved ==
    ASSUME NEW s \in Seq(Arguments), NEW k \in Arguments, NEW t, t = Lr!MoveToEnd(s, k)
    PROVE  /\ t \in Seq(Arguments)
           /\ Has(s, k) => Len(t) = Len(s)
           /\ \A v : Has(t, v) <=> Has(s, v) \/ v = k
           /\ Distinct(s) =>
                /\ Distinct(t)
                /\ \A u, v : Before(t, u, v) <=>
                      u # k /\ IF v = k THEN Has(s, u) ELSE Before(s, u, v)
<1>1. DOMAIN s = 1..Len(s) /\ Len(s) \in Nat
  BY LenProperties
<1>2. Lr!Contains(s, k) <=> Has(s, k)
  BY <1>1 DEF Lr!Contains, Has
<1>3. CASE Has(s, k)
  <2>. DEFINE I == {i \in 1..Len(s) : s[i] = k}
              n == Lr!SelectInSeq(s, LAMBDA v : v = k)
  <2>1. PICK c \in I : \A b \in I : ~(b < c)
    <3>1. I \subseteq Nat /\ I # {}
      BY <1>1, <1>3 DEF Has
    <3>. QED  BY <3>1, LeastOne
  <2>2. n \in I
    <3>1. n = Lr!Min(I)
      BY <2>1 DEF Lr!SelectInSeq
    <3>2. \A b \in I : c <= b
      BY <1>1, <2>1
    <3>. QED  BY <2>1, <3>1, <3>2 DEF Lr!Min
  <2>3. Lr!RemoveFirst(s, k) = Lr!RemoveAt(s, n)
    BY <2>1 DEF Lr!RemoveFirst
  <2>4. Lr!RemoveAt(s, n) = RemoveAt(s, n)
    BY DEF Lr!RemoveAt, RemoveAt
  <2>5. n \in 1..Len(s) /\ s[n] = k
    BY <2>2
  <2>. HIDE DEF n, I
  <2>6. t = Append(RemoveAt(s, n), s[n])
    BY <1>2, <1>3, <2>3, <2>4, <2>5 DEF Lr!MoveToEnd
  <2>7. /\ t \in Seq(Arguments) /\ Len(t) = Len(s)
        /\ \A v : Has(t, v) <=> Has(s, v)
        /\ Distinct(s) =>
              /\ Distinct(t)
              /\ \A u, v : Before(t, u, v) <=>
                    u # s[n] /\ IF v = s[n] THEN Has(s, u) ELSE Before(s, u, v)
    BY <2>5, <2>6, PutLast
  <2>8. Distinct(s) =>
           \A u, v : Before(t, u, v) <=>
              u # k /\ IF v = k THEN Has(s, u) ELSE Before(s, u, v)
    BY <2>5, <2>7
  <2>. QED  BY <1>3, <2>7, <2>8
<1>4. CASE ~Has(s, k)
  <2>1. t = Append(s, k)
    BY <1>2, <1>4 DEF Lr!MoveToEnd
  <2>2. t \in Seq(Arguments) /\ \A v : Has(t, v) <=> Has(s, v) \/ v = k
    BY <2>1, AtTheEnd
  <2>. QED  BY <1>4, <2>1, <2>2, Longer, AddLast
<1>. QED  BY <1>3, <1>4

LEMMA HitKeeps ==
    ASSUME LruInv, NEW k \in Arguments, Lr!Hit(k)  PROVE LruInv'
<1>1. /\ k \in cached /\ recent' = Lr!MoveToEnd(recent, k) /\ used' = Lr!MoveToEnd(used, k)
      /\ maxsize' = maxsize /\ cached' = cached /\ calls' = calls /\ tangled' = tangled
  BY DEF Lr!Hit
<1>2. LruTypes /\ Has(recent, k)
  BY <1>1 DEF LruInv
<1>3. /\ recent' \in Seq(Arguments) /\ Len(recent') = Len(recent)
      /\ \A v : Has(recent', v) <=> Has(recent, v) \/ v = k
      /\ Distinct(recent) =>
           /\ Distinct(recent')
           /\ \A u, v : Before(recent', u, v) <=>
                 u # k /\ IF v = k THEN Has(recent, u) ELSE Before(recent, u, v)
  BY <1>1, <1>2, Moved DEF LruTypes
<1>4. /\ used' \in Seq(Arguments) /\ Distinct(used')
      /\ \A v : Has(used', v) <=> Has(used, v) \/ v = k
      /\ \A u, v : Before(used', u, v) <=>
            u # k /\ IF v = k THEN Has(used, u) ELSE Before(used, u, v)
  BY <1>1, <1>2, Moved DEF LruTypes, LruInv
<1>5. LruTypes'
  BY <1>1, <1>2, <1>3, <1>4 DEF LruTypes
<1>6. ASSUME ~tangled
      PROVE  /\ Distinct(recent')
             /\ \A v : Has(recent', v) => v \in cached'
             /\ \A u, v : Before(recent', u, v) => Before(used', u, v)
  BY <1>1, <1>3, <1>4, <1>6 DEF LruInv
<1>7. /\ \A v : Has(recent', v) => Has(used', v)
      /\ \A v \in cached' : Has(recent', v)
  BY <1>1, <1>3, <1>4 DEF LruInv
<1>8. maxsize' > 0 => Len(recent') <= maxsize'
  BY <1>1, <1>3 DEF LruInv
<1>. QED  BY <1>1, <1>4, <1>5, <1>6, <1>7, <1>8, LruNext

(* What a call leaves of the stack of calls.                               *)
LEMMA CallOver ==
    ASSUME LruTypes, calls # <<>>
    PROVE  Lr!Front(calls) \in Seq(Arguments) /\ Lr!Last(calls) \in Arguments
<1>1. /\ Len(calls) \in Nat /\ Len(calls) # 0 /\ calls \in Seq(Arguments)
      /\ \A i \in 1..Len(calls) : calls[i] \in Arguments
  BY LenProperties, ElementOfSeq, EmptySeq DEF LruTypes
<1>2. SubSeq(calls, 1, Len(calls) - 1) \in Seq(Arguments)
  <2>1. Len(calls) - 1 \in Nat /\ \A i \in 1..Len(calls) - 1 : calls[i] \in Arguments
    BY <1>1
  <2>. QED  BY <2>1, ButLast
<1>3. Len(calls) \in 1..Len(calls)
  BY <1>1
<1>. QED  BY <1>1, <1>2, <1>3 DEF Lr!Front, Lr!Last

LEMMA LruReturnKeeps ==
    ASSUME LruInv, Lr!Return  PROVE LruInv'
<1>. DEFINE k == Lr!Last(calls)
            longer == Append(recent, k)
            full == maxsize > 0 /\ Len(longer) > maxsize
<1>1. /\ calls # <<>> /\ calls' = Lr!Front(calls) /\ maxsize' = maxsize
      /\ recent' = IF full THEN Tail(longer) ELSE longer
      /\ cached' = (cached \cup {k}) \ (IF full THEN {Head(longer)} ELSE {})
      /\ used' = Lr!MoveToEnd(used, k)
      /\ tangled' = (tangled \/ k \in cached)
  BY DEF Lr!Return
<1>2. LruTypes /\ k \in Arguments /\ calls' \in Seq(Arguments)
  BY <1>1, CallOver DEF LruInv
<1>. HIDE DEF k
<1>3. /\ longer \in Seq(Arguments) /\ Len(longer) = Len(recent) + 1 /\ longer # <<>>
      /\ \A v : Has(longer, v) <=> Has(recent, v) \/ v = k
  <2>1. Len(longer) = Len(recent) + 1 /\ Len(recent) \in Nat
    BY <1>2, AtTheEnd, LenProperties DEF LruTypes
  <2>2. longer # <<>>
    BY <2>1, EmptySeq
  <2>. QED  BY <1>2, <2>1, <2>2, AtTheEnd DEF LruTypes
<1>4. /\ used' \in Seq(Arguments) /\ Distinct(used')
      /\ \A v : Has(used', v) <=> Has(used, v) \/ v = k
      /\ \A u, v : Before(used', u, v) <=>
            u # k /\ IF v = k THEN Has(used, u) ELSE Before(used, u, v)
  <2>1. used \in Seq(Arguments) /\ Distinct(used) /\ used' = Lr!MoveToEnd(used, k)
    BY <1>1, <1>2 DEF LruTypes, LruInv
  <2>. QED  BY <1>2, <2>1, Moved
<1>5. ASSUME ~tangled'
      PROVE  /\ Distinct(longer)
             /\ \A v : Has(longer, v) => v \in cached \cup {k}
             /\ \A u, v : Before(longer, u, v) => Before(used', u, v)
  <2>1. ~tangled /\ k \notin cached
    BY <1>1, <1>5
  <2>2. Distinct(recent) /\ ~Has(recent, k) /\ recent \in Seq(Arguments)
    BY <1>2, <2>1 DEF LruInv, LruTypes
  <2>3. Distinct(longer)
    BY <1>2, <2>2, Longer
  <2>4. \A u, v : Before(longer, u, v) <=>
           u # k /\ IF v = k THEN Has(recent, u) ELSE Before(recent, u, v)
    BY <1>2, <2>2, AddLast
  <2>5. \A v : Has(longer, v) => v \in cached \cup {k}
    BY <1>3, <2>1 DEF LruInv
  <2>6. \A u, v : Before(longer, u, v) => Before(used', u, v)
    BY <1>4, <2>1, <2>4 DEF LruInv
  <2>. QED  BY <2>3, <2>5, <2>6
<1>6. /\ Tail(longer) \in Seq(Arguments) /\ Len(Tail(longer)) = Len(recent)
      /\ \A v : Has(longer, v) <=> v = Head(longer) \/ Has(Tail(longer), v)
      /\ Distinct(longer) =>
           Distinct(Tail(longer)) /\ ~Has(Tail(longer), Head(longer))
  <2>1. Len(recent) \in Nat /\ Len(recent) + 1 - 1 = Len(recent)
    BY <1>2, LenProperties DEF LruTypes
  <2>. HIDE DEF longer
  <2>2. /\ Tail(longer) \in Seq(Arguments) /\ Len(Tail(longer)) = Len(longer) - 1
        /\ \A v : Has(longer, v) <=> v = Head(longer) \/ Has(Tail(longer), v)
        /\ Distinct(longer) =>
             Distinct(Tail(longer)) /\ ~Has(Tail(longer), Head(longer))
    BY <1>3, HeadAndTail
  <2>. QED  BY <1>3, <2>1, <2>2
<1>7. \A u, v : Before(Tail(longer), u, v) => Before(longer, u, v)
  BY <1>3, BehindHead
<1>8. /\ \A v : Has(longer, v) => Has(used', v)
      /\ \A v \in cached \cup {k} : Has(longer, v)
  BY <1>3, <1>4 DEF LruInv
<1>9. maxsize > 0 => Len(recent) <= maxsize
  BY DEF LruInv
<1>10. Len(recent) \in Nat /\ maxsize \in Nat
  BY <1>2, LenProperties DEF LruTypes
<1>11. cached \in SUBSET Arguments
  BY <1>2 DEF LruTypes
<1>. HIDE DEF longer
<1>12. CASE full
  <2>1. recent' = Tail(longer) /\ cached' = (cached \cup {k}) \ {Head(longer)}
    BY <1>1, <1>12
  <2>2. LruTypes'
    BY <1>1, <1>2, <1>4, <1>6, <1>10, <1>11, <2>1 DEF LruTypes
  <2>3. maxsize' > 0 => Len(recent') <= maxsize'
    BY <1>1, <1>6, <1>9, <2>1
  <2>4. \A v : Has(Tail(longer), v) => Has(used', v)
    BY <1>6, <1>8
  <2>5. \A v \in cached' : Has(Tail(longer), v)
    BY <1>6, <1>8, <2>1
  <2>6. ASSUME ~tangled'
        PROVE  /\ Distinct(Tail(longer))
               /\ \A v : Has(Tail(longer), v) => v \in cached'
               /\ \A u, v : Before(Tail(longer), u, v) => Before(used', u, v)
    BY <1>5, <1>6, <1>7, <2>1, <2>6
  <2>. QED  BY <1>4, <2>1, <2>2, <2>3, <2>4, <2>5, <2>6, LruNext
<1>13. CASE ~full
  <2>1. recent' = longer /\ cached' = cached \cup {k}
    BY <1>1, <1>13
  <2>2. LruTypes'
    BY <1>1, <1>2, <1>3, <1>4, <1>10, <1>11, <2>1 DEF LruTypes
  <2>3. maxsize' > 0 => Len(recent') <= maxsize'
    BY <1>1, <1>3, <1>10, <1>13, <2>1
  <2>. QED  BY <1>4, <1>5, <1>8, <2>1, <2>2, <2>3, LruNext
<1>. QED  BY <1>12, <1>13

LEMMA LruCreated == ASSUME Lr!Init  PROVE LruInv
<1>1. /\ maxsize \in Nat /\ cached = {} /\ recent = <<>> /\ calls = <<>> /\ used = <<>>
  BY LruAssumption DEF Lr!Init, Lr!LruConstants
<1>2. /\ <<>> \in Seq(Arguments) /\ Len(<<>>) = 0 /\ DOMAIN <<>> = {}
  BY EmptySeq
<1>. QED  BY <1>1, <1>2 DEF LruInv, LruTypes, Distinct, Has, Before

LEMMA LruKept == ASSUME LruInv, Lr!Next  PROVE LruInv'
<1>1. ASSUME NEW k \in Arguments, Lr!Miss(k)  PROVE LruInv'
  <2>1. calls' \in Seq(Arguments)
    BY <1>1, AtTheEnd DEF Lr!Miss, LruInv, LruTypes
  <2>2. /\ maxsize' = maxsize /\ cached' = cached /\ recent' = recent /\ used' = used
        /\ tangled' = tangled
    BY <1>1 DEF Lr!Miss
  <2>3. LruTypes'
    BY <2>1, <2>2 DEF LruInv, LruTypes
  <2>. QED  BY <2>2, <2>3, LruNext DEF LruInv
<1>2. ASSUME Lr!Raise  PROVE LruInv'
  <2>1. calls' \in Seq(Arguments)
    BY <1>2, CallOver DEF Lr!Raise, LruInv
  <2>. QED  BY <1>2, <2>1 DEF Lr!Raise, LruInv, LruTypes, Distinct, Has, Before
<1>3. ASSUME Lr!Clear  PROVE LruInv'
  <2>1. /\ <<>> \in Seq(Arguments) /\ Len(<<>>) = 0 /\ DOMAIN <<>> = {}
    BY EmptySeq
  <2>. QED  BY <1>3, <2>1 DEF Lr!Clear, LruInv, LruTypes, Distinct, Has, Before
<1>. QED  BY <1>1, <1>2, <1>3, HitKeeps, LruReturnKeeps DEF Lr!Next

LEMMA LruInvariant == RuntimeSpec => []LruInv
<1>1. Create => LruInv
  BY LruCreated DEF Create
<1>2. LruInv /\ [Step]_runtime => LruInv'
  <2> SUFFICES ASSUME LruInv, [Step]_runtime  PROVE LruInv'
    OBVIOUS
  <2>1. CASE Lr!Next
    BY <2>1, LruKept
  <2>2. CASE UNCHANGED lru
    BY <2>2 DEF lru, LruInv, LruTypes, Distinct, Has, Before
  <2>. QED  BY <2>1, <2>2 DEF Step, runtime
<1>. QED  BY <1>1, <1>2, PTL DEF RuntimeSpec

(* The size of an lru_cache is kept, whatever is cached can be evicted,    *)
(* and the key to go next is the least recently used, for every size,      *)
(* every set of arguments and every depth of calls.                        *)
THEOREM OldestGoes == RuntimeSpec => []LeastRecentGoes
<1>1. ASSUME LruInv  PROVE LeastRecentGoes
  <2>1. /\ DOMAIN recent = 1..Len(recent) /\ DOMAIN used = 1..Len(used)
        /\ \A v : v \in Lr!ToSet(recent) <=> Has(recent, v)
    BY <1>1, LenProperties DEF LruInv, LruTypes, Lr!ToSet, Has
  <2>2. cached \subseteq Lr!ToSet(recent)
    BY <1>1, <2>1 DEF LruInv
  <2>3. ASSUME ~tangled  PROVE Lr!ToSet(recent) = cached
    BY <1>1, <2>1, <2>3 DEF LruInv
  <2>4. ASSUME ~tangled, NEW i \in DOMAIN recent, NEW j \in DOMAIN recent, i < j
        PROVE  Lr!LastUse(recent[i]) < Lr!LastUse(recent[j])
    <3>1. Before(recent, recent[i], recent[j])
      BY <2>4 DEF Before
    <3>2. PICK a \in DOMAIN used, b \in DOMAIN used :
             a < b /\ used[a] = recent[i] /\ used[b] = recent[j]
      BY <1>1, <2>4, <3>1 DEF LruInv, Before
    <3>3. Lr!LastUse(recent[i]) = a /\ Lr!LastUse(recent[j]) = b
      BY <1>1, <3>2 DEF LruInv, Distinct, Lr!LastUse
    <3>. QED  BY <3>2, <3>3
  <2>. QED  BY <1>1, <2>2, <2>3, <2>4 DEF LruInv, LeastRecentGoes, Lr!LeastRecentGoes
<1>. QED  BY <1>1, LruInvariant, PTL
=============================================================================
