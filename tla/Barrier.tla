-------------------------------- MODULE Barrier --------------------------------
(***************************************************************************)
(* threading.Barrier (vm/stdlib_threading.go:772-857): a count of arrivals,*)
(* a generation number and a broken flag under one mutex, with a chCond    *)
(* for the parties that arrive early.  A stretch of code that holds the    *)
(* mutex is one action.  n_waiting and broken, which the code also copies  *)
(* into the instance dictionary, are the variables waiting and broken.     *)
(***************************************************************************)
EXTENDS ChCond

CONSTANTS
    Sizes,          \* the values of parties, positive
    MaxGeneration   \* bound of the model on the generation number

VARIABLES
    parties,
    waiting,
    broken,
    generation,
    myGen,      \* myGen of each blocked wait
    myIndex,    \* myIndex of each blocked wait
    arrived,    \* history: who arrived in which generation
    resets,     \* history: the generations that a reset ended
    doomed      \* history: the other parties when a deadline broke the barrier

vars == <<waiters, signalled, late, pc, timed, due,
          parties, waiting, broken, generation, myGen, myIndex, arrived, resets, doomed>>

barrier == <<parties, waiting, broken, generation>>
mine == <<myGen, myIndex>>
history == <<arrived, resets, doomed>>

InCall == {t \in Threads : pc[t] # "idle"}
Present == {t \in InCall : myGen[t] = generation}

-----------------------------------------------------------------------------

(* wait ends, by returning an index or by raising BrokenBarrierError.      *)
Leave(t) ==
    /\ Return(t)
    /\ doomed' = doomed \ {t}
    /\ UNCHANGED <<waitVars, barrier, mine, arrived, resets>>

(* The deadline breaks the barrier for everyone who is waiting.            *)
Break(t) ==
    /\ broken' = TRUE
    /\ Broadcast
    /\ Return(t)
    /\ doomed' = Present \ {t}
    /\ UNCHANGED <<parties, waiting, generation, mine, arrived, resets>>

(* The last party to arrive.                                               *)
Trip(t) ==
    /\ generation < MaxGeneration
    /\ generation' = generation + 1
    /\ waiting' = 0
    /\ Broadcast
    /\ UNCHANGED <<parties, broken, mine, pc, timed, due>>

(* An early party, whose deadline may have passed before it can sleep: then*)
(* it breaks the barrier without having slept.                             *)
Arrive(t, hasDeadline) ==
    /\ waiting' = waiting + 1
    /\ myGen' = [myGen EXCEPT ![t] = generation]
    /\ myIndex' = [myIndex EXCEPT ![t] = waiting]
    /\ \/ Sleep(t, hasDeadline) /\ UNCHANGED <<broken, doomed>>
       \/ /\ hasDeadline
          /\ broken' = TRUE /\ doomed' = Present
          /\ Broadcast
          /\ UNCHANGED <<pc, timed, due>>
    /\ UNCHANGED <<parties, generation>>

(* wait(timeout); on a broken barrier it raises and changes nothing.       *)
WaitCall(t, hasDeadline) ==
    /\ pc[t] = "idle" /\ ~broken
    /\ arrived' = arrived \cup {<<generation, t>>}
    /\ UNCHANGED resets
    /\ \/ waiting + 1 = parties /\ Trip(t) /\ UNCHANGED doomed
       \/ waiting + 1 # parties /\ Arrive(t, hasDeadline)

\* Mutant of Resume: the generation is not looked at.
ResumeIgnoresGeneration(t) ==
    /\ pc[t] = "awake"
    /\ \/ broken /\ Leave(t)
       \/ ~broken /\ t \in due /\ Break(t)
       \/ /\ ~broken /\ t \notin due
          /\ Sleep(t, t \in timed) /\ UNCHANGED <<barrier, mine, history>>

(* Wait let the thread go and it has the mutex back.                       *)
Resume(t) ==
    /\ pc[t] = "awake"
    /\ \/ (broken \/ generation # myGen[t]) /\ Leave(t)
       \/ ~broken /\ generation = myGen[t] /\ t \in due /\ Break(t)
       \/ /\ ~broken /\ generation = myGen[t] /\ t \notin due
          /\ Sleep(t, t \in timed) /\ UNCHANGED <<barrier, mine, history>>

\* Mutants of Reset: the old arrivals still count; those that wait stay in
\* the generation that begins.
ResetKeepsCount(t) ==
    /\ pc[t] = "idle" /\ generation < MaxGeneration
    /\ broken' = FALSE
    /\ generation' = generation + 1
    /\ resets' = resets \cup {generation}
    /\ Broadcast
    /\ UNCHANGED <<pc, timed, due, parties, waiting, mine, arrived, doomed>>
ResetKeepsGeneration(t) ==
    /\ pc[t] = "idle"
    /\ broken' = FALSE
    /\ waiting' = 0
    /\ Broadcast
    /\ UNCHANGED <<pc, timed, due, parties, generation, mine, history>>

Reset(t) ==
    /\ pc[t] = "idle" /\ generation < MaxGeneration
    /\ broken' = FALSE
    /\ waiting' = 0
    /\ generation' = generation + 1
    /\ resets' = resets \cup {generation}
    /\ Broadcast
    /\ UNCHANGED <<pc, timed, due, parties, mine, arrived, doomed>>

\* Mutant of Abort: nobody is told.
AbortSilent(t) ==
    /\ pc[t] = "idle"
    /\ broken' = TRUE
    /\ UNCHANGED <<condVars, parties, waiting, generation, mine, history>>

Abort(t) ==
    /\ pc[t] = "idle"
    /\ broken' = TRUE
    /\ Broadcast
    /\ UNCHANGED <<pc, timed, due, parties, waiting, generation, mine, history>>

Wakes(t) == (Receive(t) \/ CleanUp(t)) /\ UNCHANGED <<barrier, mine, history>>

Clock(t) ==
    /\ DeadlinePasses(t) \/ TimerWins(t)
    /\ UNCHANGED <<barrier, mine, history>>

-----------------------------------------------------------------------------

Init ==
    /\ CondInit
    /\ parties \in Sizes
    /\ waiting = 0
    /\ broken = FALSE
    /\ generation = 0
    /\ myGen = [t \in Threads |-> 0]
    /\ myIndex = [t \in Threads |-> 0]
    /\ arrived = {}
    /\ resets = {}
    /\ doomed = {}

Next ==
    \E t \in Threads :
        \/ \E hasDeadline \in BOOLEAN : WaitCall(t, hasDeadline)
        \/ Resume(t)
        \/ Reset(t)
        \/ Abort(t)
        \/ Wakes(t)
        \/ Clock(t)

Spec == Init /\ [][Next]_vars

-----------------------------------------------------------------------------

(* The values of the variables.                                            *)
TypeOK ==
    /\ CondOK
    /\ parties \in Sizes
    /\ waiting \in Nat
    /\ broken \in BOOLEAN
    /\ generation \in 0..MaxGeneration
    /\ myGen \in [Threads -> 0..MaxGeneration]
    /\ myIndex \in [Threads -> Nat]
    /\ arrived \in SUBSET ((0..MaxGeneration) \X Threads)
    /\ resets \in SUBSET (0..MaxGeneration)
    /\ doomed \in SUBSET InCall

(* Nobody sleeps through the end of its generation: whoever is queued is   *)
(* waiting for arrivals of the current one, on a barrier that is whole.    *)
QueuedForThisGeneration ==
    \A t \in ToSet(waiters) : ~broken /\ myGen[t] = generation

(* While the barrier is whole, the count is the number of parties in the   *)
(* current generation, however often it was aborted, timed out or reset.   *)
(* A party that is missing from it would let the others wait for ever, one *)
(* too many would let them through early.                                  *)
(* The parties of one generation get different indices below parties, of   *)
(* which the one that trips it takes the last.                             *)
CountIsExact ==
    /\ ~broken => waiting = Cardinality(Present)
    /\ ~broken => waiting < parties
    /\ \A s, t \in InCall :
          /\ myIndex[t] < parties - 1
          /\ s # t /\ myGen[s] = myGen[t] => myIndex[s] # myIndex[t]

(* All parties of a generation meet: the threads that called wait in it.   *)
PartiesOf(g) == {t \in Threads : <<g, t>> \in arrived}
Met(g) == Cardinality(PartiesOf(g)) = parties
Over(g) == Met(g) \/ g \in resets

(* A party that was let go of returns its index only if exactly `parties'  *)
(* threads called wait in its generation, or a reset ended that.  Nor does *)
(* the deadline of a party break the barrier once they have met, however   *)
(* late it gets the mutex back; it may be told that it is broken, by an    *)
(* abort or a deadline of a later generation.  No generation ends in       *)
(* another way, so the last party, too, returns to a full one.             *)
PassMeansMet ==
    /\ \A t \in Threads :
          pc[t] = "awake" /\ pc'[t] = "idle" /\ ~broken =>
              IF broken' THEN ~Met(myGen[t]) ELSE Over(myGen[t])
    /\ (\A g \in 0..generation - 1 : Over(g))'

(* Everyone whose generation is over gets out, and so does everyone on a   *)
(* barrier that broke, also when it is reset or broken again meanwhile.    *)
GenerationEnds ==
    \A t \in Threads :
        (pc[t] # "idle" /\ (broken \/ generation # myGen[t])) ~> (pc[t] = "idle")

(* changelog 0.1.1: on a timeout "other parties wake and see               *)
(* BrokenBarrierError".                                                    *)
OthersSeeTheTimeout ==
    [][\A t \in doomed : pc'[t] = "idle" => broken]_vars
=============================================================================
