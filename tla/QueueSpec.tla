------------------------------- MODULE QueueSpec -------------------------------
(***************************************************************************)
(* What a queue of vm/stdlib_queue.go promises, with no threads, wait      *)
(* lists or timers: a bounded buffer in a given order, a count of          *)
(* unfinished tasks, and two ways to shut it down.                         *)
(***************************************************************************)
EXTENDS Integers, Sequences, SequencesExt

CONSTANTS Kinds, Sizes, Items, Rank

VARIABLES kind,     \* the class
          maxsize,  \* the bound
          queue,    \* what was put and not taken, oldest first
          pending,  \* unfinished tasks
          gate      \* "open", "draining" after shutdown(), "closed" after
                    \* shutdown(immediate=True)

qvars == <<kind, maxsize, queue, pending, gate>>

Init ==
    /\ kind \in Kinds /\ maxsize \in Sizes
    /\ queue = <<>> /\ pending = 0 /\ gate = "open"

Put(x) ==
    /\ gate = "open"
    /\ maxsize > 0 => Len(queue) < maxsize
    /\ queue' = Append(queue, x)
    /\ pending' = pending + 1
    /\ UNCHANGED gate

(* The item that leaves: no item left behind has a better claim to go.     *)
Before(n, m) ==
    \/ kind = "fifo" /\ n < m
    \/ kind = "lifo" /\ n > m
    \/ kind = "priority" /\ Rank[queue[n]] < Rank[queue[m]]

Get ==
    /\ gate # "closed"
    /\ \E n \in DOMAIN queue :
          /\ \A m \in DOMAIN queue : ~Before(m, n)
          /\ queue' = RemoveAt(queue, n)
    /\ UNCHANGED <<pending, gate>>

Done == pending > 0 /\ pending' = pending - 1 /\ UNCHANGED <<queue, gate>>

Drain == gate = "open" /\ gate' = "draining" /\ UNCHANGED <<queue, pending>>

Close == gate' = "closed" /\ queue' = <<>> /\ pending' = 0

Next ==
    /\ (\E x \in Items : Put(x)) \/ Get \/ Done \/ Drain \/ Close
    /\ UNCHANGED <<kind, maxsize>>

Spec == Init /\ [][Next]_qvars
=============================================================================
