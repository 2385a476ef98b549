--------------------------- MODULE TopologicalSorter ---------------------------
(***************************************************************************)
(* graphlib.TopologicalSorter (vm/stdlib_graphlib.go): a graph that grows  *)
(* by add(), a depth-first search for cycles in prepare(), and nodes that  *)
(* are handed out by get_ready() and reported by done() in any batches.    *)
(*                                                                         *)
(* Each call is one action except prepare(), whose search is one action per*)
(* node or edge.  Lists whose order no property is about are sets; nodes   *)
(* differ in their repr, which the search uses to tell them apart.         *)
(***************************************************************************)
EXTENDS Naturals, Sequences, SequencesExt, FiniteSets

CONSTANTS
    Nodes,
    Stranger,     \* a node that was never added
    MaxBatch      \* bound: how many nodes one done() names

(* What the module takes for granted of its constants; Runtime assumes it. *)
SorterConstants == Stranger \notin Nodes /\ IsFiniteSet(Nodes) /\ MaxBatch \in Nat

VARIABLES
    added,      \* the nodes of _graph_
    preds,      \* their predecessors
    phase,      \* _state_; "searching" while prepare() runs
    visited,    \* prepare: 0 not seen, 1 on the path, 2 finished
    path,       \* prepare: the nodes on the path, with edges left to follow
    cycle,      \* the cycle the last prepare() reported
    inDegree,   \* _in_degree_
    ready,      \* _ready_
    outReady,   \* _out_ready_
    nDone,      \* _n_done_
    finished    \* history: nodes that done() accepted

vars == <<added, preds, phase, visited, path, cycle, inDegree, ready, outReady, nDone,
          finished>>

graph == <<added, preds>>
search == <<visited, path, cycle>>
work == <<inDegree, ready, outReady, nDone, finished>>

Init ==
    /\ added = {}
    /\ preds = [n \in Nodes |-> {}]
    /\ phase = "new"
    /\ visited = [n \in Nodes |-> 0]
    /\ path = <<>>
    /\ cycle = <<>>
    /\ inDegree = [n \in Nodes |-> 0]
    /\ ready = {} /\ outReady = {}
    /\ nDone = 0
    /\ finished = {}

-----------------------------------------------------------------------------

AddNode(n, ps) ==
    /\ phase = "new"
    /\ added' = added \cup {n} \cup ps
    /\ preds' = [preds EXCEPT ![n] = @ \cup ps]
    /\ cycle' = <<>>
    /\ UNCHANGED <<phase, visited, path, work>>

(* prepare() may be called again until nodes have been asked for.          *)
Prepare ==
    /\ phase \in {"new", "prepared"}
    /\ phase' = "searching"
    /\ visited' = [n \in Nodes |-> 0]
    /\ path' = <<>>
    /\ cycle' = <<>>
    /\ UNCHANGED <<graph, work>>

(* The path goes on to n, with all its edges before it.                    *)
Push(way, n) == Append(way, [node |-> n, left |-> preds[n]])

(* The search starts again at a node it has not seen.                      *)
SearchFrom(n) ==
    /\ phase = "searching" /\ path = <<>>
    /\ n \in added /\ visited[n] = 0
    /\ visited' = [visited EXCEPT ![n] = 1]
    /\ path' = Push(path, n)
    /\ UNCHANGED <<graph, phase, cycle, work>>

(* It follows an edge: to a new node, to one it is done with, or to one of *)
(* the path, which closes a cycle and ends prepare() with a CycleError.    *)
Follow(p) ==
    /\ phase = "searching" /\ path # <<>>
    /\ p \in Last(path).left
    /\ LET here == [path EXCEPT ![Len(path)].left = @ \ {p}] IN
       \/ /\ visited[p] = 0
          /\ visited' = [visited EXCEPT ![p] = 1]
          /\ path' = Push(here, p)
          /\ UNCHANGED <<phase, cycle>>
       \/ /\ visited[p] = 2
          /\ path' = here
          /\ UNCHANGED <<phase, visited, cycle>>
       \/ /\ visited[p] = 1
          /\ LET start == SelectInSeq(path, LAMBDA f : f.node = p) IN
             cycle' = [n \in 1..(Len(path) - start + 1) |-> path[start + n - 1].node]
                        \o <<p>>
          /\ phase' = "new"
          /\ path' = <<>>
          /\ UNCHANGED visited
    /\ UNCHANGED <<graph, work>>

Leave ==
    /\ phase = "searching" /\ path # <<>>
    /\ Last(path).left = {}
    /\ visited' = [visited EXCEPT ![Last(path).node] = 2]
    /\ path' = Front(path)
    /\ UNCHANGED <<graph, phase, cycle, work>>

(* No cycle: the counts and lists are made afresh.                         *)
Prepared ==
    /\ phase = "searching" /\ path = <<>>
    /\ \A n \in added : visited[n] # 0
    /\ phase' = "prepared"
    /\ inDegree' = [n \in Nodes |-> Cardinality(preds[n])]
    /\ ready' = {n \in added : preds[n] = {}}
    /\ outReady' = {} /\ nDone' = 0 /\ finished' = {}
    /\ UNCHANGED <<graph, search>>

GetReady ==
    /\ phase \in {"prepared", "active"}
    /\ phase' = "active"
    /\ ready' = {}
    /\ outReady' = outReady \cup ready
    /\ UNCHANGED <<graph, search, inDegree, nDone, finished>>

(* The nodes of a batch that are accepted: done() stops at the first that  *)
(* is unknown, was not handed out or is named twice.                       *)
Accepted(batch) ==
    CHOOSE k \in 0..Len(batch) :
        /\ \A m \in 1..k : batch[m] \in outReady
        /\ IsInjective(SubSeq(batch, 1, k))
        /\ k < Len(batch) => \/ batch[k + 1] \notin outReady
                             \/ \E m \in 1..k : batch[m] = batch[k + 1]

\* Mutant of Done: a node counts down even if it was not handed out.
DoneUnchecked(batch) ==
    /\ phase = "active"
    /\ LET D == ToSet(batch) \cap added
           degree == [n \in Nodes |-> inDegree[n] - Cardinality(preds[n] \cap D)]
       IN  /\ outReady' = outReady \ D
           /\ finished' = finished \cup D
           /\ inDegree' = degree
           /\ ready' = ready \cup {n \in added : preds[n] \cap D # {} /\ degree[n] = 0}
           /\ nDone' = nDone + Cardinality(D)
    /\ UNCHANGED <<graph, phase, search>>

(* What a batch did before the node that fails stays done, except that     *)
(* _n_done_ is stored only at the end.                                     *)
Done(batch) ==
    /\ phase = "active"
    /\ LET k == Accepted(batch)
           D == ToSet(SubSeq(batch, 1, k))
           degree == [n \in Nodes |-> inDegree[n] - Cardinality(preds[n] \cap D)]
       IN  /\ outReady' = outReady \ D
           /\ finished' = finished \cup D
           /\ inDegree' = degree
           /\ ready' = ready \cup {n \in added : preds[n] \cap D # {} /\ degree[n] = 0}
           /\ nDone' = IF k = Len(batch) THEN nDone + k ELSE nDone
    /\ UNCHANGED <<graph, phase, search>>

Batches == UNION {[1..k -> Nodes \cup {Stranger}] : k \in 1..MaxBatch}

Next ==
    \/ \E n \in Nodes, ps \in SUBSET Nodes : AddNode(n, ps)
    \/ Prepare
    \/ \E n \in Nodes : SearchFrom(n) \/ Follow(n)
    \/ Leave \/ Prepared
    \/ GetReady
    \/ \E batch \in Batches : Done(batch)

Spec == Init /\ [][Next]_vars

-----------------------------------------------------------------------------

(* is_active() and __bool__.                                               *)
IsActive == nDone < Cardinality(added) /\ (ready # {} \/ outReady # {})

(* A node is handed out after all its predecessors were reported, never    *)
(* twice, whatever batches done() was given and wherever it failed; the    *)
(* loop `while ts.is_active()' leaves no node out; and a CycleError names a*)
(* cycle.                                                                  *)
SorterKeepsOrder ==
    /\ phase \in {"prepared", "active"} =>
          /\ \A n \in ready \cup outReady \cup finished : preds[n] \subseteq finished
          /\ ready \cap outReady = {} /\ finished \cap (ready \cup outReady) = {}
          /\ ~IsActive => finished = added
    /\ cycle # <<>> =>
          /\ Len(cycle) > 1 /\ cycle[1] = Last(cycle)
          /\ \A n \in 1..(Len(cycle) - 1) : cycle[n + 1] \in preds[cycle[n]]
=============================================================================
