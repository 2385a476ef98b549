-------------------------------- MODULE Runtime --------------------------------
(***************************************************************************)
(* The parts of the interpreter that keep what they know in two places:    *)
(* the set, the dict, the class hierarchy with its order and its caches,   *)
(* the module cache, graphlib's sorter, sched's heap and lru_cache.  None  *)
(* of them calls another in a way that the other's state could notice, so  *)
(* each is looked at alone: which one is chosen in the initial state, so   *)
(* that one run checks them all, and the others stay as they are.          *)
(***************************************************************************)
EXTENDS HashSet, FiniteSets

CONSTANTS
    Lookers, Bases, Loaded, Functions, Properties, Missing, MaxEpoch,
    MaxClasses,
    Strs, Others, Hash, Vals, Deleted, Slack, MaxSlots,
    Nodes, Stranger, MaxBatch,
    Modules, Parent, Root, Dotted, Packages, Files, MaxObjects,
    Runners, MaxTime, Priorities, MaxEvents,
    Arguments, MaxSizes, MaxDepth

VARIABLES
    use,                                                           \* the part
    dict, epoch, cache, frames, doing, own, inline, codeMu,        \* ClassLookup
    bases, mro, working, out, toVisit,                             \* ClassOrder
    keys, vals, index, oHash, dead,                                \* Dict
    added, preds, phase, visited, path, cycle, inDegree, ready,    \* Topological-
    outReady, nDone, finished,                                     \*  Sorter
    modules, stack, made, whole, bound, lost,                      \* Imports
    now, entered, heap, place, blocking, held, starts, cancelled,
    failed,                                                        \* Scheduler
    maxsize, cached, recent, calls, used, tangled                  \* LruCache

lookup == <<dict, epoch, cache, frames, doing, own, inline, codeMu>>
order == <<bases, mro, working, out, toVisit>>
mapping == <<keys, vals, index, oHash, dead>>
sorter == <<added, preds, phase, visited, path, cycle, inDegree, ready, outReady, nDone,
            finished>>
imports == <<modules, stack, made, whole, bound, lost>>
scheduler == <<now, entered, heap, place, blocking, held, starts, cancelled, failed>>
lru == <<maxsize, cached, recent, calls, used, tangled>>

runtime == <<use, setVars, lookup, order, mapping, sorter, imports, scheduler, lru>>

Cl == INSTANCE ClassLookup
Co == INSTANCE ClassOrder
Di == INSTANCE Dict
Ts == INSTANCE TopologicalSorter
Im == INSTANCE Imports WITH cache <- modules
Sc == INSTANCE Scheduler
Lr == INSTANCE LruCache WITH Keys <- Arguments, bound <- maxsize, order <- recent

ASSUME LookupAssumption == Cl!LookupConstants
ASSUME OrderAssumption == Co!OrderConstants
ASSUME DictAssumption == Di!DictConstants
ASSUME SorterAssumption == Ts!SorterConstants
ASSUME ImportAssumption == Im!ImportConstants
ASSUME SchedulerAssumption == Sc!SchedulerConstants
ASSUME LruAssumption == Lr!LruConstants

-----------------------------------------------------------------------------

Create ==
    /\ use \in {"set", "lookup", "order", "dict", "sorter", "imports", "scheduler", "lru"}
    /\ Init /\ Cl!Init /\ Co!Init /\ Di!Init /\ Ts!Init /\ Im!Init /\ Sc!Init /\ Lr!Init
    /\ use # "lookup" => own = {} /\ \A c \in DOMAIN Bases : dict[c] = Missing
    /\ use # "lru" => maxsize = 0

Step ==
    /\ UNCHANGED use
    /\ \/ /\ use = "set" /\ Next
          /\ UNCHANGED <<lookup, order, mapping, sorter, imports, scheduler, lru>>
       \/ /\ use = "lookup" /\ Cl!Next
          /\ UNCHANGED <<setVars, order, mapping, sorter, imports, scheduler, lru>>
       \/ /\ use = "order" /\ Co!Next
          /\ UNCHANGED <<setVars, lookup, mapping, sorter, imports, scheduler, lru>>
       \/ /\ use = "dict" /\ Di!Next
          /\ UNCHANGED <<setVars, lookup, order, sorter, imports, scheduler, lru>>
       \/ /\ use = "sorter" /\ Ts!Next
          /\ UNCHANGED <<setVars, lookup, order, mapping, imports, scheduler, lru>>
       \/ /\ use = "imports" /\ Im!Next
          /\ UNCHANGED <<setVars, lookup, order, mapping, sorter, scheduler, lru>>
       \/ /\ use = "scheduler" /\ Sc!Next
          /\ UNCHANGED <<setVars, lookup, order, mapping, sorter, imports, lru>>
       \/ /\ use = "lru" /\ Lr!Next
          /\ UNCHANGED <<setVars, lookup, order, mapping, sorter, imports, scheduler>>

RuntimeSpec == Create /\ [][Step]_runtime

-----------------------------------------------------------------------------

(* The properties of the parts; they are explained there.  PlacesAreExact, *)
(* of HashSet, is checked under its own name.                              *)

(* The method caches after assignments (classLookup, vm/ops.go).           *)
CacheIsFresh == Cl!CacheIsFresh

(* The method resolution order (computeMRO, vm/ops.go).                    *)
OrderIsSound == Co!OrderIsSound

(* The dict implements an ordered mapping (object/dict.go).                *)
ImplementsMap == Di!ImplementsMap

(* The order in which graphlib hands out nodes (vm/stdlib_graphlib.go).    *)
SorterKeepsOrder == Ts!SorterKeepsOrder

(* The module cache after failures and circles (vm/imports.go).            *)
CacheIsWhole == Im!CacheIsWhole

(* The order in which sched runs events (vm/stdlib_sched.go).              *)
EventsRunInTurn == [][use = "scheduler" => Sc!EventsRunInTurn]_runtime

(* What lru_cache evicts next (vm/stdlib_functools.go).                    *)
LeastRecentGoes == Lr!LeastRecentGoes
=============================================================================
