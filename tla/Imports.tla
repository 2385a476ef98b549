-------------------------------- MODULE Imports --------------------------------
(***************************************************************************)
(* The import system (vm/imports.go) of one interpreter: the module cache, *)
(* modules that run while they are being imported, import one another in a *)
(* circle, and fail.                                                       *)
(*                                                                         *)
(* What a module body does is left open: it may import anything, go on     *)
(* after an import that failed, end or raise at any point.  A module that  *)
(* is run again is a new object; objects are numbered.  Left out: builtin  *)
(* modules (they have no body), reload (it changes no cache) and the names *)
(* a body defines.                                                         *)
(***************************************************************************)
EXTENDS Naturals, Sequences, SequencesExt, FiniteSets

CONSTANTS
    Modules,
    Parent,       \* Parent[m]: the package m is in, or Root
    Root,
    Dotted,       \* Dotted[m]: what m's dotted name names, the package, ..., m
    Packages,     \* modules with a __path__
    Files,        \* modules that have a .pyc that loads
    MaxObjects    \* bound: how many module objects are made

(* What the module takes for granted of its constants; Runtime assumes it. *)
ImportConstants ==
    /\ Root \notin Modules /\ Packages \subseteq Modules /\ Files \subseteq Modules
    /\ DOMAIN Parent = Modules
    /\ \A m \in Modules : Parent[m] # Root => Parent[m] \in Modules \ {m}
    /\ DOMAIN Dotted = Modules
    /\ \A m \in Modules :
          /\ Dotted[m] \in Seq(Modules) /\ Dotted[m] # <<>>
          /\ Parent[Dotted[m][1]] = Root /\ Dotted[m][Len(Dotted[m])] = m
          /\ \A n \in 1..Len(Dotted[m]) - 1 : Parent[Dotted[m][n + 1]] = Dotted[m][n]
    /\ MaxObjects \in Nat

VARIABLES
    cache,    \* i.modules: the object of each module, 0 if it is not there
    stack,    \* the import statements and module bodies that are running
    made,     \* how many objects have been made
    whole,    \* objects whose body has run to its end
    bound,    \* <<p, m>>: object p has an attribute for its submodule m
    lost      \* history: a package failed after one of its submodules had loaded

vars == <<cache, stack, made, whole, bound, lost>>

Init ==
    /\ cache = [m \in Modules |-> 0]
    /\ stack = <<>>
    /\ made = 0
    /\ whole = {} /\ bound = {}
    /\ lost = FALSE

-----------------------------------------------------------------------------

Top == Last(stack)
InBody == stack # <<>> => Top.kind = "body"      \* Python code is running
Loading == stack # <<>> /\ Top.kind = "import" /\ Top.todo # <<>>

(* One loadModule call of a statement; a failure of a quiet one is ignored.*)
Load(m) == [mod |-> m, quiet |-> FALSE]
TryLoad(m) == [mod |-> m, quiet |-> TRUE]

(* loadChain: every package on the way, then the module.                   *)
Chain(m) == [n \in DOMAIN Dotted[m] |-> Load(Dotted[m][n])]

Statement(todo) == stack' = Append(stack, [kind |-> "import", todo |-> todo])

(* import m                                                                *)
ImportName(m) ==
    /\ InBody
    /\ Statement(Chain(m))
    /\ UNCHANGED <<cache, made, whole, bound, lost>>

(* from p import m: importName tries the submodule once, ignoring errors,  *)
(* and IMPORT_FROM once more.                                              *)
ImportFrom(m) ==
    /\ InBody /\ Parent[m] # Root
    /\ Statement(Chain(Parent[m]) \o <<TryLoad(m), Load(m)>>)
    /\ UNCHANGED <<cache, made, whole, bound, lost>>

This == Head(Top.todo)

(* The rest of a statement after its first load, and what is left of the   *)
(* stack under when that load failed.                                      *)
Done(under) == Append(Front(under), [Last(under) EXCEPT !.todo = Tail(@)])
Failed(under) == IF Head(Last(under).todo).quiet THEN Done(under) ELSE Front(under)

(* loadModule: the module is in the cache, whole or not; a submodule that  *)
(* has an attribute of its package is not even looked for.                 *)
LoadCached ==
    /\ Loading /\ cache[This.mod] # 0
    /\ stack' = Done(stack)
    /\ UNCHANGED <<cache, made, whole, bound, lost>>

IsFound(m) == m \in Files /\ (Parent[m] # Root => Parent[m] \in Packages)

LoadFails ==
    /\ Loading /\ cache[This.mod] = 0 /\ ~IsFound(This.mod)
    /\ stack' = Failed(stack)
    /\ UNCHANGED <<cache, made, whole, bound, lost>>

(* execModuleAs: the module is in the cache before its body runs.          *)
LoadExec ==
    /\ Loading /\ cache[This.mod] = 0 /\ IsFound(This.mod)
    /\ made < MaxObjects
    /\ made' = made + 1
    /\ cache' = [cache EXCEPT ![This.mod] = made + 1]
    /\ stack' = Append(stack,
                  [kind |-> "body", mod |-> This.mod, obj |-> made + 1,
                   pkg |-> IF Parent[This.mod] = Root THEN 0 ELSE cache[Parent[This.mod]]])
    /\ UNCHANGED <<whole, bound, lost>>

StatementEnds ==
    /\ stack # <<>> /\ Top.kind = "import" /\ Top.todo = <<>>
    /\ stack' = Front(stack)
    /\ UNCHANGED <<cache, made, whole, bound, lost>>

(* A body ends; its module becomes an attribute of its package.            *)
BodyEnds ==
    /\ stack # <<>> /\ Top.kind = "body"
    /\ whole' = whole \cup {Top.obj}
    /\ bound' = IF Top.pkg = 0 THEN bound ELSE bound \cup {<<Top.pkg, Top.mod>>}
    /\ stack' = Done(Front(stack))
    /\ UNCHANGED <<cache, made, lost>>

\* Mutant of BodyRaises: a module that failed stays in the cache.
BodyRaisesKept ==
    /\ stack # <<>> /\ Top.kind = "body"
    /\ stack' = Failed(Front(stack))
    /\ UNCHANGED <<cache, made, whole, bound, lost>>

(* A body raises: its module leaves the cache, those it imported stay.     *)
BodyRaises ==
    /\ stack # <<>> /\ Top.kind = "body"
    /\ cache' = [cache EXCEPT ![Top.mod] = 0]
    /\ lost' = (lost \/ \E m \in Modules : Parent[m] = Top.mod /\ cache[m] \in whole)
    /\ stack' = Failed(Front(stack))
    /\ UNCHANGED <<made, whole, bound>>

Next ==
    \/ \E m \in Modules : ImportName(m) \/ ImportFrom(m)
    \/ LoadCached \/ LoadFails \/ LoadExec
    \/ StatementEnds \/ BodyEnds \/ BodyRaises

Spec == Init /\ [][Next]_vars

-----------------------------------------------------------------------------

Bodies == {n \in DOMAIN stack : stack[n].kind = "body"}

(* A module that can be seen half-made is one whose body is running; no    *)
(* body runs twice at a time, and none without its package; when nothing   *)
(* is running every module in the cache is whole, and is an attribute of   *)
(* its package, unless that package failed after the module had loaded.    *)
CacheIsWhole ==
    /\ \A m \in Modules : cache[m] # 0 =>
          \/ cache[m] \in whole
          \/ \E n \in Bodies : stack[n].mod = m /\ stack[n].obj = cache[m]
    /\ \A k, n \in Bodies : stack[k].mod = stack[n].mod => k = n
    /\ \A n \in Bodies :
          Parent[stack[n].mod] # Root => /\ stack[n].pkg # 0
                                         /\ stack[n].pkg = cache[Parent[stack[n].mod]]
    /\ \A m \in Modules :
          (~lost /\ Parent[m] # Root /\ cache[m] \in whole) =>
              <<cache[Parent[m]], m>> \in bound
=============================================================================
