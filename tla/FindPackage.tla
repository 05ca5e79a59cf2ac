----------------------------- MODULE FindPackage -----------------------------
(***************************************************************************)
(* find_package (src/cps/search.cpp): build_node makes the graph,           *)
(* set_components selects and trims, tsort orders the nodes, and the loops  *)
(* over nodes and components merge what each component contributes into     *)
(* the result, until a component is found to lack its location.             *)
(***************************************************************************)
EXTENDS Demands, Nodes, SequencesExt

CONSTANT
  NodeLimit    \* the number of nodes the heap has room for

ASSUME FindAssumption ==
  /\ NodeLimit \in Nat \ {0}
  /\ IsFiniteSet(Names) /\ IsFiniteSet(Comps) /\ None \notin Comps \cup BOOLEAN

VARIABLES
  disk, request, nodes, stack, building, root,   \* of build_node
  graph, selected, calls, selection,             \* of set_components
  dfs, visited, sorted,                          \* of tsort
  phase,    \* how far find_package has come, or how it returned
  todo,     \* the nodes still to be merged, in order
  comps,    \* the components of the first of them still to be merged
  result    \* what the components merged so far contribute

buildVars  == <<disk, request, stack, building, root>>
selectVars == <<graph, nodes, selected, calls, selection>>
sortVars   == <<dfs, visited, sorted>>
mergeVars  == <<todo, comps, result>>
findVars   == <<buildVars, selectVars, sortVars, phase, mergeVars>>

Build == INSTANCE BuildGraph WITH outcome <- building

(* The root is node 1, the first node made: a candidate that is accepted    *)
(* later is the same node, from the cache.                                 *)
Select == INSTANCE SetComponents
            WITH Graphs <- {}, request <- request.req.components, outcome <- selection

NodeIds == 1..NodeLimit

(* The depends vectors as set_components leaves them.                       *)
Depends == [n \in NodeIds |-> IF n \in DOMAIN nodes THEN nodes[n].depends ELSE <<>>]

Sort == INSTANCE TopologicalSort
          WITH Node <- NodeIds, Root <- 1, Graphs <- {},
               depends <- Depends, calls <- dfs

(* The result; an entry stands for all that one component contributes.      *)
Empty == [version |-> None, compile |-> <<>>, link |-> <<>>, location |-> <<>>]

(* All but the arguments, which Init of BuildGraph chooses.                 *)
FindStart ==
  /\ graph = <<>> /\ selected = <<>> /\ calls = <<>> /\ selection = "running"
  /\ dfs = <<>> /\ visited = {} /\ sorted = <<>>
  /\ phase = "building"
  /\ todo = <<>> /\ comps = {} /\ result = Empty

-----------------------------------------------------------------------------
(* The call of build_node; CPS_TRY returns its error, and an exception, of  *)
(* a node there is no room for among them, ends the program.               *)
BuildNode ==
  /\ phase = "building" /\ Build!Next
  /\ phase' = IF Len(nodes') > NodeLimit THEN "terminated"
              ELSE CASE building' = "running" -> "building"
                     [] building' = "found"   -> "selecting"
                     [] building' = "error"   -> "missing"
                     [] OTHER                 -> "terminated"
  /\ IF building' = "found"
     THEN graph' = nodes' /\ selected' = [n \in DOMAIN nodes' |-> Select!Nothing]
     ELSE UNCHANGED <<graph, selected>>
  /\ UNCHANGED <<calls, selection, sortVars, mergeVars>>

(* The call of set_components; an exception in it ends the program.         *)
SetComponents ==
  /\ phase = "selecting"
  /\ UNCHANGED <<buildVars, sortVars, mergeVars>>
  /\ Select!Next
  /\ phase' = CASE selection' = "done"       -> "sorting"
                [] selection' = "terminated" -> "terminated"
                [] OTHER                     -> "selecting"

(* Mutant: the sorted nodes are merged from the back.                      *)
Flat_reversed == Reverse(sorted')

(* What tsort returns.                                                     *)
Flat == sorted'

(* The call of tsort, and the beginning of the loop over what it returns.   *)
SortNodes ==
  /\ phase = "sorting"
  /\ UNCHANGED <<buildVars, selectVars>>
  /\ Sort!Next
  /\ IF Sort!Done'
     THEN /\ phase' = "merging"
          /\ todo' = Flat /\ comps' = Keys(selected[Flat[1]])
          /\ result' = [Empty EXCEPT !.version = nodes[root].pkg.version]
     ELSE UNCHANGED <<phase, mergeVars>>

-----------------------------------------------------------------------------
Merging      == phase = "merging"
Node         == Head(todo)
Data(c)      == nodes[Node].pkg.components[c]
LinkOnly(c)  == selected[Node][c]

(* Mutant: the test for the location is left out.                          *)
Complete_always(c) == TRUE

(* All components but interfaces need a location.                          *)
Complete(c) == Data(c).interface \/ Data(c).located

(* Mutant: link_only is not asked for.                                     *)
Compiles_always(c) == TRUE

(* Mutant: a component's location is merged with what it is compiled with.  *)
Locates_compile(c) == ~Data(c).interface /\ ~LinkOnly(c)

Compiles(c) == ~LinkOnly(c)
Locates(c)  == ~Data(c).interface

(* What a component adds to the result, by link_only and by its type.       *)
Merged(r, c) ==
  LET With(list, condition) == IF condition THEN Append(list, <<Node, c>>) ELSE list
  IN  [r EXCEPT !.compile = With(@, Compiles(c)), !.link = With(@, TRUE),
                !.location = With(@, Locates(c))]

(* One component of the node, an unordered_map's next.                      *)
MergeComponent(c) ==
  /\ Merging /\ c \in comps /\ Complete(c)
  /\ result' = Merged(result, c)
  /\ comps' = comps \ {c}
  /\ UNCHANGED <<buildVars, selectVars, sortVars, phase, todo>>

(* "Component requires 'location' attribute": the result is dropped.        *)
MissingLocation(c) ==
  /\ Merging /\ c \in comps /\ ~Complete(c)
  /\ phase' = "error"
  /\ UNCHANGED <<buildVars, selectVars, sortVars, mergeVars>>

(* Mutant: the node is not taken off the list.                             *)
NextNode_still ==
  /\ Merging /\ comps = {} /\ Len(todo) > 1
  /\ UNCHANGED findVars

(* The end of the loop over a node's components.                           *)
NextNode ==
  /\ Merging /\ comps = {} /\ Len(todo) > 1
  /\ todo' = Tail(todo) /\ comps' = Keys(selected[todo[2]])
  /\ UNCHANGED <<buildVars, selectVars, sortVars, phase, result>>

(* The end of the loop over the nodes.                                     *)
ReturnResult ==
  /\ Merging /\ comps = {} /\ Len(todo) = 1
  /\ phase' = "found"
  /\ UNCHANGED <<buildVars, selectVars, sortVars, mergeVars>>

FindNext ==
  \/ BuildNode \/ SetComponents \/ SortNodes
  \/ \E c \in Comps : MergeComponent(c) \/ MissingLocation(c)
  \/ NextNode \/ ReturnResult

-----------------------------------------------------------------------------
Found == phase = "found"

(* The entries every selected component of the graph should have.           *)
Selection == {e \in Below(nodes, 1) \X Comps : selected[e[1]][e[2]] # None}

DataOf(e) == nodes[e[1]].pkg.components[e[2]]

(* When a result is returned, each selected component of each node of the   *)
(* graph is in it once: among the link flags, among the compile flags       *)
(* unless it is only linked, among the locations unless it is an interface. *)
(* (A package that two others require is two nodes, and merged for each.)   *)
MergedOnce ==
  Found =>
    /\ IsInjective(result.link) /\ IsInjective(result.compile)
    /\ IsInjective(result.location)
    /\ Range(result.link) = Selection
    /\ Range(result.compile) = {e \in Selection : selected[e[1]][e[2]] = FALSE}
    /\ Range(result.location) = {e \in Selection : ~DataOf(e).interface}

(* In a result the flags of a package come before those of the packages it  *)
(* depends on, as a linker needs them.                                      *)
LinkOrder ==
  Found => \A j, k \in DOMAIN result.link :
    LET n == result.link[j][1]
        m == result.link[k][1]
    IN  n # m /\ m \in Below(nodes, n) => j < k

(* A component without a location keeps a result from being returned, and   *)
(* nothing else does, whatever the order components are visited in.         *)
LocationErrors ==
  LET lacking == {e \in Selection : ~DataOf(e).interface /\ ~DataOf(e).located}
  IN  (Found => lacking = {}) /\ (phase = "error" => lacking # {})

(* The files themselves as a graph: each name stands for the first of its   *)
(* files that loads, and its children are the names that file requires.    *)
Files ==
  LET loads == {m \in Names : HasChosen(disk, m) /\ Chosen(disk, m) # LoadThrow}
  IN  [m \in loads |->
         [pkg     |-> Chosen(disk, m),
          depends |-> SetToSeq(Keys(Chosen(disk, m).require) \cap loads)]]

FileUses == Select!UsesFrom(Files, request.name, request.req.components)

Contributors(entries) == {<<nodes[e[1]].pkg, e[2]>> : e \in Range(entries)}
Users(uses)           == {<<Files[u[1]].pkg, u[2]>> : u \in uses}

(* From the files to the result: what is merged to compile, or to link,     *)
(* comes from components of files the request needs to compile, or at all.  *)
(* A dependency is followed only if its file has the name it was found by,  *)
(* or another that is required; nothing else gets in, through whatever      *)
(* graph, and in whatever order, the components were reached.              *)
MergesOnlyNeeded ==
  result.link # <<>> =>
    LET uses == FileUses
    IN  /\ Contributors(result.compile) \subseteq Users({u \in uses : ~u[3]})
        /\ Contributors(result.link) \subseteq Users(uses)

(* And all of it does, where the needed components of each file ask for the *)
(* same children (see NeededKept in SetComponents), and to compile where no *)
(* needed component has link_requires: even one that asks for nothing marks *)
(* what the selected components of that child require of their own package. *)
MergesNeeded ==
  Found =>
    LET uses == FileUses
    IN  Select!Uniform(Files, Select!NeededIn(Files, uses)) =>
          /\ Contributors(result.link) = Users(uses)
          /\ (\A u \in uses : Files[u[1]].pkg.components[u[2]].link_requires = {}) =>
               Contributors(result.compile) = Users(uses)
=============================================================================
