---------------------------- MODULE SetComponents ----------------------------
(***************************************************************************)
(* set_components (src/cps/search.cpp): the second pass over the graph that *)
(* build_node made. It selects the components each node contributes, marks  *)
(* those that only the linker needs, and trims children that no component   *)
(* asks for.  The recursion is the variable calls, one frame per call.      *)
(***************************************************************************)
EXTENDS Nodes, SequencesExt

CONSTANTS
  Graphs      \* the graphs build_node returns; node 1 is the root

Reqs == SUBSET Comps   \* the components main asks for; none: the defaults

ASSUME GraphsAssumption ==
  /\ IsFiniteSet(Comps) /\ None \notin Comps \cup BOOLEAN
  /\ \A g \in Graphs : /\ g \in Seq([pkg : Package, depends : Seq(DOMAIN g)])
                       /\ Len(g) >= 1 /\ IsBuilt(g, 1)

VARIABLES
  graph,     \* the graph as it was built
  request,   \* the components find_package was asked for
  nodes,     \* the graph as it is being trimmed
  selected,  \* per node, the components to use and whether only to link
  calls,     \* the active set_components calls
  outcome    \* "running", "done" or "terminated"

vars == <<graph, request, nodes, selected, calls, outcome>>

Nothing == [c \in Comps |-> None]

Init ==
  /\ graph \in Graphs
  /\ request \in {r \in Reqs : r \subseteq Keys(graph[1].pkg.components)}
  /\ nodes = graph
  /\ selected = [n \in DOMAIN graph |-> Nothing]
  /\ calls = <<>>
  /\ outcome = "running"

-----------------------------------------------------------------------------
(* The arguments of a call.                                                *)
Call(node, components, defaults, link_only) ==
  [node |-> node, components |-> components, defaults |-> defaults,
   link_only |-> link_only]

Defaults(p, defaults) == IF defaults THEN p.default_components ELSE {}

(* Mutant: the defaults are added whether or not they are asked for.       *)
Listed_always(call) ==
  call.components \cup nodes[call.node].pkg.default_components

Listed(call) ==
  call.components \cup Defaults(nodes[call.node].pkg, call.defaults)

Require(p, c)      == process_requires(p.components[c].require)
LinkRequire(p, c)  == process_requires(p.components[c].link_requires)

(* The components of its own package that a component requires, ":c".       *)
SelfRequires(p, c) ==
  IF c \in Keys(p.components) /\ Self \in DOMAIN Require(p, c)
  THEN LET r == Require(p, c)[Self]
       IN  r.components \cup Defaults(p, r.defaults)
  ELSE {}

(* The worklist self_requires, run to its end.                             *)
SelfClosure(p, start) ==
  LET after[k \in 0..Cardinality(Comps)] ==
        IF k = 0 THEN start
        ELSE LET before == after[k - 1]
             IN  before \cup UNION {SelfRequires(p, c) : c \in before}
  IN  after[Cardinality(Comps)]

Closure(call) ==
  SelfClosure(nodes[call.node].pkg, Keys(selected[call.node]) \cup Listed(call))

(* Mutant: components required by ":c" are not inserted.                   *)
Touched_listed(call) == Listed(call)

(* component_updater is applied to the listed components and to the targets *)
(* of every self requirement met on the way, not to what was there before.  *)
Touched(call) ==
  Listed(call) \cup
    UNION {SelfRequires(nodes[call.node].pkg, c) : c \in Closure(call)}

(* Mutant: link_only is assigned, not or-ed.                               *)
Update_assign(link_only, arg) == arg

Update(link_only, arg) == IF link_only = None THEN arg ELSE link_only \/ arg

UpdatedComponents(call) ==
  [c \in Comps |-> IF c \in Touched(call)
                   THEN Update(selected[call.node][c], call.link_only)
                   ELSE selected[call.node][c]]

(* Mutant: every default component is looked up.                           *)
AtThrows_defaults(call) ==
  LET p == nodes[call.node].pkg
  IN  ~(Closure(call) \cup p.default_components \subseteq Keys(p.components))

(* unordered_map::at throws for a component the package does not have.      *)
AtThrows(call) ==
  ~(Closure(call) \subseteq Keys(nodes[call.node].pkg.components))

(* The calls a list of requirements makes, in the order of depends.         *)
ChildCalls(n, required, link_only) ==
  LET depends == nodes[n].depends
      calls_of[k \in 0..Len(depends)] ==
        IF k = 0 THEN <<>>
        ELSE LET name == nodes[depends[k]].pkg.name
             IN  IF name \notin DOMAIN required THEN calls_of[k - 1]
                 ELSE Append(calls_of[k - 1],
                        Call(depends[k], required[name].components,
                             required[name].defaults, link_only))
  IN  calls_of[Len(depends)]

(* Mutant: link_requires is not walked.                                    *)
ComponentCalls_requires(n, c, link_only) ==
  ChildCalls(n, Require(nodes[n].pkg, c), link_only)

(* The link_only a component's requires and link_requires are passed.       *)
ComponentCalls(n, c, link_only) ==
  LET p == nodes[n].pkg
  IN  ChildCalls(n, Require(p, c), link_only)
        \o ChildCalls(n, LinkRequire(p, c), TRUE)

(* Mutant: depends is not trimmed.                                         *)
DependsAfter_all(depends, trimmed) == depends

(* trimmed replaces depends after each component, not after all of them.    *)
DependsAfter(depends, trimmed) == trimmed

-----------------------------------------------------------------------------
Running == outcome = "running"
Top     == Last(calls)

InLoop  == Running /\ calls # <<>> /\ Top.comp = None
InCalls == Running /\ calls # <<>> /\ Top.comp # None

(* find_package calls set_components for the root; a call calls it for the  *)
(* children of the component it is at.                                      *)
Calling ==
  \/ Running /\ calls = <<>>
  \/ InCalls /\ Top.pending # <<>>

NextCall ==
  IF calls = <<>> THEN Call(1, request, request = {}, FALSE)
                  ELSE Head(Top.pending)

Callers ==
  IF calls = <<>> THEN <<>>
  ELSE Append(Front(calls), [Top EXCEPT !.pending = Tail(@)])

(* A call, down to the loop over the node's components, an unordered_map.   *)
Enter ==
  /\ Calling /\ ~AtThrows(NextCall)
  /\ selected' = [selected EXCEPT ![NextCall.node] = UpdatedComponents(NextCall)]
  /\ calls' = Append(Callers,
       [node |-> NextCall.node, link_only |-> NextCall.link_only,
        todo |-> Keys(UpdatedComponents(NextCall)),
        comp |-> None, pending |-> <<>>, trimmed |-> <<>>])
  /\ UNCHANGED <<graph, request, nodes, outcome>>

Throw ==
  /\ Calling /\ AtThrows(NextCall)
  /\ outcome' = "terminated"
  /\ UNCHANGED <<graph, request, nodes, selected, calls>>

BeginComponent(c) ==
  /\ InLoop /\ c \in Top.todo
  /\ LET cs == ComponentCalls(Top.node, c, Top.link_only)
     IN  calls' = Append(Front(calls),
           [Top EXCEPT !.todo = @ \ {c}, !.comp = c, !.pending = cs,
                       !.trimmed = [k \in DOMAIN cs |-> cs[k].node]])
  /\ UNCHANGED <<graph, request, nodes, selected, outcome>>

EndComponent ==
  /\ InCalls /\ Top.pending = <<>>
  /\ nodes' = [nodes EXCEPT ![Top.node].depends = DependsAfter(@, Top.trimmed)]
  /\ calls' = Append(Front(calls), [Top EXCEPT !.comp = None])
  /\ UNCHANGED <<graph, request, selected, outcome>>

Return ==
  /\ InLoop /\ Top.todo = {}
  /\ calls' = Front(calls)
  /\ outcome' = IF Len(calls) = 1 THEN "done" ELSE outcome
  /\ UNCHANGED <<graph, request, nodes, selected>>

Next ==
  \/ Enter \/ Throw \/ EndComponent \/ Return
  \/ \E c \in Comps : BeginComponent(c)

Spec == Init /\ [][Next]_vars /\ WF_vars(Next)

-----------------------------------------------------------------------------
(* What components need, the reference the selection is measured against.   *)
(* In a graph g, a use <<n, c, link>> says that component c of n is needed, *)
(* to link only when link is TRUE; a component needed to compile passes on  *)
(* requires to compile and link_requires to link.                          *)
NeededOf(g, n, required, link) ==
  UNION {{<<k, c, link>> :
            c \in required[g[k].pkg.name].components
              \cup Defaults(g[k].pkg, required[g[k].pkg.name].defaults)} :
         k \in {m \in Children(g, n) : g[m].pkg.name \in DOMAIN required}}

NeededBy(g, n, c, link) ==
  LET p == g[n].pkg
  IN  IF c \notin Keys(p.components) THEN {}
      ELSE {<<n, s, link>> : s \in SelfRequires(p, c)}
             \cup NeededOf(g, n, Require(p, c), link)
             \cup NeededOf(g, n, LinkRequire(p, c), TRUE)

(* The uses that follow from asking node r for components, or its defaults. *)
UsesFrom(g, r, components) ==
  LET first == {<<r, c, FALSE>> :
                  c \in components \cup Defaults(g[r].pkg, components = {})}
      bound == 2 * Cardinality(DOMAIN g) * Cardinality(Comps)
      after[k \in 0..bound] ==
        IF k = 0 THEN first
        ELSE LET before == after[k - 1]
             IN  before \cup UNION {NeededBy(g, u[1], u[2], u[3]) : u \in before}
  IN  after[bound]

Uses == UsesFrom(graph, 1, request)

NeededIn(g, uses) == [n \in DOMAIN g |-> {u[2] : u \in {v \in uses : v[1] = n}}]
Needed            == NeededIn(graph, Uses)

NamedBy(p, c) ==
  IF c \notin Keys(p.components) THEN {}
  ELSE (DOMAIN Require(p, c) \cup DOMAIN LinkRequire(p, c)) \ {Self}

(* The children that component c of node n asks for.                        *)
WantsIn(g, n, c) == {k \in Children(g, n) : g[k].pkg.name \in NamedBy(g[n].pkg, c)}
Wants(n, c)      == WantsIn(graph, n, c)

Existing(n) == Keys(graph[n].pkg.components)
Selected(n) == Keys(selected[n])
Done        == outcome = "done"

-----------------------------------------------------------------------------
(* A component is selected only if the request needs it, whichever          *)
(* components of a node are visited first, and marked as needed to compile  *)
(* only if it is: nobody else's flags get into the result.                  *)
OnlyNeeded ==
  LET all == Uses
  IN  \A n \in DOMAIN graph : \A c \in Selected(n) :
        \E link \in {FALSE, selected[n][c]} : <<n, c, link>> \in all

(* Between calls the selection of a node is closed under ":c" requires, and *)
(* every component in it exists: find_package's assertion "Could not find   *)
(* component" (search.cpp:516-518) cannot fail.                             *)
SelectionClosed ==
  \A n \in DOMAIN graph :
    /\ Selected(n) \subseteq Existing(n)
    /\ SelfClosure(graph[n].pkg, Selected(n)) = Selected(n)

(* Everything needed is selected, provided the needed components of a node  *)
(* ask for the same children; where they do not, see NeededKept.            *)
Uniform(g, needed) ==
  \A n \in DOMAIN g : \A c, d \in needed[n] : WantsIn(g, n, c) = WantsIn(g, n, d)

NeededSelected ==
  Done => LET needed == Needed
          IN  Uniform(graph, needed) => \A n \in DOMAIN graph : Selected(n) = needed[n]

(* A child that stays in the graph is one that a selected component of its  *)
(* parent asks for; it stays once, unless a component asks for it both to   *)
(* compile and to link.                                                    *)
KeptForAReason ==
  Done => \A n \in DOMAIN graph : Selected(n) # {} =>
    /\ \A k \in Children(nodes, n) : \E c \in Selected(n) : k \in Wants(n, c)
    /\ (\A c \in Selected(n) :
          DOMAIN Require(graph[n].pkg, c)
            \cap DOMAIN LinkRequire(graph[n].pkg, c) \subseteq {Self})
       => IsInjective(nodes[n].depends)

(* unordered_map::at throws only for a component that was asked for, from   *)
(* the request on down, and that its package does not have; and where one   *)
(* is missing it does throw, provided the needed components of a node ask   *)
(* for the same children.                                                  *)
ThrowsForMissing ==
  /\ outcome = "terminated" =>
       LET needed == Needed
       IN  \E n \in DOMAIN graph : ~(needed[n] \subseteq Existing(n))
  /\ Done =>
       LET needed == Needed
       IN  Uniform(graph, needed) => \A n \in DOMAIN graph : needed[n] \subseteq Existing(n)

(* A pass over a node's children only takes children away, and a component  *)
(* once marked as linked only stays so.                                    *)
OnlyTrims ==
  [][\A n \in DOMAIN graph :
       /\ Children(nodes', n) \subseteq Children(nodes, n)
       /\ Selected(n) \subseteq Keys(selected'[n])
       /\ \A c \in Selected(n) : selected[n][c] = TRUE => selected'[n][c] = TRUE]_vars

(* "If we don't need them we can trim the graph" (search.cpp:445-447): a    *)
(* child that a selected component asks for is not trimmed.  It does not    *)
(* hold: the last component visited decides alone.                          *)
NeededKept ==
  Done => \A n \in Below(nodes, 1) : \A c \in Selected(n) :
            Wants(n, c) \subseteq Children(nodes, n)

(* "If this component is only required for linking, not compiling"          *)
(* (search.cpp:37): a component marked link_only is not needed to compile.  *)
(* It does not hold for a component that is needed for both.                *)
LinkOnlyMeansOnly ==
  Done => \A n \in DOMAIN graph : \A c \in Selected(n) :
            selected[n][c] = TRUE => <<n, c, FALSE>> \notin Uses
=============================================================================
