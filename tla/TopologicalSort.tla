--------------------------- MODULE TopologicalSort ---------------------------
(***************************************************************************)
(* tsort and dfs (src/cps/search.cpp): the graph is put in the order the    *)
(* flags are given to the linker in.  The recursion of dfs is the variable  *)
(* calls, one frame per call.                                              *)
(***************************************************************************)
EXTENDS Integers, Sequences, Functions

CONSTANTS
  Node,       \* the nodes of the graph
  Root,       \* the node tsort is called with
  Graphs      \* the depends vectors tsort may be called with

(* A graph without cycles: every set of nodes has one none of whose         *)
(* children are in the set.  build_node cannot return a graph with a cycle, *)
(* because a cycle of requirements overflows its stack.                    *)
Acyclic(graph) ==
  \A S \in SUBSET Node :
    S # {} => \E n \in S : Range(graph[n]) \cap S = {}

ASSUME SortAssumption ==
  /\ Root \in Node
  /\ Graphs \subseteq [Node -> Seq(Node)]
  /\ \A g \in Graphs : Acyclic(g)

VARIABLES
  depends,   \* the depends vector of each node
  calls,     \* the active dfs calls: the node, and the place in its depends
  visited,   \* the nodes dfs was called for
  sorted     \* the nodes dfs is done with, the last one first

vars == <<depends, calls, visited, sorted>>

Init ==
  /\ depends \in Graphs
  /\ calls = <<>> /\ visited = {} /\ sorted = <<>>

-----------------------------------------------------------------------------
Top   == calls[Len(calls)]
Below == SubSeq(calls, 1, Len(calls) - 1)
Child == depends[Top.node][Top.next]

Advanced == [calls EXCEPT ![Len(calls)].next = @ + 1]

(* tsort calls dfs for the root.                                           *)
Begin ==
  /\ visited = {}
  /\ calls' = <<[node |-> Root, next |-> 1]>>
  /\ visited' = {Root}
  /\ UNCHANGED <<depends, sorted>>

(* Mutant: the loop ends one child early.                                  *)
InLoop_short == calls # <<>> /\ Top.next < Len(depends[Top.node])

InLoop == calls # <<>> /\ Top.next <= Len(depends[Top.node])

(* Mutant: a node is marked when dfs is done with it, not when it begins.   *)
Visit_late ==
  /\ InLoop /\ Child \notin visited
  /\ calls' = Append(Advanced, [node |-> Child, next |-> 1])
  /\ UNCHANGED <<depends, visited, sorted>>

(* Mutant: dfs is called for every child, met before or not.               *)
Visit_again ==
  /\ InLoop
  /\ calls' = Append(Advanced, [node |-> Child, next |-> 1])
  /\ visited' = visited \cup {Child}
  /\ UNCHANGED <<depends, sorted>>

(* The recursive call for a child not met before.                           *)
Visit ==
  /\ InLoop /\ Child \notin visited
  /\ calls' = Append(Advanced, [node |-> Child, next |-> 1])
  /\ visited' = visited \cup {Child}
  /\ UNCHANGED <<depends, sorted>>

Skip ==
  /\ InLoop /\ Child \in visited
  /\ calls' = Advanced
  /\ UNCHANGED <<depends, visited, sorted>>

(* Mutant: the node is put at the back.                                    *)
Finish_back ==
  /\ calls # <<>> /\ ~InLoop
  /\ calls' = Below
  /\ sorted' = Append(sorted, Top.node)
  /\ UNCHANGED <<depends, visited>>

(* After its children, the node is put in front of all that is sorted.      *)
Finish ==
  /\ calls # <<>> /\ ~InLoop
  /\ calls' = Below
  /\ sorted' = <<Top.node>> \o sorted
  /\ UNCHANGED <<depends, visited>>

Next == Begin \/ Visit \/ Skip \/ Finish

Spec == Init /\ [][Next]_vars /\ WF_vars(Next)

-----------------------------------------------------------------------------
Done == visited # {} /\ calls = <<>>

Frame == [node : Node, next : Nat \ {0}]

(* The shape of the state; what dfs was called for is either under way or   *)
(* done, and each of it once.                                              *)
TypeOK ==
  /\ depends \in Graphs
  /\ calls \in Seq(Frame)
  /\ sorted \in Seq(Node)
  /\ visited = Range([k \in DOMAIN calls |-> calls[k].node]) \cup Range(sorted)

(* Each call is in a child's place of its caller, and loops have not run    *)
(* past the children: the active calls are a path of the graph.             *)
CallsArePath ==
  /\ calls # <<>> => calls[1].node = Root
  /\ \A k \in DOMAIN calls : calls[k].next <= Len(depends[calls[k].node]) + 1
  /\ \A k \in 1..(Len(calls) - 1) :
       /\ calls[k].next > 1
       /\ calls[k + 1].node = depends[calls[k].node][calls[k].next - 1]

(* Every sorted node is followed by all it depends on, which is the order   *)
(* a linker that resolves from left to right needs its arguments in.        *)
DependsFollow ==
  \A j \in DOMAIN sorted : \A k \in DOMAIN depends[sorted[j]] :
    \E l \in (j + 1)..Len(sorted) : sorted[l] = depends[sorted[j]][k]

(* No node is sorted twice: its flags are merged into the result once.      *)
SortedOnce == IsInjective(sorted)

(* Exactly the nodes the root reaches are sorted: they contain what they    *)
(* depend on, and are in every other set with the root that does.           *)
Within(S) == Root \in S /\ \A n \in S : Range(depends[n]) \subseteq S

SortsReachable ==
  Done => /\ Within(Range(sorted))
          /\ \A S \in SUBSET Node : Within(S) => Range(sorted) \subseteq S
=============================================================================
