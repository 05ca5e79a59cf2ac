------------------------------- MODULE Demands -------------------------------
(***************************************************************************)
(* The packages a request needs, as a graph over demands: a demand is a     *)
(* package name with the requirement put on it, and its successors are the  *)
(* demands of the package it resolves to.  The graph is what build_node     *)
(* (src/cps/search.cpp) explores, one stack frame per demand.               *)
(***************************************************************************)
EXTENDS Packages

CONSTANTS
  Disks,        \* the file systems: the candidate files of each name
  Requests,     \* the root demands
  StackLimit    \* the number of build_node frames the stack has room for

Demand == [name : Names, req : Requirement]

(* find_package builds its own Requirement, from components alone.          *)
RootDemand == {d \in Demand : d.req.version = None}

ASSUME DemandsAssumption ==
  /\ Disks \subseteq [Names -> Seq(File)]
  /\ Requests \subseteq RootDemand
  /\ StackLimit \in Nat \ {0}

(* The first candidate file that does not fail to load.  The cache keeps it *)
(* under the package's name, so it is also the last one that is looked at.  *)
Opens(files, k) ==
  /\ k \in DOMAIN files
  /\ files[k] # LoadError
  /\ \A j \in 1..(k - 1) : files[j] = LoadError

HasChosen(disk, name) == \E k \in DOMAIN disk[name] : Opens(disk[name], k)

Chosen(disk, name) ==
  disk[name][CHOOSE k \in DOMAIN disk[name] : Opens(disk[name], k)]

Acceptable(disk, d) ==
  /\ HasChosen(disk, d.name)
  /\ Chosen(disk, d.name) # LoadThrow
  /\ Meets(Chosen(disk, d.name), d.req)

Throws(disk, d) ==
  /\ HasChosen(disk, d.name)
  /\ \/ Chosen(disk, d.name) = LoadThrow
     \/ VersionThrows(Chosen(disk, d.name), d.req)

DemandsOf(p) == {[name |-> n, req |-> p.require[n]] : n \in Keys(p.require)}

Successors(disk, d) ==
  IF Acceptable(disk, d) THEN DemandsOf(Chosen(disk, d.name)) ELSE {}

PackagesOn(disk) ==
  (UNION {{disk[n][k] : k \in DOMAIN disk[n]} : n \in Names})
    \ {LoadError, LoadThrow}

AllDemands(disk, root) ==
  {root} \cup UNION {DemandsOf(p) : p \in PackagesOn(disk)}

-----------------------------------------------------------------------------
(* A set of demands that needs nothing outside itself.                     *)
Closed(disk, S) == \A d \in S : Successors(disk, d) \subseteq S

(* A request can be resolved when it belongs to a closed set of demands     *)
(* that are all acceptable.                                                *)
Resolvable(disk, root) ==
  \E S \in SUBSET AllDemands(disk, root) :
    /\ root \in S
    /\ Closed(disk, S)
    /\ \A d \in S : Acceptable(disk, d)

Reached(disk, root, d) ==
  \A S \in SUBSET AllDemands(disk, root) :
    root \in S /\ Closed(disk, S) => d \in S

(* A chain of k demands that starts at the request.                        *)
IsChain(disk, root, k, c) ==
  /\ c[1] = root
  /\ \A j \in 1..(k - 1) : c[j + 1] \in Successors(disk, c[j])

HasChain(disk, root, k) ==
  \E c \in [1..k -> AllDemands(disk, root)] : IsChain(disk, root, k, c)
=============================================================================
