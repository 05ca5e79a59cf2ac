----------------------------- MODULE Resolution -----------------------------
(***************************************************************************)
(* What building the dependency graph promises, in one step: it finds the   *)
(* package exactly when the request can be resolved, and the program dies   *)
(* only for a reason that lies in the files.                               *)
(***************************************************************************)
EXTENDS Demands

VARIABLES disk, request, outcome

vars == <<disk, request, outcome>>

Init ==
  /\ disk \in Disks
  /\ request \in Requests
  /\ outcome = "running"

Find == outcome' = "found" /\ Resolvable(disk, request)

(* An error message is returned, and main prints it.                       *)
Fail == outcome' = "error" /\ ~Resolvable(disk, request)

(* Some demand the search can reach makes the loader, or the version        *)
(* comparison, throw.                                                      *)
Terminate ==
  /\ outcome' = "terminated"
  /\ \E d \in AllDemands(disk, request) :
       Reached(disk, request, d) /\ Throws(disk, d)

(* The requirements chain up beyond what the stack has room for.            *)
Overflow ==
  outcome' = "overflow" /\ HasChain(disk, request, StackLimit + 1)

Next ==
  /\ outcome = "running"
  /\ Find \/ Fail \/ Terminate \/ Overflow
  /\ UNCHANGED <<disk, request>>

Spec == Init /\ [][Next]_vars
=============================================================================
