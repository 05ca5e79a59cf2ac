----------------------------- MODULE BuildGraph -----------------------------
(***************************************************************************)
(* build_node and NodeFactory (src/cps/search.cpp): the recursive search    *)
(* for a package and everything it requires.  The C++ call stack is the     *)
(* variable stack, one frame per build_node call; the heap of Node objects  *)
(* is the sequence nodes, in the order they were made.                     *)
(***************************************************************************)
EXTENDS Demands, Nodes

VARIABLES
  disk,      \* the candidate files find_paths finds for each name, in order
  request,   \* the demand find_package starts from
  nodes,     \* the loaded packages, with their depends edges
  stack,     \* the active build_node calls
  outcome,   \* "running", or how the search ended
  root       \* the node returned to find_package, 0 if none

vars == <<disk, request, nodes, stack, outcome, root>>

Outcomes == {"running", "found", "error", "terminated", "overflow"}

(* A call that is about to try the first path.  node is 0 until a candidate *)
(* has passed every check; todo and found are the loop over p.require.      *)
Call(name, req, cache) ==
  [name |-> name, req |-> req, cand |-> 1, cache |-> cache,
   node |-> 0, todo |-> {}, found |-> <<>>]

EmptyCache == [n \in Names |-> 0]

Start ==
  /\ nodes = <<>>
  /\ stack = <<Call(request.name, request.req, EmptyCache)>>
  /\ outcome = "running"
  /\ root = 0

Init == disk \in Disks /\ request \in Requests /\ Start

-----------------------------------------------------------------------------
Running == outcome = "running"
Top     == stack[Len(stack)]
Parent  == stack[Len(stack) - 1]
Rest    == SubSeq(stack, 1, Len(stack) - 1)

SetTop(f)    == [stack EXCEPT ![Len(stack)] = f]
PopInto(f)   == [Rest EXCEPT ![Len(Rest)] = f]

NextPath(f)  == [f EXCEPT !.cand = @ + 1, !.node = 0, !.todo = {}, !.found = <<>>]

Trying    == Running /\ Top.node = 0 /\ Top.cand <= Len(disk[Top.name])
Exhausted == Running /\ Top.node = 0 /\ Top.cand > Len(disk[Top.name])
Expanding == Running /\ Top.node # 0

(* Mutant: the cache is never asked.                                       *)
Hit_never == FALSE

(* NodeFactory::get: the cache is asked by name, whatever the path is.      *)
Hit        == Top.cache[Top.name] # 0
FileAtPath == disk[Top.name][Top.cand]
Loads      == Hit \/ FileAtPath \notin {LoadError, LoadThrow}

(* The node get returns, and the heap and the cache after it.               *)
Got        == IF Hit THEN Top.cache[Top.name] ELSE Len(nodes) + 1
Heap       == IF Hit THEN nodes
              ELSE Append(nodes, [pkg |-> FileAtPath, depends |-> <<>>])
Cache      == IF Hit THEN Top.cache ELSE [Top.cache EXCEPT ![Top.name] = Got]
GotPackage == Heap[Got].pkg

(* Mutant: the factory is passed by reference.                             *)
CacheAfterReturn_shared(caller, callee) == callee.cache

(* The factory is passed by value: what a callee adds to its copy of the    *)
(* cache is lost when it returns.                                          *)
CacheAfterReturn(caller, callee) == caller.cache

-----------------------------------------------------------------------------
(* Mutant: a load error ends the search for this name.                     *)
LoadFails_final ==
  /\ Trying /\ ~Hit /\ FileAtPath = LoadError
  /\ stack' = SetTop([Top EXCEPT !.cand = Len(disk[Top.name]) + 1])
  /\ UNCHANGED <<disk, request, nodes, outcome, root>>

(* The loader returns an error: the next path is tried.                     *)
LoadFails ==
  /\ Trying /\ ~Hit /\ FileAtPath = LoadError
  /\ stack' = SetTop(NextPath(Top))
  /\ UNCHANGED <<disk, request, nodes, outcome, root>>

(* The loader throws an exception nothing catches, or calls abort.          *)
LoadThrows ==
  /\ Trying /\ ~Hit /\ FileAtPath = LoadThrow
  /\ outcome' = "terminated"
  /\ UNCHANGED <<disk, request, nodes, stack, root>>

(* std::optional::value throws bad_optional_access.                         *)
ComparisonThrows ==
  /\ Trying /\ Loads /\ VersionThrows(GotPackage, Top.req)
  /\ outcome' = "terminated"
  /\ UNCHANGED <<disk, request, nodes, stack, root>>

(* Mutant: a rejected candidate is looked at again.                        *)
Reject_again ==
  /\ Trying /\ Loads
  /\ ~VersionThrows(GotPackage, Top.req) /\ ~Meets(GotPackage, Top.req)
  /\ nodes' = Heap
  /\ stack' = SetTop([Top EXCEPT !.cache = Cache])
  /\ UNCHANGED <<disk, request, outcome, root>>

(* The candidate does not meet the requirements; it stays in the cache.     *)
Reject ==
  /\ Trying /\ Loads
  /\ ~VersionThrows(GotPackage, Top.req) /\ ~Meets(GotPackage, Top.req)
  /\ nodes' = Heap
  /\ stack' = SetTop([NextPath(Top) EXCEPT !.cache = Cache])
  /\ UNCHANGED <<disk, request, outcome, root>>

(* Mutant: required components are not checked.                            *)
Accept_components ==
  /\ Trying /\ Loads
  /\ ~VersionThrows(GotPackage, Top.req) /\ VersionMeets(GotPackage, Top.req)
  /\ nodes' = Heap
  /\ stack' = SetTop([Top EXCEPT !.cache = Cache, !.node = Got,
                                 !.todo = Keys(GotPackage.require)])
  /\ UNCHANGED <<disk, request, outcome, root>>

(* The candidate meets them; what it requires in turn is to be found.       *)
Accept ==
  /\ Trying /\ Loads /\ Meets(GotPackage, Top.req)
  /\ nodes' = Heap
  /\ stack' = SetTop([Top EXCEPT !.cache = Cache, !.node = Got,
                                 !.todo = Keys(GotPackage.require)])
  /\ UNCHANGED <<disk, request, outcome, root>>

(* The recursive call for one entry of p.require, an unordered_map.         *)
Descend(n) ==
  /\ Expanding /\ n \in Top.todo /\ Len(stack) < StackLimit
  /\ stack' = Append(SetTop([Top EXCEPT !.todo = @ \ {n}]),
                     Call(n, nodes[Top.node].pkg.require[n], Top.cache))
  /\ UNCHANGED <<disk, request, nodes, outcome, root>>

StackOverflow ==
  /\ Expanding /\ Top.todo # {} /\ Len(stack) = StackLimit
  /\ outcome' = "overflow"
  /\ UNCHANGED <<disk, request, nodes, stack, root>>

(* Every requirement was found: the children are linked, the node returned. *)
ReturnNode ==
  /\ Expanding /\ Top.todo = {}
  /\ nodes' = [nodes EXCEPT ![Top.node].depends = @ \o Top.found]
  /\ IF Len(stack) = 1
     THEN stack' = <<>> /\ outcome' = "found" /\ root' = Top.node
     ELSE /\ stack' = PopInto([Parent EXCEPT
                         !.found = Append(@, Top.node),
                         !.cache = CacheAfterReturn(Parent, Top)])
          /\ UNCHANGED <<outcome, root>>
  /\ UNCHANGED <<disk, request>>

(* Mutant: running out of paths at the root returns an empty pointer as    *)
(* success.                                                                *)
ReturnError_null ==
  /\ Exhausted /\ Len(stack) = 1
  /\ stack' = <<>> /\ outcome' = "found"
  /\ UNCHANGED <<disk, request, nodes, root>>

(* Mutant: the caller goes on without the child, and does not compare the   *)
(* number of children found with the number required.                      *)
ReturnError_skip ==
  /\ Exhausted
  /\ IF Len(stack) = 1
     THEN stack' = <<>> /\ outcome' = "error"
     ELSE stack' = PopInto(Parent) /\ UNCHANGED outcome
  /\ UNCHANGED <<disk, request, nodes, root>>

(* No path is left, or find_paths found none: the caller gives up on its    *)
(* own candidate and tries its next path.                                   *)
ReturnError ==
  /\ Exhausted
  /\ IF Len(stack) = 1
     THEN stack' = <<>> /\ outcome' = "error"
     ELSE /\ stack' = PopInto([NextPath(Parent) EXCEPT
                         !.cache = CacheAfterReturn(Parent, Top)])
          /\ UNCHANGED outcome
  /\ UNCHANGED <<disk, request, nodes, root>>

Next ==
  \/ LoadFails \/ LoadThrows \/ ComparisonThrows
  \/ Reject \/ Accept
  \/ \E n \in Names : Descend(n)
  \/ StackOverflow \/ ReturnNode \/ ReturnError

Spec == Init /\ [][Next]_vars /\ WF_vars(Next)

-----------------------------------------------------------------------------
Node == [pkg : Package, depends : Seq(Nat \ {0})]

Frame ==
  [name : Names, req : Requirement, cand : Nat \ {0},
   cache : [Names -> Nat], node : Nat,
   todo : SUBSET Names, found : Seq(Nat \ {0})]

(* The shape of the state, and what main sees of it: the stack is empty     *)
(* exactly when the search has answered, and there is a root exactly when   *)
(* it has found one.                                                       *)
TypeOK ==
  /\ disk \in [Names -> Seq(File)] /\ request \in Requests
  /\ nodes \in Seq(Node) /\ stack \in Seq(Frame)
  /\ Len(stack) <= StackLimit
  /\ outcome \in Outcomes
  /\ stack = <<>> <=> outcome \in {"found", "error"}
  /\ root \in 0..Len(nodes) /\ (root # 0 <=> outcome = "found")

DemandAt(k) == [name |-> stack[k].name, req |-> stack[k].req]

(* The active calls are a chain of demands from the request: each call was  *)
(* made for a requirement of the package its caller has accepted, however   *)
(* many candidates the caller went through before.                         *)
StackIsChain ==
  /\ stack # <<>> => DemandAt(1) = request
  /\ \A k \in 1..(Len(stack) - 1) :
       DemandAt(k + 1) \in Successors(disk, DemandAt(k))

(* Whatever the cache of a call holds for a name, an ancestor's node or a   *)
(* rejected candidate, is the first file of that name that loads.           *)
CacheOK(cache) ==
  \A n \in Names : cache[n] # 0 =>
    /\ HasChosen(disk, n)
    /\ cache[n] \in DOMAIN nodes
    /\ nodes[cache[n]].pkg = Chosen(disk, n)

CacheHoldsChosen == \A k \in DOMAIN stack : CacheOK(stack[k].cache)

(* What a call knows of the search.  Before it accepts a candidate, either   *)
(* every file it has passed failed to load, or its demand is beyond help;   *)
(* afterwards, every requirement no longer to do is resolved, except the    *)
(* one whose call is active.                                               *)
FrameOK(k) ==
  LET f == stack[k]
      d == DemandAt(k)
      p == Chosen(disk, f.name)
  IN  /\ k < Len(stack) => f.node # 0
      /\ f.cache[f.name] = 0 =>
           f.node = 0 /\ \A j \in 1..(f.cand - 1) : disk[f.name][j] = LoadError
      /\ f.node = 0 /\ f.cand > 1 /\ f.cache[f.name] # 0 =>
           ~Resolvable(disk, d)
      /\ f.node # 0 =>
           /\ f.node \in DOMAIN nodes
           /\ nodes[f.node].pkg = p
           /\ Acceptable(disk, d)
           /\ f.todo \subseteq Keys(p.require)
           /\ \A m \in Keys(p.require) \ f.todo :
                \/ k < Len(stack) /\ stack[k + 1].name = m
                \/ Resolvable(disk, [name |-> m, req |-> p.require[m]])

FramesOK == \A k \in DOMAIN stack : FrameOK(k)

(* The graph handed to set_components is a tree in which every node has     *)
(* exactly one child for each of its package's requirements, and that child *)
(* meets it: partial results of given-up candidates leave no trace in it.   *)
GraphIsBuilt == outcome = "found" => IsBuilt(nodes, root)

(* The child built for a requirement is made from the first file of the     *)
(* name required that loads, has the components required, and does not      *)
(* provide an older version than the one required, in the order one expects *)
(* of versions.                                                            *)
NothingTooOld ==
  outcome = "found" =>
    \A n \in Below(nodes, root) :
      LET kids    == nodes[n].depends
          require == nodes[n].pkg.require
      IN  \E entry \in Bijection(DOMAIN kids, Keys(require)) :
            \A k \in DOMAIN kids :
              LET p == nodes[kids[k]].pkg
                  r == require[entry[k]]
              IN  /\ HasChosen(disk, entry[k]) /\ p = Chosen(disk, entry[k])
                  /\ HasComponents(p, r)
                  /\ r.version # None => ~Older(ProvidedVersion(p), r.version)

(* A node's depends vector is written once: a package found again through   *)
(* the cache does not get its children a second time.                       *)
LinkedOnce ==
  [][\A n \in DOMAIN nodes :
       nodes'[n] # nodes[n] => nodes[n].depends = <<>>]_vars

(* The search implements the abstract one: it finds the package exactly     *)
(* when the request can be resolved, and dies only for a reason that lies   *)
(* in the files.                                                           *)
Abstract == INSTANCE Resolution
ImplementsResolution == Abstract!Spec

(* The search ends, whatever the files require.                            *)
Ends == <>~Running

(* "If this package doesn't meet the requirements then reject it and        *)
(* continue on" (search.cpp:275): a package is not reported missing while   *)
(* one of its paths holds a package that meets the requirements and needs   *)
(* nothing else.  It does not hold: the cache keeps the first one.          *)
RejectedAndContinued ==
  outcome = "error" =>
    \A k \in DOMAIN disk[request.name] :
      LET p == disk[request.name][k]
      IN  p \in {LoadError, LoadThrow}
          \/ ~Meets(p, request.req) \/ Keys(p.require) # {}
=============================================================================
