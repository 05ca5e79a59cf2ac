-------------------------------- MODULE Nodes --------------------------------
(***************************************************************************)
(* The graph of Node objects (src/cps/search.cpp) that build_node makes and *)
(* set_components walks: node n is nodes[n], its children nodes[n].depends. *)
(***************************************************************************)
EXTENDS Packages, Functions

Children(nodes, n) == Range(nodes[n].depends)

(* The nodes that can be reached from node r.                              *)
Below(nodes, r) ==
  LET within[k \in 0..Len(nodes)] ==
        IF k = 0 THEN {r}
        ELSE LET nearer == within[k - 1]
             IN  nearer \cup UNION {Children(nodes, n) : n \in nearer}
  IN  within[Len(nodes)]

(* One place in a depends vector.                                          *)
Edges(nodes, S) ==
  UNION {{<<n, k>> : k \in DOMAIN nodes[n].depends} : n \in S}

(* No node has two parents, or is twice the child of one, and the root is   *)
(* nobody's child.                                                         *)
IsTree(nodes, r) ==
  LET E        == Edges(nodes, Below(nodes, r))
      Child(e) == nodes[e[1]].depends[e[2]]
  IN  /\ \A e \in E : Child(e) # r
      /\ \A e, f \in E : Child(e) = Child(f) => e = f

(* A node has one child for each entry of its package's "requires", and     *)
(* that child meets the entry's requirement.                               *)
MeetsRequires(nodes, n) ==
  LET p    == nodes[n].pkg
      kids == nodes[n].depends
  IN  \E entry \in Bijection(DOMAIN kids, Keys(p.require)) :
        \A k \in DOMAIN kids : Meets(nodes[kids[k]].pkg, p.require[entry[k]])

IsBuilt(nodes, r) ==
  /\ IsTree(nodes, r)
  /\ \A n \in Below(nodes, r) : MeetsRequires(nodes, n)
=============================================================================
