-------------------------- MODULE MCSetComponents --------------------------
(***************************************************************************)
(* A root with components x and y over two packages, the first of which has *)
(* a package of its own: 1 -> 2, 1 -> 3, 2 -> 4.  The components' requires  *)
(* name other packages' components, their defaults, components of the same  *)
(* package, and components that do not exist.                               *)
(***************************************************************************)
EXTENDS SetComponents

CONSTANTS R, A, B, C, x, y

Dep(n, c)  == [pkg |-> n, comp |-> c]
Comp(r, l) == [require |-> r, link_requires |-> l,
               interface |-> TRUE, located |-> FALSE]

MCVersions == {}

AnyVersion      == [components |-> {}, version |-> None]
Requires(S) == [m \in Names |-> IF m \in S THEN AnyVersion ELSE None]

Pkg(n, cx, cy, defaults, S) ==
  [name |-> n, components |-> [c \in Comps |-> IF c = x THEN cx ELSE cy],
   default_components |-> defaults, require |-> Requires(S),
   version |-> None, compat_version |-> None, version_schema |-> "simple"]

Plain == Comp({}, {})

RootX == {Comp({Dep(A, x)}, {}), Comp({Dep(A, Default)}, {Dep(A, x)}),
          Comp({Dep(Self, y)}, {Dep(A, y)}),
          Comp({Dep(A, y), Dep(B, x)}, {})}
RootY == {Plain, Comp({Dep(A, x)}, {}), Comp({Dep(B, y)}, {Dep(A, x)}),
          Comp({Dep(Self, Default)}, {}), Comp({Dep(C, x)}, {})}
AX    == {Comp({Dep(C, x)}, {}), Comp({Dep(Self, y)}, {}), None}
AY    == {Plain, Comp({}, {Dep(C, y)}), Comp({Dep(C, Default)}, {Dep(C, x)})}

MCGraphs ==
  {<<[pkg |-> Pkg(R, rx, ry, rd, {A, B}), depends |-> <<2, 3>>],
     [pkg |-> Pkg(A, ax, ay, {x}, {C}),   depends |-> <<4>>],
     [pkg |-> Pkg(B, Plain, Plain, {}, {}), depends |-> <<>>],
     [pkg |-> Pkg(C, Plain, Comp({Dep(Self, x)}, {}), {x}, {}),
      depends |-> <<>>]>> :
   rx \in RootX, ry \in RootY, rd \in {{x}, {x, y}}, ax \in AX, ay \in AY}
=============================================================================
