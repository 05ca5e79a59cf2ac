----------------------------- MODULE MCCpsConfig -----------------------------
(***************************************************************************)
(* R requires A and B, and A may require B: a diamond, where B is built     *)
(* twice.  Components have a location, or none, or are interfaces, and are  *)
(* needed to compile, to link, or both.  B's file may not load, may call    *)
(* itself A or something nobody asks for, or lack a component.              *)
(***************************************************************************)
EXTENDS CpsConfig

CONSTANTS R, A, B, Z, x, y

Dep(n, c) == [pkg |-> n, comp |-> c]

Comp(r, l, interface, located) ==
  [require |-> r, link_requires |-> l, interface |-> interface, located |-> located]

Archive(r, l)   == Comp(r, l, FALSE, TRUE)
Interface(r, l) == Comp(r, l, TRUE, FALSE)
Unlocated       == Comp({}, {}, FALSE, FALSE)

MCVersions == {<<<<1>>>>}

AnyVersion  == [components |-> {}, version |-> None]
Requires(S) == [m \in Names |-> IF m \in S THEN AnyVersion ELSE None]

Pkg(n, cx, cy, S) ==
  [name |-> n, components |-> [c \in Comps |-> IF c = x THEN cx ELSE cy],
   default_components |-> {x}, require |-> Requires(S),
   version |-> <<<<1>>>>, compat_version |-> None, version_schema |-> "simple"]

RootX == {Archive({Dep(A, x)}, {Dep(B, y)}), Interface({Dep(A, y), Dep(B, x)}, {}),
          Archive({Dep(A, Default)}, {Dep(A, x)}), Archive({Dep(Self, y)}, {})}
RootY == {Interface({}, {Dep(A, x)}), Archive({Dep(A, y), Dep(B, x)}, {})}
AX    == {Archive({Dep(B, x)}, {}), Interface({Dep(Self, y)}, {Dep(B, y)})}

FilesR == {Pkg(R, rx, ry, {A, B}) : rx \in RootX, ry \in RootY}
FilesA == {Pkg(A, ax, Archive({}, {Dep(B, x)}), S) : ax \in AX, S \in {{}, {B}}}
FilesB == {Pkg(n, Archive({}, {}), cy, {}) : n \in {A, B, Z},
           cy \in {Interface({Dep(Self, x)}, {}), Unlocated}}
             \cup {Pkg(B, None, Unlocated, {}), LoadError}

Disk(r, a, b) ==
  [n \in Names |-> CASE n = R -> <<r>> [] n = A -> <<a>> [] n = B -> <<LoadError, b>>
                     [] OTHER -> <<>>]

MCDisks == {Disk(r, a, b) : r \in FilesR, a \in FilesA, b \in FilesB}

Line(options, packages, components) ==
  [options |-> options, packages |-> packages, components |-> components,
   format |-> "pkgconf"]

All   == Line({"--cflags", "--libs", "--print-errors"}, <<R>>, {})
Some  == {All, Line({"--libs"}, <<R, A>>, {y})}
Plain == Disk(Pkg(R, Archive({Dep(A, x)}, {}), Interface({}, {}), {A}),
              Pkg(A, Archive({}, {}), Interface({}, {}), {}), LoadError)

(* B requires Z, and is built twice: six nodes.                            *)
Deep  == [Disk(Pkg(R, Archive({Dep(A, x), Dep(B, x)}, {}), None, {A, B}),
               Pkg(A, Archive({Dep(B, x)}, {}), None, {B}),
               Pkg(B, Archive({Dep(Z, x)}, {}), None, {Z}))
            EXCEPT ![Z] = <<Pkg(Z, Archive({}, {}), None, {})>>]

(* A, asked to link by its bare name, lists no default components, yet the  *)
(* call marks y, which the selected x requires.                            *)
Bare  == Disk(Pkg(R, Archive({Dep(A, x)}, {Dep(A, Default)}), None, {A}),
              [Pkg(A, Archive({Dep(Self, y)}, {}), Archive({}, {}), {})
                 EXCEPT !.default_components = {}], LoadError)

MCInvocations ==
  {[disk |-> d, command |-> c] : d \in MCDisks, c \in Some}
    \cup {[disk |-> d, command |-> All] : d \in {Deep, Bare}}
    \cup {[disk |-> Plain, command |-> [All EXCEPT !.options = o, !.packages = p, !.format = f]] :
            o \in SUBSET Options, p \in {<<>>, <<A>>, <<B>>}, f \in {"pkgconf", "unknown"}}

MCRequests == {[name |-> n, req |-> [components |-> cs, version |-> None]] :
                 n \in {R, A, B}, cs \in {{}, {y}}}

MCRunDisks == MCDisks \cup {Plain, Deep, Bare}
=============================================================================
