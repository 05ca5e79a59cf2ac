---------------------------- MODULE MCBuildGraph ----------------------------
(***************************************************************************)
(* Three names.  A is requested, and requires B, C or both, or itself; B    *)
(* may require C, or A again; C requires nothing.  A name has no candidate  *)
(* file, one or two, some of which do not load, lack a component, or        *)
(* provide too old a version.                                              *)
(***************************************************************************)
EXTENDS BuildGraph

CONSTANTS A, B, C, x

one == <<<<1>>>>
two == <<<<2>>>>
suf == <<<<1>>, <<0, 1>>>>
MCVersions == {one, two, suf}

Any(cs)       == [components |-> cs, version |-> None]
AtLeast(v)    == [components |-> {}, version |-> v]
Requires(n, r) == [m \in Names |-> IF m = n THEN r ELSE None]
Nothing       == [m \in Names |-> None]

Pkg(n, comps, require, version, compat, schema) ==
  [name |-> n,
   components |-> [c \in Comps |->
     IF c \in comps THEN [require |-> {}, link_requires |-> {},
                          interface |-> TRUE, located |-> FALSE] ELSE None],
   default_components |-> {}, require |-> require,
   version |-> version, compat_version |-> compat, version_schema |-> schema]

Plain(n, comps, require) == Pkg(n, comps, require, one, None, "simple")

FilesA == {Plain(A, {}, Nothing),
           Plain(A, {x}, Requires(B, Any({x}))),
           Plain(A, {}, Requires(B, AtLeast(two))),
           Plain(A, {x}, Requires(A, Any({}))),
           Plain(A, {x}, Requires(A, AtLeast(two))),
           Plain(A, {x}, [Nothing EXCEPT ![B] = Any({}),
                                                   ![C] = AtLeast(suf)])}

FilesB == {Plain(B, {x}, Requires(C, AtLeast(suf))),
           Pkg(B, {}, Requires(C, Any({x})), two, one, "simple"),
           Pkg(B, {x}, Requires(C, Any({})), two, None, "simple"),
           Pkg(B, {x}, Requires(A, Any({})), two, None, "simple"),
           Pkg(B, {x}, Nothing, None, two, "simple")}

FilesC == {Plain(C, {x}, Nothing), Plain(C, {}, Nothing),
           Pkg(C, {x}, Nothing, None, None, "simple"),
           Pkg(C, {x}, Nothing, two, suf, "simple"),
           Pkg(C, {x}, Nothing, one, None, "custom")}

OnePath(S)  == {<<f>> : f \in S}
TwoPaths(S) == {<<f, g>> : f \in S, g \in S}

PathsA == OnePath(FilesA) \cup {<<f, Plain(A, {x}, Nothing)>> : f \in FilesA}
PathsB == {<<>>, <<LoadThrow>>} \cup OnePath(FilesB)
            \cup {<<LoadError, f>> : f \in FilesB}
PathsC == {<<>>, <<LoadError>>, <<LoadError, LoadThrow>>} \cup TwoPaths(FilesC)

MCDisks ==
  {[n \in {A, B, C} |-> CASE n = A -> a [] n = B -> b [] n = C -> c] :
     a \in PathsA, b \in PathsB, c \in PathsC}

MCRequests == {[name |-> A, req |-> Any({})], [name |-> A, req |-> Any({x})]}
=============================================================================
