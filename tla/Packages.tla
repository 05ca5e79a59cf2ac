------------------------------ MODULE Packages ------------------------------
(***************************************************************************)
(* The data of cps::loader (src/cps/loader.hpp) as far as the search reads  *)
(* it, and the two questions the search asks of it: whether a package meets *)
(* a requirement, and which dependencies a list of "requires" names.        *)
(***************************************************************************)
EXTENDS Version

CONSTANTS
  Names,        \* package names
  Comps,        \* component names
  Versions,     \* version strings
  None,         \* an absent std::optional
  Self,         \* the empty package name of ":component"
  Default,      \* no component after the package name: its defaults
  LoadError,    \* a file whose load returns an error
  LoadThrow     \* a file whose load throws, or calls abort

Optional(S) == S \cup {None}

(* A std::unordered_map, as a function that is None at the absent keys.     *)
Map(S, T) == [S -> Optional(T)]
Keys(map) == {k \in DOMAIN map : map[k] # None}

Requirement == [components : SUBSET Comps, version : Optional(Versions)]

(* One entry of "requires": "pkg", "pkg:comp" or ":comp".                   *)
Dependency == [pkg : Names \cup {Self}, comp : Comps \cup {Default}]

(* A component; what it contributes to the result is identified with it.    *)
Component ==
  [require : SUBSET Dependency, link_requires : SUBSET Dependency,
   interface : BOOLEAN,     \* its type is interface
   located : BOOLEAN]       \* it has a location

Package ==
  [name : Names,
   components : Map(Comps, Component),
   default_components : SUBSET Comps,
   require : Map(Names, Requirement),
   version : Optional(Versions),
   compat_version : Optional(Versions),
   version_schema : Schemas]

ASSUME PackagesAssumption ==
  /\ Versions \subseteq Version
  /\ None \notin Versions \cup Component \cup Requirement
  /\ Self \notin Names
  /\ Default \notin Comps
  /\ LoadError # LoadThrow
  /\ LoadError \notin Package /\ LoadThrow \notin Package

(* What loading the file at a path gives.                                   *)
File == Package \cup {LoadError, LoadThrow}

-----------------------------------------------------------------------------
HasVersion(p) == p.version # None \/ p.compat_version # None

(* compat_version.value_or(version.value()): the argument is evaluated      *)
(* first, so a package with only a compat_version throws                    *)
(* bad_optional_access, which nothing catches.                              *)
VersionThrows(p, req) ==
  req.version # None /\ HasVersion(p) /\ p.version = None

ProvidedVersion(p) ==
  IF p.compat_version # None THEN p.compat_version ELSE p.version

(* Mutant: a comparison that returns an error does not reject.             *)
VersionMeets_error(p, req) ==
  req.version # None =>
    /\ HasVersion(p)
    /\ compare(ProvidedVersion(p), "lt", req.version, p.version_schema) # "yes"

VersionMeets(p, req) ==
  req.version # None =>
    /\ HasVersion(p)
    /\ compare(ProvidedVersion(p), "lt", req.version, p.version_schema) = "no"

HasComponents(p, req) == req.components \subseteq Keys(p.components)

(* Neither of the rejections of build_node applies.                         *)
Meets(p, req) ==
  ~VersionThrows(p, req) /\ VersionMeets(p, req) /\ HasComponents(p, req)

-----------------------------------------------------------------------------
(* process_requires: each package a list of "requires" names, with the      *)
(* components wanted from it and whether its defaults are wanted too.       *)
process_requires(deps) ==
  [n \in {d.pkg : d \in deps} |->
     [components |-> {d.comp : d \in {e \in deps : e.pkg = n}} \ {Default},
      defaults   |-> \E d \in deps : d.pkg = n /\ d.comp = Default]]
=============================================================================
