----------------------------- MODULE SearchPaths -----------------------------
(***************************************************************************)
(* find_paths (src/cps/search.cpp): the files a package of a given name may *)
(* be loaded from, in the order they are tried.  The directories come from  *)
(* the environment (get_env, src/cps/env.cpp) and from the system, and are  *)
(* computed once.  build_node asks once for every package of the graph, and *)
(* for the same name again when several packages require it.                *)
(***************************************************************************)
EXTENDS SequencesExt, Integers

CONSTANTS
  Names,          \* names of packages
  Environments,   \* the environments the program may be started in
  Disks,          \* the sets of files there may be
  Libdir, Datadir \* platform::libdir() and platform::datadir(), as paths

(* A directory is the sequence of its names.  An environment gives the      *)
(* variables that are set the directories they list; the files of a disk    *)
(* are named for the packages.                                             *)
Variables == {"CPS_PATH", "CPS_PREFIX_PATH", "PKG_CONFIG_PATH"}
Path      == Seq(STRING)

ASSUME PathsAssumption ==
  /\ \A e \in Environments : /\ DOMAIN e \subseteq Variables
                             /\ \A v \in DOMAIN e : e[v] \in Seq(Path)
  /\ \A d \in Disks : d \subseteq [dir : Path, name : Names, type : {"cps", "pc", "file"}]
  /\ Libdir \in Path /\ Datadir \in Path

VARIABLES
  getenv,        \* the environment
  disk,          \* the regular files; one in the current directory has type "file"
  env,           \* what get_env made of the environment
  cached_paths,  \* the list computed by the first search_paths
  pc, name,      \* what find_paths is doing, and for which name
  k, found,      \* its loop over the paths, and what it has found
  answers        \* what it has answered, for the names it was asked for

vars == <<getenv, disk, env, cached_paths, pc, name, k, found, answers>>

File(dir, n, type) == [dir |-> dir, name |-> n, type |-> type]
Local(n)           == File(<<>>, n, "file")

Init ==
  /\ getenv \in Environments /\ disk \in Disks
  /\ env = <<>> /\ cached_paths = <<>>
  /\ pc = "start" /\ name = CHOOSE n \in Names : TRUE
  /\ k = 0 /\ found = <<>> /\ answers = <<>>

-----------------------------------------------------------------------------
(* The members of Env a variable fills; one that is not set stays nullopt,  *)
(* which search_paths treats like an empty list.                            *)
get_paths(v) == IF v \in DOMAIN getenv THEN getenv[v] ELSE <<>>

GetEnv ==
  /\ pc = "start"
  /\ env' = [cps_path        |-> get_paths("CPS_PATH"),
             cps_prefix_path |-> get_paths("CPS_PREFIX_PATH"),
             pc_path         |-> get_paths("PKG_CONFIG_PATH")]
  /\ pc' = "idle"
  /\ UNCHANGED <<getenv, disk, cached_paths, name, k, found, answers>>

nix_prefix == <<<<"usr">>, <<"usr", "local">>>>

(* Mutant: the data directory is forgotten.                                *)
expand_prefix_lib(prefix) == <<prefix \o Libdir \o <<"cps">>>>

expand_prefix(prefix) ==
  <<prefix \o Libdir \o <<"cps">>, prefix \o Datadir \o <<"cps">>>>

(* add_to_search_path: every directory of a list, with one type.            *)
Typed(dirs, type) == [i \in DOMAIN dirs |-> [path |-> dirs[i], type |-> type]]

System(prefix) ==
  Typed(expand_prefix(prefix), "cps") \o Typed(expand_prefix(prefix), "pc")

CpsPrefixes == FlattenSeq([i \in DOMAIN env.cps_prefix_path |->
                             expand_prefix(env.cps_prefix_path[i])])

(* Mutant: PKG_CONFIG_PATH is looked at first.                             *)
Expanded_pc ==
  Typed(env.pc_path, "pc") \o Typed(env.cps_path, "cps") \o Typed(CpsPrefixes, "cps")
    \o FlattenSeq([i \in DOMAIN nix_prefix |-> System(nix_prefix[i])])

Expanded ==
  Typed(env.cps_path, "cps") \o Typed(CpsPrefixes, "cps") \o Typed(env.pc_path, "pc")
    \o FlattenSeq([i \in DOMAIN nix_prefix |-> System(nix_prefix[i])])

(* Mutant: the directories are appended to the cache by every call.        *)
search_paths_again == cached_paths \o Expanded

(* What search_paths returns: the cache, filled by the first call.          *)
search_paths == IF cached_paths # <<>> THEN cached_paths ELSE Expanded

-----------------------------------------------------------------------------
(* build_node asks for a package.                                           *)
Ask(n) ==
  /\ pc = "idle"
  /\ pc' = "asked" /\ name' = n
  /\ UNCHANGED <<getenv, disk, env, cached_paths, k, found, answers>>

Answer(paths) ==
  /\ answers' = [n \in DOMAIN answers \cup {name} |->
                   IF n = name THEN paths ELSE answers[n]]
  /\ pc' = "idle" /\ k' = 0 /\ found' = <<>>
  /\ UNCHANGED <<getenv, disk, env, name>>

(* "If a path is passed, then just return that."                            *)
AnswerLocal ==
  /\ pc = "asked" /\ Local(name) \in disk
  /\ Answer(<<Local(name)>>)
  /\ UNCHANGED cached_paths

SearchPaths ==
  /\ pc = "asked" /\ Local(name) \notin disk
  /\ cached_paths' = search_paths
  /\ pc' = "looking" /\ k' = 1
  /\ UNCHANGED <<getenv, disk, env, name, found, answers>>

(* find_library_in_path: the file named for the package and the type.       *)
Candidate == File(cached_paths[k].path, name, cached_paths[k].type)

LookIn ==
  /\ pc = "looking" /\ k <= Len(cached_paths)
  /\ found' = IF Candidate \in disk THEN Append(found, Candidate) ELSE found
  /\ k' = k + 1
  /\ UNCHANGED <<getenv, disk, env, cached_paths, pc, name, answers>>

(* The files found; an empty list is the error "Could not find a CPS file". *)
AnswerFound ==
  /\ pc = "looking" /\ k > Len(cached_paths)
  /\ Answer(found)
  /\ UNCHANGED cached_paths

Next ==
  \/ GetEnv
  \/ \E n \in Names : Ask(n)
  \/ AnswerLocal \/ SearchPaths \/ LookIn \/ AnswerFound

Spec == Init /\ [][Next]_vars /\ WF_vars(Next)

-----------------------------------------------------------------------------
(* Where a package may come from, best first: the directories of CPS_PATH,  *)
(* those under CPS_PREFIX_PATH, those of PKG_CONFIG_PATH, the system's.     *)
Under(prefixes) == {p \o d \o <<"cps">> : p \in prefixes, d \in {Libdir, Datadir}}

Source(i) ==
  LET Of(v) == IF v \in DOMAIN getenv THEN Range(getenv[v]) ELSE {}
  IN  CASE i = 1 -> Of("CPS_PATH") \X {"cps"}
        [] i = 2 -> Under(Of("CPS_PREFIX_PATH")) \X {"cps"}
        [] i = 3 -> Of("PKG_CONFIG_PATH") \X {"pc"}
        [] i = 4 -> Under({<<"usr">>, <<"usr", "local">>}) \X {"cps", "pc"}

Rank(file) == CHOOSE i \in 1..4 :
                /\ <<file.dir, file.type>> \in Source(i)
                /\ \A j \in 1..(i - 1) : <<file.dir, file.type>> \notin Source(j)

Files(n) == {file \in disk : /\ file.name = n
                             /\ \E i \in 1..4 : <<file.dir, file.type>> \in Source(i)}

Searched == {n \in DOMAIN answers : Local(n) \notin disk}

(* Every file of the package in one of the directories is answered, and     *)
(* nothing else; a package is not found only when there is none.            *)
EveryFileFound == \A n \in Searched : Range(answers[n]) = Files(n)

(* A file answered for the first time never comes from a better source than *)
(* one answered before it: build_node takes the first that loads.           *)
BetterSourceFirst ==
  \A n \in Searched : \A i, j \in DOMAIN answers[n] :
    \/ i >= j
    \/ Rank(answers[n][i]) <= Rank(answers[n][j])
    \/ \E h \in 1..(i - 1) : answers[n][h] = answers[n][j]

(* A name is always answered alike.  BuildGraph takes the files of a name   *)
(* to be a function of the name, however often the graph requires it.       *)
AnswersRepeat ==
  [][\A n \in DOMAIN answers : answers'[n] = answers[n]]_vars

=============================================================================
