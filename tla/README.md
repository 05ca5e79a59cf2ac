# A TLA+ model of cps-config

cps-config answers `pkg-config`-like questions about installed libraries. Given
the name of a package and perhaps some of its components, it looks for the
package's `.cps` (or `.pc`) file, builds the graph of the packages it requires,
selects the components that are needed, sorts the packages for the linker and
prints the flags their components contribute. It is a sequential program; what
makes it hard is recursion over data that other people write, state that is
copied, cached and overwritten on the way, and hash maps whose order nobody
controls. Everything here is about those.

Contents: [inventory](#inventory) · [modules](#modules) · [runs](#runs) ·
[what does not hold](#what-does-not-hold) · [proofs](#proofs) ·
[what is not modelled](#what-is-not-modelled) · [plan](#plan)

## Inventory

Line numbers are those of the source; files are under `src/src/cps/`.

| Part | State | Operations | Talks to | Hard |
|---|---|---|---|---|
| `version.cpp` | none; the loop of `compare_numbers` | `compare` | called by `build_node` | padding, suffixes, six operators that must agree, errors |
| search paths (`env.cpp`, `search.cpp` 87-195) | `Env`; the static `cached_paths` | `get_env`, `search_paths`, `find_paths` | called by `build_node` for each package | order of four sources, a list computed once |
| JSON loader (`loader.cpp`) | the fields read so far | `load` and its readers | called by `NodeFactory::get` | which of several faults decides; exceptions and aborts among the errors |
| prefix (`loader.cpp` 313-328) | two paths climbed in step | `calculate_prefix` | last step of `load` | ends or not, one level off |
| package search (`search.cpp` 197-353) | call stack; per call: paths tried, children found, a factory with its cache | `build_node`, `NodeFactory::get`, `process_requires` | version, paths, loaders | recursion, cache copied per call, rejection and failure of children, exceptions |
| selection (`search.cpp` 382-469) | per node: selected components with `link_only`, `depends` | `set_components` | works on the graph of `build_node` | recursion, map order, nodes visited again, trimming while walking |
| sort (`search.cpp` 63-84) | call stack, `visited`, `sorted` | `tsort`, `dfs` | works on the trimmed graph | nodes reached twice |
| merge (`search.cpp` 355-380, 475-545) | the result | `find_package`, `merge_result` | composes all of the above | order, duplicates, a missing location half-way |
| pkg-config loader (`pc_compat/`) | properties and variables | the grammar's actions, `load` | called by `NodeFactory::get` | variables used before they are set, lines outside the grammar |
| output and command line (`printer.cpp`, `cps-config/main.cpp`) | options, exit status | `run`, `pkgconf` | calls `find_package` | options that overlap, failures that come late |

What makes each correct:

- *version*: an older version is never accepted where a newer one is required;
  equality is sameness up to trailing zeros; opposite and mirrored operators agree.
- *search paths*: all files of a package and no others, better sources first,
  the same answer each time.
- *loader*: only right documents are loaded, and no right one is refused; the
  first fault decides; the prefix leads back to the file.
- *package search*: a package is found exactly when its requirements can be
  resolved; what is returned is a tree with one child for every requirement, the
  first file of its name that loads and new enough for it; it ends.
- *selection*: what is needed is selected and nothing else, whatever the order
  of the maps; children that are needed are kept.
- *sort*: every reachable package once, before those it depends on.
- *merge*: every selected component once, in link order; no result without a
  location; what is merged is what the files need for the request.
- *pkg-config loader*: a property has the value its file gives it; only what
  cannot be read stops the program.
- *output*: what the options ask for, each argument once; the status says
  whether the package was found.

`PROJECT.json` lists the components, and under `hazards` what can go wrong, at
its line, with the properties that would notice.

## Modules

```
Version <- CompareVersions
   ^
Packages <- Demands <- Resolution            (what the search promises)
   ^           ^
 Nodes         +------ BuildGraph            (the search, as it is coded;
   ^           |           |                  it implements Resolution)
   +- SetComponents        |
   |       | TopologicalSort
   |       |    |          |
   +---- FindPackage  <----+                 (INSTANCE of all three, and the merge)
             ^
         CpsConfig                           (command line, output, exit status)

CalculatePrefix <- Loader        (a .cps file, and
PcLoader                          a .pc file: which of a disk's entries it is)
SearchPaths                      (the files of a name: the sequences of a disk)
```

`<-` is EXTENDS.

An `MC` module gives each its instances for TLC. The proofs of a component are in
one module, which extends the component's: `VersionProofs`, `BuildGraphProofs`,
`SetComponentsProofs`, `TopologicalSortProofs`, `SearchPathsProofs`, `LoaderProofs`
(with those of CalculatePrefix), `PcLoaderProofs`, and `CpsConfigProofs` for the whole.
Definitions with a suffix that stand before one without it and are called
"Mutant" (`Hit_never` before `Hit`) are plausible bugs in that definition. They
are not part of the model: putting one in the place of the definition must
break the property that is listed with it in `PROJECT.json`, which shows that
the property can be broken by the code it is about.

- **Version** says in closed form what `compare` answers; **CompareVersions**
  runs the code's loop, part by part. A version is a sequence of segments (split
  at `+` and `-`) of parts (split at `.`); a part `std::stoull` throws for is
  `Invalid`.
- **Packages** has the data of a loaded package and the tests `build_node`
  makes of it (279-324), and `process_requires`. A "component name of a
  package" `pkg:comp` is a record; the empty package name is `Self`, no
  component name is `Default`.
- **Demands** is the reference for the search, without its stack: the first
  file of a name that loads, what the resolution of a request has to meet, and
  whether it can be. **Resolution** is the abstract specification: one step
  that finds, fails, or dies for a reason that lies in the files.
- **BuildGraph** is `build_node` and `NodeFactory::get`. A frame of `stack` is a
  call: name and requirement, next path, the node being expanded, the
  requirements still to do, the children found, and its *copy* of the cache.
  The heap of nodes is what `shared_ptr`s point to. One action per outcome of
  the loop body: `LoadFails`, `LoadThrows`, `ComparisonThrows`, `Reject`,
  `Accept`, `Descend`, `StackOverflow`, `ReturnNode`, `ReturnError`. `disk`
  gives the files of a name in the order `find_paths` returns them: a function
  of the name, which is what SearchPaths' `AnswersRepeat` justifies. The order
  of the requirements of a package, an `unordered_map`'s, is any.
- **SetComponents** is `set_components`. A frame is a call: node, `link_only`,
  components still to visit, the one being visited, the calls it still has to
  make, `trimmed`. Components are visited in any order.
- **TopologicalSort** is `dfs` and `tsort`; a frame is a call with the index of
  the child it looks at.
- **FindPackage** is `find_package`: it instantiates `BuildGraph`,
  `SetComponents` and `TopologicalSort` on shared variables, runs one after the
  other as the code calls them (`phase`), and then merges node by node and
  component by component. An entry of the result stands for all a component
  contributes of a sort: to compile (includes, definitions, flags), to link
  (libraries, flags), its location. Its reference is `FileUses`: which component
  of which *file* the request needs, and how, said of the files as a graph of
  names without any nodes, caches or calls.
- **CpsConfig** is `run` and `pkgconf`: the lookup of the first package named, the
  options as the fields of the printer's `Config` they set, the lists of the
  result in the order they are printed, error messages and the exit status. A
  command line is what CLI11 has made of it, or a usage error.
- **CalculatePrefix** is the climb of `calculate_prefix`. `parent_path` and
  `stem` are the library's, modelled from how they are used.
- **Loader** is `load`: header, components, trailer, checks, then the steps of
  CalculatePrefix, which it extends. A JSON value is what the readers tell apart.
  They look less closely than one would think: a requirement that is not an object
  is an empty one to `RequiresReader`, and a string for a language is a definition
  without a name to `DefinesReader`. The reference is `Faults`, all that is wrong with
  a document in the order of the source, of which `Ignorable` are those in components
  of a type that is not recognized.
  Whether a reader answers with an error, throws, or aborts is what decides if the search
  goes on with the next path, so that is what the model keeps.
- **PcLoader** is `PcLoader::load` with the actions of its grammar, one per line:
  `emplace` into the two maps, `operator[]` that creates the variables a literal
  uses, and then the package made of the properties. A literal is a sequence of
  tokens; `Malformed` says for which lines the grammar has no rule. `split` divides a
  value at every colon and `Keeping` is the filter over its pieces. The reference
  is `Meaning`, what the lines of a file give when it is read as a whole.
- **SearchPaths** is `get_env`'s lists, `search_paths` and `find_paths`, asked
  any number of times for any names.

## Runs

All `pass` runs have `CHECK_DEADLOCK FALSE`, because the program ends, except
`paths`, where there is always another name to ask for.

| Run | Instance | Shows |
|---|---|---|
| `version` | 0..2 in up to two parts, with and without suffixes, two signs, invalid parts; all operators | `ReturnsSimpleCompare` (the loop computes the closed form), `OlderIsLess`, `EqIsSameVersion`, `AnswersAgree` |
| `build` | three names, A requires B, C, both or itself, B requires C or A; up to two files each, of every kind of fault; stack of 4 | `TypeOK`, `StackIsChain`, `CacheHoldsChosen`, `GraphIsBuilt`, `NothingTooOld`, `LinkedOnce`, refinement of `Resolution`, `Ends` |
| `components` | a root over two packages, one with a package of its own; two components each with requirements on components, defaults, themselves, missing ones | `OnlyNeeded`, `NeededSelected`, `SelectionClosed`, `KeptForAReason`, `ThrowsForMissing`, `OnlyTrims` |
| `sort` | all acyclic graphs of four nodes with up to two, possibly equal, children each | `TypeOK`, `DependsFollow`, `SortedOnce`, `SortsReachable` |
| `main` | R requires A and B, and A may require B; archives, interfaces and components without location; a B that does not load, has another name or lacks a component; two more files with a longer chain and with a bare `link_requires`; every set of options on a small package, no package, an unknown format | `MergedOnce`, `LinkOrder`, `LocationErrors`, `MergesOnlyNeeded`, `MergesNeeded`, `PrintsWhatIsAsked`, `StatusTells`, `MainEnds` |
| `paths` | every way to set three variables, up to two files of a package in any place and one of another | `EveryFileFound`, `BetterSourceFirst`, `AnswersRepeat` |
| `load` | a document with two components, one of unknown type: every kind of value in every field; two fields at a time with values that get every answer of a reader; a few hundred shapes of components; cps_paths and directories of up to three names, with and without root, `@prefix@` and trailing slash | `LoadsExactlyValid`, `FirstFaultDecides`, `PrefixLeadsBack`, `LoadEnds` |
| `pc` | up to three of 17 lines of every kind in any order, with three endings | `ValuesAsWritten`, `OneLineKills`, `FlagsComplete` |

Of the properties, those to read first are the end-to-end ones. In `build`,
`ImplementsResolution` says that for any files the search with its stack, copied
caches and retries finds a package exactly when the reference can resolve it. In
`main`, `MergesOnlyNeeded` and `MergesNeeded` go from the files to the result: they
do not look at the graph in between, so that a fault in any of the three
algorithms, or between them, shows. `StatusTells` takes that to what a caller
of the program sees. No run repeats `FramesOK` and `CallsArePath`, parts of
the inductive invariants that the proofs establish for every instance; and that
selection and sort end is part of `MainEnds`, that the program does.

Why these bounds are enough to be interesting:

- *build*: three names are the fewest for a package required by two others (a
  diamond, where the copied caches load it twice) and for a failure two calls
  deep; two files are the fewest for a rejected candidate with another behind
  it. A cycle of one or two names overflows the stack at any limit. One A requires
  any B and a C that is at least the latest, so that a child too old for its own
  requirement would have a sibling that meets its one.
- *components*: two components per package are the fewest for self
  requirements, for both uses of a component and for one component's children
  overwriting another's; the depth of three levels makes calls nest, and a
  child in both `requires` and `link_requires` doubles them.
- *sort*: the code's documentation promises a sort of a DAG. The graphs of
  `build_node` are trees in which set_components may list a child twice, and
  are among those checked; those of a factory that were shared would be too.
- *main*: a diamond is where the parts meet: B is built once for each package
  that requires it (four nodes at most), selected with different components, to compile
  along one path and to link along the other, and sorted as two nodes. Where B
  requires a package in turn (`Deep`) there are six nodes, more than the heap has
  room for (`NodeLimit` 5), and the exception ends the program; a `StackLimit` of
  4 never does here. In `Bare` a package is asked to link by its name alone. The
  B that does not load comes in front of one that does. The three names of B
  are the right one, one that another package has, and one nobody asks for.
  Every one of the 1024 sets of options is run with each package and format.
- *version*: three values tell less, equal and greater, with one of them the
  padding; two parts are the fewest for the first to differ one way and the
  second the other.
- *load*: of any two faults one comes first, which is all `FirstFaultDecides`
  asks; pairs within the package's fields and pairs of a field and a member of
  the second component cover faults in each part and across parts, each with all
  the answers a reader can give. The paths
  reach a file at most three directories down, `@prefix@` among them or not, and
  two directories of one stem.
- *pc*: two variables and three lines are the fewest for a variable that is used,
  assigned and assigned again, and for one assigned from another; the lines
  outside the grammar, among them a requirement without a version and with a blank
  behind it, come in front of, between and behind the others.

**Fairness.** Each specification assumes `WF_vars(Next)`: a sequential program
that can take a step takes one. `FindPackage`'s calls have no fairness of their
own; `CpsConfig`'s is the program's. Nothing else is assumed; in particular no
choice between the orders of a hash map is fair.

**Assumptions on the world.** Files do not change while the program runs, and
neither does its environment, which `main` reads once (`cached_paths` would go
stale otherwise: it does not know which environment it was made from). The
numbers in versions fit 64 bits; a longer one makes `std::stoull` throw and is
`Invalid`.

## What does not hold

Four runs expect a violation. Each checks what a comment of the code says, and
the model, which is the code's, breaks it.

- `version_order`: `LessIsOlder`. `1.0 lt 0.1` is true, for 0 < 1 in the second
  part: every part is looked at until one settles the operator
  (`version.cpp:125`). A new enough package is rejected as "less than the
  required" version. `OlderIsLess`, the other direction, holds.
- `build_fallback`: `RejectedAndContinued`. The cache is keyed by name and a
  rejected package stays in it, so "reject it and continue on"
  (`search.cpp:275`) tries the same package again for each path left.
  `Demands` therefore defines what can be resolved by the *first file of a name
  that loads*; that the search does exactly this is `ImplementsResolution`.
- `components_trim`: `NeededKept`. The children are replaced inside the loop
  over the components (`search.cpp:467`), so the last one visited decides.
  `NeededSelected` and `MergesNeeded` hold where all needed components of a
  package ask for the same children (`Uniform`), and are stated for that case.
- `components_linkonly`: `LinkOnlyMeansOnly`. A component needed to compile and
  to link is marked `link_only` (`search.cpp:389`) and loses what it
  contributes to compiling. `MergesNeeded` speaks of compiling only where no
  needed component has `link_requires`. That nothing is needed *only* to link would
  not be enough: a call for linking that lists no component still goes through the
  `:c` requirements of the components the node has, and marks those.

Six things more are as the code has them, and no run expects them otherwise: either
nothing in the repository promises it, or only in passing, or it is left open.

- The climb of `calculate_prefix` need not end (`loader.cpp:318`). A `cps_path` that
  does not begin with `@prefix@`, such as `/usr/lib/cps` of a file found in
  `/usr/lib/cps`, is climbed as long as the stems are equal; at the root, or at the
  empty path, the parent is the path itself, and the program hangs. `LoadEnds`
  leaves out the paths that do not begin with `@prefix@` (`Relocatable`), these among
  them, and says that the climb ends for all others.
- A component whose type is not recognized is read before it is passed over
  (`loader.cpp:283`), so one with a fault fails the whole file, or ends the program,
  though `tests/loader.cpp:274` says of such components that they "shall be ignored"
  (its test has nothing wrong in them). `LoadsExactlyValid` and `FirstFaultDecides`
  hold of either reading: the faults in such components are `Ignorable`.
- A requirement that is not an object (`{"B": "1.0"}`) is accepted as an empty one,
  without the version meant (`loader.cpp:225-235`, with a TODO at 226), and
  `{"*": "FOO"}` as a definition with an empty name (`loader.cpp:188`). `Faults`
  counts neither as wrong.
- A `.pc` assignment has no effect once the variable was used, in the value
  assigned too: `ValuesAsWritten` counts the *first mention* of a variable, where
  `pc.y:134` calls an assignment "a line that sets a variable to a value".
- `Libs` and `Cflags` of a `.pc` file are split at colons, `split`'s default
  delimiter, not at blanks (`pc_loader.cpp:97,105`): "-La -lb" is one flag, which
  `--libs-only-L` prints whole.
- A dependency whose file has another name than it was found by is followed only
  if that name is required as well: `FileUses` follows names as the files have
  them.

## Proofs

`tlapm` checks all of these for every value of the constants that satisfies the
modules' named assumptions. Those are the kinds of the data (`PackagesAssumption`,
`DocumentsAssumption`, `PcAssumption`, ...), that there are finitely many
components and, for the whole program, names, and three that say something of
the input:

- `GraphsAssumption` of SetComponents: the graphs are what `build_node` returns
  (`GraphBuilt` below proves that it does);
- `SortAssumption` of TopologicalSort: the graph is acyclic;
- `PathsAssumption` of CalculatePrefix: no name in a path is empty, but for the
  last one of a `cps_path` that ends in a slash. So does the library split paths.

What each module proves, and the invariant it takes:

- **VersionProofs**: `ClosedForm`, by `LoopInv`: no part before the one compared
  settles the operator. `OlderRejected`, `EqualityIsSameness` and `OperatorsAgree`
  are then facts of the closed form, for versions of any length: two versions are
  the same or have a first part in which they differ. `OperatorsAgree` is of opposite
  and of mirrored operators only; `lt` and `gt` may both be true: see
  [what does not hold](#what-does-not-hold).
- **BuildGraphProofs**: `TypeCorrect`, `ChainHolds`, `CacheHolds`.
  The inductive invariant `IInv` is
  `TypeOK /\ StackIsChain /\ DemandsReached /\ CacheHoldsChosen /\ FramesOK`.
  `CacheHoldsChosen` alone is not inductive: that a file just loaded is the
  first of its name that loads needs to know that the paths before it did not,
  which `FramesOK` says of each frame, and that a hit is for the same name needs
  the chain of frames. `DemandsReached`, that each frame's demand is one the
  reference reaches, is what makes a failure a failure of the reference.
  `SearchImplementsResolution`: a step other than the last leaves the outcome
  alone and is a stutter. For the last there is a lemma for
  each way to end: the bottom frame's demand is the request, and its node is
  complete or its paths are exhausted (`Find`, `Fail`); a throwing frame's
  demand is reached (`Terminate`); a full stack is a chain of requirements
  (`Overflow`).
  On top of `IInv` stands `GInv`, of the nodes: what a frame has found so far is a
  child for each requirement it is done with (`FramesBuilt`); a cache holds nodes
  of active calls and the rejected candidate only (`CachesFromStack`), which is why
  copying it never links a node into two places; a node in use has no children
  yet, and one that is linked has all of them and one parent (`LinksOK`).
  `GraphBuilt` also needs that the tree is finite: `Below` is the least set with
  the root and its children's children, and no requirement comes back to itself,
  because each one found is `Grounded`: it is in every set that contains what can
  be resolved from it. `LinksOnlyOnce` and `NoneTooOld` follow,
  and `FramesHold`, which is both invariants of a frame. `RootIsFirst`
  says what the caller needs of the answer: the root is node 1 and the first file
  that loads, for a request that can be resolved; an error is for one that cannot.
- **SetComponentsProofs**: two invariants. `SInv` is for what is selected and kept:
  calls are a path in the tree, hence no node is visited within its own visit
  (`PathOK`); what is selected exists and is closed (`SelectionOK`); a frame's
  `trimmed` is what its component names (`TrimOK`); it gives `ClosedSelection`,
  `KeptForReasons` and `TrimsOnly`. `NInv` is for what is needed: every call still
  to make asks for something needed or already selected (`NeedOK`), and every
  selected component has what it wants from the children left or is still to be
  visited (`ProcessedOK`, `PendingOK`). `OnlyTheNeeded` is part of it;
  `NeededAll` follows at the end, as `Uses` is the least set closed under
  `NeededBy`; `ThrownForMissing` from the call that throws and, the other way, from
  `NeededAll` and what is selected being there. `CompileHolds` adds
  that the linker-only mark comes from `link_requires` alone.
- **TopologicalSortProofs**: `TypeCorrect`, `PathHolds`, `OrderIsTopological`,
  `NoneTwice`, `AllReachable`. The invariant says that the calls are a path of
  nodes not sorted yet, each with one call, that what is visited is reachable,
  and that the children a call has gone past are sorted (`ChildrenMet`). The last
  holds because a visited child that is not sorted would have a call of its own
  further up the path, which would then close a cycle.
- **SearchPathsProofs**: `FindsEvery`, `BestFirst`, `SameAnswers`. The invariant:
  what was cached is what the environment gives, and what the loop has found so
  far is the sequence of the files in the directories passed (`Picked`).
- **LoaderProofs**: for `calculate_prefix`, `PrefixFound`, by `Climbed`: both paths
  are the arguments without as many last names, which had equal stems. For `load`,
  `LoadedIsValid` and `FirstFault`, by the *rank* of a fault, its place in the order
  of reading: no fault is ranked before the place that is read. The invariant has
  them for all faults, those in components of unrecognized type included
  (`LoadsFaultless`, `FirstOfAll`); the theorems leave these open.
- **PcLoaderProofs**: `MeansWhatIsWritten` and `MalformedKills`, by what the two maps
  hold after the lines read: for each variable the value at its first mention, for
  each property what its first line means. `NoFlagLost` is a fact about `split`:
  the pieces, a colon before each, put together are the value.

Where a proof is about what a recursive function computes (`Below`, `SelfClosure`,
`Uses`, `Meaning`, `split`, `FlattenSeq`), the induction is over the numbers, from
`LeastNumber`: a set of numbers has a least element, the well-foundedness of `<`
of the library. The function itself is shown to exist for every length first,
from its body as a named operator (`WithinExists`, `MeaningExists`, `SplitExists`,
`FlattenExists`, `FlatExists`), and a closure to be the least set closed under its
step, because a growing subset of a finite set stops growing (`GrownLeast`).

- **CpsConfigProofs**: the whole program. The modules of the three stages are
  instances, with their proofs, on the variables of `FindPackage`; the parameters
  they take for granted are discharged: the graphs `set_components` gets are
  finite trees because of `GraphBuilt` (`GraphIsReady`), the graph `tsort` gets is
  acyclic because it is a tree that was trimmed (`NoCycles`, `GraphIsTrimmed`,
  `SortIsReady`). Each invariant is needed only while its stage runs, so `FInv` goes
  by `phase`; in it `SelectOK` outlives the selection, since the merge uses what was
  selected, and `MergeOK` says how far the loops over nodes and components have
  come and what the three lists hold then. `FindHolds` is its theorem.
  `MergesOnce`, `LinksInOrder` and `LocationsReported` follow: at the end everything
  sorted has been passed, and what is sorted is what is left below the root.
  `MergesOnce` is per node of the graph: a package that two others require is two
  nodes, and its components are merged for each.
  The result is also compared with the graph of the files. `StandsFor` relates each
  node of the tree to the name it was made for (`StandsForFacts`: related nodes have
  the same package, and their children are related), and `UsesCarry` of
  SetComponentsProofs says that what is needed in one graph is needed of the
  related nodes in the other. From the tree to the files it gives
  `NothingElseMerged`; from the files to the tree after trimming, where only the
  needed children are left, `NeededMerged`. There `Uniform` is what keeps a child
  that one component trims from being needed by another.
  `StatusInv` goes by the exit status instead of the phase, and gives `StatusHolds`
  together with `FInv` and, for status 1, with `NothingElseMerged`'s relation: what
  lacks a location in the tree does so in the files. `PrintsEachOnce` follows from
  what `MergeOK` says of the three lists, none of which has an entry twice, and from
  what `FlattenSeq` does to a list of lists (`FlatOnce`).

Model-checked only: the liveness properties `Ends`, `LoadEnds` and `MainEnds`, which
are out of this prover's reach. Every invariant and every other temporal property
of the passing runs is stated by a theorem.

## What is not modelled

- The lexer of `.pc` files and the tables bison generates: a line is the tokens it
  has. Comments, blanks around names and line ends are the lexer's and the
  grammar's to drop, and make no difference to the two maps.
- The loaders and the search in one run. `load` and `pc` show what a file
  becomes; `build` and `main` have as files what the loaders can leave: packages
  with any of the fields missing, an error (`LoadError`), or an exception or abort
  (`LoadThrow`). A `.pc` file is there a package of schema `custom` without
  package requirements.
- The text of flags, paths and messages; replacing `@prefix@` in paths, with the
  package's prefix or the one of `--prefix-variable`.
- Definitions, includes and flags by language: an entry stands for all. `pkgconf`
  prints those of C only.
- CLI11, nlohmann::json, fmt and the file system beyond what is said above.
- A second call of `find_package` in one process, which `main` does not make.
- The tests and their driver, and the build.

## Plan

Done: every stage from the command line to the output, each on its own and, from
the search on, composed; the refinement of the search; and a proof of every
property the passing runs check that is not about liveness.

To model further: a disk whose files are documents, so that `Loader` and `PcLoader`
run inside `FindPackage`, on a few documents.
