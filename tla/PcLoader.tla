------------------------------ MODULE PcLoader ------------------------------
(***************************************************************************)
(* PcLoader::load (src/cps/pc_compat): the statements of a .pc file, read   *)
(* by the grammar's actions (pc.y), and the package made of the properties  *)
(* they leave.  A line is a statement, empty or a comment, or something the *)
(* grammar has no rule for; of its tokens those are told apart that a       *)
(* literal may contain and those it may not.                               *)
(***************************************************************************)
EXTENDS SequencesExt, Integers

CONSTANTS
  Files,        \* the files, as sequences of lines
  Vars,         \* variables; as a token, "${variable}"
  Texts,        \* tokens "str"
  Blank, Colon, \* tokens a literal may contain too
  Other         \* a token it may not: "=", ",", a comparison, a keyword

Keywords == {"Requires", "Requires.private", "Conflicts", "Provides"}
Named    == {"Name", "Version", "Cflags", "Libs"}

Literals     == Seq(Vars \cup Texts \cup {Blank, Colon, Other})
(* A package with or without a version required, and a blank behind it.      *)
Requirements == Seq([package : Texts, versioned : BOOLEAN, blank : BOOLEAN])

(* What is right of the colon and the blank behind it, or of the "=".       *)
Line == [kind : {"empty", "no statement"}, name : {""}, body : {<<>>}]
          \cup [kind : {"property"}, name : Named, body : Literals]
          \cup [kind : {"assignment"}, name : Vars, body : Literals]
          \cup [kind : {"requirements"}, name : Keywords, body : Requirements]

ASSUME PcAssumption ==
  /\ Files \subseteq Seq(Line)
  /\ Vars \cap Texts = {} /\ Cardinality({Blank, Colon, Other}) = 3
  /\ {Blank, Colon, Other} \cap (Vars \cup Texts) = {}

VARIABLES
  file, at,               \* the file, and the line parsed next
  variables, properties,  \* the loader's maps
  package,                \* the package returned, at the end
  outcome                 \* "parsing", "loaded", "error" or "terminated"

vars == <<file, at, variables, properties, package, outcome>>

None == [name |-> <<>>]

PcInit ==
  /\ file \in Files /\ at = 1
  /\ variables = <<>> /\ properties = <<>>
  /\ package = None /\ outcome = "parsing"

-----------------------------------------------------------------------------
(* A map and the entries of another one for the keys it does not have.      *)
Keeping(map, more) ==
  [x \in DOMAIN map \cup DOMAIN more |-> IF x \in DOMAIN map THEN map[x] ELSE more[x]]

(* unordered_map::emplace: a key that is there keeps its value.             *)
emplace(map, key, value) == Keeping(map, [x \in {key} |-> value])

Used(body) == Range(body) \cap Vars

(* Mutant: looking a variable up does not create it.                       *)
Looked_find(body) == variables

(* loader.variables[name]: a variable that is not there is created empty.   *)
Looked(body) == Keeping(variables, [v \in Used(body) |-> <<>>])

(* utils::trim.                                                            *)
trim(text) ==
  LET inked == {i \in DOMAIN text : text[i] # Blank}
  IN  IF inked = {} THEN <<>>
      ELSE SubSeq(text, CHOOSE i \in inked : \A j \in inked : i <= j,
                        CHOOSE i \in inked : \A j \in inked : i >= j)

Replaced(body, value) ==
  trim(FlattenSeq([k \in DOMAIN body |->
    IF body[k] \in Vars THEN value[body[k]] ELSE <<body[k]>>]))

(* A variable that is not in the map Looked leaves is empty.                *)
Text(body) == Replaced(body, Keeping(Looked(body), [v \in Vars |-> <<>>]))

IsLiteral(body) == body # <<>> /\ Head(body) # Blank /\ Other \notin Range(body)

(* No rule matches: a literal is empty, begins with the blank after "=", or *)
(* has a token of another rule in it; or the first of the requirements has  *)
(* no version (only those after a comma may be without), or one without a   *)
(* version has a blank behind it, where a version must follow.              *)
Malformed(line) ==
  CASE line.kind \in {"property", "assignment"} -> ~IsLiteral(line.body)
    [] line.kind = "requirements" ->
         \/ line.body = <<>> \/ ~Head(line.body).versioned
         \/ \E r \in Range(line.body) : ~r.versioned /\ r.blank
    [] OTHER                      -> line.kind = "no statement"

-----------------------------------------------------------------------------
Parsing   == outcome = "parsing" /\ at <= Len(file)
Parsed    == outcome = "parsing" /\ at > Len(file)
Statement == file[at]
Reads(kind) == Parsing /\ Statement.kind = kind /\ ~Malformed(Statement)
Advance     == at' = at + 1 /\ UNCHANGED <<file, package, outcome>>

Skip == Reads("empty") /\ Advance /\ UNCHANGED <<variables, properties>>

Assign ==
  /\ Reads("assignment") /\ Advance
  /\ variables' = emplace(Looked(Statement.body), Statement.name, Text(Statement.body))
  /\ UNCHANGED properties

SetProperty ==
  /\ Reads("property") /\ Advance
  /\ variables' = Looked(Statement.body)
  /\ properties' = emplace(properties, Statement.name, Text(Statement.body))

SetRequirements ==
  /\ Reads("requirements") /\ Advance
  /\ properties' = emplace(properties, Statement.name, Statement.body)
  /\ UNCHANGED variables

(* Mutant: a line that cannot be parsed is passed over.                    *)
SyntaxError_skip ==
  /\ Parsing /\ Malformed(Statement) /\ Advance
  /\ UNCHANGED <<variables, properties>>

(* load throws "Failed to parse the given pkg-config file."; nobody catches *)
(* it.                                                                     *)
SyntaxError ==
  /\ Parsing /\ Malformed(Statement)
  /\ outcome' = "terminated"
  /\ UNCHANGED <<file, at, variables, properties, package>>

Has(name) == name \in DOMAIN properties

Colons(text, last) == {i \in last..Len(text) : text[i] = Colon}

(* Mutant: what is behind the last delimiter is left out.                  *)
split_last(text) ==
  LET pieces[last \in 1..(Len(text) + 1)] ==
        IF Colons(text, last) = {} THEN <<>>
        ELSE LET next == CHOOSE i \in Colons(text, last) : \A j \in Colons(text, last) : i <= j
             IN  <<SubSeq(text, last, next - 1)>> \o pieces[next + 1]
  IN  pieces[1]

(* utils::split, at the colons: its default delimiter.                      *)
split(text) ==
  LET pieces[last \in 1..(Len(text) + 1)] ==
        IF Colons(text, last) = {} THEN <<SubSeq(text, last, Len(text))>>
        ELSE LET next == CHOOSE i \in Colons(text, last) : \A j \in Colons(text, last) : i <= j
             IN  <<SubSeq(text, last, next - 1)>> \o pieces[next + 1]
  IN  pieces[1]

Flags(name) == IF Has(name) THEN split(properties[name]) ELSE <<>>

(* One component of the package's name, needed by default.  It requires     *)
(* what Requires names, but the package requires nothing: no child is built *)
(* for it (TODO in the source).                                            *)
MakePackage ==
  /\ Parsed /\ Has("Name") /\ Has("Version")
  /\ outcome' = "loaded"
  /\ package' = [name |-> properties["Name"], version |-> properties["Version"],
                 compile_flags |-> Flags("Cflags"), link_flags |-> Flags("Libs"),
                 component_require |->
                   IF Has("Requires") THEN {r.package : r \in Range(properties["Requires"])}
                   ELSE {},
                 require |-> {}]
  /\ UNCHANGED <<file, at, variables, properties>>

(* "Property ... is not specified"                                          *)
MissingProperty ==
  /\ Parsed /\ ~(Has("Name") /\ Has("Version"))
  /\ outcome' = "error"
  /\ UNCHANGED <<file, at, variables, properties, package>>

PcNext ==
  \/ Skip \/ Assign \/ SetProperty \/ SetRequirements \/ SyntaxError
  \/ MakePackage \/ MissingProperty

PcSpec == PcInit /\ [][PcNext]_vars /\ WF_vars(PcNext)

-----------------------------------------------------------------------------
(* What a file means, read as a whole.  A variable has a value only if it   *)
(* is assigned where it is first mentioned, and not by its own value.       *)
Mentions(line, v) == \/ line.kind = "assignment" /\ line.name = v
                     \/ line.kind \in {"assignment", "property"} /\ v \in Used(line.body)

FirstMention(lines, v) == CHOOSE j \in DOMAIN lines :
  Mentions(lines[j], v) /\ \A i \in 1..(j - 1) : ~Mentions(lines[i], v)

Defines(line, v) == line.kind = "assignment" /\ line.name = v /\ v \notin Used(line.body)

Meaning(lines) ==
  LET meaning[j \in DOMAIN lines] ==
        Replaced(lines[j].body,
          [v \in Used(lines[j].body) |->
             LET first == FirstMention(lines, v)
             IN  IF first \in 1..(j - 1) /\ Defines(lines[first], v) THEN meaning[first]
                 ELSE <<>>])
  IN  meaning

Sets(line, name) == line.kind \in {"property", "requirements"} /\ line.name = name

FirstOf(lines, name) == CHOOSE j \in DOMAIN lines :
  Sets(lines[j], name) /\ \A i \in 1..(j - 1) : ~Sets(lines[i], name)

(* A property has the meaning of the first line that sets it, and of every  *)
(* variable in it the meaning of the line that first mentions the variable, *)
(* empty unless that line assigns it: what is assigned afterwards is lost.  *)
ValuesAsWritten ==
  /\ \A n \in DOMAIN properties \cap Named : properties[n] = Meaning(file)[FirstOf(file, n)]
  /\ \A v \in DOMAIN variables :
       LET first == FirstMention(file, v)
       IN  variables[v] = IF Defines(file[first], v) THEN Meaning(file)[first] ELSE <<>>

(* One line outside the grammar ends the program, whatever it would have    *)
(* set and however the file goes on; a file is given up for another only if *)
(* all of its lines can be read and the name or the version is not there.   *)
OneLineKills ==
  LET malformed == {j \in DOMAIN file : Malformed(file[j])}
      sets(n)   == \E j \in DOMAIN file : Sets(file[j], n)
  IN  /\ outcome = "terminated" => malformed # {}
      /\ outcome = "loaded" => malformed = {} /\ sets("Name") /\ sets("Version")
      /\ outcome = "error"  => malformed = {} /\ ~(sets("Name") /\ sets("Version"))

(* The flags of a package, a colon before each, are what Libs says after a  *)
(* colon: they are divided at its colons and nowhere else (not at blanks:   *)
(* "-La -lb" is one flag), and nothing is lost with them.                   *)
FlagsComplete ==
  outcome = "loaded" /\ Has("Libs") =>
    LET flags == package.link_flags
    IN  /\ FlattenSeq([k \in DOMAIN flags |-> <<Colon>> \o flags[k]])
             = <<Colon>> \o Meaning(file)[FirstOf(file, "Libs")]
        /\ \A k \in DOMAIN flags : Colon \notin Range(flags[k])
=============================================================================
