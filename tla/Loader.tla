------------------------------- MODULE Loader -------------------------------
(***************************************************************************)
(* loader::load (src/cps/loader.cpp): from the JSON of a .cps file to a      *)
(* Package, an error, or the end of the program.  The fields are read one   *)
(* after the other and the first that cannot be read decides, so there is   *)
(* one step per field read and per check, and CalculatePrefix for the last. *)
(*                                                                         *)
(* A value is what the readers tell apart: absent, a string, an unknown     *)
(* schema, an array of strings, an array with something else in it          *)
(* ("mixed"), an object as its reader wants it, an object with a member     *)
(* that is a string or null ("string object": {"B": "1.0"}), a number       *)
(* ("number object"), a mixed array ("mixed object") or an object with a    *)
(* number where a string or an array belongs ("bad object"), with a mixed   *)
(* array ("mixed components": {"B": {"components": [1]}}), or another value. *)
(***************************************************************************)
EXTENDS CalculatePrefix

CONSTANT
  Documents     \* what the files may hold, and where they are

Values == {"absent", "string", "unknown schema", "array", "mixed", "object",
           "string object", "number object", "mixed object", "bad object",
           "mixed components", "other"}

(* Of the types only archives and what string_to_type does not know are     *)
(* told apart; dylib stands for the others with a location.                 *)
Types == {"archive", "interface", "dylib", "unknown"}

(* The fields before and after "components", and those of a component, in   *)
(* the order they are read.                                                *)
Header  == <<"name", "cps_version", "compat_version">>
Trailer == <<"cps_path", "prefix", "default_components", "package requires",
             "version", "version_schema">>
Members == <<"type", "compile_flags", "includes", "definitions", "link_flags",
             "link_libraries", "location", "link_location", "link_requires", "requires">>

(* A document: whether it is JSON, the values of its fields, whether its    *)
(* cps_version is CPS_VERSION, the path in its cps_path, its components     *)
(* and, where they are an object, the entries in the order of their keys;   *)
(* and the directory the file is in.                                       *)
Entry    == [object : BOOLEAN, type : Types, members : [Range(Members) -> Values]]
Document == [json : BOOLEAN, fields : [Range(Header \o Trailer) -> Values],
             supported : BOOLEAN, path : CpsPaths, directory : Directories,
             components : {"absent", "object", "other"}, entries : Seq(Entry)]

ASSUME DocumentsAssumption == Documents \subseteq Document

VARIABLES
  doc,                \* the file
  part, at,           \* the fields being read, and the next of them
  entry, components,  \* the entry being read, those made components so far
  outcome             \* "loading", "loaded", "error" or "terminated"

readVars == <<doc, part, at, entry, components>>
loadVars == <<readVars, outcome, vars>>

LoadInit ==
  /\ doc \in Documents
  /\ cps_path = doc.path /\ directory = doc.directory /\ Start
  /\ part = "header" /\ at = 1 /\ entry = 1 /\ components = {}
  /\ outcome = "loading"

-----------------------------------------------------------------------------
(* get_optional of a string.                                               *)
StringReader(v) == IF v \in {"absent", "string", "unknown schema"} THEN "good" ELSE "error"

(* get_required of a string.                                               *)
RequiredReader(v) == IF v = "absent" THEN "error" ELSE StringReader(v)

(* string_to_schema aborts on a schema it does not know.                   *)
SchemaReader(v) == IF v = "unknown schema" THEN "terminated" ELSE StringReader(v)

(* get_optional of an array of strings: reading an element that is not a    *)
(* string throws a type_error of the JSON library, which nobody catches.    *)
ListReader(v) == CASE v \in {"absent", "array"} -> "good"
                   [] v = "mixed"               -> "terminated"
                   [] OTHER                     -> "error"

(* get_required<LangStrings> and <LangPaths>: an array for all languages,   *)
(* or an object with an optional array for each.                            *)
LangReader(v) == CASE v \in {"absent", "array", "object"} -> "good"
                   [] v \in {"mixed", "mixed object"}      -> "terminated"
                   [] OTHER                                -> "error"

(* get_required<Defines>: an object of languages, each with strings or null. *)
(* A language that is itself a string is one entry without a name, and null *)
(* is none (an array of strings counts: its indices become the names).      *)
DefinesReader(v) ==
  IF v \in {"absent", "object", "string object"} THEN "good" ELSE "error"

(* get_required<Requires>: an object of objects with an array and a string. *)
(* What is required of a package is not checked to be an object: anything   *)
(* else has neither member, and is an empty Requirement.                    *)
RequiresReader(v) ==
  CASE v \in {"absent", "object", "string object", "number object", "mixed object"} -> "good"
    [] v = "mixed components" -> "terminated"
    [] OTHER                  -> "error"

Reader(field, v) ==
  CASE field \in {"name", "cps_version", "type"}   -> RequiredReader(v)
    [] field \in {"compile_flags", "includes"}     -> LangReader(v)
    [] field = "definitions"                       -> DefinesReader(v)
    [] field = "package requires"                  -> RequiresReader(v)
    [] field = "version_schema"                    -> SchemaReader(v)
    [] field \in {"default_components", "link_flags", "link_libraries",
                  "link_requires", "requires"}     -> ListReader(v)
    [] OTHER                                       -> StringReader(v)

-----------------------------------------------------------------------------
Loading == outcome = "loading"
Stop(how) == outcome' = how /\ UNCHANGED <<readVars, vars>>

(* "Exception caught while parsing json"                                    *)
ParseFails == Loading /\ ~doc.json /\ Stop("error")

Fields == CASE part = "header"  -> Header
            [] part = "entry"   -> Members
            [] part = "trailer" -> Trailer
            [] OTHER            -> <<>>

Current == doc.entries[entry]
Reading == Loading /\ doc.json /\ at <= Len(Fields)
HasRead(what) == Loading /\ doc.json /\ part = what /\ at > Len(Fields)

Result ==
  LET field == Fields[at]
  IN  Reader(field, IF part = "entry" THEN Current.members[field] ELSE doc.fields[field])

ReadField ==
  /\ Reading /\ Result = "good"
  /\ at' = at + 1
  /\ UNCHANGED <<doc, part, entry, components, outcome, vars>>

(* CPS_TRY returns an error; an exception or an abort ends the program.     *)
FieldFails == Reading /\ Result # "good" /\ Stop(Result)

Goto(next) == part' = next /\ at' = 1 /\ UNCHANGED <<doc, outcome, vars>>

(* "components" is required, and has to be an object.                       *)
BeginComponents ==
  /\ HasRead("header") /\ doc.components = "object"
  /\ Goto("entries")
  /\ UNCHANGED <<entry, components>>

ComponentsFail == HasRead("header") /\ doc.components # "object" /\ Stop("error")

(* The loop over the entries, each of which has to be an object.            *)
BeginEntry ==
  /\ HasRead("entries") /\ entry <= Len(doc.entries) /\ Current.object
  /\ Goto("entry")
  /\ UNCHANGED <<entry, components>>

EntryFails ==
  HasRead("entries") /\ entry <= Len(doc.entries) /\ ~Current.object /\ Stop("error")

Unlocated == Current.type = "archive" /\ Current.members["location"] = "absent"

(* An entry of unknown type is passed over, but only once it has been read. *)
SkipUnknown ==
  /\ HasRead("entry") /\ Current.type = "unknown"
  /\ entry' = entry + 1
  /\ Goto("entries")
  /\ UNCHANGED components

(* Mutant: entries of unknown type are kept.                               *)
AddComponent_unknown ==
  /\ HasRead("entry") /\ ~Unlocated
  /\ components' = components \cup {entry}
  /\ entry' = entry + 1
  /\ Goto("entries")

AddComponent ==
  /\ HasRead("entry") /\ Current.type # "unknown" /\ ~Unlocated
  /\ components' = components \cup {entry}
  /\ entry' = entry + 1
  /\ Goto("entries")

(* "missing required key `location`"                                       *)
ArchiveFails == HasRead("entry") /\ Unlocated /\ Stop("error")

EndComponents ==
  /\ HasRead("entries") /\ entry > Len(doc.entries) /\ components # {}
  /\ Goto("trailer")
  /\ UNCHANGED <<entry, components>>

(* "must have at least one component"                                      *)
NoComponents ==
  HasRead("entries") /\ entry > Len(doc.entries) /\ components = {} /\ Stop("error")

-----------------------------------------------------------------------------
Has(field) == doc.fields[field] # "absent"

(* Exactly one of cps_path and prefix, and the supported version of CPS.    *)
Checked == Has("cps_path") # Has("prefix") /\ doc.supported

(* Mutant: the check is made as soon as cps_path and prefix are read.       *)
CheckFails_early == Loading /\ part = "trailer" /\ at > 2 /\ ~Checked /\ Stop("error")

CheckFails == HasRead("trailer") /\ ~Checked /\ Stop("error")

(* A prefix is used as it is ...                                           *)
UsePrefix == HasRead("trailer") /\ Checked /\ Has("prefix") /\ Stop("loaded")

(* ... and without one it is calculated from cps_path.                      *)
BeginPrefix ==
  /\ HasRead("trailer") /\ Checked /\ Has("cps_path")
  /\ Goto("prefix")
  /\ UNCHANGED <<entry, components>>

calculate_prefix ==
  /\ Loading /\ part = "prefix"
  /\ UNCHANGED readVars
  /\ Next
  /\ outcome' = CASE answer' = "prefix" -> "loaded"
                  [] answer' = "error"  -> "error"
                  [] OTHER              -> "loading"

LoadNext ==
  \/ ParseFails \/ ReadField \/ FieldFails
  \/ BeginComponents \/ ComponentsFail \/ BeginEntry \/ EntryFails
  \/ SkipUnknown \/ AddComponent \/ ArchiveFails \/ EndComponents \/ NoComponents
  \/ CheckFails \/ UsePrefix \/ BeginPrefix \/ calculate_prefix

LoadSpec == LoadInit /\ [][LoadNext]_loadVars /\ WF_loadVars(LoadNext)

-----------------------------------------------------------------------------
(* What is wrong with a document, with the answer it gets and its place in  *)
(* the order of the source: header, components, trailer, checks.            *)
Wrong(fields, values, base) ==
  {[rank |-> base + i, how |-> Reader(fields[i], values[fields[i]])] :
     i \in {j \in DOMAIN fields : Reader(fields[j], values[fields[j]]) # "good"}}

WrongIf(condition, rank) == IF condition THEN {[rank |-> rank, how |-> "error"]} ELSE {}

EntryRank(k) == 20 * k
EntryFaults(k) ==
  LET e == doc.entries[k]
  IN  WrongIf(~e.object, EntryRank(k))
        \cup Wrong(Members, e.members, EntryRank(k))
        \cup WrongIf(e.type = "archive" /\ e.members["location"] = "absent", EntryRank(k) + 11)

Known == {k \in DOMAIN doc.entries : doc.entries[k].type # "unknown"}

Faults ==
  LET last == EntryRank(Len(doc.entries) + 1)
  IN  WrongIf(~doc.json, 0)
        \cup Wrong(Header, doc.fields, 0)
        \cup WrongIf(doc.components # "object", 10)
        \cup (UNION {EntryFaults(k) : k \in DOMAIN doc.entries})
        \cup WrongIf(Known = {}, last)
        \cup Wrong(Trailer, doc.fields, last)
        \cup WrongIf(~(Has("cps_path") # Has("prefix") /\ doc.supported), last + 10)
        \cup WrongIf(~Has("prefix") /\ ~(Relocatable /\ EndsWith(Suffix)),
                     last + 11)

(* The faults of components whose type is not recognized.  They "shall be    *)
(* ignored", tests/loader.cpp says of such components; the code passes them *)
(* over, but only once they have been read (SkipUnknown), so that a fault   *)
(* in one fails the file.  The properties leave open which of the two is    *)
(* right.                                                                  *)
Unrecognized ==
  {k \in DOMAIN doc.entries : LET e == doc.entries[k]
                              IN  /\ e.object /\ e.type = "unknown"
                                  /\ Reader("type", e.members["type"]) = "good"}

Ignorable == UNION {EntryFaults(k) : k \in Unrecognized}

(* A package is loaded only from a document with nothing wrong that its      *)
(* reader has to find, and has the components of a known type, the only     *)
(* ones there are; and a document with nothing wrong is never refused.      *)
LoadsExactlyValid ==
  /\ outcome = "loaded" => Faults \subseteq Ignorable /\ components = Known
  /\ outcome \in {"error", "terminated"} => Faults # {}

(* What is wrong first in the order of the source decides whether the search *)
(* goes on to the next file or the program ends (LoadFails and LoadThrows   *)
(* of BuildGraph): a fatal value after another fault does no harm, and a    *)
(* fault after a fatal value saves nothing.                                 *)
FirstFaultDecides ==
  outcome \in {"error", "terminated"} =>
    \E first \in Faults :
      /\ first.how = outcome
      /\ \A other \in Faults \ Ignorable : first.rank <= other.rank

(* Every file is answered, if only its cps_path, where it has one, begins   *)
(* with "@prefix@".  For another path the climb need not end: at the root,  *)
(* or at the empty path, the parent is the path itself.                     *)
LoadEnds == (Has("cps_path") => Relocatable) => <>(outcome # "loading")
=============================================================================
