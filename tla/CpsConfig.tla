------------------------------ MODULE CpsConfig ------------------------------
(***************************************************************************)
(* run (src/cps-config/main.cpp) and pkgconf (src/cps/printer.cpp): from    *)
(* the command line to the flags printed and the exit status.  Parsing the  *)
(* command line is CLI11's work; what each option sets is run's.            *)
(***************************************************************************)
EXTENDS FindPackage

CONSTANT
  Invocations    \* the file systems and command lines to run with

Options == {"--cflags", "--cflags-only-I", "--cflags-only-other", "--libs",
            "--libs-only-L", "--libs-only-l", "--libs-only-other", "--modversion",
            "--print-errors", "--errors-to-stdout"}

Command == [options : SUBSET Options, packages : Seq(Names),
            components : SUBSET Comps, format : {"pkgconf", "unknown"}]

RequestOf(command) ==
  [name |-> Head(command.packages),
   req  |-> [components |-> command.components, version |-> None]]

ASSUME InvocationsAssumption ==
  /\ Invocations \subseteq [disk : Disks, command : Command]
  /\ \A i \in Invocations : i.command.packages # <<>> => RequestOf(i.command) \in Requests

VARIABLES
  command,   \* the command line
  output,    \* the arguments printed to stdout
  message,   \* where an error message went: "none", "stdout" or "stderr"
  status     \* "running", then "0", "1", "usage" or "aborted"

mainVars == <<findVars, command, output, message, status>>

(* packages is a required option: without one find_package is never called. *)
MainInit ==
  /\ \E i \in Invocations :
       /\ disk = i.disk /\ command = i.command
       /\ request = IF i.command.packages = <<>> THEN CHOOSE r \in Requests : TRUE
                    ELSE RequestOf(i.command)
  /\ Build!Start /\ FindStart
  /\ output = <<>> /\ message = "none" /\ status = "running"

-----------------------------------------------------------------------------
(* Mutant: --cflags-only-other leaves the definitions out.                 *)
Sets_defines(option) ==
  CASE option = "--cflags"            -> {"cflags", "defines", "includes"}
    [] option = "--cflags-only-I"     -> {"includes"}
    [] option = "--cflags-only-other" -> {"cflags"}
    [] option = "--libs"              -> {"libs_link", "libs_search", "libs_other"}
    [] option = "--libs-only-L"       -> {"libs_search"}
    [] option = "--libs-only-l"       -> {"libs_link"}
    [] option = "--libs-only-other"   -> {"libs_other"}
    [] OTHER                          -> {}

(* The fields of the printer's Config an option sets.                       *)
Sets(option) ==
  CASE option = "--cflags"            -> {"cflags", "defines", "includes"}
    [] option = "--cflags-only-I"     -> {"includes"}
    [] option = "--cflags-only-other" -> {"cflags", "defines"}
    [] option = "--libs"              -> {"libs_link", "libs_search", "libs_other"}
    [] option = "--libs-only-L"       -> {"libs_search"}
    [] option = "--libs-only-l"       -> {"libs_link"}
    [] option = "--libs-only-other"   -> {"libs_other"}
    [] OTHER                          -> {}

Given(option) == option \in command.options
Conf          == UNION {Sets(o) : o \in command.options}

(* The lists pkgconf goes through in turn: the field that asks for each,    *)
(* the kind of argument it gives, and the part of the result it is from.    *)
(* link_flags is gone through three times, for "-L", "-l" and the others.   *)
Lists ==
  <<<<"cflags", "compile_flags", "compile">>, <<"includes", "-I", "compile">>,
    <<"defines", "-D", "compile">>, <<"libs_search", "-L", "link">>,
    <<"libs_other", "other", "link">>, <<"libs_link", "location", "location">>,
    <<"libs_link", "link_libraries", "link">>, <<"libs_link", "-l", "link">>>>

Arguments(list) ==
  IF list[1] \notin Conf THEN <<>>
  ELSE [k \in DOMAIN result[list[3]] |-> <<list[2], result[list[3]][k]>>]

(* pkgconf prints the version, "unknown" if there is none, or the flags.    *)
pkgconf ==
  IF Given("--modversion") THEN <<<<"version", result.version>>>>
  ELSE FlattenSeq([k \in DOMAIN Lists |-> Arguments(Lists[k])])

-----------------------------------------------------------------------------
Running == status = "running"

(* An option's error is printed by CLI11, which gives the status.           *)
ParseFails ==
  /\ Running /\ command.packages = <<>>
  /\ status' = "usage"
  /\ UNCHANGED <<findVars, command, output, message>>

(* Whatever packages are named, the first is looked for.                    *)
FindPackage ==
  /\ Running /\ command.packages # <<>>
  /\ FindNext
  /\ UNCHANGED <<command, output, message, status>>

Message == CASE ~Given("--print-errors")  -> "none"
             [] Given("--errors-to-stdout") -> "stdout"
             [] OTHER                       -> "stderr"

(* Mutant: the status is not set.                                          *)
ReportError_zero ==
  /\ Running /\ phase \in {"missing", "error"}
  /\ message' = Message /\ status' = "0"
  /\ UNCHANGED <<findVars, command, output>>

ReportError ==
  /\ Running /\ phase \in {"missing", "error"}
  /\ message' = Message /\ status' = "1"
  /\ UNCHANGED <<findVars, command, output>>

PrintFlags ==
  /\ Running /\ phase = "found" /\ command.format = "pkgconf"
  /\ output' = pkgconf /\ status' = "0"
  /\ UNCHANGED <<findVars, command, message>>

(* "Unknown mode", which is noticed only when the package has been found.   *)
UnknownFormat ==
  /\ Running /\ phase = "found" /\ command.format # "pkgconf"
  /\ message' = Message /\ status' = "1"
  /\ UNCHANGED <<findVars, command, output>>

(* An exception nothing catches, an abort, or the end of the stack.         *)
Abort ==
  /\ Running /\ phase = "terminated"
  /\ status' = "aborted"
  /\ UNCHANGED <<findVars, command, output, message>>

MainNext ==
  ParseFails \/ FindPackage \/ ReportError \/ PrintFlags \/ UnknownFormat \/ Abort

MainSpec == MainInit /\ [][MainNext]_mainVars /\ WF_mainVars(MainNext)

-----------------------------------------------------------------------------
(* What the help texts promise of the options, as a partition of what the   *)
(* result holds: "output -I flags", "cflags not covered by the              *)
(* cflags-only-I option", "LDPATH", "LIBNAME" and "other linker flags".     *)
Asks(kind) ==
  CASE kind = "-I"                                -> {"--cflags", "--cflags-only-I"}
    [] kind \in {"compile_flags", "-D"}           -> {"--cflags", "--cflags-only-other"}
    [] kind = "-L"                                -> {"--libs", "--libs-only-L"}
    [] kind \in {"location", "link_libraries", "-l"} -> {"--libs", "--libs-only-l"}
    [] kind = "other"                             -> {"--libs", "--libs-only-other"}

(* What one option leaves out the other prints: each contribution to the    *)
(* result is printed once if an option asks for its kind, and not at all    *)
(* otherwise, however the options are combined.                            *)
PrintsWhatIsAsked ==
  status = "0" /\ ~Given("--modversion") =>
    /\ IsInjective(output)
    /\ \A k \in DOMAIN Lists :
         LET entries == Range(result[Lists[k][3]])
         IN  {a[2] : a \in {b \in Range(output) : b[1] = Lists[k][2]}} =
               IF Asks(Lists[k][2]) \cap command.options # {} THEN entries ELSE {}

(* The status tells whether the package was found: 0 only if what is asked  *)
(* for can be resolved through the files; 1 only if it cannot, or if a      *)
(* needed component has no location, or for an unknown format.  Flags are   *)
(* printed with status 0 alone, and an error message never among them.      *)
StatusTells ==
  LET lacks == \E u \in FileUses :
                 LET c == Files[u[1]].pkg.components[u[2]]
                 IN  ~c.interface /\ ~c.located
  IN  /\ status = "0" => Resolvable(disk, request) /\ message = "none"
      /\ status = "1" => ~Resolvable(disk, request) \/ lacks \/ command.format = "unknown"
      /\ output # <<>> => status = "0"

(* Every invocation ends, if only by a full stack.                          *)
MainEnds == <>~Running
=============================================================================
