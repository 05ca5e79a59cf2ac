--------------------------- MODULE CalculatePrefix ---------------------------
(***************************************************************************)
(* calculate_prefix (src/cps/loader.cpp): where a package was installed,    *)
(* from the cps_path its file says it is in and the directory the file was  *)
(* found in.  Both are climbed in step until cps_path is "@prefix@".        *)
(***************************************************************************)
EXTENDS SequencesExt, Integers

CONSTANTS
  Elements,     \* the names paths are made of
  Stem(_),      \* a name without its extension
  PrefixMark,   \* the name "@prefix@"
  NoName,       \* the empty name, after a trailing slash
  CpsPaths,     \* the values of cps_path
  Directories   \* the directories files are found in

(* A filesystem::path: with a root directory or not, and the names in it.   *)
Path == [root : BOOLEAN, names : Seq(Elements)]

ASSUME PathsAssumption ==
  /\ CpsPaths \subseteq Path /\ Directories \subseteq Path
  /\ {PrefixMark, NoName} \subseteq Elements /\ PrefixMark # NoName
  /\ \A e \in Elements : Stem(e) \in Elements
  /\ \A e \in {PrefixMark, NoName} : Stem(e) = e
  /\ \A e \in Elements : Stem(e) = NoName => e = NoName
  /\ \A c \in CpsPaths : NoName \notin Range(Front(c.names))
  /\ \A d \in Directories : NoName \notin Range(d.names)

VARIABLES
  cps_path, directory,   \* the arguments: cps_path, and filename's parent
  p, f,                  \* the paths being climbed
  answer                 \* "start", "climbing", "prefix" or "error"

vars == <<cps_path, directory, p, f, answer>>

Start == p = cps_path /\ f = directory /\ answer = "start"

Init == cps_path \in CpsPaths /\ directory \in Directories /\ Start

-----------------------------------------------------------------------------
(* parent_path of a path without names is the path itself.                  *)
parent_path(path) ==
  [path EXCEPT !.names = IF @ = <<>> THEN @ ELSE Front(@)]

(* stem of a path: of its last name, or empty.                              *)
stem(path) == IF path.names = <<>> THEN NoName ELSE Stem(Last(path.names))

AtPrefix == p = [root |-> FALSE, names |-> <<PrefixMark>>]

(* Mutant: a trailing slash is left in cps_path.                           *)
Begin_slash ==
  /\ answer = "start"
  /\ answer' = "climbing"
  /\ UNCHANGED <<cps_path, directory, p, f>>

(* A trailing slash is dropped.                                            *)
Begin ==
  /\ answer = "start"
  /\ p' = IF stem(p) = NoName THEN parent_path(p) ELSE p
  /\ answer' = "climbing"
  /\ UNCHANGED <<cps_path, directory, f>>

(* Mutant: the parents are not taken.                                      *)
Climb_still ==
  /\ answer = "climbing" /\ ~AtPrefix /\ stem(p) = stem(f)
  /\ UNCHANGED <<cps_path, directory, p, f, answer>>

(* Both paths end alike: their parents are looked at.                       *)
Climb ==
  /\ answer = "climbing" /\ ~AtPrefix /\ stem(p) = stem(f)
  /\ p' = parent_path(p) /\ f' = parent_path(f)
  /\ UNCHANGED <<cps_path, directory, answer>>

(* "filepath and cps_path have non overlapping stems"                       *)
Mismatch ==
  /\ answer = "climbing" /\ ~AtPrefix /\ stem(p) # stem(f)
  /\ answer' = "error"
  /\ UNCHANGED <<cps_path, directory, p, f>>

ReturnPrefix ==
  /\ answer = "climbing" /\ AtPrefix
  /\ answer' = "prefix"
  /\ UNCHANGED <<cps_path, directory, p, f>>

Next == Begin \/ Climb \/ Mismatch \/ ReturnPrefix

Spec == Init /\ [][Next]_vars /\ WF_vars(Next)

-----------------------------------------------------------------------------
(* cps_path begins with "@prefix@", as it is meant to.                      *)
Relocatable == ~cps_path.root /\ cps_path.names # <<>>
                 /\ Head(cps_path.names) = PrefixMark

(* The names below "@prefix@", without the empty one of a trailing slash.   *)
Suffix ==
  LET below == Tail(cps_path.names)
  IN  IF below # <<>> /\ Last(below) = NoName THEN Front(below) ELSE below

(* The path s is where the directory ends, name by name up to extensions.   *)
EndsWith(s) ==
  LET gap == Len(directory.names) - Len(s)
  IN  /\ gap >= 0
      /\ \A k \in DOMAIN s : Stem(s[k]) = Stem(directory.names[gap + k])

(* A prefix is answered exactly when the directory ends in what cps_path    *)
(* has below "@prefix@", and it is the rest of the directory: replacing     *)
(* "@prefix@" by it leads back to where the file was found.                 *)
PrefixLeadsBack ==
  /\ answer = "prefix" =>
       /\ Relocatable /\ EndsWith(Suffix)
       /\ f = [directory EXCEPT
                 !.names = SubSeq(@, 1, Len(@) - Len(Suffix))]
  /\ answer = "error" => ~(Relocatable /\ EndsWith(Suffix))
=============================================================================
