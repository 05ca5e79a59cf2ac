--------------------------- MODULE CompareVersions ---------------------------
(***************************************************************************)
(* One call of cps::version::compare with Schema::simple, step by step:     *)
(* splitting both strings, the part-by-part loop of compare_numbers over    *)
(* the numbers before the sign, the choice simple_compare makes about the   *)
(* numbers after it, and the default answer.                                *)
(***************************************************************************)
EXTENDS Version

CONSTANTS Versions    \* the versions a caller may pass

ASSUME VersionsAssumption == Versions \subseteq Version

VARIABLES left, op, right,   \* the arguments of the call
          seg,               \* 1: before the sign, 2: after it
          i,                 \* the loop index of compare_numbers
          answer             \* "pending" until the call returns

vars == <<left, op, right, seg, i, answer>>

Init ==
  /\ left \in Versions /\ right \in Versions
  /\ op \in Operators
  /\ seg = 1 /\ i = 1
  /\ answer = "pending"

Pending   == answer = "pending"
Split     == IsSplit(left) /\ IsSplit(right)
BothParse == IsNumeric(left[seg]) /\ IsNumeric(right[seg])
(* Mutant: the loop ends with the shorter segment, as without              *)
(* equalize_length.                                                        *)
AtEnd_short == i > Len(left[seg]) \/ i > Len(right[seg])

AtEnd     == i > Longest(left[seg], right[seg])

Return(a) == answer' = a /\ UNCHANGED <<left, op, right, seg, i>>

(* split_plus_minus or as_numbers fails: CPS_TRY returns the error.         *)
Fail ==
  /\ Pending
  /\ ~Split \/ ~BothParse
  /\ Return("error")

(* One iteration of the loop of compare_numbers.                           *)
CompareParts ==
  /\ Pending /\ Split /\ BothParse /\ ~AtEnd
  /\ LET v == compare_value(At(left[seg], i), op, At(right[seg], i))
     IN  IF v = "unknown"
         THEN i' = i + 1 /\ UNCHANGED <<left, op, right, seg, answer>>
         ELSE Return(v)

(* Mutant: the second loop continues with the index of the first.          *)
EnterRest_index ==
  /\ Pending /\ Split /\ BothParse /\ AtEnd
  /\ seg = 1 /\ Len(left) = 2 /\ Len(right) = 2
  /\ seg' = 2
  /\ UNCHANGED <<left, op, right, i, answer>>

(* The numbers before the sign settled nothing, and both versions have a    *)
(* suffix: compare_numbers is called again for the numbers after it.        *)
EnterRest ==
  /\ Pending /\ Split /\ BothParse /\ AtEnd
  /\ seg = 1 /\ Len(left) = 2 /\ Len(right) = 2
  /\ seg' = 2 /\ i' = 1
  /\ UNCHANGED <<left, op, right, answer>>

(* Mutant: a suffix on one side only is ignored.                           *)
CompareSuffixes_ignored ==
  /\ Pending /\ Split /\ BothParse /\ AtEnd
  /\ seg = 1 /\ ~(Len(left) = 2 /\ Len(right) = 2)
  /\ Return(Settled(op, "unknown"))

(* Only one version, or none, has a suffix.                                *)
CompareSuffixes ==
  /\ Pending /\ Split /\ BothParse /\ AtEnd
  /\ seg = 1 /\ ~(Len(left) = 2 /\ Len(right) = 2)
  /\ Return(Settled(op, compare_value(Len(left), op, Len(right))))

(* Nothing after the sign settled the question either.                     *)
ReturnDefault ==
  /\ Pending /\ Split /\ BothParse /\ AtEnd
  /\ seg = 2
  /\ Return(Settled(op, "unknown"))

Next == Fail \/ CompareParts \/ EnterRest \/ CompareSuffixes \/ ReturnDefault

Spec == Init /\ [][Next]_vars /\ WF_vars(Next)

-----------------------------------------------------------------------------
Answered == answer # "pending"

(* The step-by-step evaluation returns what the operator simple_compare,    *)
(* which the search uses, says: early returns, padding and the second loop  *)
(* change nothing.                                                         *)
ReturnsSimpleCompare == Answered => answer = simple_compare(left, op, right)

(* A version that is older is never accepted where at least the newer one   *)
(* is required: lt answers yes for every pair in the reference order. The   *)
(* search rejects a package by this answer (search.cpp:302-316).            *)
OlderIsLess ==
  (/\ Answered /\ op = "lt" /\ WellFormed(left) /\ WellFormed(right)
   /\ Older(left, right))
  => answer = "yes"

(* eq is sameness up to trailing zeros: 1 and 1.0.0 are one version, and a  *)
(* version with a suffix is another one.                                   *)
EqIsSameVersion ==
  (Answered /\ op = "eq" /\ WellFormed(left) /\ WellFormed(right))
  => (answer = "yes" <=> SameVersion(left, right))

Opposite(o) == CASE o = "lt" -> "ge" [] o = "ge" -> "lt"
                 [] o = "gt" -> "le" [] o = "le" -> "gt"
                 [] o = "eq" -> "ne" [] o = "ne" -> "eq"

Mirrored(o) == CASE o = "lt" -> "gt" [] o = "gt" -> "lt"
                 [] o = "le" -> "ge" [] o = "ge" -> "le"
                 [] OTHER -> o

(* The answer agrees with two other calls a caller could have made: the     *)
(* opposite operator gives the opposite answer, the mirrored operator with  *)
(* the arguments swapped the same one; an error is an error for these.      *)
(* Nothing is said of lt and gt, which may both be yes (LessIsOlder).       *)
AnswersAgree ==
  Answered =>
    /\ answer = simple_compare(right, Mirrored(op), left)
    /\ LET other == simple_compare(left, Opposite(op), right)
       IN  CASE answer = "yes" -> other = "no"
             [] answer = "no"  -> other = "yes"
             [] OTHER          -> other = "error"

(* What the search says of a package it rejects: that its version is less   *)
(* than the required one (search.cpp:277, and the message at 310). It does  *)
(* not hold: 3.0 is reported less than 1.5.                                 *)
LessIsOlder ==
  (/\ Answered /\ op = "lt" /\ WellFormed(left) /\ WellFormed(right)
   /\ answer = "yes")
  => Older(left, right)

=============================================================================
