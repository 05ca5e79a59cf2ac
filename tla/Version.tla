------------------------------- MODULE Version -------------------------------
(***************************************************************************)
(* What cps::version::compare answers (src/cps/version.cpp).               *)
(*                                                                         *)
(* A version string is the sequence of its segments, the parts of the      *)
(* string between '+' and '-' signs, which the code does not tell apart; a *)
(* segment is the sequence of its dot-separated parts; a part is the       *)
(* number std::stoull reads, or Invalid when std::stoull throws.           *)
(***************************************************************************)
EXTENDS Integers, Sequences

Invalid == -1
Part    == Nat \cup {Invalid}
Segment == Seq(Part) \ {<<>>}
Version == Seq(Segment) \ {<<>>}

Operators == {"le", "lt", "eq", "ne", "gt", "ge"}
NonStrict == {"le", "eq", "ge"}
Schemas   == {"simple", "custom", "rpm", "dpkg"}
Answers   == {"yes", "no", "error"}

Longest(s, t) == IF Len(s) >= Len(t) THEN Len(s) ELSE Len(t)

(* as_numbers fails on the first part that is not a number.                *)
IsNumeric(segment) == \A i \in 1..Len(segment) : segment[i] # Invalid

(* split_plus_minus accepts at most one separator, of either kind.         *)
IsSplit(version) == Len(version) <= 2

(* equalize_length pads the shorter segment with zeros.                    *)
At(segment, i) == IF i <= Len(segment) THEN segment[i] ELSE 0

(* Mutant: ge settles on equal parts too.                                  *)
Settles_ge(op, l, r) == \/ op \in {"eq", "ne"} /\ l # r
                        \/ op \in {"le", "gt"} /\ l > r
                        \/ op = "lt" /\ l < r
                        \/ op = "ge" /\ l <= r

(* Two values settle the operator when they differ the way it looks for.   *)
Settles(op, l, r) == \/ op \in {"eq", "ne"} /\ l # r
                     \/ op \in {"le", "gt"} /\ l > r
                     \/ op \in {"ge", "lt"} /\ l < r

Verdict(op) == IF op \in NonStrict THEN "no" ELSE "yes"

(* The private template compare over one pair of values.                   *)
compare_value(l, op, r) == IF Settles(op, l, r) THEN Verdict(op) ELSE "unknown"

(* The loop of compare_numbers: the first part that settles decides, and    *)
(* every part that settles gives the same verdict.                         *)
compare_numbers(l, op, r) ==
  IF ~IsNumeric(l) \/ ~IsNumeric(r) THEN "error"
  ELSE IF \E i \in 1..Longest(l, r) : Settles(op, At(l, i), At(r, i))
       THEN Verdict(op) ELSE "unknown"

(* The parts after the sign are compared when both versions have them;      *)
(* otherwise whether they are there is (absent < present).                 *)
compare_rest(l, op, r) ==
  IF Len(l) = 2 /\ Len(r) = 2 THEN compare_numbers(l[2], op, r[2])
                              ELSE compare_value(Len(l), op, Len(r))

Settled(op, answer) == IF answer # "unknown" THEN answer
                       ELSE IF op \in NonStrict THEN "yes" ELSE "no"

simple_compare(l, op, r) ==
  IF ~IsSplit(l) \/ ~IsSplit(r) THEN "error"
  ELSE LET first == compare_numbers(l[1], op, r[1])
       IN  IF first # "unknown" THEN first
           ELSE Settled(op, compare_rest(l, op, r))

(* Only Schema::simple is implemented.                                     *)
compare(l, op, r, schema) ==
  IF schema = "simple" THEN simple_compare(l, op, r) ELSE "error"

-----------------------------------------------------------------------------
(* The order versions are usually meant to have, the reference compare is   *)
(* measured against: the first part that differs decides, and a version     *)
(* with a suffix follows the same version without it.                       *)
WellFormed(v) == IsSplit(v) /\ \A s \in 1..Len(v) : IsNumeric(v[s])

SegmentBefore(s, t) ==
  \E i \in 1..Longest(s, t) :
    /\ At(s, i) < At(t, i)
    /\ \A j \in 1..(i - 1) : At(s, j) = At(t, j)

SameSegment(s, t) == \A i \in 1..Longest(s, t) : At(s, i) = At(t, i)

Older(l, r) ==
  \/ SegmentBefore(l[1], r[1])
  \/ /\ SameSegment(l[1], r[1])
     /\ \/ Len(l) < Len(r)
        \/ Len(l) = 2 /\ Len(r) = 2 /\ SegmentBefore(l[2], r[2])

SameVersion(l, r) ==
  /\ Len(l) = Len(r)
  /\ \A s \in 1..Len(l) : SameSegment(l[s], r[s])
=============================================================================
