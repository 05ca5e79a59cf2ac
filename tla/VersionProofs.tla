---------------------------- MODULE VersionProofs ----------------------------
(***************************************************************************)
(* The comparison of two versions, for versions of any length: the loop     *)
(* returns what simple_compare says in closed form, and simple_compare has  *)
(* the relation to the order of versions that the search relies on.         *)
(***************************************************************************)
EXTENDS CompareVersions, TLAPS

(* The arguments stay what they were, and the loop is in a segment that is  *)
(* there.                                                                  *)
TypeOK ==
  /\ left \in Version /\ right \in Version
  /\ op \in Operators
  /\ seg \in {1, 2} /\ i \in Nat \ {0}
  /\ answer \in Answers \cup {"pending"}

(* No part of the two segments before the k-th settles the operator.        *)
Unsettled(l, r, k) == \A j \in 1..(k - 1) : ~Settles(op, At(l, j), At(r, j))

(* The first segments have been compared to their end.                      *)
FirstPassed ==
  /\ Split /\ Len(left) = 2 /\ Len(right) = 2
  /\ compare_numbers(left[1], op, right[1]) = "unknown"

(* What the loop has found so far.                                         *)
LoopInv ==
  Pending => /\ Split /\ BothParse => Unsettled(left[seg], right[seg], i)
             /\ seg = 2 => FirstPassed

(* The inductive invariant.                                                *)
IInv == TypeOK /\ LoopInv /\ ReturnsSimpleCompare

-----------------------------------------------------------------------------
(* The segments of a version are not empty, and their parts are numbers or  *)
(* Invalid.                                                                *)
LEMMA SegmentType ==
  ASSUME NEW v \in Version
  PROVE  /\ Len(v) \in Nat \ {0}
         /\ \A s \in 1..Len(v) : v[s] \in Segment
         /\ v[1] \in Segment
BY DEF Version

LEMMA LongestType ==
  ASSUME NEW s \in Segment, NEW t \in Segment
  PROVE  /\ Longest(s, t) \in Nat \ {0} /\ Longest(s, t) = Longest(t, s)
         /\ \A j \in 1..Longest(s, t) : At(s, j) \in Int /\ At(t, j) \in Int
BY DEF Segment, Longest, At, Part, Invalid

(* compare_numbers of segments that are all numbers.                        *)
LEMMA NumbersSettle ==
  ASSUME NEW s, NEW t, NEW o, IsNumeric(s), IsNumeric(t),
         NEW j \in 1..Longest(s, t), Settles(o, At(s, j), At(t, j))
  PROVE  compare_numbers(s, o, t) = Verdict(o)
BY DEF compare_numbers

LEMMA NumbersUnknown ==
  ASSUME NEW s, NEW t, NEW o, IsNumeric(s), IsNumeric(t),
         \A j \in 1..Longest(s, t) : ~Settles(o, At(s, j), At(t, j))
  PROVE  compare_numbers(s, o, t) = "unknown"
BY DEF compare_numbers

(* What the comparison answers, by what its first half answers.             *)
LEMMA CompareByFirst ==
  ASSUME NEW l, NEW o, NEW r, IsSplit(l), IsSplit(r)
  PROVE  /\ compare_numbers(l[1], o, r[1]) # "unknown" =>
              simple_compare(l, o, r) = compare_numbers(l[1], o, r[1])
         /\ compare_numbers(l[1], o, r[1]) = "unknown" =>
              simple_compare(l, o, r) = Settled(o, compare_rest(l, o, r))
BY DEF simple_compare

LEMMA VerdictKnown == \A o : Verdict(o) \in {"yes", "no"} /\ Verdict(o) # "unknown"
BY DEF Verdict

-----------------------------------------------------------------------------
LEMMA InitIInv == Init => IInv
<1> SUFFICES ASSUME Init
             PROVE  IInv
  OBVIOUS
<1>1. TypeOK
  BY VersionsAssumption DEF Init, TypeOK
<1>2. LoopInv /\ ReturnsSimpleCompare
  BY DEF Init, LoopInv, Unsettled, ReturnsSimpleCompare, Answered
<1> QED
  BY <1>1, <1>2 DEF IInv

(* A step that answers has to answer rightly.                               *)
LEMMA ReturnStep ==
  ASSUME IInv, NEW a \in Answers, Return(a), a = simple_compare(left, op, right)
  PROVE  IInv'
<1>1. /\ answer' = a /\ UNCHANGED <<left, op, right, seg, i>>
  BY DEF Return
<1>2. TypeOK'
  BY <1>1 DEF IInv, TypeOK
<1>3. LoopInv'
  BY <1>1 DEF LoopInv, Pending, Answers
<1>4. ReturnsSimpleCompare'
  BY <1>1 DEF ReturnsSimpleCompare
<1> QED
  BY <1>2, <1>3, <1>4 DEF IInv

LEMMA FailStep ==
  ASSUME IInv, Fail
  PROVE  IInv'
<1>1. Pending /\ Return("error") /\ (~Split \/ ~BothParse)
  BY DEF Fail
<1>2. simple_compare(left, op, right) = "error"
  <2>1. CASE ~Split
    BY <2>1 DEF Split, simple_compare
  <2>2. CASE Split /\ ~BothParse /\ seg = 1
    <3>1. compare_numbers(left[1], op, right[1]) = "error"
      BY <2>2 DEF BothParse, compare_numbers
    <3> QED
      BY <2>2, <3>1, CompareByFirst DEF Split
  <2>3. CASE Split /\ ~BothParse /\ seg = 2
    <3>1. FirstPassed
      BY <1>1, <2>3 DEF IInv, LoopInv
    <3>2. compare_rest(left, op, right) = "error"
      BY <2>3, <3>1 DEF BothParse, compare_numbers, compare_rest, FirstPassed
    <3> QED
      BY <3>1, <3>2, CompareByFirst DEF FirstPassed, Split, Settled
  <2> QED
    BY <1>1, <2>1, <2>2, <2>3 DEF IInv, TypeOK
<1> QED
  BY <1>1, <1>2, ReturnStep DEF Answers

LEMMA CompareStep ==
  ASSUME IInv, CompareParts
  PROVE  IInv'
<1> DEFINE s == left[seg]
           t == right[seg]
           v == compare_value(At(s, i), op, At(t, i))
<1>1. /\ Pending /\ Split /\ BothParse /\ ~AtEnd
      /\ IF v = "unknown"
         THEN i' = i + 1 /\ UNCHANGED <<left, op, right, seg, answer>>
         ELSE Return(v)
  BY DEF CompareParts
<1>2. /\ TypeOK /\ Unsettled(s, t, i) /\ (seg = 2 => FirstPassed)
      /\ s \in Segment /\ t \in Segment
  <2>1. TypeOK /\ Unsettled(s, t, i) /\ (seg = 2 => FirstPassed)
    BY <1>1 DEF IInv, LoopInv
  <2> QED
    BY <2>1, SegmentType DEF TypeOK, FirstPassed
<1>3. CASE Settles(op, At(s, i), At(t, i))
  <2>1. v = Verdict(op) /\ Verdict(op) \in Answers
    BY <1>3 DEF compare_value, Verdict, Answers
  <2>2. i \in 1..Longest(s, t) /\ IsNumeric(s) /\ IsNumeric(t)
    BY <1>1, <1>2, LongestType DEF AtEnd, BothParse, TypeOK
  <2>3. compare_numbers(s, op, t) = Verdict(op)
    BY <1>3, <2>2, NumbersSettle
  <2>4. simple_compare(left, op, right) = Verdict(op)
    <3>1. IsSplit(left) /\ IsSplit(right)
      BY <1>1 DEF Split
    <3>2. CASE seg = 1
      BY <2>3, <3>1, <3>2, CompareByFirst, VerdictKnown
    <3>3. CASE seg = 2
      <4>1. compare_rest(left, op, right) = Verdict(op)
        BY <1>2, <2>3, <3>3 DEF compare_rest, FirstPassed
      <4> QED
        BY <1>2, <3>1, <3>3, <4>1, CompareByFirst, VerdictKnown DEF FirstPassed, Settled
    <3> QED
      BY <1>2, <3>2, <3>3 DEF TypeOK
  <2>5. Return(Verdict(op))
    BY <1>1, <2>1, VerdictKnown
  <2> QED
    BY <2>1, <2>4, <2>5, ReturnStep
<1>4. CASE ~Settles(op, At(s, i), At(t, i))
  <2>1. i' = i + 1 /\ UNCHANGED <<left, op, right, seg, answer>>
    BY <1>1, <1>4 DEF compare_value
  <2>2. TypeOK'
    BY <1>2, <2>1 DEF TypeOK
  <2>3. \A j \in 1..((i + 1) - 1) : ~Settles(op, At(s, j), At(t, j))
    BY <1>2, <1>4 DEF Unsettled, TypeOK
  <2>4. LoopInv'
    BY <1>2, <2>1, <2>3 DEF LoopInv, Unsettled, Pending, Split, BothParse, FirstPassed
  <2>5. ReturnsSimpleCompare'
    BY <1>1, <2>1 DEF ReturnsSimpleCompare, Answered, Pending
  <2> QED
    BY <2>2, <2>4, <2>5 DEF IInv
<1> QED
  BY <1>3, <1>4

(* At the end of a segment its comparison is open.                          *)
LEMMA EndUnknown ==
  ASSUME IInv, Pending, Split, BothParse, AtEnd
  PROVE  compare_numbers(left[seg], op, right[seg]) = "unknown"
<1>1. /\ TypeOK /\ Unsettled(left[seg], right[seg], i) /\ (seg = 2 => FirstPassed)
  BY DEF IInv, LoopInv
<1>2. left[seg] \in Segment /\ right[seg] \in Segment
  BY <1>1, SegmentType DEF TypeOK, FirstPassed
<1>3. \A j \in 1..Longest(left[seg], right[seg]) : j \in 1..(i - 1)
  BY <1>1, <1>2, LongestType DEF AtEnd, TypeOK
<1> QED
  BY <1>1, <1>3, NumbersUnknown DEF Unsettled, BothParse

LEMMA EnterRestStep ==
  ASSUME IInv, EnterRest
  PROVE  IInv'
<1>1. /\ Pending /\ Split /\ BothParse /\ AtEnd
      /\ seg = 1 /\ Len(left) = 2 /\ Len(right) = 2
      /\ seg' = 2 /\ i' = 1
      /\ UNCHANGED <<left, op, right, answer>>
  BY DEF EnterRest
<1>2. compare_numbers(left[1], op, right[1]) = "unknown"
  BY <1>1, EndUnknown
<1>3. TypeOK'
  BY <1>1 DEF IInv, TypeOK
<1>4. LoopInv'
  BY <1>1, <1>2 DEF LoopInv, Unsettled, FirstPassed, Split
<1>5. ReturnsSimpleCompare'
  BY <1>1 DEF ReturnsSimpleCompare, Answered, Pending
<1> QED
  BY <1>3, <1>4, <1>5 DEF IInv

LEMMA CompareSuffixesStep ==
  ASSUME IInv, CompareSuffixes
  PROVE  IInv'
<1> DEFINE a == Settled(op, compare_value(Len(left), op, Len(right)))
<1>1. /\ Pending /\ Split /\ BothParse /\ AtEnd
      /\ seg = 1 /\ ~(Len(left) = 2 /\ Len(right) = 2)
      /\ Return(a)
  BY DEF CompareSuffixes
<1>2. compare_numbers(left[1], op, right[1]) = "unknown"
  BY <1>1, EndUnknown
<1>3. simple_compare(left, op, right) = a
  BY <1>1, <1>2, CompareByFirst DEF Split, compare_rest
<1>4. a \in Answers
  BY VerdictKnown DEF Settled, compare_value, Answers
<1> QED
  BY <1>1, <1>3, <1>4, ReturnStep

LEMMA ReturnDefaultStep ==
  ASSUME IInv, ReturnDefault
  PROVE  IInv'
<1> DEFINE a == Settled(op, "unknown")
<1>1. /\ Pending /\ Split /\ BothParse /\ AtEnd /\ seg = 2 /\ Return(a)
  BY DEF ReturnDefault
<1>2. compare_numbers(left[2], op, right[2]) = "unknown" /\ FirstPassed
  BY <1>1, EndUnknown DEF IInv, LoopInv
<1>3. simple_compare(left, op, right) = a
  BY <1>1, <1>2, CompareByFirst DEF Split, compare_rest, FirstPassed
<1>4. a \in Answers
  BY DEF Settled, Answers
<1> QED
  BY <1>1, <1>3, <1>4, ReturnStep

LEMMA NextIInv == IInv /\ [Next]_vars => IInv'
<1> SUFFICES ASSUME IInv, [Next]_vars
             PROVE  IInv'
  OBVIOUS
<1>1. CASE UNCHANGED vars
  BY <1>1 DEF vars, IInv, TypeOK, LoopInv, Pending, Split, BothParse, Unsettled,
              FirstPassed, ReturnsSimpleCompare, Answered
<1> QED
  BY <1>1, FailStep, CompareStep, EnterRestStep, CompareSuffixesStep, ReturnDefaultStep
     DEF Next

(* The inductive invariant holds of every behaviour.                        *)
THEOREM InvariantHolds == Spec => []IInv
BY InitIInv, NextIInv, PTL DEF Spec

(* The loop with its early returns, its padding and its second pass over    *)
(* what follows the sign (compare_numbers and simple_compare) returns what   *)
(* the closed form says, for versions of any length.                        *)
THEOREM ClosedForm == Spec => []ReturnsSimpleCompare
<1>1. IInv => ReturnsSimpleCompare
  BY DEF IInv
<1> QED
  BY <1>1, InvariantHolds, PTL

-----------------------------------------------------------------------------
(* The segments of a well-formed version are numbers.                      *)
LEMMA WellFormedNumeric ==
  ASSUME NEW v \in Version, WellFormed(v)
  PROVE  /\ IsSplit(v) /\ IsNumeric(v[1])
         /\ Len(v) \in {1, 2} /\ (Len(v) = 2 => IsNumeric(v[2]))
<1>1. IsSplit(v) /\ \A s \in 1..Len(v) : IsNumeric(v[s])
  BY DEF WellFormed
<1>2. Len(v) \in {1, 2}
  <2>1. PICK n \in Nat \ {0} : n = Len(v)
    BY SegmentType
  <2>2. n <= 2
    BY <1>1, <2>1 DEF IsSplit
  <2>3. n = 1 \/ n = 2
    BY <2>2
  <2> QED
    BY <2>1, <2>3
<1>3. CASE Len(v) = 1
  <2>1. 1 \in 1..Len(v)
    BY <1>3
  <2> QED
    BY <1>1, <1>3, <2>1
<1>4. CASE Len(v) = 2
  <2>1. 1 \in 1..Len(v) /\ 2 \in 1..Len(v)
    BY <1>4
  <2> QED
    BY <1>1, <1>4, <2>1
<1> QED
  BY <1>2, <1>3, <1>4

(* Comparing segments by lt, where one is before the other or they are the   *)
(* same.                                                                   *)
LEMMA BeforeIsLess ==
  ASSUME NEW s, NEW t, IsNumeric(s), IsNumeric(t), SegmentBefore(s, t)
  PROVE  compare_numbers(s, "lt", t) = "yes"
<1>1. PICK k \in 1..Longest(s, t) : At(s, k) < At(t, k)
  BY DEF SegmentBefore
<1>2. Settles("lt", At(s, k), At(t, k)) /\ Verdict("lt") = "yes"
  BY <1>1 DEF Settles, Verdict, NonStrict
<1> QED
  BY <1>2, NumbersSettle

LEMMA SameIsUnknown ==
  ASSUME NEW s \in Segment, NEW t \in Segment, IsNumeric(s), IsNumeric(t),
         SameSegment(s, t), NEW o \in Operators
  PROVE  compare_numbers(s, o, t) = "unknown"
<1>1. \A k \in 1..Longest(s, t) : At(s, k) = At(t, k) /\ At(s, k) \in Int
  BY LongestType DEF SameSegment
<1>2. \A k \in 1..Longest(s, t) : ~Settles(o, At(s, k), At(t, k))
  BY <1>1 DEF Settles
<1> QED
  BY <1>2, NumbersUnknown

(* An older version compares as less than a newer one.                      *)
LEMMA OlderCompares ==
  ASSUME NEW l \in Version, NEW r \in Version, WellFormed(l), WellFormed(r), Older(l, r)
  PROVE  simple_compare(l, "lt", r) = "yes"
<1>1. /\ IsSplit(l) /\ IsNumeric(l[1]) /\ Len(l) \in {1, 2} /\ (Len(l) = 2 => IsNumeric(l[2]))
      /\ IsSplit(r) /\ IsNumeric(r[1]) /\ Len(r) \in {1, 2} /\ (Len(r) = 2 => IsNumeric(r[2]))
      /\ l[1] \in Segment /\ r[1] \in Segment /\ "lt" \in Operators
  BY WellFormedNumeric, SegmentType DEF Operators
<1>2. CASE SegmentBefore(l[1], r[1])
  BY <1>1, <1>2, BeforeIsLess, CompareByFirst
<1>3. CASE SameSegment(l[1], r[1])
  <2>1. compare_numbers(l[1], "lt", r[1]) = "unknown"
    BY <1>1, <1>3, SameIsUnknown
  <2>2. compare_rest(l, "lt", r) = "yes"
    <3>1. CASE Len(l) < Len(r)
      BY <1>1, <3>1 DEF compare_rest, compare_value, Settles, Verdict, NonStrict
    <3>2. CASE Len(l) = 2 /\ Len(r) = 2 /\ SegmentBefore(l[2], r[2])
      BY <1>1, <3>2, BeforeIsLess DEF compare_rest
    <3>3. SegmentBefore(l[1], r[1]) => compare_numbers(l[1], "lt", r[1]) = "yes"
      BY <1>1, BeforeIsLess
    <3>4. ~SegmentBefore(l[1], r[1])
      BY <2>1, <3>3
    <3> QED
      BY <3>1, <3>2, <3>4 DEF Older
  <2> QED
    BY <1>1, <2>1, <2>2, CompareByFirst DEF Settled
<1> QED
  BY <1>2, <1>3 DEF Older

(* Segments that eq does not settle are the same.                           *)
LEMMA EqSegments ==
  ASSUME NEW s \in Segment, NEW t \in Segment, IsNumeric(s), IsNumeric(t)
  PROVE  compare_numbers(s, "eq", t) = IF SameSegment(s, t) THEN "unknown" ELSE "no"
<1>1. CASE SameSegment(s, t)
  BY <1>1, SameIsUnknown DEF Operators
<1>2. CASE ~SameSegment(s, t)
  <2>1. PICK k \in 1..Longest(s, t) : Settles("eq", At(s, k), At(t, k))
    BY <1>2 DEF SameSegment, Settles
  <2>2. Verdict("eq") = "no"
    BY DEF Verdict, NonStrict
  <2> QED
    BY <1>2, <2>1, <2>2, NumbersSettle
<1> QED
  BY <1>1, <1>2

LEMMA EqCompares ==
  ASSUME NEW l \in Version, NEW r \in Version, WellFormed(l), WellFormed(r)
  PROVE  simple_compare(l, "eq", r) = IF SameVersion(l, r) THEN "yes" ELSE "no"
<1>1. /\ IsSplit(l) /\ IsNumeric(l[1]) /\ Len(l) \in {1, 2} /\ (Len(l) = 2 => IsNumeric(l[2]))
      /\ IsSplit(r) /\ IsNumeric(r[1]) /\ Len(r) \in {1, 2} /\ (Len(r) = 2 => IsNumeric(r[2]))
      /\ l[1] \in Segment /\ r[1] \in Segment
      /\ (Len(l) = 2 => l[2] \in Segment) /\ (Len(r) = 2 => r[2] \in Segment)
  BY WellFormedNumeric, SegmentType
<1>2. SameVersion(l, r) <=>
        /\ Len(l) = Len(r) /\ SameSegment(l[1], r[1])
        /\ Len(l) = 2 => SameSegment(l[2], r[2])
  BY <1>1 DEF SameVersion
<1>3. CASE ~SameSegment(l[1], r[1])
  BY <1>1, <1>2, <1>3, EqSegments, CompareByFirst
<1>4. CASE SameSegment(l[1], r[1]) /\ Len(l) # Len(r)
  <2>1. compare_rest(l, "eq", r) = "no"
    BY <1>1, <1>4 DEF compare_rest, compare_value, Settles, Verdict, NonStrict
  <2> QED
    BY <1>1, <1>2, <1>4, <2>1, EqSegments, CompareByFirst DEF Settled
<1>5. CASE SameSegment(l[1], r[1]) /\ Len(l) = 1 /\ Len(r) = 1
  <2>1. compare_rest(l, "eq", r) = "unknown"
    BY <1>5 DEF compare_rest, compare_value, Settles
  <2> QED
    BY <1>1, <1>2, <1>5, <2>1, EqSegments, CompareByFirst DEF Settled, NonStrict
<1>6. CASE SameSegment(l[1], r[1]) /\ Len(l) = 2 /\ Len(r) = 2
  <2>1. compare_rest(l, "eq", r) = IF SameSegment(l[2], r[2]) THEN "unknown" ELSE "no"
    BY <1>1, <1>6, EqSegments DEF compare_rest
  <2> QED
    BY <1>1, <1>2, <1>6, <2>1, EqSegments, CompareByFirst DEF Settled, NonStrict
<1> QED
  BY <1>1, <1>3, <1>4, <1>5, <1>6

-----------------------------------------------------------------------------
(* The operators come in pairs: opposite ones settle on the same parts with  *)
(* different verdicts, mirrored ones on the same parts the other way round.  *)
LEMMA OperatorPairs ==
  ASSUME NEW o \in Operators
  PROVE  /\ Opposite(o) \in Operators /\ Mirrored(o) \in Operators
         /\ Verdict(Mirrored(o)) = Verdict(o)
         /\ Verdict(o) = "yes" => Verdict(Opposite(o)) = "no"
         /\ Verdict(o) = "no"  => Verdict(Opposite(o)) = "yes"
         /\ o \in NonStrict <=> Mirrored(o) \in NonStrict
         /\ o \in NonStrict <=> Opposite(o) \notin NonStrict
         /\ \A a, b \in Int : /\ Settles(o, a, b) <=> Settles(Mirrored(o), b, a)
                              /\ Settles(o, a, b) <=> Settles(Opposite(o), a, b)
BY DEF Operators, Opposite, Mirrored, Verdict, NonStrict, Settles

(* The answer of the opposite operator.                                    *)
Negation(a) == CASE a = "yes" -> "no" [] a = "no" -> "yes" [] OTHER -> a

LEMMA NumbersPairs ==
  ASSUME NEW s \in Segment, NEW t \in Segment, NEW o \in Operators
  PROVE  /\ compare_numbers(t, Mirrored(o), s) = compare_numbers(s, o, t)
         /\ compare_numbers(s, Opposite(o), t) = Negation(compare_numbers(s, o, t))
         /\ compare_numbers(s, o, t) \in {"yes", "no", "error", "unknown"}
<1>1. CASE ~IsNumeric(s) \/ ~IsNumeric(t)
  BY <1>1 DEF compare_numbers, Negation
<1>2. CASE IsNumeric(s) /\ IsNumeric(t)
  <2> DEFINE found(p) == \E j \in 1..Longest(s, t) : Settles(p, At(s, j), At(t, j))
             mirror   == \E j \in 1..Longest(t, s) : Settles(Mirrored(o), At(t, j), At(s, j))
  <2>1. (found(o) <=> found(Opposite(o))) /\ (found(o) <=> mirror)
    BY LongestType, OperatorPairs
  <2>2. /\ \A p : compare_numbers(s, p, t) = IF found(p) THEN Verdict(p) ELSE "unknown"
        /\ compare_numbers(t, Mirrored(o), s) =
             IF mirror THEN Verdict(Mirrored(o)) ELSE "unknown"
    BY <1>2 DEF compare_numbers
  <2> HIDE DEF found, mirror
  <2> QED
    BY <2>1, <2>2, OperatorPairs, VerdictKnown DEF Negation
<1> QED
  BY <1>1, <1>2

LEMMA RestPairs ==
  ASSUME NEW l \in Version, NEW r \in Version, NEW o \in Operators
  PROVE  /\ compare_rest(r, Mirrored(o), l) = compare_rest(l, o, r)
         /\ compare_rest(l, Opposite(o), r) = Negation(compare_rest(l, o, r))
         /\ compare_rest(l, o, r) \in {"yes", "no", "error", "unknown"}
<1>1. CASE Len(l) = 2 /\ Len(r) = 2
  <2>1. 2 \in 1..Len(l) /\ 2 \in 1..Len(r)
    BY <1>1
  <2>2. l[2] \in Segment /\ r[2] \in Segment
    BY <2>1, SegmentType
  <2>3. /\ \A p : compare_rest(l, p, r) = compare_numbers(l[2], p, r[2])
        /\ \A p : compare_rest(r, p, l) = compare_numbers(r[2], p, l[2])
    BY <1>1 DEF compare_rest
  <2> QED
    BY <2>2, <2>3, NumbersPairs
<1>2. CASE ~(Len(l) = 2 /\ Len(r) = 2)
  <2> DEFINE held   == Settles(o, Len(l), Len(r))
             mirror == Settles(Mirrored(o), Len(r), Len(l))
             other  == Settles(Opposite(o), Len(l), Len(r))
  <2>1. Len(l) \in Int /\ Len(r) \in Int
    BY SegmentType
  <2>2. /\ compare_rest(l, o, r) = IF held THEN Verdict(o) ELSE "unknown"
        /\ compare_rest(r, Mirrored(o), l) = IF mirror THEN Verdict(Mirrored(o)) ELSE "unknown"
        /\ compare_rest(l, Opposite(o), r) = IF other THEN Verdict(Opposite(o)) ELSE "unknown"
    BY <1>2 DEF compare_rest, compare_value
  <2>3. (held <=> mirror) /\ (held <=> other)
    BY <2>1, OperatorPairs
  <2> HIDE DEF held, mirror, other
  <2>4. Verdict(Mirrored(o)) = Verdict(o) /\ Verdict(o) \in {"yes", "no"}
    BY OperatorPairs, VerdictKnown
  <2>5. Verdict(Opposite(o)) = Negation(Verdict(o)) /\ Negation("unknown") = "unknown"
    BY OperatorPairs, VerdictKnown DEF Negation
  <2> QED
    BY <2>2, <2>3, <2>4, <2>5
<1> QED
  BY <1>1, <1>2

LEMMA ComparePairs ==
  ASSUME NEW l \in Version, NEW r \in Version, NEW o \in Operators
  PROVE  /\ simple_compare(r, Mirrored(o), l) = simple_compare(l, o, r)
         /\ simple_compare(l, Opposite(o), r) = Negation(simple_compare(l, o, r))
         /\ simple_compare(l, o, r) \in Answers
<1>1. CASE ~IsSplit(l) \/ ~IsSplit(r)
  BY <1>1 DEF simple_compare, Negation, Answers
<1>2. CASE IsSplit(l) /\ IsSplit(r)
  <2> DEFINE first == compare_numbers(l[1], o, r[1])
             rest  == compare_rest(l, o, r)
  <2>1. l[1] \in Segment /\ r[1] \in Segment
    BY SegmentType
  <2>2. /\ compare_numbers(r[1], Mirrored(o), l[1]) = first
        /\ compare_numbers(l[1], Opposite(o), r[1]) = Negation(first)
        /\ first \in {"yes", "no", "error", "unknown"}
    BY <2>1, NumbersPairs
  <2>3. /\ compare_rest(r, Mirrored(o), l) = rest
        /\ compare_rest(l, Opposite(o), r) = Negation(rest)
        /\ rest \in {"yes", "no", "error", "unknown"}
    BY RestPairs
  <2>4. CASE first # "unknown"
    BY <1>2, <2>2, <2>4, CompareByFirst DEF Negation, Answers
  <2>5. CASE first = "unknown"
    <3>1. /\ simple_compare(l, o, r) = Settled(o, rest)
          /\ simple_compare(r, Mirrored(o), l) = Settled(Mirrored(o), rest)
          /\ simple_compare(l, Opposite(o), r) = Settled(Opposite(o), Negation(rest))
      BY <1>2, <2>2, <2>3, <2>5, CompareByFirst DEF Negation
    <3> QED
      BY <2>3, <3>1, OperatorPairs DEF Settled, Negation, Answers
  <2> QED
    BY <2>4, <2>5
<1> QED
  BY <1>1, <1>2

-----------------------------------------------------------------------------
(* Nothing older is accepted: lt answers yes for every older version, which  *)
(* is what build_node rejects a package by.                                *)
THEOREM OlderRejected == Spec => []OlderIsLess
<1>1. IInv => OlderIsLess
  BY OlderCompares DEF IInv, TypeOK, ReturnsSimpleCompare, OlderIsLess
<1> QED
  BY <1>1, InvariantHolds, PTL

(* eq is sameness up to trailing zeros, suffixes included.                  *)
THEOREM EqualityIsSameness == Spec => []EqIsSameVersion
<1>1. IInv => EqIsSameVersion
  BY EqCompares DEF IInv, TypeOK, ReturnsSimpleCompare, EqIsSameVersion
<1> QED
  BY <1>1, InvariantHolds, PTL

(* An operator and its opposite answer oppositely about two versions, an     *)
(* operator and its mirrored one alike about them exchanged; an error of    *)
(* one is an error of the others.                                          *)
THEOREM OperatorsAgree == Spec => []AnswersAgree
<1>1. ASSUME IInv, Answered
      PROVE  AnswersAgree
  <2>1. /\ left \in Version /\ right \in Version /\ op \in Operators
        /\ answer = simple_compare(left, op, right)
    BY <1>1 DEF IInv, TypeOK, ReturnsSimpleCompare
  <2>2. /\ simple_compare(right, Mirrored(op), left) = answer
        /\ simple_compare(left, Opposite(op), right) = Negation(answer)
        /\ answer \in Answers
    BY <2>1, ComparePairs
  <2> QED
    BY <2>2 DEF AnswersAgree, Negation, Answers
<1>2. IInv => AnswersAgree
  BY <1>1 DEF AnswersAgree
<1> QED
  BY <1>2, InvariantHolds, PTL
=============================================================================
