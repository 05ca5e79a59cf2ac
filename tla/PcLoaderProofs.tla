--------------------------- MODULE PcLoaderProofs ---------------------------
(***************************************************************************)
(* Loading a .pc file, for any file: the values its statements leave are    *)
(* those it means when it is read as a whole, a line outside the grammar    *)
(* decides how loading ends, and the flags are all that Libs says.          *)
(***************************************************************************)
EXTENDS PcLoader, WellFoundedInduction, TLAPS

Token == Vars \cup Texts \cup {Blank, Colon, Other}

(* The value of a variable, by the line that first mentions it.             *)
Assigned(lines, v) ==
  IF Defines(lines[FirstMention(lines, v)], v) THEN Meaning(lines)[FirstMention(lines, v)]
  ELSE <<>>

(* The variables and the properties of the first lines.                     *)
Mentioned(lines, last) == {v \in Vars : \E j \in 1..last : Mentions(lines[j], v)}
Given(lines, last) == {n \in Named \cup Keywords : \E j \in 1..last : Sets(lines[j], n)}

Sound(lines, map) ==
  \A v \in DOMAIN map : map[v] \in Literals /\ map[v] = Assigned(lines, v)

HoldsVariables(lines, map, last) ==
  DOMAIN map = Mentioned(lines, last) /\ Sound(lines, map)

HoldsProperties(lines, map, last) ==
  /\ DOMAIN map = Given(lines, last)
  /\ \A n \in DOMAIN map \cap Named :
       map[n] \in Literals /\ map[n] = Meaning(lines)[FirstOf(lines, n)]

(* The variables a line leaves, before it assigns one.                      *)
LookedUp(lines, j, map) == Keeping(map, [v \in Used(lines[j].body) |-> <<>>])

(* The lines before the current one can be read.                           *)
LinesOK ==
  /\ file \in Files /\ at \in 1..(Len(file) + 1)
  /\ \A j \in 1..(at - 1) : ~Malformed(file[j])

EndOK ==
  /\ outcome \in {"parsing", "loaded", "error", "terminated"}
  /\ outcome = "terminated" => at <= Len(file) /\ Malformed(file[at])
  /\ outcome \in {"loaded", "error"} =>
       /\ at = Len(file) + 1
       /\ outcome = "loaded" <=> Has("Name") /\ Has("Version")
  /\ outcome = "loaded" => package.link_flags = Flags("Libs")

(* The inductive invariant.                                                *)
IInv ==
  /\ LinesOK /\ EndOK
  /\ HoldsVariables(file, variables, at - 1)
  /\ HoldsProperties(file, properties, at - 1)

-----------------------------------------------------------------------------
(* Induction, from the well-foundedness of < on the natural numbers.        *)
LEMMA LeastNumber ==
  ASSUME NEW T, T \subseteq Nat, T # {}
  PROVE  \E m \in T : \A n \in T : m <= n
<1> DEFINE R == OpToRel(<, Nat)
<1>1. IsWellFoundedOn(R, Nat)
  BY NatLessThanWellFounded
<1>2. \A a, b \in Nat : a < b => <<a, b>> \in R
  BY DEF OpToRel
<1> HIDE DEF R
<1>3. PICK m \in T : \A n \in T : ~(<<n, m>> \in R)
  BY <1>1, WFMin
<1>4. ASSUME NEW n \in T
      PROVE  m <= n
  <2>1. n \in Nat /\ m \in Nat /\ ~(n < m)
    BY <1>2, <1>3
  <2> QED
    BY <2>1
<1> QED
  BY <1>4

LEMMA SetInduction ==
  ASSUME NEW S, 0 \in S, \A n \in Nat : n \in S => n + 1 \in S
  PROVE  Nat \subseteq S
<1> DEFINE T == Nat \ S
<1>1. T \subseteq Nat
  OBVIOUS
<1>2. ASSUME T # {}
      PROVE  FALSE
  <2>1. PICK m \in T : \A n \in T : m <= n
    <3> HIDE DEF T
    <3> QED
      BY <1>1, <1>2, LeastNumber
  <2>2. m # 0 /\ m - 1 \in Nat /\ m - 1 \in S
    BY <2>1
  <2>3. (m - 1) + 1 \in S
    BY <2>2
  <2> QED
    BY <2>1, <2>3
<1> QED
  BY <1>2

-----------------------------------------------------------------------------
(* FlattenSeq is a recursive function of the sequences it flattens.         *)
FlattenBody(seqs, w) ==
  [i \in 1..Len(seqs) |-> IF i = 1 THEN seqs[i] ELSE w[i - 1] \o seqs[i]]

LEMMA FlattenExists ==
  ASSUME NEW seqs, Len(seqs) \in Nat
  PROVE  \E w : w = FlattenBody(seqs, w)
<1> DEFINE Step(w, i) == IF i = 1 THEN seqs[i] ELSE w[i - 1] \o seqs[i]
           S == {m \in Nat : \E w : w = [i \in 1..m |-> Step(w, i)]}
<1>1. 0 \in S
  <2> DEFINE w == [i \in 1..0 |-> {}]
  <2>1. w = [i \in 1..0 |-> Step(w, i)]
    OBVIOUS
  <2> QED
    BY <2>1
<1>2. ASSUME NEW m \in Nat, m \in S
      PROVE  m + 1 \in S
  <2>1. PICK w : w = [i \in 1..m |-> Step(w, i)]
    BY <1>2
  <2> DEFINE v == [i \in 1..(m + 1) |-> IF i = m + 1 THEN Step(w, i) ELSE w[i]]
  <2>2. ASSUME NEW i \in 1..(m + 1)
        PROVE  v[i] = Step(v, i)
    <3>1. i # 1 => v[i - 1] = w[i - 1]
      <4> HIDE DEF Step
      <4> QED
        OBVIOUS
    <3>2. Step(v, i) = Step(w, i)
      <4> HIDE DEF v
      <4> QED
        BY <3>1
    <3> HIDE DEF Step
    <3>3. CASE i = m + 1
      BY <3>2, <3>3
    <3>4. CASE i # m + 1
      <4>1. i \in 1..m /\ v[i] = w[i]
        BY <3>4
      <4>2. w[i] = Step(w, i)
        BY <2>1, <4>1
      <4> QED
        BY <3>2, <4>1, <4>2
    <3> QED
      BY <3>3, <3>4
  <2> HIDE DEF Step
  <2>3. v = [i \in 1..(m + 1) |-> v[i]]
    OBVIOUS
  <2> HIDE DEF v
  <2>4. v = [i \in 1..(m + 1) |-> Step(v, i)]
    BY <2>2, <2>3
  <2> QED
    BY <2>4
<1>3. Len(seqs) \in S
  <2> HIDE DEF S
  <2> QED
    BY <1>1, <1>2, SetInduction
<1> QED
  BY <1>3 DEF FlattenBody

(* Two sequences put together have the elements of both.                    *)
-----------------------------------------------------------------------------
(* The meaning of a file is a recursive function of its lines, too.         *)
ValueOf(lines, j, meaning) ==
  Replaced(lines[j].body,
    [v \in Used(lines[j].body) |->
       IF FirstMention(lines, v) \in 1..(j - 1) /\ Defines(lines[FirstMention(lines, v)], v)
       THEN meaning[FirstMention(lines, v)] ELSE <<>>])

MeaningBody(lines, meaning) == [j \in DOMAIN lines |-> ValueOf(lines, j, meaning)]

(* The meaning of a line depends on that of earlier lines only.             *)
LEMMA EarlierOnly ==
  ASSUME NEW lines, NEW j, NEW f, NEW g, \A i \in 1..(j - 1) : f[i] = g[i]
  PROVE  ValueOf(lines, j, f) = ValueOf(lines, j, g)
<1> DEFINE Of(h) == [v \in Used(lines[j].body) |->
              IF /\ FirstMention(lines, v) \in 1..(j - 1)
                 /\ Defines(lines[FirstMention(lines, v)], v)
              THEN h[FirstMention(lines, v)] ELSE <<>>]
<1>1. Of(f) = Of(g)
  OBVIOUS
<1>2. ValueOf(lines, j, f) = Replaced(lines[j].body, Of(f))
  BY DEF ValueOf
<1>3. ValueOf(lines, j, g) = Replaced(lines[j].body, Of(g))
  BY DEF ValueOf
<1> HIDE DEF Of
<1> QED
  BY <1>1, <1>2, <1>3

LEMMA MeaningExists ==
  ASSUME NEW lines, Len(lines) \in Nat, DOMAIN lines = 1..Len(lines)
  PROVE  \E f : f = MeaningBody(lines, f)
<1> DEFINE S == {m \in Nat : \E f : f = [j \in 1..m |-> ValueOf(lines, j, f)]}
<1>1. 0 \in S
  <2> DEFINE f == [j \in 1..0 |-> {}]
  <2>1. f = [j \in 1..0 |-> ValueOf(lines, j, f)]
    OBVIOUS
  <2> QED
    BY <2>1
<1>2. ASSUME NEW m \in Nat, m \in S
      PROVE  m + 1 \in S
  <2>1. PICK f : f = [j \in 1..m |-> ValueOf(lines, j, f)]
    BY <1>2
  <2> DEFINE g == [j \in 1..(m + 1) |-> IF j = m + 1 THEN ValueOf(lines, j, f) ELSE f[j]]
  <2>2. ASSUME NEW j \in 1..(m + 1)
        PROVE  g[j] = ValueOf(lines, j, g)
    <3>1. \A i \in 1..(j - 1) : g[i] = f[i]
      OBVIOUS
    <3>2. ValueOf(lines, j, g) = ValueOf(lines, j, f)
      <4> HIDE DEF g
      <4> QED
        BY <3>1, EarlierOnly
    <3>3. CASE j = m + 1
      BY <3>2, <3>3
    <3>4. CASE j # m + 1
      <4>1. j \in 1..m /\ g[j] = f[j]
        BY <3>4
      <4>2. f[j] = ValueOf(lines, j, f)
        BY <2>1, <4>1
      <4> QED
        BY <3>2, <4>1, <4>2
    <3> QED
      BY <3>3, <3>4
  <2>3. g = [j \in 1..(m + 1) |-> g[j]]
    OBVIOUS
  <2> HIDE DEF g
  <2>4. g = [j \in 1..(m + 1) |-> ValueOf(lines, j, g)]
    BY <2>2, <2>3
  <2> QED
    BY <2>4
<1>3. Len(lines) \in S
  <2> HIDE DEF S
  <2> QED
    BY <1>1, <1>2, SetInduction
<1> QED
  BY <1>3 DEF MeaningBody

LEMMA MeaningIs ==
  ASSUME NEW lines \in Seq(Line), NEW j \in DOMAIN lines
  PROVE  Meaning(lines)[j] = ValueOf(lines, j, Meaning(lines))
<1>1. Len(lines) \in Nat /\ DOMAIN lines = 1..Len(lines)
  OBVIOUS
<1> DEFINE f == CHOOSE g : g = MeaningBody(lines, g)
<1>2. f = MeaningBody(lines, f)
  BY <1>1, MeaningExists
<1>3. Meaning(lines) = f
  BY Zenon DEF Meaning, MeaningBody, ValueOf
<1> HIDE DEF f
<1> QED
  BY <1>2, <1>3 DEF MeaningBody

-----------------------------------------------------------------------------
(* The first line that mentions a variable, and the first that sets a       *)
(* property.                                                               *)
LEMMA FirstMentionIs ==
  ASSUME NEW lines \in Seq(Line), NEW v, NEW j \in DOMAIN lines,
         Mentions(lines[j], v), \A i \in 1..(j - 1) : ~Mentions(lines[i], v)
  PROVE  FirstMention(lines, v) = j
<1> DEFINE First(i) == Mentions(lines[i], v) /\ \A k \in 1..(i - 1) : ~Mentions(lines[k], v)
<1>1. First(j)
  OBVIOUS
<1>2. ASSUME NEW i \in DOMAIN lines, First(i)
      PROVE  i = j
  <2>1. i \in Nat \ {0} /\ j \in Nat \ {0}
    OBVIOUS
  <2>2. i \notin 1..(j - 1) /\ j \notin 1..(i - 1)
    BY <1>1, <1>2
  <2> QED
    BY <2>1, <2>2
<1>3. FirstMention(lines, v) = CHOOSE i \in DOMAIN lines : First(i)
  BY Zenon DEF FirstMention
<1> HIDE DEF First
<1> QED
  BY <1>1, <1>2, <1>3

LEMMA FirstMentionExists ==
  ASSUME NEW lines \in Seq(Line), NEW v, NEW j \in DOMAIN lines, Mentions(lines[j], v)
  PROVE  FirstMention(lines, v) \in 1..j /\ FirstMention(lines, v) \in DOMAIN lines
<1> DEFINE T == {i \in DOMAIN lines : Mentions(lines[i], v)}
<1>1. T \subseteq Nat /\ j \in T
  OBVIOUS
<1>2. PICK m \in T : \A i \in T : m <= i
  <2> HIDE DEF T
  <2> QED
    BY <1>1, LeastNumber
<1>3. m \in 1..Len(lines) /\ DOMAIN lines = 1..Len(lines) /\ Len(lines) \in Nat
  OBVIOUS
<1>4. \A i \in 1..(m - 1) : ~Mentions(lines[i], v)
  <2> SUFFICES ASSUME NEW i \in 1..(m - 1), Mentions(lines[i], v)
               PROVE  FALSE
    OBVIOUS
  <2>1. i \in T
    BY <1>3
  <2> QED
    BY <1>2, <1>3, <2>1
<1>5. FirstMention(lines, v) = m
  BY <1>4, FirstMentionIs
<1> QED
  BY <1>2, <1>3, <1>5

LEMMA FirstOfIs ==
  ASSUME NEW lines \in Seq(Line), NEW n, NEW j \in DOMAIN lines,
         Sets(lines[j], n), \A i \in 1..(j - 1) : ~Sets(lines[i], n)
  PROVE  FirstOf(lines, n) = j
<1> DEFINE First(i) == Sets(lines[i], n) /\ \A k \in 1..(i - 1) : ~Sets(lines[k], n)
<1>1. First(j)
  OBVIOUS
<1>2. ASSUME NEW i \in DOMAIN lines, First(i)
      PROVE  i = j
  <2>1. i \in Nat \ {0} /\ j \in Nat \ {0}
    OBVIOUS
  <2>2. i \notin 1..(j - 1) /\ j \notin 1..(i - 1)
    BY <1>1, <1>2
  <2> QED
    BY <2>1, <2>2
<1>3. FirstOf(lines, n) = CHOOSE i \in DOMAIN lines : First(i)
  BY Zenon DEF FirstOf
<1> HIDE DEF First
<1> QED
  BY <1>1, <1>2, <1>3

(* The body of a property or an assignment is a literal, what it uses are   *)
(* variables it mentions.                                                  *)
LEMMA LineFacts ==
  ASSUME NEW l \in Line
  PROVE  /\ l.kind \in {"property", "assignment"} =>
              l.body \in Literals /\ \A v \in Used(l.body) : v \in Vars /\ Mentions(l, v)
         /\ l.kind = "assignment" => l.name \in Vars /\ Mentions(l, l.name)
         /\ l.kind = "property" => l.name \in Named
         /\ l.kind = "requirements" => l.name \in Keywords
<1>1. /\ l.kind \in {"property", "assignment"} => l.body \in Literals
      /\ l.kind = "assignment" => l.name \in Vars
      /\ l.kind = "property" => l.name \in Named
      /\ l.kind = "requirements" => l.name \in Keywords
  BY DEF Line
<1> QED
  BY <1>1 DEF Used, Mentions

(* Two readings of a literal that agree on the variables in it.             *)
LEMMA SameReplaced ==
  ASSUME NEW body, NEW f, NEW g, \A v \in Used(body) : f[v] = g[v]
  PROVE  Replaced(body, f) = Replaced(body, g)
<1> DEFINE Put(h) == [k \in DOMAIN body |-> IF body[k] \in Vars THEN h[body[k]] ELSE <<body[k]>>]
<1>1. ASSUME NEW k \in DOMAIN body, body[k] \in Vars
      PROVE  f[body[k]] = g[body[k]]
  BY <1>1 DEF Used, Range
<1>2. Put(f) = Put(g)
  BY <1>1
<1>3. Replaced(body, f) = trim(FlattenSeq(Put(f))) /\ Replaced(body, g) = trim(FlattenSeq(Put(g)))
  BY Zenon DEF Replaced
<1> HIDE DEF Put
<1> QED
  BY <1>2, <1>3

(* What the grammar's action makes of a body, with the variables of the     *)
(* lines before, is what the line means.                                   *)
LEMMA TextMeaning ==
  ASSUME NEW lines \in Seq(Line), NEW j \in DOMAIN lines,
         lines[j].kind \in {"property", "assignment"},
         NEW map, HoldsVariables(lines, map, j - 1)
  PROVE  Replaced(lines[j].body, Keeping(LookedUp(lines, j, map), [v \in Vars |-> <<>>])) = Meaning(lines)[j]
<1> DEFINE body == lines[j].body
           read == [v \in Used(body) |->
                      IF /\ FirstMention(lines, v) \in 1..(j - 1)
                         /\ Defines(lines[FirstMention(lines, v)], v)
                      THEN Meaning(lines)[FirstMention(lines, v)] ELSE <<>>]
           found == Keeping(LookedUp(lines, j, map), [v \in Vars |-> <<>>])
<1>1. Meaning(lines)[j] = Replaced(body, read)
  BY MeaningIs DEF ValueOf
<1>2. lines[j] \in Line /\ j \in Nat \ {0} /\ DOMAIN lines = 1..Len(lines) /\ Len(lines) \in Nat
  OBVIOUS
<1>3. ASSUME NEW v \in Used(body)
      PROVE  found[v] = read[v]
  <2>1. v \in Vars /\ Mentions(lines[j], v)
    BY <1>2, LineFacts
  <2>2. found[v] = IF v \in DOMAIN map THEN map[v] ELSE <<>>
    BY <2>1 DEF LookedUp, Keeping
  <2>3. CASE v \in DOMAIN map
    <3>1. PICK i \in 1..(j - 1) : Mentions(lines[i], v)
      BY <2>3 DEF HoldsVariables, Mentioned
    <3>2. i \in DOMAIN lines
      BY <1>2
    <3>3. FirstMention(lines, v) \in 1..i
      BY <3>1, <3>2, FirstMentionExists
    <3>4. FirstMention(lines, v) \in 1..(j - 1)
      BY <1>2, <3>3
    <3>5. map[v] = Assigned(lines, v)
      BY <2>3 DEF HoldsVariables, Sound
    <3> QED
      BY <2>2, <2>3, <3>4, <3>5 DEF Assigned
  <2>4. CASE v \notin DOMAIN map
    <3>1. \A i \in 1..(j - 1) : ~Mentions(lines[i], v)
      BY <2>1, <2>4 DEF HoldsVariables, Mentioned
    <3>2. FirstMention(lines, v) = j
      BY <2>1, <3>1, FirstMentionIs
    <3>3. FirstMention(lines, v) \notin 1..(j - 1)
      BY <1>2, <3>2
    <3> QED
      BY <2>2, <2>4, <3>3
  <2> QED
    BY <2>3, <2>4
<1> HIDE DEF read, found
<1>4. Replaced(body, found) = Replaced(body, read)
  BY <1>3, SameReplaced
<1> QED
  BY <1>1, <1>4 DEF found

-----------------------------------------------------------------------------
(* FlattenSeq is the last value of its recursive function.                  *)
LEMMA FlattenIs ==
  ASSUME NEW S, NEW seqs \in Seq(Seq(S))
  PROVE  \E w : /\ w = FlattenBody(seqs, w)
                /\ Len(seqs) = 0 => FlattenSeq(seqs) = <<>>
                /\ Len(seqs) # 0 => FlattenSeq(seqs) = w[Len(seqs)]
<1> DEFINE w == CHOOSE v : v = FlattenBody(seqs, v)
           Q == Seq(S)
<1>1. Len(seqs) \in Nat
  OBVIOUS
<1>2. w = FlattenBody(seqs, w)
  BY <1>1, FlattenExists
<1>3. ASSUME Len(seqs) = 0
      PROVE  FlattenSeq(seqs) = <<>>
  <2>1. FlattenSeq(seqs) = seqs
    BY <1>3, Zenon DEF FlattenSeq
  <2>2. seqs = <<>>
    <3>1. seqs \in Seq(Q)
      OBVIOUS
    <3> HIDE DEF Q
    <3> QED
      BY <3>1, <1>3
  <2> QED
    BY <2>1, <2>2, Zenon
<1>4. Len(seqs) # 0 => FlattenSeq(seqs) = w[Len(seqs)]
  BY Zenon DEF FlattenSeq, FlattenBody
<1> HIDE DEF w
<1> QED
  BY <1>2, <1>3, <1>4

(* What is flattened is a sequence of the same elements.                    *)
LEMMA FlattenType ==
  ASSUME NEW S, NEW seqs \in Seq(Seq(S))
  PROVE  FlattenSeq(seqs) \in Seq(S)
<1> DEFINE Q == Seq(S)
<1>1. PICK w : /\ w = FlattenBody(seqs, w)
               /\ Len(seqs) = 0 => FlattenSeq(seqs) = <<>>
               /\ Len(seqs) # 0 => FlattenSeq(seqs) = w[Len(seqs)]
  BY FlattenIs
<1> PICK l \in Nat : l = Len(seqs)
  OBVIOUS
<1>2. seqs \in Seq(Q) /\ \A s, t \in Q : s \o t \in Q
  OBVIOUS
<1>3. <<>> \in Q
  OBVIOUS
<1> HIDE DEF Q
<1> DEFINE T == {m \in Nat : m + 1 <= l => w[m + 1] \in Q}
<1>4. 0 \in T
  BY <1>1, <1>2 DEF FlattenBody
<1>5. ASSUME NEW m \in Nat, m \in T
      PROVE  m + 1 \in T
  <2> SUFFICES ASSUME m + 2 <= l
               PROVE  w[m + 2] \in Q
    OBVIOUS
  <2>1. PICK i \in Nat : i = m + 2
    OBVIOUS
  <2>2. i \in 1..l /\ i # 1 /\ i - 1 = m + 1
    BY <2>1
  <2>3. w[i] = w[i - 1] \o seqs[i]
    BY <1>1, <2>2 DEF FlattenBody
  <2>4. w[m + 1] \in Q
    BY <1>5
  <2>5. w[i - 1] \in Q /\ seqs[i] \in Q
    BY <1>2, <2>2, <2>4
  <2>6. w[i] \in Q
    BY <1>2, <2>3, <2>5
  <2> QED
    BY <2>1, <2>6
<1>6. Nat \subseteq T
  <2> HIDE DEF T
  <2> QED
    BY <1>4, <1>5, SetInduction
<1>7. CASE l = 0
  BY <1>1, <1>3, <1>7 DEF Q
<1>8. CASE l # 0
  <2>1. l - 1 \in T /\ (l - 1) + 1 = l
    BY <1>6, <1>8
  <2> QED
    BY <1>1, <1>8, <2>1 DEF Q
<1> QED
  BY <1>7, <1>8

(* It does not matter which two of three are put together first.            *)
LEMMA ConcatAssociative ==
  ASSUME NEW S, NEW x \in Seq(S), NEW y \in Seq(S), NEW z \in Seq(S)
  PROVE  (x \o y) \o z = x \o (y \o z)
<1>1. PICK a, b, c : a = Len(x) /\ b = Len(y) /\ c = Len(z)
  OBVIOUS
<1>2. a \in Nat /\ b \in Nat /\ c \in Nat
  BY <1>1
<1>3. /\ Len(x \o y) = a + b /\ Len(y \o z) = b + c
      /\ x \o y \in Seq(S) /\ y \o z \in Seq(S)
  BY <1>1
<1>4. /\ Len((x \o y) \o z) = (a + b) + c /\ Len(x \o (y \o z)) = a + (b + c)
      /\ (x \o y) \o z \in Seq(S) /\ x \o (y \o z) \in Seq(S)
  BY <1>1, <1>3
<1>5. ASSUME NEW i \in 1..(a + b + c)
      PROVE  ((x \o y) \o z)[i] = (x \o (y \o z))[i]
  <2>1. CASE i <= a
    <3>1. ((x \o y) \o z)[i] = (x \o y)[i] /\ (x \o y)[i] = x[i]
      BY <1>1, <1>2, <1>3, <2>1
    <3> QED
      BY <1>1, <1>2, <1>3, <2>1, <3>1
  <2>2. CASE i > a /\ i <= a + b
    <3>1. ((x \o y) \o z)[i] = (x \o y)[i] /\ (x \o y)[i] = y[i - a]
      BY <1>1, <1>2, <1>3, <2>2
    <3>2. (x \o (y \o z))[i] = (y \o z)[i - a] /\ (y \o z)[i - a] = y[i - a]
      BY <1>1, <1>2, <1>3, <2>2
    <3> QED
      BY <3>1, <3>2
  <2>3. CASE i > a + b
    <3>1. ((x \o y) \o z)[i] = z[i - (a + b)]
      BY <1>1, <1>2, <1>3, <2>3
    <3>2. (x \o (y \o z))[i] = (y \o z)[i - a] /\ (y \o z)[i - a] = z[(i - a) - b]
      BY <1>1, <1>2, <1>3, <2>3
    <3>3. i - (a + b) = (i - a) - b
      BY <1>2
    <3> QED
      BY <3>1, <3>2, <3>3
  <2> QED
    BY <1>2, <2>1, <2>2, <2>3
<1> QED
  BY <1>2, <1>4, <1>5

AnyGrouping(x, y, z) == (x \o y) \o z = x \o (y \o z)

LEMMA Grouping ==
  ASSUME NEW S, NEW x \in Seq(S), NEW y \in Seq(S), NEW z \in Seq(S)
  PROVE  AnyGrouping(x, y, z)
BY ConcatAssociative DEF AnyGrouping

(* To flatten from the front.                                              *)
LEMMA FlattenFirst ==
  ASSUME NEW S, NEW x \in Seq(S), NEW seqs \in Seq(Seq(S))
  PROVE  FlattenSeq(<<x>> \o seqs) = x \o FlattenSeq(seqs)
<1> DEFINE Q == Seq(S)
           more == <<x>> \o seqs
<1> PICK l \in Nat : l = Len(seqs)
  OBVIOUS
<1>1. /\ more \in Seq(Q) /\ Len(more) = l + 1 /\ more[1] = x
      /\ \A i \in 1..l : more[i + 1] = seqs[i] /\ seqs[i] \in Q
  <2>1. x \in Q /\ seqs \in Seq(Q)
    OBVIOUS
  <2> HIDE DEF Q
  <2> QED
    BY <2>1
<1>2. PICK w : /\ w = FlattenBody(seqs, w)
               /\ Len(seqs) = 0 => FlattenSeq(seqs) = <<>>
               /\ Len(seqs) # 0 => FlattenSeq(seqs) = w[Len(seqs)]
  BY FlattenIs
<1>3. PICK u : /\ u = FlattenBody(more, u)
               /\ Len(more) # 0 => FlattenSeq(more) = u[Len(more)]
  <2> HIDE DEF more
  <2> QED
    BY <1>1, FlattenIs DEF Q
<1>4. FlattenSeq(more) = u[l + 1] /\ u[1] = x
  <2> HIDE DEF more, Q
  <2>1. Len(more) = l + 1 /\ l + 1 # 0 /\ 1 \in 1..(l + 1)
    BY <1>1
  <2>2. u[1] = more[1]
    BY <1>3, <2>1 DEF FlattenBody
  <2> QED
    BY <1>1, <1>3, <2>1, <2>2
<1>5. x \o <<>> = x /\ \A y, z \in Q : (x \o y) \o z = x \o (y \o z) /\ y \o z \in Q
  <2>1. x \o <<>> = x
    OBVIOUS
  <2>2. \A y, z \in Q : y \o z \in Q
    OBVIOUS
  <2>3. ASSUME NEW y \in Q, NEW z \in Q
        PROVE  (x \o y) \o z = x \o (y \o z)
    <3>1. AnyGrouping(x, y, z)
      BY Grouping DEF Q
    <3> QED
      BY <3>1, Zenon DEF AnyGrouping
  <2> QED
    BY <2>1, <2>2, <2>3
<1>6. ASSUME NEW i \in 1..l
      PROVE  /\ w[i] = IF i = 1 THEN seqs[i] ELSE w[i - 1] \o seqs[i]
             /\ u[i + 1] = u[i] \o seqs[i]
  <2>1. w[i] = IF i = 1 THEN seqs[i] ELSE w[i - 1] \o seqs[i]
    BY <1>2 DEF FlattenBody
  <2>2. i + 1 \in 1..Len(more) /\ i + 1 # 1 /\ (i + 1) - 1 = i /\ more[i + 1] = seqs[i]
    BY <1>1
  <2>3. u[i + 1] = u[(i + 1) - 1] \o more[i + 1]
    <3> HIDE DEF more
    <3> QED
      BY <1>3, <2>2 DEF FlattenBody
  <2> QED
    BY <2>1, <2>2, <2>3
<1> HIDE DEF Q, more
<1> DEFINE T == {m \in Nat : m + 1 <= l => w[m + 1] \in Q /\ u[m + 2] = x \o w[m + 1]}
<1>7. 0 \in T
  <2> SUFFICES ASSUME 1 <= l
               PROVE  w[1] \in Q /\ u[2] = x \o w[1]
    OBVIOUS
  <2>1. 1 \in 1..l
    OBVIOUS
  <2>2. w[1] = seqs[1] /\ u[1 + 1] = u[1] \o seqs[1]
    BY <1>6, <2>1
  <2> QED
    BY <1>1, <1>4, <2>1, <2>2
<1>8. ASSUME NEW m \in Nat, m \in T
      PROVE  m + 1 \in T
  <2> SUFFICES ASSUME (m + 1) + 1 <= l
               PROVE  w[(m + 1) + 1] \in Q /\ u[(m + 1) + 2] = x \o w[(m + 1) + 1]
    OBVIOUS
  <2>1. PICK i \in Nat : i = m + 2
    OBVIOUS
  <2>2. i \in 1..l /\ i # 1 /\ i - 1 = m + 1 /\ (m + 1) + 2 = i + 1 /\ (m + 1) + 1 = i
    BY <2>1
  <2>3. w[i] = w[i - 1] \o seqs[i] /\ u[i + 1] = u[i] \o seqs[i] /\ seqs[i] \in Q
    BY <1>1, <1>6, <2>2
  <2>4. w[i - 1] \in Q /\ u[i] = x \o w[i - 1]
    <3>1. w[m + 1] \in Q /\ u[m + 2] = x \o w[m + 1]
      BY <1>8, <2>1, <2>2
    <3> QED
      BY <2>1, <2>2, <3>1
  <2>5. w[i] \in Q /\ u[i + 1] = x \o w[i]
    BY <1>5, <2>3, <2>4
  <2> QED
    BY <2>2, <2>5
<1>9. Nat \subseteq T
  <2> HIDE DEF T
  <2> QED
    BY <1>7, <1>8, SetInduction
<1>10. CASE l = 0
  <2>1. FlattenSeq(seqs) = <<>> /\ FlattenSeq(more) = x
    BY <1>2, <1>4, <1>10
  <2> QED
    BY <1>5, <2>1 DEF more
<1>11. CASE l # 0
  <2>1. PICK m \in Nat : m = l - 1 /\ m + 1 = l /\ m + 2 = l + 1
    <3>1. l - 1 \in Nat /\ (l - 1) + 1 = l /\ (l - 1) + 2 = l + 1
      BY <1>11
    <3> QED
      BY <3>1, Zenon
  <2>2. m \in T
    BY <1>9, <2>1
  <2>3. u[l + 1] = x \o w[l]
    BY <2>1, <2>2
  <2> QED
    BY <1>2, <1>4, <1>11, <2>3 DEF more
<1> QED
  BY <1>10, <1>11

-----------------------------------------------------------------------------
(* Trimmed text, and a literal with its variables replaced, are literals.   *)
LEMMA GreatestNumber ==
  ASSUME NEW n \in Nat, NEW T, T \subseteq 1..n, T # {}
  PROVE  \E m \in T : \A i \in T : m >= i
<1> DEFINE R == {n - i : i \in T}
<1>1. R \subseteq Nat /\ R # {}
  <2>1. \A i \in T : n - i \in Nat
    OBVIOUS
  <2>2. R \subseteq Nat
    BY <2>1, Zenon
  <2>3. R # {}
    BY Zenon
  <2> QED
    BY <2>2, <2>3
<1>2. PICK r \in R : \A s \in R : r <= s
  <2> HIDE DEF R
  <2> QED
    BY <1>1, LeastNumber
<1>3. PICK m \in T : r = n - m
  BY <1>2
<1>4. ASSUME NEW i \in T
      PROVE  m >= i
  <2>1. r <= n - i
    BY <1>2
  <2>2. i \in 1..n /\ m \in 1..n
    OBVIOUS
  <2> QED
    BY <1>3, <2>1, <2>2
<1> QED
  BY <1>4

LEMMA TrimType ==
  ASSUME NEW S, NEW text \in Seq(S)
  PROVE  trim(text) \in Seq(S)
<1> DEFINE inked == {i \in DOMAIN text : text[i] # Blank}
           first == CHOOSE i \in inked : \A j \in inked : i <= j
           last  == CHOOSE i \in inked : \A j \in inked : i >= j
<1>1. trim(text) = IF inked = {} THEN <<>> ELSE SubSeq(text, first, last)
  BY Zenon DEF trim
<1>2. inked \subseteq 1..Len(text) /\ inked \subseteq Nat /\ Len(text) \in Nat
  OBVIOUS
<1>3. ASSUME inked # {}
      PROVE  first \in 1..Len(text) /\ last \in 1..Len(text)
  <2> HIDE DEF inked
  <2>1. \E i \in inked : \A j \in inked : i <= j
    BY <1>2, <1>3, LeastNumber
  <2>2. \E i \in inked : \A j \in inked : i >= j
    BY <1>2, <1>3, GreatestNumber
  <2>3. first \in inked /\ last \in inked
    BY <2>1, <2>2
  <2> QED
    BY <1>2, <2>3
<1> HIDE DEF inked, first, last
<1>4. CASE inked = {}
  BY <1>1, <1>4
<1>5. CASE inked # {}
  <2>1. trim(text) = SubSeq(text, first, last)
    BY <1>1, <1>5
  <2>2. SubSeq(text, first, last) \in Seq(S)
    BY <1>3, <1>5
  <2> QED
    BY <2>1, <2>2
<1> QED
  BY <1>4, <1>5

LEMMA ReplacedType ==
  ASSUME NEW body \in Literals, NEW f, \A v \in Used(body) : f[v] \in Literals
  PROVE  Replaced(body, f) \in Literals
<1> DEFINE L == Literals
           put == [k \in DOMAIN body |-> IF body[k] \in Vars THEN f[body[k]] ELSE <<body[k]>>]
<1>1. body \in Seq(Token) /\ L = Seq(Token)
  BY DEF Literals, Token
<1>2. ASSUME NEW k \in DOMAIN body
      PROVE  put[k] \in L
  <2>1. body[k] \in Token
    BY <1>1
  <2>2. CASE body[k] \in Vars
    BY <2>2 DEF Used, Range
  <2>3. CASE body[k] \notin Vars
    <3>1. <<body[k]>> \in Seq(Token)
      BY <2>1
    <3> QED
      BY <1>1, <2>3, <3>1
  <2> QED
    BY <2>2, <2>3
<1>3. DOMAIN put = 1..Len(body) /\ Len(body) \in Nat
  BY <1>1
<1>4. Replaced(body, f) = trim(FlattenSeq(put))
  BY Zenon DEF Replaced
<1>5. put \in Seq(L)
  <2>1. put = [k \in 1..Len(body) |-> put[k]]
    BY <1>3
  <2>2. \A k \in 1..Len(body) : put[k] \in L
    BY <1>2, <1>3, Zenon
  <2> PICK n \in Nat : n = Len(body)
    BY <1>3
  <2> HIDE DEF put, L
  <2>3. put = [k \in 1..n |-> put[k]] /\ \A k \in 1..n : put[k] \in L
    BY <2>1, <2>2
  <2> QED
    BY <2>3
<1> HIDE DEF put, L
<1>6. trim(FlattenSeq(put)) \in L
  BY <1>1, <1>5, FlattenType, TrimType
<1> QED
  BY <1>4, <1>6 DEF L

-----------------------------------------------------------------------------
(* One line more.                                                          *)
LEMMA OneMore ==
  ASSUME NEW lines \in Seq(Line), NEW j \in DOMAIN lines
  PROVE  /\ lines[j] \in Line /\ j - 1 \in Nat /\ j \in Nat
         /\ Mentioned(lines, j)
              = Mentioned(lines, j - 1) \cup {v \in Vars : Mentions(lines[j], v)}
         /\ Given(lines, j)
              = Given(lines, j - 1) \cup {n \in Named \cup Keywords : Sets(lines[j], n)}
<1>1. j \in 1..Len(lines) /\ lines[j] \in Line
  OBVIOUS
<1>2. \A i : i \in 1..j <=> i \in 1..(j - 1) \/ i = j
  BY <1>1
<1> QED
  BY <1>1, <1>2 DEF Mentioned, Given

(* A variable mentioned for the first time.                                *)
LEMMA NewVariable ==
  ASSUME NEW lines \in Seq(Line), NEW j \in DOMAIN lines,
         NEW v \in Vars, Mentions(lines[j], v), v \notin Mentioned(lines, j - 1)
  PROVE  Assigned(lines, v) = IF Defines(lines[j], v) THEN Meaning(lines)[j] ELSE <<>>
<1>1. \A i \in 1..(j - 1) : ~Mentions(lines[i], v)
  BY DEF Mentioned
<1>2. FirstMention(lines, v) = j
  BY <1>1, FirstMentionIs
<1> QED
  BY <1>2 DEF Assigned

(* What the actions make of the text of a line is a literal.                *)
LEMMA TextType ==
  ASSUME NEW lines \in Seq(Line), NEW j \in DOMAIN lines,
         lines[j].kind \in {"property", "assignment"},
         NEW map, HoldsVariables(lines, map, j - 1)
  PROVE  Meaning(lines)[j] \in Literals /\ <<>> \in Literals
<1> DEFINE found == Keeping(LookedUp(lines, j, map), [v \in Vars |-> <<>>])
<1>1. lines[j].body \in Literals /\ \A v \in Used(lines[j].body) : v \in Vars
  <2>1. lines[j] \in Line
    OBVIOUS
  <2> QED
    BY <2>1, LineFacts
<1>2. <<>> \in Literals
  BY DEF Literals
<1>3. ASSUME NEW v \in Used(lines[j].body)
      PROVE  found[v] \in Literals
  <2>1. found[v] = IF v \in DOMAIN map THEN map[v] ELSE <<>>
    BY <1>1 DEF LookedUp, Keeping
  <2>2. v \in DOMAIN map => map[v] \in Literals
    BY DEF HoldsVariables, Sound
  <2> QED
    BY <1>2, <2>1, <2>2
<1> HIDE DEF found
<1>4. Replaced(lines[j].body, found) \in Literals
  BY <1>1, <1>3, ReplacedType
<1>5. Replaced(lines[j].body, found) = Meaning(lines)[j]
  BY TextMeaning DEF found
<1> QED
  BY <1>2, <1>4, <1>5

(* Looking up the variables of a body creates those that are not there.     *)
LEMMA LookHolds ==
  ASSUME NEW lines \in Seq(Line), NEW j \in DOMAIN lines,
         lines[j].kind \in {"property", "assignment"},
         NEW map, HoldsVariables(lines, map, j - 1)
  PROVE  /\ DOMAIN LookedUp(lines, j, map) = Mentioned(lines, j - 1) \cup Used(lines[j].body)
         /\ Sound(lines, LookedUp(lines, j, map))
<1> DEFINE looked == LookedUp(lines, j, map)
<1>1. lines[j] \in Line
  OBVIOUS
<1>2. DOMAIN looked = Mentioned(lines, j - 1) \cup Used(lines[j].body)
  BY DEF HoldsVariables, LookedUp, Keeping
<1>3. ASSUME NEW v \in DOMAIN looked
      PROVE  looked[v] \in Literals /\ looked[v] = Assigned(lines, v)
  <2>1. CASE v \in DOMAIN map
    BY <2>1 DEF HoldsVariables, Sound, LookedUp, Keeping
  <2>2. CASE v \notin DOMAIN map
    <3>1. v \in Used(lines[j].body) /\ v \notin Mentioned(lines, j - 1)
      BY <1>2, <2>2 DEF HoldsVariables
    <3>2. v \in Vars /\ Mentions(lines[j], v) /\ ~Defines(lines[j], v)
      BY <1>1, <3>1, LineFacts DEF Defines
    <3>3. Assigned(lines, v) = <<>>
      BY <3>1, <3>2, NewVariable
    <3>4. looked[v] = <<>>
      BY <2>2, <3>1 DEF LookedUp, Keeping
    <3> QED
      BY <3>3, <3>4, TextType
  <2> QED
    BY <2>1, <2>2
<1> QED
  BY <1>2, <1>3 DEF Sound

LEMMA PropertyHolds ==
  ASSUME NEW lines \in Seq(Line), NEW j \in DOMAIN lines, lines[j].kind = "property",
         NEW map, HoldsVariables(lines, map, j - 1)
  PROVE  HoldsVariables(lines, LookedUp(lines, j, map), j)
<1>1. {v \in Vars : Mentions(lines[j], v)} = Used(lines[j].body)
  <2>1. lines[j] \in Line
    OBVIOUS
  <2>2. \A v \in Used(lines[j].body) : v \in Vars /\ Mentions(lines[j], v)
    BY <2>1, LineFacts
  <2>3. \A v : Mentions(lines[j], v) => v \in Used(lines[j].body)
    BY DEF Mentions
  <2> QED
    BY <2>2, <2>3
<1>2. /\ DOMAIN LookedUp(lines, j, map) = Mentioned(lines, j - 1) \cup Used(lines[j].body)
      /\ Sound(lines, LookedUp(lines, j, map))
  <2>1. lines[j].kind \in {"property", "assignment"}
    OBVIOUS
  <2> QED
    BY <2>1, LookHolds
<1>3. Mentioned(lines, j) = Mentioned(lines, j - 1) \cup Used(lines[j].body)
  BY <1>1, OneMore
<1> QED
  BY <1>2, <1>3 DEF HoldsVariables

LEMMA AssignHolds ==
  ASSUME NEW lines \in Seq(Line), NEW j \in DOMAIN lines, lines[j].kind = "assignment",
         NEW map, HoldsVariables(lines, map, j - 1)
  PROVE  HoldsVariables(lines, emplace(LookedUp(lines, j, map), lines[j].name, Meaning(lines)[j]), j)
<1> DEFINE x == lines[j].name
           looked == LookedUp(lines, j, map)
           more == emplace(looked, x, Meaning(lines)[j])
<1>1. lines[j] \in Line
  OBVIOUS
<1>2. x \in Vars /\ Mentions(lines[j], x)
  BY <1>1, LineFacts
<1>3. \A v \in Used(lines[j].body) : v \in Vars /\ Mentions(lines[j], v)
  BY <1>1, LineFacts
<1>4. {v \in Vars : Mentions(lines[j], v)} = Used(lines[j].body) \cup {x}
  <2>1. \A v : Mentions(lines[j], v) => v \in Used(lines[j].body) \/ v = x
    BY DEF Mentions
  <2> QED
    BY <1>2, <1>3, <2>1
<1>0. /\ DOMAIN looked = Mentioned(lines, j - 1) \cup Used(lines[j].body)
      /\ Sound(lines, looked)
  <2>1. lines[j].kind \in {"property", "assignment"}
    OBVIOUS
  <2> QED
    BY <2>1, LookHolds
<1>5. DOMAIN more = Mentioned(lines, j)
  <2>1. DOMAIN more = (DOMAIN looked) \cup {x}
    BY DEF emplace, Keeping
  <2>2. Mentioned(lines, j) = Mentioned(lines, j - 1) \cup {v \in Vars : Mentions(lines[j], v)}
    BY OneMore
  <2> QED
    BY <1>4, <1>0, <2>1, <2>2
<1>6. ASSUME NEW v \in DOMAIN more
      PROVE  more[v] \in Literals /\ more[v] = Assigned(lines, v)
  <2>1. more[v] = IF v \in DOMAIN looked THEN looked[v] ELSE Meaning(lines)[j]
    BY DEF emplace, Keeping
  <2>2. CASE v \in DOMAIN looked
    BY <1>0, <2>1, <2>2 DEF Sound
  <2>3. CASE v \notin DOMAIN looked
    <3>1. v = x
      BY <2>3 DEF emplace, Keeping
    <3>2. x \notin Mentioned(lines, j - 1) /\ x \notin Used(lines[j].body)
      BY <1>0, <2>3, <3>1
    <3>3. Defines(lines[j], x)
      BY <3>2 DEF Defines
    <3>4. Assigned(lines, x) = Meaning(lines)[j]
      BY <1>2, <3>2, <3>3, NewVariable
    <3> QED
      BY <2>1, <2>3, <3>1, <3>4, TextType
  <2> QED
    BY <2>2, <2>3
<1> HIDE DEF more
<1>7. HoldsVariables(lines, more, j)
  BY <1>5, <1>6 DEF HoldsVariables, Sound
<1> QED
  BY <1>7 DEF more

(* A property that is set, and one that is there already.                   *)
LEMMA SetHolds ==
  ASSUME NEW lines \in Seq(Line), NEW j \in DOMAIN lines,
         lines[j].kind \in {"property", "requirements"},
         NEW map, HoldsProperties(lines, map, j - 1), NEW value,
         lines[j].kind = "property" => value \in Literals /\ value = Meaning(lines)[j]
  PROVE  HoldsProperties(lines, emplace(map, lines[j].name, value), j)
<1> DEFINE x == lines[j].name
           more == emplace(map, x, value)
<1>1. lines[j] \in Line
  OBVIOUS
<1>2. x \in Named \cup Keywords /\ (lines[j].kind = "requirements" => x \notin Named)
  <2>1. Named \cap Keywords = {}
    BY DEF Named, Keywords
  <2> QED
    BY <1>1, <2>1, LineFacts
<1>3. {n \in Named \cup Keywords : Sets(lines[j], n)} = {x}
  BY <1>2 DEF Sets
<1>4. DOMAIN more = Given(lines, j)
  <2>1. DOMAIN more = (DOMAIN map) \cup {x}
    BY DEF emplace, Keeping
  <2> QED
    BY <1>3, <2>1, OneMore DEF HoldsProperties
<1>5. ASSUME NEW n \in DOMAIN more \cap Named
      PROVE  more[n] \in Literals /\ more[n] = Meaning(lines)[FirstOf(lines, n)]
  <2>1. more[n] = IF n \in DOMAIN map THEN map[n] ELSE value
    BY DEF emplace, Keeping
  <2>2. CASE n \in DOMAIN map
    BY <2>1, <2>2 DEF HoldsProperties
  <2>3. CASE n \notin DOMAIN map
    <3>1. n = x /\ lines[j].kind = "property"
      BY <1>2, <2>3 DEF emplace, Keeping
    <3>2. n \notin Given(lines, j - 1) /\ n \in Named \cup Keywords
      BY <2>3 DEF HoldsProperties
    <3>3. \A i \in 1..(j - 1) : ~Sets(lines[i], n)
      BY <3>2 DEF Given
    <3>4. Sets(lines[j], n)
      BY <3>1 DEF Sets
    <3>5. FirstOf(lines, n) = j
      BY <3>3, <3>4, FirstOfIs
    <3> QED
      BY <2>1, <2>3, <3>1, <3>5
  <2> QED
    BY <2>2, <2>3
<1> HIDE DEF more
<1>6. HoldsProperties(lines, more, j)
  BY <1>4, <1>5 DEF HoldsProperties
<1> QED
  BY <1>6 DEF more

(* A line without anything to mention or to set.                           *)
LEMMA StillVariables ==
  ASSUME NEW lines \in Seq(Line), NEW j \in DOMAIN lines,
         lines[j].kind \notin {"property", "assignment"},
         NEW map, HoldsVariables(lines, map, j - 1)
  PROVE  HoldsVariables(lines, map, j)
<1>1. {v \in Vars : Mentions(lines[j], v)} = {}
  BY DEF Mentions
<1>2. Mentioned(lines, j) = Mentioned(lines, j - 1) \cup {v \in Vars : Mentions(lines[j], v)}
  BY OneMore
<1>3. Mentioned(lines, j) = Mentioned(lines, j - 1)
  BY <1>1, <1>2
<1> QED
  BY <1>3 DEF HoldsVariables

LEMMA StillProperties ==
  ASSUME NEW lines \in Seq(Line), NEW j \in DOMAIN lines,
         lines[j].kind \notin {"property", "requirements"},
         NEW map, HoldsProperties(lines, map, j - 1)
  PROVE  HoldsProperties(lines, map, j)
<1>1. {n \in Named \cup Keywords : Sets(lines[j], n)} = {}
  BY DEF Sets
<1>2. Given(lines, j) = Given(lines, j - 1) \cup {n \in Named \cup Keywords : Sets(lines[j], n)}
  BY OneMore
<1>3. Given(lines, j) = Given(lines, j - 1)
  BY <1>1, <1>2
<1> QED
  BY <1>3 DEF HoldsProperties

-----------------------------------------------------------------------------
(* The invariant holds at first, and every statement keeps it.              *)
LEMMA InitIInv == PcInit => IInv
<1> SUFFICES ASSUME PcInit
             PROVE  IInv
  OBVIOUS
<1>1. file \in Files /\ Len(file) \in Nat /\ at = 1 /\ outcome = "parsing"
  BY PcAssumption DEF PcInit
<1>2. LinesOK /\ EndOK
  BY <1>1 DEF LinesOK, EndOK
<1>3. Mentioned(file, at - 1) = {} /\ Given(file, at - 1) = {}
  BY <1>1 DEF Mentioned, Given
<1>4. DOMAIN variables = {} /\ DOMAIN properties = {}
  BY DEF PcInit
<1>5. HoldsVariables(file, variables, at - 1) /\ HoldsProperties(file, properties, at - 1)
  BY <1>3, <1>4 DEF HoldsVariables, HoldsProperties, Sound
<1> QED
  BY <1>2, <1>5 DEF IInv

LEMMA ReadsFacts ==
  ASSUME IInv, NEW kind, Reads(kind)
  PROVE  /\ file \in Seq(Line) /\ at \in DOMAIN file /\ file[at].kind = kind
         /\ ~Malformed(file[at]) /\ outcome = "parsing"
BY PcAssumption DEF IInv, LinesOK, Reads, Parsing, Statement

LEMMA AdvanceLines ==
  ASSUME IInv, NEW kind, Reads(kind), Advance
  PROVE  LinesOK' /\ EndOK' /\ at' - 1 = at /\ file' = file
<1>1. /\ at' = at + 1 /\ file' = file /\ outcome' = outcome
      /\ file \in Files /\ at \in 1..Len(file) /\ Len(file) \in Nat
      /\ ~Malformed(file[at]) /\ outcome = "parsing"
      /\ \A j \in 1..(at - 1) : ~Malformed(file[j])
  BY ReadsFacts DEF Advance, IInv, LinesOK
<1>2. ASSUME NEW j \in 1..(at' - 1)
      PROVE  ~Malformed(file[j])
  <2>1. j \in 1..(at - 1) \/ j = at
    BY <1>1
  <2> QED
    BY <1>1, <2>1
<1>3. LinesOK'
  BY <1>1, <1>2 DEF LinesOK
<1>4. EndOK'
  BY <1>1 DEF EndOK
<1> QED
  BY <1>1, <1>3, <1>4

LEMMA SkipStep ==
  ASSUME IInv, Skip
  PROVE  IInv'
<1>1. /\ file \in Seq(Line) /\ at \in DOMAIN file /\ file[at].kind = "empty"
      /\ LinesOK' /\ EndOK' /\ at' - 1 = at /\ file' = file
      /\ variables' = variables /\ properties' = properties
  BY ReadsFacts, AdvanceLines DEF Skip
<1>2. HoldsVariables(file, variables, at) /\ HoldsProperties(file, properties, at)
  BY <1>1, StillVariables, StillProperties DEF IInv
<1> QED
  BY <1>1, <1>2 DEF IInv

(* What the model's actions write is what the lemmas above speak of.        *)
LEMMA StatementText ==
  ASSUME IInv, NEW kind \in {"property", "assignment"}, Reads(kind)
  PROVE  /\ Looked(Statement.body) = LookedUp(file, at, variables)
         /\ Text(Statement.body) = Meaning(file)[at] /\ Meaning(file)[at] \in Literals
<1>1. file \in Seq(Line) /\ at \in DOMAIN file /\ file[at].kind \in {"property", "assignment"}
  BY ReadsFacts
<1>2. HoldsVariables(file, variables, at - 1)
  BY DEF IInv
<1>3. Looked(Statement.body) = LookedUp(file, at, variables)
  BY Zenon DEF Looked, LookedUp, Statement
<1>4. Text(Statement.body)
        = Replaced(file[at].body, Keeping(LookedUp(file, at, variables), [v \in Vars |-> <<>>]))
  BY <1>3, Zenon DEF Text, Statement
<1>5. Replaced(file[at].body, Keeping(LookedUp(file, at, variables), [v \in Vars |-> <<>>]))
        = Meaning(file)[at]
  BY <1>1, <1>2, TextMeaning
<1>6. Meaning(file)[at] \in Literals
  BY <1>1, <1>2, TextType
<1> QED
  BY <1>3, <1>4, <1>5, <1>6

LEMMA AssignStep ==
  ASSUME IInv, Assign
  PROVE  IInv'
<1>1. Reads("assignment") /\ Advance
  BY DEF Assign
<1>2. /\ file \in Seq(Line) /\ at \in DOMAIN file /\ file[at].kind = "assignment"
      /\ LinesOK' /\ EndOK' /\ at' - 1 = at /\ file' = file
  BY <1>1, ReadsFacts, AdvanceLines
<1>3. /\ variables' = emplace(LookedUp(file, at, variables), file[at].name, Meaning(file)[at])
      /\ properties' = properties
  BY <1>1, StatementText DEF Assign, Statement
<1>4. HoldsVariables(file, variables', at)
  BY <1>2, <1>3, AssignHolds DEF IInv
<1>5. HoldsProperties(file, properties', at)
  BY <1>2, <1>3, StillProperties DEF IInv
<1> QED
  BY <1>2, <1>4, <1>5 DEF IInv

LEMMA SetPropertyStep ==
  ASSUME IInv, SetProperty
  PROVE  IInv'
<1>1. Reads("property") /\ Advance
  BY DEF SetProperty
<1>2. /\ file \in Seq(Line) /\ at \in DOMAIN file /\ file[at].kind = "property"
      /\ LinesOK' /\ EndOK' /\ at' - 1 = at /\ file' = file
  BY <1>1, ReadsFacts, AdvanceLines
<1>3. /\ variables' = LookedUp(file, at, variables)
      /\ properties' = emplace(properties, file[at].name, Meaning(file)[at])
      /\ Meaning(file)[at] \in Literals
  BY <1>1, StatementText DEF SetProperty, Statement
<1>4. HoldsVariables(file, variables', at)
  BY <1>2, <1>3, PropertyHolds DEF IInv
<1>5. HoldsProperties(file, properties', at)
  BY <1>2, <1>3, SetHolds DEF IInv
<1> QED
  BY <1>2, <1>4, <1>5 DEF IInv

LEMMA SetRequirementsStep ==
  ASSUME IInv, SetRequirements
  PROVE  IInv'
<1>1. Reads("requirements") /\ Advance
  BY DEF SetRequirements
<1>2. /\ file \in Seq(Line) /\ at \in DOMAIN file /\ file[at].kind = "requirements"
      /\ LinesOK' /\ EndOK' /\ at' - 1 = at /\ file' = file
  BY <1>1, ReadsFacts, AdvanceLines
<1>3. /\ variables' = variables
      /\ properties' = emplace(properties, file[at].name, file[at].body)
  BY DEF SetRequirements, Statement
<1>4. HoldsVariables(file, variables', at)
  BY <1>2, <1>3, StillVariables DEF IInv
<1>5. HoldsProperties(file, properties', at)
  BY <1>2, <1>3, SetHolds DEF IInv
<1> QED
  BY <1>2, <1>4, <1>5 DEF IInv

(* The last steps end the program where the lines have led it.              *)
LEMMA EndStep ==
  ASSUME IInv, SyntaxError \/ MakePackage \/ MissingProperty
  PROVE  IInv'
<1>1. UNCHANGED <<file, at, variables, properties>>
  BY DEF SyntaxError, MakePackage, MissingProperty
<1>2. file \in Files /\ at \in 1..(Len(file) + 1) /\ Len(file) \in Nat
  BY PcAssumption DEF IInv, LinesOK
<1>3. LinesOK'
  BY <1>1 DEF IInv, LinesOK
<1>4. HoldsVariables(file, variables, at - 1)' /\ HoldsProperties(file, properties, at - 1)'
  BY <1>1 DEF IInv
<1>5. Has("Name")' = Has("Name") /\ Has("Version")' = Has("Version") /\ Flags("Libs")' = Flags("Libs")
  BY <1>1 DEF Has, Flags
<1>6. CASE SyntaxError
  <2>1. outcome' = "terminated" /\ at <= Len(file) /\ Malformed(file[at])
    BY <1>6 DEF SyntaxError, Parsing, Statement
  <2> QED
    BY <1>1, <1>3, <1>4, <2>1 DEF IInv, EndOK
<1>7. CASE MakePackage
  <2>1. outcome' = "loaded" /\ at > Len(file) /\ package'.link_flags = Flags("Libs")
    BY <1>7 DEF MakePackage, Parsed
  <2>2. Has("Name") /\ Has("Version")
    BY <1>7 DEF MakePackage
  <2>3. EndOK'
    BY <1>1, <1>2, <1>5, <2>1, <2>2 DEF EndOK
  <2> QED
    BY <1>3, <1>4, <2>3 DEF IInv
<1>8. CASE MissingProperty
  <2>1. outcome' = "error" /\ at > Len(file) /\ ~(Has("Name") /\ Has("Version"))
    BY <1>8 DEF MissingProperty, Parsed
  <2>2. EndOK'
    BY <1>1, <1>2, <1>5, <2>1 DEF EndOK
  <2> QED
    BY <1>3, <1>4, <2>2 DEF IInv
<1> QED
  BY <1>6, <1>7, <1>8

LEMMA NextIInv == IInv /\ [PcNext]_vars => IInv'
<1> SUFFICES ASSUME IInv, [PcNext]_vars
             PROVE  IInv'
  OBVIOUS
<1>1. CASE PcNext
  BY <1>1, SkipStep, AssignStep, SetPropertyStep, SetRequirementsStep, EndStep DEF PcNext
<1>2. CASE UNCHANGED vars
  <2>1. UNCHANGED <<file, at, variables, properties, package, outcome>>
    BY <1>2 DEF vars
  <2>2. Has("Name")' = Has("Name") /\ Has("Version")' = Has("Version") /\ Flags("Libs")' = Flags("Libs")
    BY <2>1 DEF Has, Flags
  <2> QED
    BY <2>1, <2>2 DEF IInv, LinesOK, EndOK
<1> QED
  BY <1>1, <1>2

THEOREM InvariantHolds == PcSpec => []IInv
<1> QED
  BY InitIInv, NextIInv, PTL DEF PcSpec

(* A property has the meaning of the first line that sets it, a variable    *)
(* that of the line that first mentions it: actions of the grammar.         *)
THEOREM MeansWhatIsWritten == PcSpec => []ValuesAsWritten
<1>1. IInv => ValuesAsWritten
  BY DEF IInv, HoldsVariables, HoldsProperties, Sound, Assigned, ValuesAsWritten
<1> QED
  BY <1>1, InvariantHolds, PTL

(* One malformed line throws out of PcLoader::load; otherwise the name and  *)
(* the version decide.                                                     *)
THEOREM MalformedKills == PcSpec => []OneLineKills
<1>1. IInv => OneLineKills
  <2> SUFFICES ASSUME IInv
               PROVE  OneLineKills
    OBVIOUS
  <2>1. /\ file \in Seq(Line) /\ at \in 1..(Len(file) + 1) /\ Len(file) \in Nat
        /\ DOMAIN file = 1..Len(file)
        /\ \A j \in 1..(at - 1) : ~Malformed(file[j])
    BY PcAssumption DEF IInv, LinesOK
  <2>2. ASSUME outcome = "terminated"
        PROVE  at \in DOMAIN file /\ Malformed(file[at])
    BY <2>1, <2>2 DEF IInv, EndOK
  <2>3. ASSUME outcome \in {"loaded", "error"}
        PROVE  /\ \A j \in DOMAIN file : ~Malformed(file[j])
               /\ DOMAIN properties = Given(file, Len(file))
               /\ outcome = "loaded" <=> Has("Name") /\ Has("Version")
    <3>1. at - 1 = Len(file) /\ (outcome = "loaded" <=> Has("Name") /\ Has("Version"))
      BY <2>1, <2>3 DEF IInv, EndOK
    <3> QED
      BY <2>1, <3>1 DEF IInv, HoldsProperties
  <2>4. ASSUME NEW n \in {"Name", "Version"}, outcome \in {"loaded", "error"}
        PROVE  Has(n) <=> \E j \in DOMAIN file : Sets(file[j], n)
    <3>1. n \in Named
      BY DEF Named
    <3>2. DOMAIN properties = Given(file, Len(file))
      BY <2>3, <2>4
    <3> QED
      BY <2>1, <3>1, <3>2 DEF Has, Given
  <2> QED
    BY <2>2, <2>3, <2>4 DEF OneLineKills
<1> QED
  BY <1>1, InvariantHolds, PTL

-----------------------------------------------------------------------------
(* What split divides a text into: a recursive function of the place it     *)
(* goes on from.                                                           *)
NextColon(text, last) == CHOOSE i \in Colons(text, last) : \A j \in Colons(text, last) : i <= j

SplitAt(text, last, pieces) ==
  IF Colons(text, last) = {} THEN <<SubSeq(text, last, Len(text))>>
  ELSE <<SubSeq(text, last, NextColon(text, last) - 1)>> \o pieces[NextColon(text, last) + 1]

SplitBody(text, pieces) == [last \in 1..(Len(text) + 1) |-> SplitAt(text, last, pieces)]

LEMMA NextColonFacts ==
  ASSUME NEW text, Len(text) \in Nat, NEW last \in 1..(Len(text) + 1), Colons(text, last) # {}
  PROVE  /\ NextColon(text, last) \in last..Len(text)
         /\ text[NextColon(text, last)] = Colon
         /\ \A i \in last..(NextColon(text, last) - 1) : text[i] # Colon
<1> DEFINE C == Colons(text, last)
           n == NextColon(text, last)
<1>1. C \subseteq Nat /\ C # {}
  BY DEF Colons
<1>2. n \in C /\ \A i \in C : n <= i
  <2>1. \E m \in C : \A i \in C : m <= i
    <3> HIDE DEF C
    <3> QED
      BY <1>1, LeastNumber
  <2> QED
    BY <2>1 DEF NextColon
<1>3. n \in last..Len(text) /\ text[n] = Colon
  BY <1>2 DEF Colons
<1>4. ASSUME NEW i \in last..(n - 1)
      PROVE  text[i] # Colon
  <2>1. i \in last..Len(text) /\ ~(n <= i)
    BY <1>3
  <2>2. i \notin C
    BY <1>2, <2>1
  <2> QED
    BY <2>1, <2>2 DEF Colons
<1> QED
  BY <1>3, <1>4

LEMMA LaterOnly ==
  ASSUME NEW text, Len(text) \in Nat, NEW last \in 1..(Len(text) + 1), NEW f, NEW g,
         \A i \in (last + 1)..(Len(text) + 1) : f[i] = g[i]
  PROVE  SplitAt(text, last, f) = SplitAt(text, last, g)
<1>1. ASSUME Colons(text, last) # {}
      PROVE  f[NextColon(text, last) + 1] = g[NextColon(text, last) + 1]
  <2>1. NextColon(text, last) \in last..Len(text)
    BY <1>1, NextColonFacts
  <2>2. NextColon(text, last) + 1 \in (last + 1)..(Len(text) + 1)
    BY <2>1
  <2> QED
    BY <2>2
<1> QED
  BY <1>1 DEF SplitAt

LEMMA SplitExists ==
  ASSUME NEW text, Len(text) \in Nat
  PROVE  \E f : f = SplitBody(text, f)
<1> PICK n \in Nat : n = Len(text) + 1
  OBVIOUS
<1> DEFINE S == {m \in Nat : m <= n =>
                   \E f : f = [last \in (n + 1 - m)..n |-> SplitAt(text, last, f)]}
<1>1. 0 \in S
  <2> DEFINE f == [last \in (n + 1 - 0)..n |-> {}]
  <2>1. f = [last \in (n + 1 - 0)..n |-> SplitAt(text, last, f)]
    OBVIOUS
  <2> QED
    BY <2>1
<1>2. ASSUME NEW m \in Nat, m \in S
      PROVE  m + 1 \in S
  <2> SUFFICES ASSUME m + 1 <= n
               PROVE  \E f : f = [last \in (n + 1 - (m + 1))..n |-> SplitAt(text, last, f)]
    OBVIOUS
  <2>1. PICK f : f = [last \in (n + 1 - m)..n |-> SplitAt(text, last, f)]
    BY <1>2
  <2>2. PICK b \in Nat : b = n - m /\ b = n + 1 - (m + 1) /\ b + 1 = n + 1 - m /\ b >= 1
    <3>1. n - m \in Nat /\ n - m = n + 1 - (m + 1) /\ (n - m) + 1 = n + 1 - m /\ n - m >= 1
      OBVIOUS
    <3> QED
      BY <3>1, Zenon
  <2> DEFINE g == [last \in b..n |-> IF last = b THEN SplitAt(text, last, f) ELSE f[last]]
  <2>3. ASSUME NEW last \in b..n
        PROVE  g[last] = SplitAt(text, last, g)
    <3>1. \A i \in (last + 1)..(Len(text) + 1) : g[i] = f[i]
      BY <2>2
    <3>2. last \in 1..(Len(text) + 1)
      BY <2>2
    <3>3. SplitAt(text, last, g) = SplitAt(text, last, f)
      <4> HIDE DEF g
      <4> QED
        BY <3>1, <3>2, LaterOnly
    <3>4. CASE last = b
      BY <3>3, <3>4
    <3>5. CASE last # b
      <4>1. last \in (b + 1)..n /\ g[last] = f[last]
        BY <2>2, <3>5
      <4>2. f[last] = SplitAt(text, last, f)
        BY <2>1, <2>2, <4>1
      <4> QED
        BY <3>3, <4>1, <4>2
    <3> QED
      BY <3>4, <3>5
  <2>4. g = [last \in b..n |-> g[last]]
    OBVIOUS
  <2> HIDE DEF g
  <2>5. g = [last \in b..n |-> SplitAt(text, last, g)]
    BY <2>3, <2>4
  <2> QED
    BY <2>2, <2>5
<1>3. n \in S
  <2> HIDE DEF S
  <2> QED
    BY <1>1, <1>2, SetInduction
<1>4. PICK f : f = [last \in (n + 1 - n)..n |-> SplitAt(text, last, f)]
  BY <1>3
<1>5. n + 1 - n = 1
  OBVIOUS
<1> QED
  BY <1>4, <1>5 DEF SplitBody

(* What is put together again, a colon before each piece.                   *)
Prefixed(pieces) == [k \in DOMAIN pieces |-> <<Colon>> \o pieces[k]]

SplitWell(S, text, last, pieces) ==
  /\ pieces \in Seq(Seq(S))
  /\ Prefixed(pieces) \in Seq(Seq(S))
  /\ FlattenSeq(Prefixed(pieces)) = <<Colon>> \o SubSeq(text, last, Len(text))
  /\ \A k \in DOMAIN pieces : Colon \notin Range(pieces[k])

(* A part of a text without a colon.                                       *)
LEMMA NoColon ==
  ASSUME NEW S, NEW text \in Seq(S), NEW i \in 1..(Len(text) + 1), NEW j \in 0..Len(text),
         \A k \in i..j : text[k] # Colon
  PROVE  SubSeq(text, i, j) \in Seq(S) /\ Colon \notin Range(SubSeq(text, i, j))
<1>1. SubSeq(text, i, j) \in Seq(S)
  OBVIOUS
<1>2. ASSUME NEW k \in DOMAIN SubSeq(text, i, j)
      PROVE  SubSeq(text, i, j)[k] # Colon
  <2>1. SubSeq(text, i, j)[k] = text[i + k - 1] /\ i + k - 1 \in i..j
    OBVIOUS
  <2> QED
    BY <2>1
<1> QED
  BY <1>1, <1>2 DEF Range

(* One piece before others.                                                *)
PutBefore(S, x, pieces) ==
  /\ <<x>> \o pieces \in Seq(Seq(S))
  /\ Prefixed(<<x>> \o pieces) = <<<<Colon>> \o x>> \o Prefixed(pieces)
  /\ Prefixed(<<x>> \o pieces) \in Seq(Seq(S)) /\ Prefixed(pieces) \in Seq(Seq(S))
  /\ <<Colon>> \o x \in Seq(S)
  /\ \A k \in DOMAIN (<<x>> \o pieces) :
       (<<x>> \o pieces)[k] = x \/ \E j \in DOMAIN pieces : (<<x>> \o pieces)[k] = pieces[j]

LEMMA PrefixedMore ==
  ASSUME NEW S, Colon \in S, NEW x \in Seq(S), NEW pieces \in Seq(Seq(S))
  PROVE  PutBefore(S, x, pieces)
<1> DEFINE Q == Seq(S)
           more == <<x>> \o pieces
           y == <<Colon>> \o x
<1>1. y \in Q /\ x \in Q /\ \A k \in DOMAIN pieces : <<Colon>> \o pieces[k] \in Q
  <2>1. \A z \in Q : <<Colon>> \o z \in Q
    OBVIOUS
  <2>2. \A k \in DOMAIN pieces : pieces[k] \in Q
    OBVIOUS
  <2> QED
    BY <2>1, <2>2
<1> PICK n \in Nat : n = Len(pieces)
  OBVIOUS
<1>2. pieces \in Seq(Q) /\ DOMAIN pieces = 1..n
  OBVIOUS
<1> HIDE DEF Q
<1>3. /\ more \in Seq(Q) /\ DOMAIN more = 1..(n + 1) /\ more[1] = x
      /\ \A k \in 1..n : more[k + 1] = pieces[k]
  BY <1>1, <1>2
<1> DEFINE p == Prefixed(pieces)
<1>4. p \in Seq(Q) /\ Len(p) = n /\ \A k \in 1..n : p[k] = <<Colon>> \o pieces[k]
  <2>1. p = [k \in 1..n |-> <<Colon>> \o pieces[k]]
    BY <1>2 DEF Prefixed
  <2>2. \A k \in 1..n : p[k] \in Q
    BY <1>1, <1>2, <2>1
  <2>3. p = [k \in 1..n |-> p[k]]
    BY <2>1
  <2>4. p \in Seq(Q) /\ Len(p) = n
    <3> HIDE DEF p
    <3> QED
      BY <2>2, <2>3
  <2> QED
    BY <2>1, <2>4
<1>5. /\ <<y>> \o p \in Seq(Q) /\ DOMAIN (<<y>> \o p) = 1..(n + 1) /\ (<<y>> \o p)[1] = y
      /\ \A k \in 1..n : (<<y>> \o p)[k + 1] = p[k]
  <2> HIDE DEF p, y
  <2> QED
    BY <1>1, <1>4
<1>6. ASSUME NEW k \in 1..(n + 1)
      PROVE  /\ <<Colon>> \o more[k] = (<<y>> \o p)[k]
             /\ more[k] = x \/ \E j \in 1..n : more[k] = pieces[j]
  <2>1. CASE k = 1
    BY <1>3, <1>5, <2>1
  <2>2. CASE k # 1
    <3>1. PICK j \in 1..n : k = j + 1
      <4>1. k - 1 \in 1..n /\ k = (k - 1) + 1
        BY <2>2
      <4> QED
        BY <4>1, Zenon
    <3> QED
      BY <1>3, <1>4, <1>5, <3>1
  <2> QED
    BY <2>1, <2>2
<1> HIDE DEF more, y
<1>7. Prefixed(more) = <<y>> \o p
  <2> HIDE DEF p
  <2> DEFINE q == <<y>> \o p
  <2>1. q = [k \in 1..(n + 1) |-> q[k]]
    BY <1>5
  <2>2. \A k \in 1..(n + 1) : <<Colon>> \o more[k] = q[k]
    BY <1>6
  <2> HIDE DEF q
  <2>3. Prefixed(more) = q
    BY <1>3, <2>1, <2>2 DEF Prefixed
  <2> QED
    BY <2>3 DEF q
<1> QED
  BY <1>1, <1>2, <1>3, <1>4, <1>5, <1>6, <1>7 DEF PutBefore, more, Q, y

(* Two sequences, one behind the other.                                    *)
Together(u, s, r) ==
  /\ Len(u) = Len(s) + Len(r)
  /\ \A i \in 1..Len(s) : u[i] = s[i]
  /\ \A i \in (Len(s) + 1)..(Len(s) + Len(r)) : u[i] = r[i - Len(s)]

LEMMA ConcatTogether ==
  ASSUME NEW S, NEW s \in Seq(S), NEW r \in Seq(S)
  PROVE  s \o r \in Seq(S) /\ Together(s \o r, s, r)
BY DEF Together

(* A text cut at a colon.                                                  *)
LEMMA Cut ==
  ASSUME NEW S, Colon \in S, NEW text \in Seq(S),
         NEW last \in 1..(Len(text) + 1), NEW n \in last..Len(text), text[n] = Colon
  PROVE  SubSeq(text, last, n - 1) \o (<<Colon>> \o SubSeq(text, n + 1, Len(text)))
           = SubSeq(text, last, Len(text))
<1> DEFINE x == SubSeq(text, last, n - 1)
           c == <<Colon>>
           y == SubSeq(text, n + 1, Len(text))
           z == SubSeq(text, last, Len(text))
<1>a. PICK l \in Nat : l = Len(text)
  OBVIOUS
<1>0. n \in last..l /\ last \in 1..l
  BY <1>a
<1>1. /\ x \in Seq(S) /\ Len(x) = n - last
      /\ \A i \in 1..(n - last) : x[i] = text[last + i - 1]
  BY <1>a
<1>2. /\ y \in Seq(S) /\ Len(y) = l - n
      /\ \A i \in 1..(l - n) : y[i] = text[n + i]
  <2>1. y \in Seq(S) /\ Len(y) = l - n
    BY <1>a
  <2>2. ASSUME NEW i \in 1..(l - n)
        PROVE  y[i] = text[n + i]
    <3>1. y[i] = text[(n + 1) + i - 1] /\ (n + 1) + i - 1 = n + i
      BY <1>a
    <3> QED
      BY <3>1
  <2> QED
    BY <2>1, <2>2
<1>3. /\ z \in Seq(S) /\ Len(z) = l - last + 1
      /\ \A i \in 1..(l - last + 1) : z[i] = text[last + i - 1]
  BY <1>a
<1>4. c \in Seq(S) /\ Len(c) = 1 /\ c[1] = Colon
  OBVIOUS
<1> HIDE DEF x, y, z, c
<1> DEFINE w == c \o y
           u == x \o w
<1>5. w \in Seq(S) /\ Together(w, c, y)
  BY <1>2, <1>4, ConcatTogether
<1> HIDE DEF w
<1>6. /\ w \in Seq(S) /\ Len(w) = l - n + 1 /\ w[1] = Colon
      /\ \A i \in 2..(l - n + 1) : w[i] = y[i - 1]
  BY <1>0, <1>2, <1>4, <1>5 DEF Together
<1>b. u \in Seq(S) /\ Together(u, x, w)
  BY <1>1, <1>6, ConcatTogether
<1> HIDE DEF u
<1>7. /\ Len(u) = l - last + 1 /\ \A i \in 1..(n - last) : u[i] = x[i]
      /\ \A i \in (n - last + 1)..(l - last + 1) : u[i] = w[i - (n - last)]
  <2>1. Len(x) = n - last /\ Len(w) = l - n + 1 /\ Len(x) + Len(w) = l - last + 1
    BY <1>0, <1>1, <1>6
  <2> QED
    BY <1>b, <2>1 DEF Together
<1>8. ASSUME NEW i \in 1..(l - last + 1)
      PROVE  u[i] = z[i]
  <2>1. z[i] = text[last + i - 1]
    BY <1>3
  <2>2. CASE i <= n - last
    <3>1. u[i] = x[i] /\ i \in 1..(n - last)
      BY <1>0, <1>7, <2>2
    <3> QED
      BY <1>1, <2>1, <3>1
  <2>3. CASE i = n - last + 1
    <3>1. u[i] = w[1] /\ last + i - 1 = n
      BY <1>0, <1>7, <2>3
    <3> QED
      BY <1>6, <2>1, <3>1
  <2>4. CASE i > n - last + 1
    <3>a. PICK k \in Int : k = i - (n - last)
      OBVIOUS
    <3>1. u[i] = w[k] /\ k \in 2..(l - n + 1)
      BY <1>0, <1>7, <2>4, <3>a
    <3>2. w[k] = y[k - 1]
      BY <1>6, <3>1
    <3>3. y[k - 1] = text[n + (k - 1)] /\ n + (k - 1) = last + i - 1
      BY <1>0, <1>2, <3>1, <3>a
    <3> QED
      BY <2>1, <3>1, <3>2, <3>3
  <2> QED
    BY <1>0, <2>2, <2>3, <2>4
<1>9. u = z
  BY <1>0, <1>3, <1>7, <1>8, <1>b
<1> QED
  BY <1>9, <1>a DEF x, y, z, c, w, u

LEMMA SplitLast ==
  ASSUME NEW S, Colon \in S, NEW text \in Seq(S), NEW last \in 1..(Len(text) + 1),
         Colons(text, last) = {}
  PROVE  SplitWell(S, text, last, <<SubSeq(text, last, Len(text))>>)
<1> DEFINE x == SubSeq(text, last, Len(text))
           c == <<Colon>>
           none == <<>>
<1>1. \A i \in last..Len(text) : text[i] # Colon
  BY DEF Colons
<1>2. x \in Seq(S) /\ Colon \notin Range(x)
  BY <1>1, NoColon
<1>3. none \in Seq(Seq(S)) /\ Prefixed(none) = none /\ DOMAIN none = {}
  BY DEF Prefixed
<1> HIDE DEF x, none
<1>4. /\ <<x>> \o none \in Seq(Seq(S))
      /\ Prefixed(<<x>> \o none) = <<c \o x>> \o Prefixed(none)
      /\ Prefixed(<<x>> \o none) \in Seq(Seq(S)) /\ c \o x \in Seq(S)
      /\ \A k \in DOMAIN (<<x>> \o none) : (<<x>> \o none)[k] = x
  <2>1. PutBefore(S, x, none)
    BY <1>2, <1>3, PrefixedMore
  <2> QED
    BY <1>3, <2>1 DEF PutBefore
<1>5. <<x>> \o none = <<x>>
  BY <1>2 DEF none
<1>6. FlattenSeq(none) = <<>>
  <2>1. Len(none) = 0
    BY DEF none
  <2> QED
    BY <1>3, <2>1, FlattenIs
<1> HIDE DEF c
<1>7. FlattenSeq(<<c \o x>> \o none) = (c \o x) \o FlattenSeq(none)
  BY <1>3, <1>4, FlattenFirst
<1>8. (c \o x) \o <<>> = c \o x
  BY <1>4
<1>9. FlattenSeq(Prefixed(<<x>>)) = c \o x
  BY <1>3, <1>4, <1>5, <1>6, <1>7, <1>8
<1>10. \A k \in DOMAIN <<x>> : <<x>>[k] = x
  BY <1>4, <1>5
<1>11. SplitWell(S, text, last, <<x>>)
  BY <1>2, <1>4, <1>5, <1>9, <1>10 DEF SplitWell, x, c
<1> QED
  BY <1>11 DEF x

(* A colon before each of two parts.                                       *)
Regroups(c, x, y) == (c \o x) \o (c \o y) = c \o (x \o (c \o y))

LEMMA Regroup ==
  ASSUME NEW S, NEW c \in Seq(S), NEW x \in Seq(S), NEW y \in Seq(S)
  PROVE  Regroups(c, x, y)
<1> DEFINE d == c \o y
<1>1. d \in Seq(S)
  OBVIOUS
<1> HIDE DEF d
<1>2. AnyGrouping(c, x, d)
  BY <1>1, Grouping
<1> QED
  BY <1>2, Zenon DEF d, AnyGrouping, Regroups

LEMMA SplitMore ==
  ASSUME NEW S, Colon \in S, NEW text \in Seq(S), NEW last \in 1..(Len(text) + 1),
         NEW n \in last..Len(text), text[n] = Colon,
         \A i \in last..(n - 1) : text[i] # Colon,
         NEW pieces, SplitWell(S, text, n + 1, pieces)
  PROVE  SplitWell(S, text, last, <<SubSeq(text, last, n - 1)>> \o pieces)
<1> DEFINE x == SubSeq(text, last, n - 1)
           c == <<Colon>>
           y == SubSeq(text, n + 1, Len(text))
<1>1. x \in Seq(S) /\ Colon \notin Range(x)
  <2>1. n - 1 \in 0..Len(text)
    OBVIOUS
  <2> QED
    BY <2>1, NoColon
<1>2. c \in Seq(S) /\ y \in Seq(S) /\ c \o y \in Seq(S)
  OBVIOUS
<1>3. x \o (c \o y) = SubSeq(text, last, Len(text))
  BY Cut
<1>4. /\ pieces \in Seq(Seq(S)) /\ FlattenSeq(Prefixed(pieces)) = c \o y
      /\ \A k \in DOMAIN pieces : Colon \notin Range(pieces[k])
  BY DEF SplitWell
<1> HIDE DEF x, c, y
<1> DEFINE more == <<x>> \o pieces
<1>5. /\ more \in Seq(Seq(S)) /\ Prefixed(more) = <<c \o x>> \o Prefixed(pieces)
      /\ Prefixed(more) \in Seq(Seq(S)) /\ Prefixed(pieces) \in Seq(Seq(S)) /\ c \o x \in Seq(S)
      /\ \A k \in DOMAIN more : more[k] = x \/ \E j \in DOMAIN pieces : more[k] = pieces[j]
  <2>1. x \in Seq(S) /\ pieces \in Seq(Seq(S))
    BY <1>1, <1>4
  <2>2. PutBefore(S, x, pieces)
    BY <2>1, PrefixedMore, Zenon
  <2> QED
    BY <2>2, Zenon DEF PutBefore, c
<1> HIDE DEF more
<1>6. FlattenSeq(Prefixed(more)) = (c \o x) \o (c \o y)
  <2>1. c \o x \in Seq(S) /\ Prefixed(pieces) \in Seq(Seq(S))
    BY <1>5
  <2>2. FlattenSeq(<<c \o x>> \o Prefixed(pieces)) = (c \o x) \o FlattenSeq(Prefixed(pieces))
    BY <2>1, FlattenFirst, Zenon
  <2> QED
    BY <1>4, <1>5, <2>2, Zenon
<1>7. (c \o x) \o (c \o y) = c \o (x \o (c \o y))
  <2>1. Regroups(c, x, y)
    BY <1>1, <1>2, Regroup
  <2> QED
    BY <2>1, Zenon DEF Regroups
<1>8. \A k \in DOMAIN more : Colon \notin Range(more[k])
  BY <1>1, <1>4, <1>5
<1>9. SplitWell(S, text, last, more)
  BY <1>3, <1>5, <1>6, <1>7, <1>8 DEF SplitWell, c
<1> QED
  BY <1>9 DEF more, x

LEMMA SplitHolds ==
  ASSUME NEW S, Colon \in S, NEW text \in Seq(S)
  PROVE  SplitWell(S, text, 1, split(text))
<1> DEFINE f == CHOOSE g : g = SplitBody(text, g)
<1> PICK n \in Nat : n = Len(text) + 1
  OBVIOUS
<1>1. f = SplitBody(text, f)
  <2>1. Len(text) \in Nat
    OBVIOUS
  <2> QED
    BY <2>1, SplitExists
<1>2. split(text) = f[1]
  BY Zenon DEF split, SplitBody, SplitAt, NextColon
<1> HIDE DEF f
<1>3. \A last \in 1..n : f[last] = SplitAt(text, last, f)
  BY <1>1 DEF SplitBody
<1> DEFINE T == {m \in Nat : \A last \in 1..n : last >= n - m => SplitWell(S, text, last, f[last])}
<1>4. ASSUME NEW last \in 1..n, \A i \in (last + 1)..n : SplitWell(S, text, i, f[i])
      PROVE  SplitWell(S, text, last, f[last])
  <2>1. last \in 1..(Len(text) + 1) /\ Len(text) \in Nat
    OBVIOUS
  <2>2. CASE Colons(text, last) = {}
    BY <1>3, <2>1, <2>2, SplitLast DEF SplitAt
  <2>3. CASE Colons(text, last) # {}
    <3> DEFINE k == NextColon(text, last)
    <3>1. k \in last..Len(text) /\ text[k] = Colon /\ \A i \in last..(k - 1) : text[i] # Colon
      BY <2>1, <2>3, NextColonFacts
    <3>2. k + 1 \in (last + 1)..n
      BY <3>1
    <3>3. SplitWell(S, text, k + 1, f[k + 1])
      BY <1>4, <3>2
    <3>4. f[last] = <<SubSeq(text, last, k - 1)>> \o f[k + 1]
      BY <1>3, <2>3 DEF SplitAt
    <3> HIDE DEF k
    <3> QED
      BY <2>1, <3>1, <3>3, <3>4, SplitMore
  <2> QED
    BY <2>2, <2>3
<1>5. 0 \in T
  <2>1. ASSUME NEW last \in 1..n, last >= n - 0
        PROVE  SplitWell(S, text, last, f[last])
    <3>1. \A i \in (last + 1)..n : SplitWell(S, text, i, f[i])
      BY <2>1
    <3> QED
      BY <1>4, <3>1
  <2> QED
    BY <2>1
<1>6. ASSUME NEW m \in Nat, m \in T
      PROVE  m + 1 \in T
  <2>1. ASSUME NEW last \in 1..n, last >= n - (m + 1)
        PROVE  SplitWell(S, text, last, f[last])
    <3>1. ASSUME NEW i \in (last + 1)..n
          PROVE  SplitWell(S, text, i, f[i])
      <4>1. i \in 1..n /\ i >= n - m
        BY <2>1
      <4> QED
        BY <1>6, <4>1
    <3> QED
      BY <1>4, <3>1
  <2> QED
    BY <2>1
<1>7. n \in T
  <2> HIDE DEF T
  <2> QED
    BY <1>5, <1>6, SetInduction
<1>8. 1 \in 1..n /\ 1 >= n - n
  OBVIOUS
<1> QED
  BY <1>2, <1>7, <1>8

(* The flags are what Libs means, divided at its colons: utils::split       *)
(* leaves nothing out.                                                     *)
THEOREM NoFlagLost == PcSpec => []FlagsComplete
<1>1. IInv => FlagsComplete
  <2> SUFFICES ASSUME IInv, outcome = "loaded", Has("Libs")
               PROVE  LET flags == package.link_flags
                      IN  /\ FlattenSeq([k \in DOMAIN flags |-> <<Colon>> \o flags[k]])
                               = <<Colon>> \o Meaning(file)[FirstOf(file, "Libs")]
                          /\ \A k \in DOMAIN flags : Colon \notin Range(flags[k])
    BY Zenon DEF FlagsComplete
  <2> DEFINE text == properties["Libs"]
  <2>1. package.link_flags = split(text)
    BY DEF IInv, EndOK, Flags
  <2>2. text \in Literals /\ text = Meaning(file)[FirstOf(file, "Libs")]
    <3>1. "Libs" \in DOMAIN properties \cap Named
      BY DEF Has, Named
    <3> QED
      BY <3>1 DEF IInv, HoldsProperties
  <2>3. text \in Seq(Token) /\ Colon \in Token
    BY <2>2 DEF Literals, Token
  <2> HIDE DEF text
  <2>4. SplitWell(Token, text, 1, split(text))
    BY <2>3, SplitHolds
  <2>5. SubSeq(text, 1, Len(text)) = text
    BY <2>3
  <2>6. /\ FlattenSeq(Prefixed(split(text))) = <<Colon>> \o text
        /\ \A k \in DOMAIN split(text) : Colon \notin Range(split(text)[k])
    BY <2>4, <2>5 DEF SplitWell
  <2> QED
    BY <2>1, <2>2, <2>6, Zenon DEF Prefixed
<1> QED
  BY <1>1, InvariantHolds, PTL
=============================================================================
