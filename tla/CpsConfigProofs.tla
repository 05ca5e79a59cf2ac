---------------------------- MODULE CpsConfigProofs ----------------------------
(***************************************************************************)
(* Proofs about the whole program: the three components, each with what is  *)
(* proved of it, put together along the phases of find_package.            *)
(***************************************************************************)
EXTENDS CpsConfig, FiniteSetTheorems, SequenceTheorems, WellFoundedInduction, TLAPS

-----------------------------------------------------------------------------
(* Induction, from the well-foundedness of < on the natural numbers: a set  *)
(* of numbers has a least element, so one that has 0 and, with each number, *)
(* the next one has them all.                                              *)
LEMMA LeastNumber ==
  ASSUME NEW T, T \subseteq Nat, T # {}
  PROVE  \E m \in T : \A k \in T : m <= k
<1> DEFINE R == OpToRel(<, Nat)
<1>1. IsWellFoundedOn(R, Nat)
  BY NatLessThanWellFounded
<1>2. \A a, b \in Nat : a < b => <<a, b>> \in R
  BY DEF OpToRel
<1> HIDE DEF R
<1>3. PICK m \in T : \A k \in T : ~(<<k, m>> \in R)
  BY <1>1, WFMin
<1>4. ASSUME NEW k \in T
      PROVE  m <= k
  <2>1. k \in Nat /\ m \in Nat /\ ~(k < m)
    BY <1>2, <1>3
  <2> QED
    BY <2>1
<1> QED
  BY <1>4

LEMMA SetInduction ==
  ASSUME NEW S, 0 \in S, \A n \in Nat : n \in S => n + 1 \in S
  PROVE  Nat \subseteq S
<1> DEFINE T == Nat \ S
<1>1. T \subseteq Nat
  OBVIOUS
<1>2. ASSUME T # {}
      PROVE  FALSE
  <2>1. PICK m \in T : \A k \in T : m <= k
    <3> HIDE DEF T
    <3> QED
      BY <1>1, <1>2, LeastNumber
  <2>2. m # 0 /\ m - 1 \in Nat /\ m - 1 \in S
    BY <2>1
  <2>3. (m - 1) + 1 \in S
    BY <2>2
  <2> QED
    BY <2>1, <2>3
<1> QED
  BY <1>2

(* A list of a finite set has all of it.                                    *)
LEMMA ListsAll ==
  ASSUME NEW S, IsFiniteSet(S)
  PROVE  Range(SetToSeq(S)) = S
<1>1. PICK m : m = Cardinality(S) /\ m \in Nat /\ ExistsBijection(1..m, S)
  BY FS_CardinalityType
<1>2. \E f \in [1..m -> S] : IsInjective(f)
  <2>1. PICK f : f \in Bijection(1..m, S)
    BY <1>1 DEF ExistsBijection
  <2> QED
    BY <2>1 DEF Bijection, Injection
<1>3. PICK f : f = SetToSeq(S)
  OBVIOUS
<1>4. f \in [1..m -> S] /\ IsInjective(f)
  BY <1>1, <1>2, <1>3, Zenon DEF SetToSeq
<1>5. f \in Injection(1..m, S)
  BY <1>4 DEF Injection
<1>6. Cardinality(1..m) = m
  BY <1>1, FS_Interval
<1>7. f \in Surjection(1..m, S)
  BY <1>1, <1>5, <1>6, FS_Injection
<1>8. \A x \in S : \E i \in 1..m : f[i] = x
  BY <1>7 DEF Surjection
<1>9. Range(f) = S
  BY <1>4, <1>8 DEF Range
<1> QED
  BY <1>3, <1>9

(* Sequences one after the other, each element where it was.                *)
LEMMA JoinOnce ==
  ASSUME NEW S, NEW s \in Seq(S), NEW t \in Seq(S), IsInjective(s), IsInjective(t),
         Range(s) \cap Range(t) = {}
  PROVE  IsInjective(s \o t) /\ Range(s \o t) = Range(s) \cup Range(t)
<1> PICK l \in Nat : l = Len(s)
  OBVIOUS
<1> PICK m \in Nat : m = Len(t)
  OBVIOUS
<1>1. l = Len(s) /\ m = Len(t) /\ l \in Nat /\ m \in Nat
  OBVIOUS
<1>2. DOMAIN s = 1..l /\ DOMAIN t = 1..m
  BY <1>1
<1>3. PICK u : u = s \o t
  OBVIOUS
<1>4. /\ DOMAIN u = 1..(l + m)
      /\ \A i \in 1..(l + m) : u[i] = IF i <= l THEN s[i] ELSE t[i - l]
  BY <1>1, <1>3
<1>5. \A i \in 1..l : u[i] = s[i] /\ s[i] \in Range(s)
  BY <1>1, <1>2, <1>4 DEF Range
<1>6. ASSUME NEW i \in 1..(l + m), ~(i <= l)
      PROVE  i - l \in 1..m /\ u[i] = t[i - l] /\ t[i - l] \in Range(t)
  <2>1. i - l \in 1..m /\ u[i] = t[i - l]
    BY <1>1, <1>4, <1>6
  <2> QED
    BY <1>2, <2>1 DEF Range
<1>7. IsInjective(u)
  <2> SUFFICES ASSUME NEW i \in 1..(l + m), NEW j \in 1..(l + m), u[i] = u[j]
               PROVE  i = j
    BY <1>4 DEF IsInjective
  <2>1. CASE i <= l /\ j <= l
    <3>1. i \in 1..l /\ j \in 1..l
      BY <1>1, <2>1
    <3> QED
      BY <1>2, <1>5, <3>1 DEF IsInjective
  <2>2. CASE ~(i <= l) /\ ~(j <= l)
    <3>1. i - l = j - l
      BY <1>2, <1>6, <2>2 DEF IsInjective
    <3> QED
      BY <1>1, <3>1
  <2>3. CASE i <= l /\ ~(j <= l)
    <3>1. i \in 1..l
      BY <1>1, <2>3
    <3> QED
      BY <1>5, <1>6, <2>3, <3>1
  <2>4. CASE ~(i <= l) /\ j <= l
    <3>1. j \in 1..l
      BY <1>1, <2>4
    <3> QED
      BY <1>5, <1>6, <2>4, <3>1
  <2> QED
    BY <1>1, <2>1, <2>2, <2>3, <2>4
<1>8. Range(u) \subseteq Range(s) \cup Range(t)
  <2> SUFFICES ASSUME NEW i \in 1..(l + m)
               PROVE  u[i] \in Range(s) \cup Range(t)
    BY <1>4 DEF Range
  <2>1. CASE i <= l
    <3>1. i \in 1..l
      BY <1>1, <2>1
    <3> QED
      BY <1>5, <3>1
  <2>2. CASE ~(i <= l)
    BY <1>6, <2>2
  <2> QED
    BY <2>1, <2>2
<1>9. Range(s) \cup Range(t) \subseteq Range(u)
  <2>1. ASSUME NEW i \in 1..l
        PROVE  s[i] \in Range(u)
    <3>1. i \in 1..(l + m)
      BY <1>1
    <3> QED
      BY <1>4, <1>5, <3>1 DEF Range
  <2>2. ASSUME NEW i \in 1..m
        PROVE  t[i] \in Range(u)
    <3>1. i + l \in 1..(l + m) /\ ~(i + l <= l) /\ (i + l) - l = i
      BY <1>1
    <3>2. u[i + l] = t[i]
      BY <1>4, <3>1
    <3> QED
      BY <1>4, <3>1, <3>2 DEF Range
  <2> QED
    BY <1>2, <2>1, <2>2 DEF Range
<1> QED
  BY <1>3, <1>7, <1>8, <1>9

(* FlattenSeq is a recursive function of the sequences it flattens.         *)
FlatStep(seqs, w) ==
  [i \in 1..Len(seqs) |-> IF i = 1 THEN seqs[i] ELSE w[i - 1] \o seqs[i]]

LEMMA FlatExists ==
  ASSUME NEW seqs, Len(seqs) \in Nat
  PROVE  \E w : w = FlatStep(seqs, w)
<1> DEFINE Step(w, i) == IF i = 1 THEN seqs[i] ELSE w[i - 1] \o seqs[i]
           S == {m \in Nat : \E w : w = [i \in 1..m |-> Step(w, i)]}
<1>1. 0 \in S
  <2> DEFINE w == [i \in 1..0 |-> {}]
  <2>1. w = [i \in 1..0 |-> Step(w, i)]
    OBVIOUS
  <2> QED
    BY <2>1
<1>2. ASSUME NEW m \in Nat, m \in S
      PROVE  m + 1 \in S
  <2>1. PICK w : w = [i \in 1..m |-> Step(w, i)]
    BY <1>2
  <2> DEFINE v == [i \in 1..(m + 1) |-> IF i = m + 1 THEN Step(w, i) ELSE w[i]]
  <2>2. ASSUME NEW i \in 1..(m + 1)
        PROVE  v[i] = Step(v, i)
    <3>1. i # 1 => v[i - 1] = w[i - 1]
      <4> HIDE DEF Step
      <4> QED
        OBVIOUS
    <3>2. Step(v, i) = Step(w, i)
      <4> HIDE DEF v
      <4> QED
        BY <3>1
    <3> HIDE DEF Step
    <3>3. CASE i = m + 1
      BY <3>2, <3>3
    <3>4. CASE i # m + 1
      <4>1. i \in 1..m /\ v[i] = w[i]
        BY <3>4
      <4>2. w[i] = Step(w, i)
        BY <2>1, <4>1
      <4> QED
        BY <3>2, <4>1, <4>2
    <3> QED
      BY <3>3, <3>4
  <2> HIDE DEF Step
  <2>3. v = [i \in 1..(m + 1) |-> v[i]]
    OBVIOUS
  <2> HIDE DEF v
  <2>4. v = [i \in 1..(m + 1) |-> Step(v, i)]
    BY <2>2, <2>3
  <2> QED
    BY <2>4
<1>3. Len(seqs) \in S
  <2> HIDE DEF S
  <2> QED
    BY <1>1, <1>2, SetInduction
<1> QED
  BY <1>3 DEF FlatStep

(* Lists with nothing in common are printed one after the other.             *)
LEMMA FlatOnce ==
  ASSUME NEW S, NEW seqs \in Seq(Seq(S)), Len(seqs) # 0,
         \A k \in DOMAIN seqs : IsInjective(seqs[k]),
         \A j, k \in DOMAIN seqs : j # k => Range(seqs[j]) \cap Range(seqs[k]) = {}
  PROVE  /\ IsInjective(FlattenSeq(seqs))
         /\ Range(FlattenSeq(seqs)) = UNION {Range(seqs[k]) : k \in DOMAIN seqs}
<1> DEFINE Q == Seq(S)
           w == CHOOSE v : v = FlatStep(seqs, v)
           All(i) == UNION {Range(seqs[k]) : k \in 1..i}
           Good(i) == w[i] \in Q /\ IsInjective(w[i]) /\ Range(w[i]) = All(i)
<1> PICK l \in Nat : l = Len(seqs)
  OBVIOUS
<1>1. l = Len(seqs) /\ l # 0 /\ DOMAIN seqs = 1..l /\ \A k \in 1..l : seqs[k] \in Q
  OBVIOUS
<1>2. FlattenSeq(seqs) = w[l]
  BY <1>1, Zenon DEF FlattenSeq, FlatStep
<1>3. w = FlatStep(seqs, w)
  BY <1>1, FlatExists
<1>4. ASSUME NEW s \in Q, NEW t \in Q, IsInjective(s), IsInjective(t),
             Range(s) \cap Range(t) = {}
      PROVE  s \o t \in Q /\ IsInjective(s \o t) /\ Range(s \o t) = Range(s) \cup Range(t)
  <2>1. s \o t \in Q
    OBVIOUS
  <2> QED
    BY <1>4, <2>1, JoinOnce
<1> HIDE DEF Q, w
<1> DEFINE T == {m \in Nat : m + 1 <= l => Good(m + 1)}
<1>5. 0 \in T
  <2>1. w[1] = seqs[1]
    BY <1>1, <1>3 DEF FlatStep
  <2>2. All(1) = Range(seqs[1])
    OBVIOUS
  <2> QED
    BY <1>1, <2>1, <2>2
<1>6. ASSUME NEW m \in Nat, m \in T
      PROVE  m + 1 \in T
  <2> SUFFICES ASSUME m + 2 <= l
               PROVE  Good(m + 2)
    OBVIOUS
  <2> PICK i \in Nat : i = m + 2
    OBVIOUS
  <2>1. i \in 1..l /\ i # 1 /\ i - 1 = m + 1 /\ i - 1 \in 1..l
    OBVIOUS
  <2>2. w[i] = w[i - 1] \o seqs[i]
    BY <1>1, <1>3, <2>1 DEF FlatStep
  <2>3. Good(i - 1)
    BY <1>6, <2>1
  <2>4. All(i) = All(i - 1) \cup Range(seqs[i])
    <3>1. 1..i = (1..(i - 1)) \cup {i}
      BY <2>1
    <3> QED
      BY <3>1
  <2>5. All(i - 1) \cap Range(seqs[i]) = {}
    <3>1. \A k \in 1..(i - 1) : k \in 1..l /\ k # i
      BY <2>1
    <3>2. \A k \in 1..(i - 1) : Range(seqs[k]) \cap Range(seqs[i]) = {}
      BY <1>1, <2>1, <3>1
    <3> SUFFICES ASSUME NEW x \in All(i - 1)
                 PROVE  x \notin Range(seqs[i])
      OBVIOUS
    <3>3. PICK k \in 1..(i - 1) : x \in Range(seqs[k])
      OBVIOUS
    <3> QED
      BY <3>2, <3>3
  <2> HIDE DEF All
  <2>6. w[i - 1] \in Q /\ seqs[i] \in Q /\ IsInjective(w[i - 1]) /\ IsInjective(seqs[i])
    BY <1>1, <2>1, <2>3
  <2>7. Range(w[i - 1]) \cap Range(seqs[i]) = {}
    BY <2>3, <2>5
  <2>8. /\ w[i - 1] \o seqs[i] \in Q /\ IsInjective(w[i - 1] \o seqs[i])
        /\ Range(w[i - 1] \o seqs[i]) = Range(w[i - 1]) \cup Range(seqs[i])
    BY <1>4, <2>6, <2>7
  <2>9. Good(i)
    BY <2>2, <2>3, <2>4, <2>8
  <2> QED
    BY <2>9
<1>7. Nat \subseteq T
  <2> HIDE DEF T
  <2> QED
    BY <1>5, <1>6, SetInduction
<1>8. Good(l)
  <2>1. l - 1 \in Nat /\ (l - 1) + 1 = l
    BY <1>1
  <2> HIDE DEF Good
  <2>2. l - 1 \in T
    BY <1>7, <2>1
  <2> QED
    BY <2>1, <2>2
<1> QED
  BY <1>1, <1>2, <1>8

(* The options that ask for a list are those that set its field of Config.   *)
LEMMA ListFacts ==
  /\ DOMAIN Lists = 1..8
  /\ \A k \in DOMAIN Lists : /\ Lists[k][3] \in {"compile", "link", "location"}
                             /\ \A o : Lists[k][1] \in Sets(o) <=> o \in Asks(Lists[k][2])
  /\ \A j, k \in DOMAIN Lists : Lists[j][2] = Lists[k][2] => j = k
<1>1. PICK a, b, c, d, e, f, g, h :
          /\ a = "compile_flags" /\ b = "-I" /\ c = "-D" /\ d = "-L" /\ e = "other"
          /\ f = "location" /\ g = "link_libraries" /\ h = "-l"
  BY Zenon
<1>2. /\ a # b /\ a # c /\ a # d /\ a # e /\ a # f /\ a # g /\ a # h
      /\ b # c /\ b # d /\ b # e /\ b # f /\ b # g /\ b # h
      /\ c # d /\ c # e /\ c # f /\ c # g /\ c # h
      /\ d # e /\ d # f /\ d # g /\ d # h
      /\ e # f /\ e # g /\ e # h
      /\ f # g /\ f # h
      /\ g # h
  BY <1>1, Zenon
<1>3. /\ Lists[1][2] = a /\ Lists[2][2] = b /\ Lists[3][2] = c /\ Lists[4][2] = d
      /\ Lists[5][2] = e /\ Lists[6][2] = f /\ Lists[7][2] = g /\ Lists[8][2] = h
  BY <1>1, Zenon DEF Lists
<1>4. DOMAIN Lists = 1..8
  <2> PICK t, u, v, w, x, y, z, q : Lists = <<t, u, v, w, x, y, z, q>>
    BY Zenon DEF Lists
  <2> QED
    OBVIOUS
<1>5. \A k \in 1..8 : Lists[k][3] \in {"compile", "link", "location"}
  <2>1. /\ Lists[1][3] = "compile" /\ Lists[2][3] = "compile" /\ Lists[3][3] = "compile"
        /\ Lists[4][3] = "link" /\ Lists[5][3] = "link" /\ Lists[6][3] = "location"
        /\ Lists[7][3] = "link" /\ Lists[8][3] = "link"
    BY Zenon DEF Lists
  <2> QED
    BY <2>1
<1>6. \A j, k \in 1..8 : Lists[j][2] = Lists[k][2] => j = k
  <2> DEFINE kind == [k \in 1..8 |-> Lists[k][2]]
  <2>1. /\ kind[1] = a /\ kind[2] = b /\ kind[3] = c /\ kind[4] = d
        /\ kind[5] = e /\ kind[6] = f /\ kind[7] = g /\ kind[8] = h
    BY <1>3
  <2>2. \A k \in 1..8 : kind[k] = Lists[k][2]
    OBVIOUS
  <2> HIDE DEF kind
  <2>3. \A j, k \in 1..8 : kind[j] = kind[k] => j = k
    BY <1>2, <2>1
  <2> QED
    BY <2>2, <2>3
<1>7. ASSUME NEW k \in 1..8
      PROVE  \A o : Lists[k][1] \in Sets(o) <=> o \in Asks(Lists[k][2])
  <2>1. \A o : Lists[1][1] \in Sets(o) <=> o \in Asks(Lists[1][2])
    <3>1. Lists[1][1] = "cflags" /\ Asks(Lists[1][2]) = {"--cflags", "--cflags-only-other"}
      BY Zenon DEF Lists, Asks
    <3>2. \A o : "cflags" \in Sets(o) <=> o \in {"--cflags", "--cflags-only-other"}
      BY Zenon DEF Sets
    <3> QED
      BY <3>1, <3>2, Zenon
  <2>2. \A o : Lists[2][1] \in Sets(o) <=> o \in Asks(Lists[2][2])
    <3>1. Lists[2][1] = "includes" /\ Asks(Lists[2][2]) = {"--cflags", "--cflags-only-I"}
      BY Zenon DEF Lists, Asks
    <3>2. \A o : "includes" \in Sets(o) <=> o \in {"--cflags", "--cflags-only-I"}
      BY Zenon DEF Sets
    <3> QED
      BY <3>1, <3>2, Zenon
  <2>3. \A o : Lists[3][1] \in Sets(o) <=> o \in Asks(Lists[3][2])
    <3>1. Lists[3][1] = "defines" /\ Asks(Lists[3][2]) = {"--cflags", "--cflags-only-other"}
      BY Zenon DEF Lists, Asks
    <3>2. \A o : "defines" \in Sets(o) <=> o \in {"--cflags", "--cflags-only-other"}
      BY Zenon DEF Sets
    <3> QED
      BY <3>1, <3>2, Zenon
  <2>4. \A o : Lists[4][1] \in Sets(o) <=> o \in Asks(Lists[4][2])
    <3>1. Lists[4][1] = "libs_search" /\ Asks(Lists[4][2]) = {"--libs", "--libs-only-L"}
      BY Zenon DEF Lists, Asks
    <3>2. \A o : "libs_search" \in Sets(o) <=> o \in {"--libs", "--libs-only-L"}
      BY Zenon DEF Sets
    <3> QED
      BY <3>1, <3>2, Zenon
  <2>5. \A o : Lists[5][1] \in Sets(o) <=> o \in Asks(Lists[5][2])
    <3>1. Lists[5][1] = "libs_other" /\ Asks(Lists[5][2]) = {"--libs", "--libs-only-other"}
      BY Zenon DEF Lists, Asks
    <3>2. \A o : "libs_other" \in Sets(o) <=> o \in {"--libs", "--libs-only-other"}
      BY Zenon DEF Sets
    <3> QED
      BY <3>1, <3>2, Zenon
  <2>6. \A o : Lists[6][1] \in Sets(o) <=> o \in Asks(Lists[6][2])
    <3>1. Lists[6][1] = "libs_link" /\ Asks(Lists[6][2]) = {"--libs", "--libs-only-l"}
      BY Zenon DEF Lists, Asks
    <3>2. \A o : "libs_link" \in Sets(o) <=> o \in {"--libs", "--libs-only-l"}
      BY Zenon DEF Sets
    <3> QED
      BY <3>1, <3>2, Zenon
  <2>7. \A o : Lists[7][1] \in Sets(o) <=> o \in Asks(Lists[7][2])
    <3>1. Lists[7][1] = "libs_link" /\ Asks(Lists[7][2]) = {"--libs", "--libs-only-l"}
      BY Zenon DEF Lists, Asks
    <3>2. \A o : "libs_link" \in Sets(o) <=> o \in {"--libs", "--libs-only-l"}
      BY Zenon DEF Sets
    <3> QED
      BY <3>1, <3>2, Zenon
  <2>8. \A o : Lists[8][1] \in Sets(o) <=> o \in Asks(Lists[8][2])
    <3>1. Lists[8][1] = "libs_link" /\ Asks(Lists[8][2]) = {"--libs", "--libs-only-l"}
      BY Zenon DEF Lists, Asks
    <3>2. \A o : "libs_link" \in Sets(o) <=> o \in {"--libs", "--libs-only-l"}
      BY Zenon DEF Sets
    <3> QED
      BY <3>1, <3>2, Zenon
  <2>9. k = 1 \/ k = 2 \/ k = 3 \/ k = 4 \/ k = 5 \/ k = 6 \/ k = 7 \/ k = 8
    OBVIOUS
  <2> QED
    BY <2>1, <2>2, <2>3, <2>4, <2>5, <2>6, <2>7, <2>8, <2>9, Zenon
<1> QED
  BY <1>4, <1>5, <1>6, <1>7

-----------------------------------------------------------------------------
(* The graphs set_components is called with.                               *)
BuiltGraphs ==
  {g \in Seq([pkg : Package, depends : Seq(Nat)]) :
     /\ g \in Seq([pkg : Package, depends : Seq(DOMAIN g)])
     /\ Len(g) >= 1 /\ IsBuilt(g, 1)}

(* The depends vectors tsort meets, those below the root, and the graphs     *)
(* they can form.                                                          *)
DependsBelow(t) == [n \in NodeIds |-> IF n \in Below(t, 1) THEN t[n].depends ELSE <<>>]

AcyclicGraphs == {g \in [NodeIds -> Seq(NodeIds)] : Sort!Acyclic(g)}

(* The components, with what is proved of them.                            *)
BuildP == INSTANCE BuildGraphProofs WITH outcome <- building

SelectP == INSTANCE SetComponentsProofs
             WITH Graphs <- BuiltGraphs, request <- request.req.components,
                  outcome <- selection

SortP == INSTANCE TopologicalSortProofs
           WITH Node <- NodeIds, Root <- 1, Graphs <- AcyclicGraphs,
                depends <- DependsBelow(nodes), calls <- dfs


-----------------------------------------------------------------------------
(* The definitions of a component are those of find_package, whichever       *)
(* instance they are read through: the sets of packages first.              *)
LEMMA SameSets ==
  /\ BuildP!Package = Package /\ SelectP!Package = Package
  /\ BuildP!File = File /\ BuildP!RootDemand = RootDemand
<1>1. BuildP!Package = Package
  BY Zenon
    DEF Package, BuildP!Package, Component, BuildP!Component, Requirement,
      BuildP!Requirement, Dependency, BuildP!Dependency, Map, BuildP!Map, Optional,
      BuildP!Optional, Version, BuildP!Version, Segment, BuildP!Segment, Part,
      BuildP!Part, Schemas, BuildP!Schemas, Invalid, BuildP!Invalid
<1>2. SelectP!Package = Package
  BY Zenon
    DEF Package, SelectP!Package, Component, SelectP!Component, Requirement,
      SelectP!Requirement, Dependency, SelectP!Dependency, Map, SelectP!Map, Optional,
      SelectP!Optional, Version, SelectP!Version, Segment, SelectP!Segment, Part,
      SelectP!Part, Schemas, SelectP!Schemas, Invalid, SelectP!Invalid
<1>3. BuildP!RootDemand = RootDemand
  BY Zenon
    DEF RootDemand, BuildP!RootDemand, Demand, BuildP!Demand, Requirement,
      BuildP!Requirement, Optional, BuildP!Optional
<1> QED
  BY <1>1, <1>2, <1>3 DEF File, BuildP!File

LEMMA SameMeets ==
  ASSUME NEW p, NEW req
  PROVE  /\ Build!Meets(p, req) <=> BuildP!Meets(p, req)
         /\ Build!VersionThrows(p, req) <=> BuildP!VersionThrows(p, req)
         /\ Meets(p, req) <=> BuildP!Meets(p, req)
         /\ VersionThrows(p, req) <=> BuildP!VersionThrows(p, req)
<1>1. ASSUME NEW l, NEW r, NEW s
      PROVE  /\ Build!compare(l, "lt", r, s) = BuildP!compare(l, "lt", r, s)
             /\ compare(l, "lt", r, s) = BuildP!compare(l, "lt", r, s)
  <2>1. Build!compare(l, "lt", r, s) = BuildP!compare(l, "lt", r, s)
    BY Zenon
        DEF Build!compare, BuildP!compare, Build!simple_compare, BuildP!simple_compare,
        Build!compare_rest, BuildP!compare_rest, Build!compare_numbers,
        BuildP!compare_numbers, Build!compare_value, BuildP!compare_value,
        Build!Settled, BuildP!Settled, Build!Settles, BuildP!Settles, Build!Verdict,
        BuildP!Verdict, Build!IsNumeric, BuildP!IsNumeric, Build!IsSplit,
        BuildP!IsSplit, Build!Longest, BuildP!Longest, Build!At, BuildP!At,
        Build!NonStrict, BuildP!NonStrict, Build!Invalid, BuildP!Invalid
  <2>2. compare(l, "lt", r, s) = BuildP!compare(l, "lt", r, s)
    BY Zenon
        DEF compare, BuildP!compare, simple_compare, BuildP!simple_compare, compare_rest,
        BuildP!compare_rest, compare_numbers, BuildP!compare_numbers, compare_value,
        BuildP!compare_value, Settled, BuildP!Settled, Settles, BuildP!Settles, Verdict,
        BuildP!Verdict, IsNumeric, BuildP!IsNumeric, IsSplit, BuildP!IsSplit, Longest,
        BuildP!Longest, At, BuildP!At, NonStrict, BuildP!NonStrict, Invalid,
        BuildP!Invalid
  <2> QED
    BY <2>1, <2>2
<1>2. /\ Build!VersionThrows(p, req) <=> BuildP!VersionThrows(p, req)
      /\ VersionThrows(p, req) <=> BuildP!VersionThrows(p, req)
  BY DEF Build!VersionThrows, BuildP!VersionThrows, VersionThrows, Build!HasVersion,
         BuildP!HasVersion, HasVersion
<1>3. /\ Build!ProvidedVersion(p) = BuildP!ProvidedVersion(p)
      /\ ProvidedVersion(p) = BuildP!ProvidedVersion(p)
  BY DEF Build!ProvidedVersion, BuildP!ProvidedVersion, ProvidedVersion
<1>4. /\ Build!VersionMeets(p, req) <=> BuildP!VersionMeets(p, req)
      /\ VersionMeets(p, req) <=> BuildP!VersionMeets(p, req)
  BY <1>1, <1>3 DEF Build!VersionMeets, BuildP!VersionMeets, VersionMeets,
                    Build!HasVersion, BuildP!HasVersion, HasVersion
<1>5. /\ Build!HasComponents(p, req) <=> BuildP!HasComponents(p, req)
      /\ HasComponents(p, req) <=> BuildP!HasComponents(p, req)
  BY DEF Build!HasComponents, BuildP!HasComponents, HasComponents, Build!Keys,
         BuildP!Keys, Keys
<1> QED
  BY <1>2, <1>4, <1>5 DEF Build!Meets, BuildP!Meets, Meets

(* What is below a node, and what a built graph is.                        *)
LEMMA SameGraphs ==
  ASSUME NEW ns, NEW r
  PROVE  /\ BuildP!Below(ns, r) = Below(ns, r) /\ SelectP!Below(ns, r) = Below(ns, r)
         /\ BuildP!Children(ns, r) = Children(ns, r)
         /\ SelectP!Children(ns, r) = Children(ns, r)
         /\ BuildP!IsBuilt(ns, r) <=> IsBuilt(ns, r)
         /\ SelectP!IsBuilt(ns, r) <=> IsBuilt(ns, r)
<1>1. BuildP!Below(ns, r) = Below(ns, r) /\ BuildP!Children(ns, r) = Children(ns, r)
  BY Zenon
    DEF BuildP!Below, Below, BuildP!Children, Children, BuildP!Range, Range
<1>2. SelectP!Below(ns, r) = Below(ns, r) /\ SelectP!Children(ns, r) = Children(ns, r)
  BY Zenon
    DEF SelectP!Below, Below, SelectP!Children, Children, SelectP!Range, Range
<1>3. BuildP!IsTree(ns, r) <=> IsTree(ns, r)
  BY <1>1, Zenon
    DEF BuildP!IsTree, IsTree, BuildP!Edges, Edges
<1>4. SelectP!IsTree(ns, r) <=> IsTree(ns, r)
  BY <1>2, Zenon
    DEF SelectP!IsTree, IsTree, SelectP!Edges, Edges
<1>5. ASSUME NEW n
      PROVE  BuildP!MeetsRequires(ns, n) <=> MeetsRequires(ns, n)
  BY Zenon
    DEF BuildP!MeetsRequires, MeetsRequires, BuildP!Keys, Keys, BuildP!Bijection,
      Bijection, BuildP!Injection, Injection, BuildP!Surjection, Surjection,
      BuildP!IsInjective, IsInjective, BuildP!Meets, Meets, BuildP!VersionThrows,
      VersionThrows, BuildP!VersionMeets, VersionMeets, BuildP!HasComponents,
      HasComponents, BuildP!HasVersion, HasVersion, BuildP!ProvidedVersion,
      ProvidedVersion, BuildP!compare, compare, BuildP!simple_compare, simple_compare,
      BuildP!compare_rest, compare_rest, BuildP!compare_numbers, compare_numbers,
      BuildP!compare_value, compare_value, BuildP!Settled, Settled, BuildP!Settles,
      Settles, BuildP!Verdict, Verdict, BuildP!IsNumeric, IsNumeric, BuildP!IsSplit,
      IsSplit, BuildP!Longest, Longest, BuildP!At, At, BuildP!NonStrict, NonStrict,
      BuildP!Invalid, Invalid
<1>6. ASSUME NEW n
      PROVE  SelectP!MeetsRequires(ns, n) <=> MeetsRequires(ns, n)
  BY Zenon
    DEF SelectP!MeetsRequires, MeetsRequires, SelectP!Keys, Keys, SelectP!Bijection,
      Bijection, SelectP!Injection, Injection, SelectP!Surjection, Surjection,
      SelectP!IsInjective, IsInjective, SelectP!Meets, Meets, SelectP!VersionThrows,
      VersionThrows, SelectP!VersionMeets, VersionMeets, SelectP!HasComponents,
      HasComponents, SelectP!HasVersion, HasVersion, SelectP!ProvidedVersion,
      ProvidedVersion, SelectP!compare, compare, SelectP!simple_compare, simple_compare,
      SelectP!compare_rest, compare_rest, SelectP!compare_numbers, compare_numbers,
      SelectP!compare_value, compare_value, SelectP!Settled, Settled, SelectP!Settles,
      Settles, SelectP!Verdict, Verdict, SelectP!IsNumeric, IsNumeric, SelectP!IsSplit,
      IsSplit, SelectP!Longest, Longest, SelectP!At, At, SelectP!NonStrict, NonStrict,
      SelectP!Invalid, Invalid
<1> QED
  BY <1>1, <1>2, <1>3, <1>4, <1>5, <1>6, Zenon DEF BuildP!IsBuilt, SelectP!IsBuilt, IsBuilt

-----------------------------------------------------------------------------
(* The assumptions of the components hold of what they are called with.     *)
LEMMA BuildAssumptions == BuildP!DemandsAssumption /\ BuildP!PackagesAssumption
<1>1. BuildP!Version = Version /\ BuildP!Component = Component
  BY Zenon
    DEF Component, BuildP!Component, Dependency, BuildP!Dependency, Version,
      BuildP!Version, Segment, BuildP!Segment, Part, BuildP!Part, Invalid,
      BuildP!Invalid
<1>2. BuildP!Requirement = Requirement
  BY Zenon
    DEF Requirement, BuildP!Requirement, Optional, BuildP!Optional
<1> QED
  BY <1>1, <1>2, SameSets, DemandsAssumption, PackagesAssumption
  DEF BuildP!DemandsAssumption, BuildP!PackagesAssumption, DemandsAssumption,
      PackagesAssumption

LEMMA SelectAssumptions == SelectP!GraphsAssumption /\ SelectP!PackagesAssumption
<1>1. SelectP!Version = Version /\ SelectP!Component = Component
  BY Zenon
    DEF Component, SelectP!Component, Dependency, SelectP!Dependency, Version,
      SelectP!Version, Segment, SelectP!Segment, Part, SelectP!Part, Invalid,
      SelectP!Invalid
<1>2. SelectP!Requirement = Requirement
  BY Zenon
    DEF Requirement, SelectP!Requirement, Optional, SelectP!Optional
<1>3. SelectP!PackagesAssumption
  BY <1>1, <1>2, SameSets, PackagesAssumption
  DEF SelectP!PackagesAssumption, PackagesAssumption
<1>4. SelectP!GraphsAssumption
  BY SameSets, SameGraphs, FindAssumption
  DEF SelectP!GraphsAssumption, FindAssumption, BuiltGraphs, SelectP!IsFiniteSet, IsFiniteSet
<1> QED
  BY <1>3, <1>4

LEMMA SortAssumptions == SortP!SortAssumption
<1>1. ASSUME NEW g
      PROVE  SortP!Acyclic(g) <=> Sort!Acyclic(g)
  BY DEF SortP!Acyclic, Sort!Acyclic, SortP!Range, Sort!Range
<1>2. 1 \in NodeIds
  BY FindAssumption DEF FindAssumption, NodeIds
<1> QED
  BY <1>1, <1>2 DEF SortP!SortAssumption, AcyclicGraphs

-----------------------------------------------------------------------------
(* Their steps are the steps the proofs are about.                          *)
LEMMA SameSearch == Build!Next => BuildP!Next
<1>1. /\ Build!Top = BuildP!Top /\ Build!Parent = BuildP!Parent
      /\ Build!Trying <=> BuildP!Trying
      /\ Build!Exhausted <=> BuildP!Exhausted
      /\ Build!Expanding <=> BuildP!Expanding
  BY Zenon
  DEF Build!Top, BuildP!Top, Build!Parent, BuildP!Parent, Build!Running, BuildP!Running,
      Build!Trying, BuildP!Trying, Build!Exhausted, BuildP!Exhausted, Build!Expanding,
      BuildP!Expanding
<1>2. /\ \A f : Build!SetTop(f) = BuildP!SetTop(f) /\ Build!NextPath(f) = BuildP!NextPath(f)
      /\ \A f : Build!PopInto(f) = BuildP!PopInto(f)
      /\ \A f, g : Build!CacheAfterReturn(f, g) = BuildP!CacheAfterReturn(f, g)
      /\ \A n, req, cache : Build!Call(n, req, cache) = BuildP!Call(n, req, cache)
      /\ \A m : Build!Keys(m) = BuildP!Keys(m)
  BY Zenon
  DEF Build!SetTop, BuildP!SetTop, Build!NextPath, BuildP!NextPath, Build!PopInto,
      BuildP!PopInto, Build!Rest, BuildP!Rest, Build!CacheAfterReturn,
      BuildP!CacheAfterReturn, Build!Call, BuildP!Call, Build!Keys, BuildP!Keys
<1>3. /\ (Build!Hit <=> BuildP!Hit) /\ Build!FileAtPath = BuildP!FileAtPath
      /\ Build!Got = BuildP!Got /\ Build!Heap = BuildP!Heap
  BY <1>1, Zenon
  DEF Build!Hit, BuildP!Hit, Build!FileAtPath, BuildP!FileAtPath, Build!Got, BuildP!Got,
      Build!Heap, BuildP!Heap
<1>4. /\ Build!Loads <=> BuildP!Loads
      /\ Build!Cache = BuildP!Cache /\ Build!GotPackage = BuildP!GotPackage
  BY <1>1, <1>3, Zenon
  DEF Build!Loads, BuildP!Loads, Build!Cache, BuildP!Cache, Build!GotPackage,
      BuildP!GotPackage
<1>5. Build!LoadFails => BuildP!LoadFails
  BY <1>1, <1>2, <1>3, Zenon DEF Build!LoadFails, BuildP!LoadFails
<1>6. Build!LoadThrows => BuildP!LoadThrows
  BY <1>1, <1>3, Zenon DEF Build!LoadThrows, BuildP!LoadThrows
<1>7. Build!ComparisonThrows => BuildP!ComparisonThrows
  BY <1>1, <1>4, SameMeets, Zenon DEF Build!ComparisonThrows, BuildP!ComparisonThrows
<1>8. Build!Reject => BuildP!Reject
  BY <1>1, <1>2, <1>3, <1>4, SameMeets, Zenon DEF Build!Reject, BuildP!Reject
<1>9. Build!Accept => BuildP!Accept
  BY <1>1, <1>2, <1>3, <1>4, SameMeets, Zenon DEF Build!Accept, BuildP!Accept
<1>10. Build!StackOverflow => BuildP!StackOverflow
  BY <1>1, Zenon DEF Build!StackOverflow, BuildP!StackOverflow
<1>11. Build!ReturnNode => BuildP!ReturnNode
  BY <1>1, <1>2, Zenon DEF Build!ReturnNode, BuildP!ReturnNode
<1>12. Build!ReturnError => BuildP!ReturnError
  BY <1>1, <1>2, Zenon DEF Build!ReturnError, BuildP!ReturnError
<1>13. \A n \in Names : Build!Descend(n) => BuildP!Descend(n)
  BY <1>1, <1>2, Zenon DEF Build!Descend, BuildP!Descend
<1> QED
  BY <1>5, <1>6, <1>7, <1>8, <1>9, <1>10, <1>11, <1>12, <1>13 DEF Build!Next, BuildP!Next

LEMMA SameSelection == Select!Next => SelectP!Next
<1>1. \A p, c : /\ Select!Require(p, c) = SelectP!Require(p, c)
               /\ Select!LinkRequire(p, c) = SelectP!LinkRequire(p, c)
               /\ Select!SelfRequires(p, c) = SelectP!SelfRequires(p, c)
  BY Zenon
  DEF Select!Require, SelectP!Require, Select!LinkRequire, SelectP!LinkRequire,
      Select!process_requires, SelectP!process_requires, Select!SelfRequires,
      SelectP!SelfRequires, Select!Defaults, SelectP!Defaults, Select!Keys, SelectP!Keys
<1>2. /\ \A call : Select!Listed(call) = SelectP!Listed(call)
      /\ \A call : Select!Closure(call) = SelectP!Closure(call)
  BY Zenon
  DEF Select!Listed, SelectP!Listed, Select!Defaults, SelectP!Defaults, Select!Closure,
      SelectP!Closure, Select!SelfClosure, SelectP!SelfClosure, Select!SelfRequires,
      SelectP!SelfRequires, Select!Require, SelectP!Require, Select!process_requires,
      SelectP!process_requires, Select!Keys, SelectP!Keys, Select!Cardinality,
      SelectP!Cardinality, Select!IsFiniteSet, SelectP!IsFiniteSet
<1>3. \A call : /\ Select!AtThrows(call) <=> SelectP!AtThrows(call)
                /\ Select!UpdatedComponents(call) = SelectP!UpdatedComponents(call)
  BY <1>1, <1>2, Zenon
  DEF Select!AtThrows, SelectP!AtThrows, Select!UpdatedComponents,
      SelectP!UpdatedComponents, Select!Update, SelectP!Update, Select!Touched,
      SelectP!Touched, Select!Keys, SelectP!Keys
<1>4. \A n, c, link : Select!ComponentCalls(n, c, link) = SelectP!ComponentCalls(n, c, link)
  <2>1. \A n, required, link :
          Select!ChildCalls(n, required, link) = SelectP!ChildCalls(n, required, link)
    BY Zenon
    DEF Select!ChildCalls, SelectP!ChildCalls, Select!Call, SelectP!Call
  <2> QED
    BY <1>1, <2>1, Zenon DEF Select!ComponentCalls, SelectP!ComponentCalls
<1>5. /\ Select!Running <=> SelectP!Running
      /\ Select!Top = SelectP!Top
      /\ \A s : Select!Front(s) = SelectP!Front(s)
      /\ \A S : Select!Keys(S) = SelectP!Keys(S)
  BY Zenon
  DEF Select!Running, SelectP!Running, Select!Top, SelectP!Top, Select!Last,
      SelectP!Last, Select!Front, SelectP!Front, Select!Keys, SelectP!Keys
<1>6. /\ Select!InLoop <=> SelectP!InLoop
      /\ Select!InCalls <=> SelectP!InCalls
      /\ Select!Calling <=> SelectP!Calling
      /\ Select!NextCall = SelectP!NextCall
      /\ Select!Callers = SelectP!Callers
  BY <1>5, Zenon
  DEF Select!InLoop, SelectP!InLoop, Select!InCalls, SelectP!InCalls, Select!Calling,
      SelectP!Calling, Select!NextCall, SelectP!NextCall, Select!Call, SelectP!Call,
      Select!Callers, SelectP!Callers
<1>7. Select!Enter => SelectP!Enter
  BY <1>3, <1>5, <1>6, Zenon
  DEF Select!Enter, SelectP!Enter
<1>8. Select!Throw => SelectP!Throw
  BY <1>3, <1>5, <1>6, Zenon
  DEF Select!Throw, SelectP!Throw
<1>9. Select!EndComponent => SelectP!EndComponent
  BY <1>3, <1>5, <1>6, Zenon
  DEF Select!EndComponent, SelectP!EndComponent, Select!DependsAfter,
      SelectP!DependsAfter
<1>10. Select!Return => SelectP!Return
  BY <1>3, <1>5, <1>6, Zenon
  DEF Select!Return, SelectP!Return
<1>11. \A c \in Comps : Select!BeginComponent(c) => SelectP!BeginComponent(c)
  BY <1>4, <1>5, <1>6, Zenon
  DEF Select!BeginComponent, SelectP!BeginComponent
<1> QED
  BY <1>7, <1>8, <1>9, <1>10, <1>11 DEF Select!Next, SelectP!Next

-----------------------------------------------------------------------------
(* What the graph is, as it was built.                                     *)
LEMMA BuiltFacts ==
  ASSUME NEW g \in BuiltGraphs
  PROVE  /\ g \in Seq([pkg : Package, depends : Seq(DOMAIN g)])
         /\ Len(g) \in Nat \ {0} /\ DOMAIN g = 1..Len(g) /\ 1 \in DOMAIN g
         /\ \A n \in DOMAIN g : /\ g[n].pkg \in Package /\ g[n].depends \in Seq(DOMAIN g)
                                /\ Children(g, n) \subseteq DOMAIN g
         /\ 1 \in Below(g, 1) /\ Below(g, 1) \subseteq DOMAIN g
         /\ \A n \in Below(g, 1) : Children(g, n) \subseteq Below(g, 1)
         /\ \A m, n \in Below(g, 1) : \A k \in Children(g, m) :
              k # 1 /\ (k \in Children(g, n) => m = n)
<1>1. g \in Seq([pkg : Package, depends : Seq(DOMAIN g)]) /\ Len(g) >= 1
  BY DEF BuiltGraphs
<1>2. Len(g) \in Nat \ {0} /\ DOMAIN g = 1..Len(g) /\ 1 \in DOMAIN g
  BY <1>1
<1>3. ASSUME NEW n \in DOMAIN g
      PROVE  /\ g[n].pkg \in Package /\ g[n].depends \in Seq(DOMAIN g)
             /\ Children(g, n) \subseteq DOMAIN g
  <2>1. g[n] \in [pkg : Package, depends : Seq(DOMAIN g)]
    BY <1>1, <1>2, ElementOfSeq
  <2>2. g[n].pkg \in Package /\ g[n].depends \in Seq(DOMAIN g)
    BY <2>1
  <2> QED
    BY <2>2 DEF Children, Range
<1>4. /\ 1 \in Below(g, 1) /\ Below(g, 1) \subseteq DOMAIN g
      /\ \A n \in Below(g, 1) : Children(g, n) \subseteq Below(g, 1)
  BY SelectAssumptions, SelectP!BelowClosed, SameGraphs
<1>5. \A m, n \in Below(g, 1) : \A k \in Children(g, m) :
        k # 1 /\ (k \in Children(g, n) => m = n)
  BY SelectAssumptions, SelectP!OneParent, SameGraphs
<1> QED
  BY <1>1, <1>2, <1>3, <1>4, <1>5

(* A graph that is a built one with children taken away.                    *)
Trimmed(g, t) ==
  /\ g \in BuiltGraphs
  /\ t \in [DOMAIN g -> [pkg : Package, depends : Seq(DOMAIN g)]]
  /\ \A n \in DOMAIN g : t[n].pkg = g[n].pkg /\ Children(t, n) \subseteq Children(g, n)

LEMMA TrimmedFacts ==
  ASSUME NEW g, NEW t, Trimmed(g, t)
  PROVE  /\ Len(t) = Len(g) /\ Len(t) \in Nat /\ DOMAIN t = DOMAIN g
         /\ \A n \in DOMAIN t : t[n].depends \in Seq(DOMAIN t)
         /\ 1 \in Below(t, 1) /\ Below(t, 1) \subseteq Below(g, 1)
         /\ \A n \in Below(t, 1) : Children(t, n) \subseteq Below(t, 1)
<1>1. PICK l : l = Len(g) /\ l \in Nat /\ DOMAIN g = 1..l /\ 1 \in DOMAIN g
  BY BuiltFacts DEF Trimmed
<1>2. PICK P : P = [pkg : Package, depends : Seq(DOMAIN g)]
  OBVIOUS
<1>3. t \in [1..l -> P]
  BY <1>1, <1>2 DEF Trimmed
<1>4. t \in Seq(P) /\ Len(t) = l
  BY <1>1, <1>3
<1>5. ASSUME NEW n \in DOMAIN t
      PROVE  t[n].depends \in Seq(DOMAIN t) /\ Children(t, n) \subseteq DOMAIN t
  <2>1. t[n] \in P
    BY <1>3
  <2>2. t[n].depends \in Seq(DOMAIN t)
    BY <1>1, <1>2, <1>3, <2>1
  <2> QED
    BY <2>2 DEF Children, Range
<1>6. DOMAIN t = 1..Len(t) /\ Len(t) \in Nat /\ 1 \in DOMAIN t /\ DOMAIN t = DOMAIN g
  BY <1>1, <1>3, <1>4
<1>7. /\ 1 \in Below(t, 1) /\ Below(t, 1) \subseteq DOMAIN t
      /\ \A n \in Below(t, 1) : Children(t, n) \subseteq Below(t, 1)
  <2>1. \A n \in DOMAIN t : SelectP!Children(t, n) \subseteq DOMAIN t
    BY <1>5, SameGraphs
  <2> QED
    BY <1>6, <2>1, SelectAssumptions, SelectP!BelowCloses, SameGraphs
<1>8. Below(t, 1) \subseteq Below(g, 1)
  <2>1. 1 \in Below(g, 1) /\ Below(g, 1) \subseteq DOMAIN g
    BY BuiltFacts DEF Trimmed
  <2>2. \A n \in Below(g, 1) : BuildP!Children(t, n) \subseteq Below(g, 1)
    <3>1. \A n \in Below(g, 1) : Children(t, n) \subseteq Below(g, 1)
      BY BuiltFacts DEF Trimmed
    <3> QED
      BY <3>1, SameGraphs
  <2>3. BuildP!Below(t, 1) \subseteq Below(g, 1)
    BY <1>6, <2>1, <2>2, BuildAssumptions, BuildP!BelowLeast
  <2> QED
    BY <2>3, SameGraphs
<1> QED
  BY <1>1, <1>4, <1>5, <1>6, <1>7, <1>8

(* The part of it below the root, as tsort meets it.                        *)
LEMMA DependsFacts ==
  ASSUME NEW g, NEW t, Trimmed(g, t), Len(g) <= NodeLimit
  PROVE  /\ DOMAIN g \subseteq NodeIds
         /\ DependsBelow(t) \in [NodeIds -> Seq(NodeIds)]
         /\ \A n \in NodeIds : Range(DependsBelow(t)[n]) =
              IF n \in Below(t, 1) THEN Children(t, n) ELSE {}
         /\ \A n \in Below(t, 1) : DependsBelow(t)[n] = t[n].depends
<1> DEFINE D == DependsBelow(t)
<1>1. /\ DOMAIN t = DOMAIN g /\ Below(t, 1) \subseteq DOMAIN g
      /\ \A n \in DOMAIN t : t[n].depends \in Seq(DOMAIN t)
  BY BuiltFacts, TrimmedFacts DEF Trimmed
<1>2. DOMAIN g \subseteq NodeIds
  <2>1. PICK l : l = Len(g)
    OBVIOUS
  <2>2. DOMAIN g = 1..l /\ l \in Nat /\ l <= NodeLimit /\ NodeLimit \in Nat
    BY <2>1, BuiltFacts, FindAssumption DEF Trimmed, FindAssumption
  <2> QED
    BY <2>2 DEF NodeIds
<1>3. ASSUME NEW n \in NodeIds
      PROVE  /\ D[n] \in Seq(NodeIds)
             /\ Range(D[n]) = IF n \in Below(t, 1) THEN Children(t, n) ELSE {}
             /\ n \in Below(t, 1) => D[n] = t[n].depends
  <2>1. CASE n \in Below(t, 1)
    <3>1. D[n] = t[n].depends /\ D[n] \in Seq(DOMAIN t)
      BY <1>1, <2>1 DEF DependsBelow
    <3>2. D[n] \in Seq(NodeIds)
      <4> HIDE DEF D
      <4> QED
        BY <1>1, <1>2, <3>1, SeqMonotonic
    <3> QED
      BY <2>1, <3>1, <3>2 DEF Children
  <2>2. CASE n \notin Below(t, 1)
    BY <2>2 DEF DependsBelow, Range
  <2> QED
    BY <2>1, <2>2
<1>4. D \in [NodeIds -> Seq(NodeIds)]
  BY <1>3 DEF DependsBelow
<1> QED
  BY <1>1, <1>2, <1>3, <1>4

(* It has no cycles: in a set of nodes each of which has a child in the set, *)
(* each would be the child of one, so that what is below the root without   *)
(* the set would have the root and the children of what it has.             *)
LEMMA NoCycles ==
  ASSUME NEW g, NEW t, Trimmed(g, t), Len(g) <= NodeLimit
  PROVE  DependsBelow(t) \in AcyclicGraphs
<1> DEFINE D == DependsBelow(t)
<1>1. /\ DOMAIN t = DOMAIN g /\ Below(t, 1) \subseteq Below(g, 1) /\ Below(g, 1) \subseteq DOMAIN g
      /\ \A n \in Below(t, 1) : Children(t, n) \subseteq Below(t, 1)
      /\ \A n \in DOMAIN t : t[n].depends \in Seq(DOMAIN t)
      /\ 1 \in Below(g, 1) /\ \A n \in Below(g, 1) : Children(g, n) \subseteq Below(g, 1)
      /\ \A m, n \in Below(g, 1) : \A k \in Children(g, m) :
           k # 1 /\ (k \in Children(g, n) => m = n)
  BY BuiltFacts, TrimmedFacts DEF Trimmed
<1>3. \A n \in NodeIds :
        Range(D[n]) = IF n \in Below(t, 1) THEN Children(t, n) ELSE {}
  BY DependsFacts
<1>4. D \in [NodeIds -> Seq(NodeIds)]
  BY DependsFacts
<1> HIDE DEF D
<1>5. SUFFICES ASSUME NEW S \in SUBSET NodeIds, S # {},
                      \A n \in S : Range(D[n]) \cap S # {}
               PROVE  FALSE
  <2>1. \A n : Sort!Range(D[n]) = Range(D[n])
    BY DEF Sort!Range, Range
  <2>2. Sort!Acyclic(D)
    BY <1>5, <2>1 DEF Sort!Acyclic
  <2> QED
    BY <1>4, <2>2 DEF AcyclicGraphs, D
<1>6. S \subseteq Below(t, 1)
  BY <1>3, <1>5
<1>7. \A n \in S : \E k \in S : k \in Children(g, n)
  <2>1. \A n \in S : Children(t, n) \subseteq Children(g, n)
    BY <1>1, <1>6 DEF Trimmed
  <2> QED
    BY <1>3, <1>5, <1>6, <2>1
<1> DEFINE child == [n \in S |-> CHOOSE k \in S : k \in Children(g, n)]
<1>8. child \in [S -> S] /\ \A n \in S : child[n] \in Children(g, n)
  BY <1>7
<1> HIDE DEF child
<1>9. child \in Injection(S, S)
  BY <1>1, <1>6, <1>8 DEF Injection, IsInjective
<1>10. IsFiniteSet(S)
  <2>1. IsFiniteSet(NodeIds)
    BY FindAssumption, FS_Interval DEF FindAssumption, NodeIds
  <2> QED
    BY <2>1, FS_Subset
<1>11. child \in Surjection(S, S)
  BY <1>9, <1>10, FS_Injection
<1>12. \A k \in S : \E n \in S : k \in Children(g, n)
  BY <1>8, <1>11 DEF Surjection
<1> DEFINE G == Below(g, 1) \ S
<1>13. 1 \in G
  BY <1>1, <1>6, <1>12
<1>14. \A n \in G : Children(g, n) \subseteq G
  BY <1>1, <1>6, <1>12
<1>15. Below(g, 1) \subseteq G
  <2> HIDE DEF G
  <2>1. \A n \in G : BuildP!Children(g, n) \subseteq G
    BY <1>14, SameGraphs
  <2>2. Len(g) \in Nat
    BY BuiltFacts DEF Trimmed
  <2>3. BuildP!Below(g, 1) \subseteq G
    BY <1>13, <2>1, <2>2, BuildAssumptions, BuildP!BelowLeast
  <2> QED
    BY <2>3, SameGraphs
<1> QED
  BY <1>1, <1>5, <1>6, <1>15

-----------------------------------------------------------------------------
(* dfs is called for nothing but what is below the root, where the depends   *)
(* vectors are those of the graph.                                         *)
LEMMA ReachesBelow ==
  ASSUME Trimmed(graph, nodes), Len(graph) <= NodeLimit
  PROVE  SortP!Within(Below(nodes, 1)) /\ Below(nodes, 1) \in SUBSET NodeIds
<1>1. /\ 1 \in Below(nodes, 1) /\ Below(nodes, 1) \subseteq NodeIds
      /\ \A n \in Below(nodes, 1) : Children(nodes, n) \subseteq Below(nodes, 1)
  <2>1. /\ 1 \in Below(nodes, 1) /\ Below(nodes, 1) \subseteq Below(graph, 1)
        /\ \A n \in Below(nodes, 1) : Children(nodes, n) \subseteq Below(nodes, 1)
    BY TrimmedFacts
  <2>2. Below(graph, 1) \subseteq DOMAIN graph
    BY BuiltFacts DEF Trimmed
  <2>3. DOMAIN graph \subseteq NodeIds
    BY DependsFacts
  <2> QED
    BY <2>1, <2>2, <2>3
<1>2. \A n \in Below(nodes, 1) : Range(DependsBelow(nodes)[n]) \subseteq Below(nodes, 1)
  BY <1>1, DependsFacts
<1> QED
  BY <1>1, <1>2 DEF SortP!Within, SortP!Range, Range

LEMMA SameSort ==
  ASSUME Trimmed(graph, nodes), Len(graph) <= NodeLimit, SortP!IInv, Sort!Next, nodes' = nodes
  PROVE  SortP!Next
<1>1. DependsBelow(nodes)' = DependsBelow(nodes)
  OBVIOUS
<1>2. Sort!Begin => SortP!Begin
  BY <1>1 DEF Sort!Begin, SortP!Begin
<1>3. ASSUME dfs # <<>>
      PROVE  Depends[dfs[Len(dfs)].node] = DependsBelow(nodes)[dfs[Len(dfs)].node]
  <2>1. PICK n : n = dfs[Len(dfs)].node
    OBVIOUS
  <2>2. SortP!TypeOK /\ visited \subseteq Below(nodes, 1)
    BY ReachesBelow DEF SortP!IInv, SortP!VisitsReachable
  <2>3. Len(dfs) \in DOMAIN dfs
    BY <1>3, <2>2 DEF SortP!TypeOK
  <2>4. n \in visited
    BY <2>1, <2>2, <2>3 DEF SortP!TypeOK, SortP!Range
  <2>5. n \in Below(nodes, 1) /\ n \in DOMAIN nodes /\ n \in NodeIds
    BY <2>2, <2>4, BuiltFacts, TrimmedFacts, DependsFacts DEF Trimmed
  <2>6. Depends[n] = nodes[n].depends
    BY <2>5 DEF Depends
  <2> QED
    BY <2>1, <2>5, <2>6, DependsFacts
<1>4. Sort!Visit => SortP!Visit
  BY <1>1, <1>3 DEF Sort!Visit, SortP!Visit, Sort!InLoop, SortP!InLoop, Sort!Top, SortP!Top,
     Sort!Child, SortP!Child, Sort!Advanced, SortP!Advanced
<1>5. Sort!Skip => SortP!Skip
  BY <1>1, <1>3 DEF Sort!Skip, SortP!Skip, Sort!InLoop, SortP!InLoop, Sort!Top, SortP!Top,
     Sort!Child, SortP!Child, Sort!Advanced, SortP!Advanced
<1>6. Sort!Finish => SortP!Finish
  BY <1>1, <1>3 DEF Sort!Finish, SortP!Finish, Sort!InLoop, SortP!InLoop, Sort!Top, SortP!Top,
     Sort!Below, SortP!Below
<1> QED
  BY <1>2, <1>4, <1>5, <1>6 DEF Sort!Next, SortP!Next

-----------------------------------------------------------------------------
(* What find_package has made sure of, phase by phase.  In each of them the   *)
(* invariant of a component holds, or the component is about to start.      *)
BuildOK == BuildP!IInv /\ BuildP!GInv /\ BuildP!AnswerInv

SelectStart ==
  /\ BuildOK /\ building = "found" /\ Len(nodes) <= NodeLimit
  /\ graph = nodes /\ selected = [n \in DOMAIN nodes |-> Select!Nothing]
  /\ calls = <<>>

(* The graph is made from the files that are chosen, as the request needs.  *)
FromFiles ==
  /\ root = 1 /\ BuildP!FromFile(graph, disk, request.name, 1)
  /\ \A n \in Below(graph, 1) : BuildP!HasKids(graph, disk, n)
  /\ Resolvable(disk, request)

SelectOK ==
  /\ graph \in BuiltGraphs /\ Len(graph) <= NodeLimit /\ FromFiles
  /\ SelectP!SInv /\ SelectP!NInv /\ SelectP!CompileOK

SortStart == dfs = <<>> /\ visited = {} /\ sorted = <<>>

MergeStart ==
  /\ todo = sorted /\ comps = Keys(selected[sorted[1]])
  /\ result = [Empty EXCEPT !.version = nodes[root].pkg.version]

(* The entries merged when the components of the sorted nodes up to the p-th *)
(* have been, but for those in comps.                                      *)
Passed(p) ==
  {e \in NodeIds \X Comps :
     \E j \in DOMAIN sorted :
       /\ e[1] = sorted[j] /\ e[2] \in Keys(selected[sorted[j]])
       /\ j = p => e[2] \notin comps
       /\ j <= p}

(* What the lists hold then.                                               *)
ListsHold(p) ==
  /\ DOMAIN result = {"version", "compile", "link", "location"}
  /\ result.compile \in Seq(NodeIds \X Comps)
  /\ result.link \in Seq(NodeIds \X Comps)
  /\ result.location \in Seq(NodeIds \X Comps)
  /\ IsInjective(result.compile) /\ IsInjective(result.link) /\ IsInjective(result.location)
  /\ Range(result.link) = Passed(p)
  /\ Range(result.compile) = {e \in Passed(p) : selected[e[1]][e[2]] = FALSE}
  /\ Range(result.location) = {e \in Passed(p) : ~DataOf(e).interface}

(* Their entries are in the order of the sorted nodes, and none of them      *)
(* lacks a location.                                                       *)
InOrder ==
  \A j, k \in DOMAIN result.link : \A a, b \in DOMAIN sorted :
    result.link[j][1] = sorted[a] /\ result.link[k][1] = sorted[b] /\ a < b => j < k

NoneLacks(p) == \A e \in Passed(p) : DataOf(e).interface \/ DataOf(e).located

(* The loops have come to the p-th of the sorted nodes.                     *)
MergesAt(p) ==
  /\ Len(todo) = Len(sorted) - p + 1
  /\ \A k \in DOMAIN todo : todo[k] = sorted[p + k - 1]
  /\ comps \subseteq Keys(selected[sorted[p]])
  /\ ListsHold(p) /\ InOrder /\ NoneLacks(p)

MergeOK == \E p \in DOMAIN sorted : MergesAt(p)

MergePhases == {"merging", "found", "error"}

(* The inductive invariant.                                                *)
FInv ==
  /\ disk \in BuildP!DiskType /\ request \in Requests
  /\ phase \in {"building", "selecting", "sorting", "terminated", "missing"} \cup MergePhases
  /\ phase = "building" =>
       BuildOK /\ building = "running" /\ calls = <<>> /\ selection = "running" /\ SortStart
  /\ phase = "selecting" =>
       (SelectStart \/ SelectOK) /\ selection = "running" /\ SortStart
  /\ phase = "sorting" =>
       SelectOK /\ selection = "done" /\ (SortStart \/ SortP!IInv)
  /\ phase \in MergePhases =>
       /\ SelectOK /\ selection = "done" /\ SortP!IInv /\ Sort!Done
       /\ todo \in Seq(NodeIds) /\ todo # <<>> /\ (MergeStart \/ MergeOK)
  /\ phase = "found" => MergeOK /\ comps = {} /\ Len(todo) = 1
  /\ phase = "error" => \E c \in comps : ~Complete(c)
  /\ phase \notin MergePhases => result = Empty
  /\ phase = "missing" => ~Resolvable(disk, request)

-----------------------------------------------------------------------------
(* What resolves a request, read through either instance.                  *)
LEMMA SameDemands ==
  ASSUME NEW files, NEW d
  PROVE  /\ BuildP!HasChosen(files, d) <=> HasChosen(files, d)
         /\ BuildP!Chosen(files, d) = Chosen(files, d)
         /\ BuildP!Acceptable(files, d) <=> Acceptable(files, d)
         /\ BuildP!Successors(files, d) = Successors(files, d)
         /\ BuildP!AllDemands(files, d) = AllDemands(files, d)
         /\ BuildP!Resolvable(files, d) <=> Resolvable(files, d)
<1>1. ASSUME NEW m
      PROVE  /\ BuildP!HasChosen(files, m) <=> HasChosen(files, m)
             /\ BuildP!Chosen(files, m) = Chosen(files, m)
  BY Zenon
  DEF BuildP!HasChosen, HasChosen, BuildP!Chosen, Chosen, BuildP!Opens, Opens
<1>2. ASSUME NEW e
      PROVE  BuildP!Acceptable(files, e) <=> Acceptable(files, e)
  BY <1>1, SameMeets, Zenon DEF BuildP!Acceptable, Acceptable
<1>3. \A p : BuildP!DemandsOf(p) = DemandsOf(p)
  BY Zenon DEF BuildP!DemandsOf, DemandsOf, BuildP!Keys, Keys
<1>4. ASSUME NEW e
      PROVE  BuildP!Successors(files, e) = Successors(files, e)
  BY <1>1, <1>2, <1>3, Zenon DEF BuildP!Successors, Successors
<1>5. BuildP!AllDemands(files, d) = AllDemands(files, d)
  BY Zenon
  DEF BuildP!AllDemands, AllDemands, BuildP!DemandsOf, DemandsOf, BuildP!Keys, Keys,
      BuildP!PackagesOn, PackagesOn
<1>6. BuildP!Resolvable(files, d) <=> Resolvable(files, d)
  <2>1. ASSUME NEW S
        PROVE  /\ BuildP!Closed(files, S) <=> Closed(files, S)
               /\ (\A e \in S : BuildP!Acceptable(files, e)) <=>
                    \A e \in S : Acceptable(files, e)
    <3>1. BuildP!Closed(files, S) <=> Closed(files, S)
      BY <1>4 DEF BuildP!Closed, Closed
    <3> QED
      BY <1>2, <3>1
  <2> QED
    BY <1>5, <2>1 DEF BuildP!Resolvable, Resolvable
<1> QED
  BY <1>1, <1>2, <1>4, <1>5, <1>6

(* The graph build_node returns is one set_components is called with.       *)
LEMMA GraphIsReady ==
  ASSUME request \in Requests, SelectStart, selection = "running"
  PROVE  SelectOK
<1>1. /\ BuildP!IInv /\ BuildP!GInv /\ BuildP!AnswerInv /\ building = "found"
      /\ graph = nodes /\ Len(nodes) <= NodeLimit
  BY DEF SelectStart, BuildOK
<1>2. /\ root = 1 /\ BuildP!FromFile(nodes, disk, request.name, 1)
      /\ BuildP!Acceptable(disk, request) /\ Resolvable(disk, request)
  BY <1>1, SameDemands DEF BuildP!AnswerInv, BuildP!Answered
<1>3. graph \in BuiltGraphs
  <2>1. /\ nodes \in Seq([pkg : Package, depends : Seq(Nat \ {0})])
        /\ root \in DOMAIN nodes
    BY <1>1, SameSets DEF BuildP!IInv, BuildP!TypeOK, BuildP!Node
  <2>2. PICK l : l = Len(nodes) /\ l \in Nat /\ DOMAIN nodes = 1..l /\ l >= 1
    <3> DEFINE R == [pkg : Package, depends : Seq(Nat \ {0})]
    <3>1. nodes \in Seq(R) /\ 1 \in DOMAIN nodes
      BY <1>2, <2>1
    <3> HIDE DEF R
    <3>2. Len(nodes) \in Nat /\ DOMAIN nodes = 1..Len(nodes)
      BY <3>1
    <3> QED
      BY <3>1, <3>2
  <2>3. ASSUME NEW n \in 1..l
        PROVE  /\ nodes[n] \in [pkg : Package, depends : Seq(DOMAIN nodes)]
               /\ nodes[n] \in [pkg : Package, depends : Seq(Nat)]
    <3>1. nodes[n] \in [pkg : Package, depends : Seq(Nat \ {0})]
      BY <2>1, <2>2, ElementOfSeq
    <3>2. \A i \in DOMAIN nodes[n].depends : nodes[n].depends[i] \in DOMAIN nodes
      BY <1>1, <2>2 DEF BuildP!GInv, BuildP!LinksOK, BuildP!LinkedInHeap
    <3>3. PICK s : s = nodes[n].depends
      OBVIOUS
    <3>4. s \in Seq(Nat \ {0}) /\ \A i \in DOMAIN s : s[i] \in DOMAIN nodes
      BY <3>1, <3>2, <3>3
    <3>5. s \in Seq(DOMAIN nodes) /\ s \in Seq(Nat)
      <4> DEFINE D == DOMAIN nodes
      <4> HIDE DEF D
      <4>1. s \in Seq(Nat \ {0}) /\ \A i \in DOMAIN s : s[i] \in D
        BY <3>4 DEF D
      <4>2. s \in Seq(D) /\ s \in Seq(Nat)
        BY <4>1
      <4> QED
        BY <4>2 DEF D
    <3> QED
      BY <3>1, <3>3, <3>5
  <2>4. /\ nodes \in Seq([pkg : Package, depends : Seq(DOMAIN nodes)])
        /\ nodes \in Seq([pkg : Package, depends : Seq(Nat)])
    <3> DEFINE P == [pkg : Package, depends : Seq(DOMAIN nodes)]
               Q == [pkg : Package, depends : Seq(Nat)]
               R == [pkg : Package, depends : Seq(Nat \ {0})]
    <3>1. nodes \in Seq(R) /\ \A n \in 1..l : nodes[n] \in P /\ nodes[n] \in Q
      BY <2>1, <2>3
    <3> HIDE DEF P, Q, R
    <3>2. nodes \in Seq(P) /\ nodes \in Seq(Q)
      BY <2>2, <3>1
    <3> QED
      BY <3>2 DEF P, Q
  <2>5. IsBuilt(nodes, 1)
    BY <1>1, <1>2, BuildAssumptions, BuildP!FoundIsBuilt, SameGraphs DEF BuildP!GraphIsBuilt
  <2> QED
    BY <1>1, <2>2, <2>4, <2>5 DEF BuiltGraphs
<1>4. FromFiles
  BY <1>1, <1>2, BuildAssumptions, BuildP!FoundComplete, SameGraphs DEF FromFiles
<1>5. SelectP!Init
  <2>1. request.req.components \in SelectP!Reqs
    BY DemandsAssumption DEF DemandsAssumption, RootDemand, Demand, Requirement, SelectP!Reqs
  <2>2. request.req.components \subseteq SelectP!Keys(graph[1].pkg.components)
    <3>1. graph[1].pkg = BuildP!Chosen(disk, request.name)
      BY <1>1, <1>2 DEF BuildP!FromFile
    <3>2. request.req.components \subseteq BuildP!Keys(graph[1].pkg.components)
      BY <1>2, <3>1 DEF BuildP!Acceptable, BuildP!Meets, BuildP!HasComponents
    <3> QED
      BY <3>2 DEF SelectP!Keys, BuildP!Keys
  <2>3. selected = [n \in DOMAIN graph |-> SelectP!Nothing]
    BY <1>1 DEF SelectStart, SelectP!Nothing, Select!Nothing
  <2> QED
    BY <1>1, <1>3, <2>1, <2>2, <2>3 DEF SelectP!Init, SelectStart
<1>6. SelectP!SInv /\ SelectP!NInv /\ SelectP!CompileOK
  BY <1>5, SelectAssumptions, SelectP!InitSInv, SelectP!InitNInv, SelectP!InitCompile
<1> QED
  BY <1>1, <1>3, <1>4, <1>6 DEF SelectOK

(* set_components leaves a trimmed graph.                                  *)
LEMMA GraphIsTrimmed ==
  ASSUME SelectOK
  PROVE  Trimmed(graph, nodes)
<1>1. SelectP!TypeOK /\ \A n \in DOMAIN graph : Children(nodes, n) \subseteq Children(graph, n)
  BY SameGraphs DEF SelectOK, SelectP!SInv, SelectP!TrimOK
<1> QED
  BY <1>1, SameSets DEF SelectOK, SelectP!TypeOK, Trimmed

(* What tsort is called with is a graph it sorts.                           *)
LEMMA SortIsReady ==
  ASSUME SelectOK, SortStart
  PROVE  SortP!IInv
<1>1. DependsBelow(nodes) \in AcyclicGraphs
  BY GraphIsTrimmed, NoCycles DEF SelectOK
<1>2. SortP!Init
  BY <1>1 DEF SortP!Init, SortStart
<1> QED
  BY <1>2, SortAssumptions, SortP!InitIInv

-----------------------------------------------------------------------------
(* build_node goes on, or hands over what it found.                         *)
LEMMA BuildNodeStep ==
  ASSUME FInv, BuildNode
  PROVE  FInv'
<1>1. /\ phase = "building" /\ Build!Next
      /\ phase' = IF Len(nodes') > NodeLimit THEN "terminated"
                  ELSE CASE building' = "running" -> "building"
                         [] building' = "found"   -> "selecting"
                         [] building' = "error"   -> "missing"
                         [] OTHER                 -> "terminated"
      /\ building' = "found" =>
           graph' = nodes' /\ selected' = [n \in DOMAIN nodes' |-> Select!Nothing]
      /\ UNCHANGED <<calls, selection, dfs, visited, sorted, todo, comps, result>>
  BY DEF BuildNode, sortVars, mergeVars
<1>2. /\ BuildOK /\ building = "running" /\ calls = <<>> /\ selection = "running"
      /\ SortStart /\ result = Empty /\ disk \in BuildP!DiskType /\ request \in Requests
  BY <1>1 DEF FInv, MergePhases
<1>3. BuildP!Next
  BY <1>1, SameSearch
<1>4. BuildOK'
  BY <1>2, <1>3, BuildAssumptions, BuildP!NextIInv, BuildP!NextBuilt, BuildP!NextAnswers
  DEF BuildOK
<1>5. disk' = disk /\ request' = request
  BY <1>3 DEF BuildP!Next, BuildP!LoadFails, BuildP!LoadThrows, BuildP!ComparisonThrows,
     BuildP!Reject, BuildP!Accept, BuildP!Descend, BuildP!StackOverflow, BuildP!ReturnNode,
     BuildP!ReturnError
<1>6. (disk \in BuildP!DiskType /\ request \in Requests)' /\ SortStart' /\ result' = Empty
      /\ calls' = <<>> /\ selection' = "running"
  BY <1>1, <1>2, <1>5 DEF SortStart
<1>7. CASE phase' = "terminated"
  BY <1>6, <1>7 DEF FInv, MergePhases, Empty
<1>8. CASE phase' = "building"
  <2>1. building' = "running"
    BY <1>1, <1>8
  <2> QED
    BY <1>4, <1>6, <1>8, <2>1 DEF FInv, MergePhases, Empty
<1>9. CASE phase' = "selecting"
  <2>1. building' = "found" /\ ~(Len(nodes') > NodeLimit)
    BY <1>1, <1>9
  <2>2. Len(nodes') \in Nat
    <3>1. nodes' \in Seq(BuildP!Node)
      BY <1>4 DEF BuildOK, BuildP!IInv, BuildP!TypeOK
    <3> QED
      BY <3>1
  <2>3. Len(nodes') <= NodeLimit
    BY <2>1, <2>2, FindAssumption DEF FindAssumption
  <2>4. SelectStart'
    BY <1>1, <1>4, <1>6, <2>1, <2>3 DEF SelectStart
  <2> QED
    BY <1>6, <1>9, <2>4 DEF FInv, MergePhases, Empty
<1>10. CASE phase' = "missing"
  <2>1. building' = "error"
    BY <1>1, <1>10
  <2>2. ~BuildP!Resolvable(disk', request')
    BY <1>4, <2>1 DEF BuildOK, BuildP!AnswerInv, BuildP!Answered
  <2>3. ~Resolvable(disk', request')
    BY <2>2, SameDemands
  <2> QED
    BY <1>6, <1>10, <2>3 DEF FInv, MergePhases, Empty
<1> QED
  BY <1>1, <1>7, <1>8, <1>9, <1>10

(* What set_components does, or leaves alone, keeps its invariant.           *)
LEMMA KeepSelectOK ==
  ASSUME SelectOK, [SelectP!Next]_(SelectP!vars), UNCHANGED <<disk, request, root>>
  PROVE  SelectOK'
<1>1. SelectP!SInv' /\ SelectP!NInv' /\ SelectP!CompileOK'
  BY SelectAssumptions, SelectP!NextSInv, SelectP!NextNInv, SelectP!NextCompile DEF SelectOK
<1>2. graph' = graph
  <2>1. CASE SelectP!Next
    BY <2>1, Zenon DEF SelectP!Next, SelectP!Enter, SelectP!Throw, SelectP!EndComponent,
       SelectP!Return, SelectP!BeginComponent
  <2>2. CASE UNCHANGED SelectP!vars
    BY <2>2 DEF SelectP!vars
  <2> QED
    BY <2>1, <2>2
<1>3. FromFiles'
  BY <1>2 DEF SelectOK, FromFiles
<1> QED
  BY <1>1, <1>2, <1>3 DEF SelectOK

(* set_components goes on, or is done with the graph.                       *)
LEMMA SetComponentsStep ==
  ASSUME FInv, SetComponents
  PROVE  FInv'
<1>1. /\ phase = "selecting" /\ Select!Next
      /\ phase' = CASE selection' = "done"       -> "sorting"
                    [] selection' = "terminated" -> "terminated"
                    [] OTHER                     -> "selecting"
      /\ UNCHANGED <<disk, request, root, dfs, visited, sorted, todo, comps, result>>
  BY DEF SetComponents, buildVars, sortVars, mergeVars
<1>2. /\ SelectStart \/ SelectOK
      /\ selection = "running" /\ SortStart /\ result = Empty
      /\ disk \in BuildP!DiskType /\ request \in Requests
  BY <1>1 DEF FInv, MergePhases
<1>3. SelectOK
  BY <1>2, GraphIsReady
<1>4. SelectOK'
  BY <1>1, <1>3, SameSelection, KeepSelectOK
<1>5. selection' \in {"running", "done", "terminated"}
  BY <1>4 DEF SelectOK, SelectP!SInv, SelectP!TypeOK
<1>6. SortStart' /\ result' = Empty /\ (disk \in BuildP!DiskType /\ request \in Requests)'
  BY <1>1, <1>2 DEF SortStart
<1>7. CASE selection' = "running"
  <2>1. phase' = "selecting"
    BY <1>1, <1>7
  <2> QED
    BY <1>4, <1>6, <1>7, <2>1 DEF FInv, MergePhases, Empty
<1>8. CASE selection' = "done"
  <2>1. phase' = "sorting"
    BY <1>1, <1>8
  <2> QED
    BY <1>4, <1>6, <1>8, <2>1 DEF FInv, MergePhases, Empty
<1>9. CASE selection' = "terminated"
  <2>1. phase' = "terminated"
    BY <1>1, <1>9
  <2> QED
    BY <1>6, <2>1 DEF FInv, MergePhases, Empty
<1> QED
  BY <1>5, <1>7, <1>8, <1>9

(* tsort goes on, or hands over the sorted nodes, of which there are some.  *)
LEMMA SortNodesStep ==
  ASSUME FInv, SortNodes
  PROVE  FInv'
<1>1. /\ phase = "sorting" /\ Sort!Next
      /\ IF Sort!Done'
         THEN /\ phase' = "merging"
              /\ todo' = sorted' /\ comps' = Keys(selected[sorted'[1]])
              /\ result' = [Empty EXCEPT !.version = nodes[root].pkg.version]
         ELSE UNCHANGED <<phase, todo, comps, result>>
      /\ UNCHANGED <<disk, request, root, graph, nodes, selected, calls, selection>>
  BY DEF SortNodes, buildVars, selectVars, mergeVars, Flat
<1>2. /\ SelectOK /\ selection = "done" /\ result = Empty
      /\ SortStart \/ SortP!IInv
      /\ disk \in BuildP!DiskType /\ request \in Requests
  BY <1>1 DEF FInv, MergePhases
<1>3. SortP!IInv
  BY <1>2, SortIsReady
<1>4. SortP!Next
  BY <1>1, <1>2, <1>3, GraphIsTrimmed, SameSort DEF SelectOK
<1>5. SortP!IInv'
  BY <1>3, <1>4, SortAssumptions, SortP!NextIInv
<1>6. SelectOK'
  BY <1>1, <1>2, KeepSelectOK DEF SelectP!vars
<1>7. selection' = "done" /\ (disk \in BuildP!DiskType /\ request \in Requests)'
  BY <1>1, <1>2
<1>8. CASE ~Sort!Done'
  <2>1. phase' = "sorting" /\ result' = Empty
    BY <1>1, <1>2, <1>8
  <2> QED
    BY <1>5, <1>6, <1>7, <2>1 DEF FInv, MergePhases, Empty
<1>9. CASE Sort!Done'
  <2>1. phase' = "merging" /\ MergeStart'
    BY <1>1, <1>9 DEF MergeStart
  <2>2. todo' \in Seq(NodeIds) /\ todo' # <<>>
    <3>1. /\ sorted' \in Seq(NodeIds) /\ visited' = SortP!Range(sorted)'
          /\ todo' = sorted'
      <4>1. dfs' = <<>> /\ visited' # {}
        BY <1>9 DEF Sort!Done
      <4>2. /\ sorted' \in Seq(NodeIds)
            /\ visited' = SortP!Range([k \in DOMAIN dfs' |-> dfs'[k].node])
                            \cup SortP!Range(sorted')
        BY <1>5 DEF SortP!IInv, SortP!TypeOK
      <4>3. SortP!Range([k \in DOMAIN dfs' |-> dfs'[k].node]) = {}
        BY <4>1 DEF SortP!Range
      <4> QED
        BY <1>1, <1>9, <4>2, <4>3
    <3>2. visited' # {}
      BY <1>9 DEF Sort!Done
    <3> QED
      BY <3>1, <3>2 DEF SortP!Range
  <2> QED
    BY <1>5, <1>6, <1>7, <1>9, <2>1, <2>2 DEF FInv, MergePhases
<1> QED
  BY <1>8, <1>9

-----------------------------------------------------------------------------
(* What tsort returns: what is below the root, each node once and in front   *)
(* of its children.                                                        *)
LEMMA SortedFacts ==
  ASSUME SelectOK, SortP!IInv
  PROVE  /\ sorted \in Seq(NodeIds) /\ IsInjective(sorted)
         /\ Sort!Done => Range(sorted) = Below(nodes, 1)
         /\ Sort!Done => \A j \in DOMAIN sorted : \A k \in Children(nodes, sorted[j]) :
              \E l \in (j + 1)..Len(sorted) : sorted[l] = k
<1>1. Trimmed(graph, nodes) /\ Len(graph) <= NodeLimit
  BY GraphIsTrimmed DEF SelectOK
<1>2. sorted \in Seq(NodeIds) /\ IsInjective(sorted)
  BY DEF SortP!IInv, SortP!TypeOK, SortP!SortedOnce, SortP!IsInjective, IsInjective
<1>3. ASSUME Sort!Done
      PROVE  Range(sorted) = Below(nodes, 1)
  <2>1. /\ \A S \in SUBSET NodeIds : SortP!Within(S) => visited \subseteq S
        /\ visited # {} => 1 \in visited
    BY DEF SortP!IInv, SortP!VisitsReachable
  <2>2. visited = Range(sorted)
    <3>1. visited = SortP!Range([k \in DOMAIN dfs |-> dfs[k].node]) \cup SortP!Range(sorted)
      BY DEF SortP!IInv, SortP!TypeOK
    <3>2. SortP!Range([k \in DOMAIN dfs |-> dfs[k].node]) = {}
      BY <1>3 DEF Sort!Done, SortP!Range
    <3> QED
      BY <3>1, <3>2 DEF SortP!Range, Range
  <2>3. Range(sorted) \subseteq Below(nodes, 1)
    BY <1>1, <2>1, <2>2, ReachesBelow
  <2>4. 1 \in Range(sorted)
    BY <1>3, <2>1, <2>2 DEF Sort!Done
  <2>5. ASSUME NEW n \in Range(sorted), NEW k \in Children(nodes, n)
        PROVE  k \in Range(sorted)
    <3>1. PICK j \in DOMAIN sorted : n = sorted[j]
      BY DEF Range
    <3>2. k \in Range(DependsBelow(nodes)[n])
      <4>1. n \in Below(nodes, 1) /\ n \in NodeIds
        BY <1>1, <2>3, ReachesBelow
      <4>2. Range(DependsBelow(nodes)[n]) = Children(nodes, n)
        BY <1>1, <4>1, DependsFacts
      <4> QED
        BY <4>2
    <3>3. PICK i \in DOMAIN DependsBelow(nodes)[sorted[j]] : k = DependsBelow(nodes)[sorted[j]][i]
      BY <3>1, <3>2 DEF Range
    <3>4. \E l \in (j + 1)..Len(sorted) : sorted[l] = DependsBelow(nodes)[sorted[j]][i]
      BY <3>1, <3>3 DEF SortP!IInv, SortP!DependsFollow
    <3>5. PICK l \in (j + 1)..Len(sorted) : sorted[l] = k
      BY <3>3, <3>4
    <3>6. l \in DOMAIN sorted
      BY <1>2, <3>1, <3>5
    <3> QED
      BY <3>5, <3>6 DEF Range
  <2>6. Below(nodes, 1) \subseteq Range(sorted)
    <3>1. \A n \in Range(sorted) : BuildP!Children(nodes, n) \subseteq Range(sorted)
      BY <2>5, SameGraphs
    <3>2. Len(nodes) \in Nat
      BY <1>1, TrimmedFacts
    <3>3. BuildP!Below(nodes, 1) \subseteq Range(sorted)
      BY <2>4, <3>1, <3>2, BuildAssumptions, BuildP!BelowLeast
    <3> QED
      BY <3>3, SameGraphs
  <2> QED
    BY <2>3, <2>6
<1>4. ASSUME Sort!Done, NEW j \in DOMAIN sorted, NEW k \in Children(nodes, sorted[j])
      PROVE  \E l \in (j + 1)..Len(sorted) : sorted[l] = k
  <2>1. sorted[j] \in Below(nodes, 1)
    BY <1>3, <1>4 DEF Range
  <2>2. DependsBelow(nodes)[sorted[j]] = nodes[sorted[j]].depends
    BY <1>1, <2>1, DependsFacts
  <2>3. PICK i \in DOMAIN nodes[sorted[j]].depends : k = nodes[sorted[j]].depends[i]
    BY DEF Children, Range
  <2> QED
    BY <2>2, <2>3 DEF SortP!IInv, SortP!DependsFollow
<1> QED
  BY <1>2, <1>3, <1>4

(* What is selected of a node.                                             *)
LEMMA SelectedFacts ==
  ASSUME SelectOK, NEW n \in Below(nodes, 1)
  PROVE  /\ n \in DOMAIN graph /\ n \in NodeIds /\ n \in Below(graph, 1)
         /\ nodes[n].pkg = graph[n].pkg /\ nodes[n].pkg \in Package
         /\ Keys(selected[n]) = {c \in Comps : selected[n][c] # None}
         /\ Keys(selected[n]) \subseteq Keys(nodes[n].pkg.components)
         /\ \A c \in Keys(selected[n]) :
              /\ selected[n][c] \in BOOLEAN
              /\ nodes[n].pkg.components[c] \in Component
<1>1. Trimmed(graph, nodes) /\ Len(graph) <= NodeLimit /\ graph \in BuiltGraphs
  BY GraphIsTrimmed DEF SelectOK
<1>2. n \in DOMAIN graph /\ n \in NodeIds /\ n \in Below(graph, 1)
  <2>1. n \in Below(graph, 1) /\ n \in NodeIds
    BY <1>1, ReachesBelow, TrimmedFacts
  <2> QED
    BY <1>1, <2>1, BuiltFacts
<1>3. nodes[n].pkg = graph[n].pkg /\ nodes[n].pkg \in Package
  BY <1>1, <1>2, BuiltFacts DEF Trimmed
<1>4. selected[n] \in [Comps -> BOOLEAN \cup {None}]
  BY <1>2 DEF SelectOK, SelectP!SInv, SelectP!TypeOK
<1>5. Keys(selected[n]) = {c \in Comps : selected[n][c] # None}
  BY <1>4 DEF Keys
<1>6. Keys(selected[n]) \subseteq Keys(nodes[n].pkg.components)
  BY <1>2, <1>3 DEF SelectOK, SelectP!SInv, SelectP!SelectionOK, SelectP!Selected,
     SelectP!Existing, SelectP!Keys, Keys
<1>7. ASSUME NEW c \in Keys(nodes[n].pkg.components)
      PROVE  nodes[n].pkg.components[c] \in Component
  BY <1>3 DEF Package, Map, Optional, Keys
<1> QED
  BY <1>2, <1>3, <1>4, <1>5, <1>6, <1>7

(* A list to which an entry is added that it does not have.                 *)
LEMMA AppendOnce ==
  ASSUME NEW E, NEW s \in Seq(E), IsInjective(s), NEW e \in E, e \notin Range(s)
  PROVE  /\ Append(s, e) \in Seq(E) /\ IsInjective(Append(s, e))
         /\ Range(Append(s, e)) = Range(s) \cup {e}
         /\ Len(Append(s, e)) = Len(s) + 1 /\ Append(s, e)[Len(s) + 1] = e
         /\ \A k \in DOMAIN s : Append(s, e)[k] = s[k]
<1>1. PICK t, l : t = Append(s, e) /\ l = Len(s)
  OBVIOUS
<1>2. /\ t \in Seq(E) /\ Len(t) = l + 1 /\ l \in Nat /\ t[l + 1] = e
      /\ DOMAIN s = 1..l /\ DOMAIN t = 1..(l + 1)
      /\ \A k \in 1..l : t[k] = s[k]
  BY <1>1
<1>3. Range(t) = Range(s) \cup {e}
  <2>1. ASSUME NEW x \in Range(t)
        PROVE  x \in Range(s) \cup {e}
    <3>1. PICK k \in 1..(l + 1) : x = t[k]
      BY <1>2 DEF Range
    <3>2. CASE k = l + 1
      BY <1>2, <3>1, <3>2
    <3>3. CASE k # l + 1
      <4>1. k \in 1..l
        BY <1>2, <3>3
      <4> QED
        BY <1>2, <3>1, <4>1 DEF Range
    <3> QED
      BY <3>2, <3>3
  <2>2. e \in Range(t)
    BY <1>2 DEF Range
  <2>3. Range(s) \subseteq Range(t)
    BY <1>2 DEF Range
  <2> QED
    BY <2>1, <2>2, <2>3
<1>4. IsInjective(t)
  <2>1. \A k \in 1..l : t[k] # e
    BY <1>2 DEF Range
  <2>2. ASSUME NEW j \in 1..(l + 1), NEW k \in 1..(l + 1), t[j] = t[k]
        PROVE  j = k
    <3>1. CASE j # l + 1 /\ k # l + 1
      <4>1. j \in 1..l /\ k \in 1..l
        BY <1>2, <3>1
      <4> QED
        BY <1>2, <2>2, <4>1 DEF IsInjective
    <3>2. CASE j = l + 1 \/ k = l + 1
      <4>1. \A i \in 1..(l + 1) : i \in 1..l \/ i = l + 1
        BY <1>2
      <4> QED
        BY <1>2, <2>1, <2>2, <3>2, <4>1
    <3> QED
      BY <3>1, <3>2
  <2> QED
    BY <1>2, <2>2 DEF IsInjective
<1> QED
  BY <1>1, <1>2, <1>3, <1>4

(* The lists are empty when the loop over the sorted nodes begins.          *)
LEMMA MergeBegins ==
  ASSUME SelectOK, SortP!IInv, Sort!Done, MergeStart, todo # <<>>
  PROVE  MergeOK
<1>1. /\ sorted \in Seq(NodeIds) /\ todo = sorted /\ comps = Keys(selected[sorted[1]])
      /\ result.compile = <<>> /\ result.link = <<>> /\ result.location = <<>>
      /\ DOMAIN result = {"version", "compile", "link", "location"}
  BY SortedFacts DEF MergeStart, Empty
<1>2. 1 \in DOMAIN sorted /\ \A j \in DOMAIN sorted : j <= 1 => j = 1
  BY <1>1
<1>3. Passed(1) = {}
  BY <1>1, <1>2 DEF Passed
<1>4. ListsHold(1)
  <2>1. /\ <<>> \in Seq(NodeIds \X Comps) /\ DOMAIN <<>> = {}
    OBVIOUS
  <2>2. IsInjective(<<>>) /\ Range(<<>>) = {}
    BY <2>1 DEF IsInjective, Range
  <2> QED
    BY <1>1, <1>3, <2>1, <2>2 DEF ListsHold
<1>5. InOrder /\ NoneLacks(1)
  <2>1. DOMAIN result.link = {}
    BY <1>1
  <2> QED
    BY <1>3, <2>1 DEF InOrder, NoneLacks
<1>6. Len(todo) = Len(sorted) - 1 + 1 /\ \A k \in DOMAIN todo : todo[k] = sorted[1 + k - 1]
  <2>1. \A k \in DOMAIN todo : 1 + k - 1 = k
    BY <1>1, <1>2
  <2>2. Len(sorted) \in Nat
    BY <1>1
  <2> QED
    BY <1>1, <2>1, <2>2
<1> QED
  BY <1>1, <1>2, <1>4, <1>5, <1>6 DEF MergeOK, MergesAt

LEMMA MergesSomewhere ==
  ASSUME FInv, phase \in MergePhases
  PROVE  /\ SelectOK /\ selection = "done" /\ SortP!IInv /\ Sort!Done
         /\ todo \in Seq(NodeIds) /\ todo # <<>> /\ MergeOK
  BY MergeBegins DEF FInv

(* What the loops leave alone.                                             *)
LEMMA KeepSorted ==
  ASSUME FInv, phase \in MergePhases, UNCHANGED <<buildVars, selectVars, sortVars>>
  PROVE  /\ (disk \in BuildP!DiskType /\ request \in Requests)'
         /\ SelectOK' /\ selection' = "done" /\ SortP!IInv' /\ Sort!Done'
<1>1. UNCHANGED <<disk, request, root, graph, nodes, selected, calls, selection, dfs,
                  visited, sorted>>
  BY DEF buildVars, selectVars, sortVars
<1>2. SelectOK'
  BY <1>1, MergesSomewhere, KeepSelectOK DEF SelectP!vars
<1>3. SortP!IInv'
  <2>1. UNCHANGED SortP!vars
    BY <1>1 DEF SortP!vars
  <2> QED
    BY <2>1, MergesSomewhere, SortAssumptions, SortP!NextIInv
<1>4. Sort!Done'
  BY <1>1, MergesSomewhere DEF Sort!Done
<1> QED
  BY <1>1, <1>2, <1>3, <1>4, MergesSomewhere DEF FInv

(* The first of the nodes to be merged, and its components.                 *)
LEMMA CurrentFacts ==
  ASSUME FInv, phase \in MergePhases, NEW p \in DOMAIN sorted, MergesAt(p)
  PROVE  /\ p \in 1..Len(sorted) /\ Len(sorted) \in Nat
         /\ todo[1] = sorted[p] /\ sorted[p] \in Below(nodes, 1) /\ sorted[p] \in NodeIds
         /\ comps \subseteq Comps
         /\ \A c \in comps : /\ c \in Keys(selected[sorted[p]])
                             /\ selected[sorted[p]][c] \in BOOLEAN
                             /\ nodes[sorted[p]].pkg.components[c] \in Component
                             /\ <<sorted[p], c>> \in NodeIds \X Comps
                             /\ <<sorted[p], c>> \notin Passed(p)
<1>1. /\ SelectOK /\ SortP!IInv /\ Sort!Done /\ todo \in Seq(NodeIds) /\ todo # <<>>
  BY MergesSomewhere
<1>2. /\ sorted \in Seq(NodeIds) /\ IsInjective(sorted) /\ Range(sorted) = Below(nodes, 1)
  BY <1>1, SortedFacts
<1>3. p \in 1..Len(sorted) /\ Len(sorted) \in Nat /\ p \in Nat
  BY <1>2
<1>4. sorted[p] \in Below(nodes, 1) /\ sorted[p] \in NodeIds
  BY <1>2 DEF Range
<1>5. todo[1] = sorted[p]
  <2>1. 1 \in DOMAIN todo
    BY <1>1
  <2>2. todo[1] = sorted[p + 1 - 1]
    BY <2>1 DEF MergesAt
  <2> QED
    BY <1>3, <2>2
<1>6. ASSUME NEW c \in comps
      PROVE  /\ c \in Comps /\ c \in Keys(selected[sorted[p]])
             /\ selected[sorted[p]][c] \in BOOLEAN
             /\ nodes[sorted[p]].pkg.components[c] \in Component
             /\ <<sorted[p], c>> \in NodeIds \X Comps
             /\ <<sorted[p], c>> \notin Passed(p)
  <2>1. c \in Keys(selected[sorted[p]])
    BY DEF MergesAt
  <2>2. c \in Comps
    BY <1>1, <1>4, <2>1, SelectedFacts
  <2>3. /\ selected[sorted[p]][c] \in BOOLEAN
        /\ nodes[sorted[p]].pkg.components[c] \in Component
    BY <1>1, <1>4, <2>1, SelectedFacts
  <2>4. <<sorted[p], c>> \notin Passed(p)
    <3>1. \A j \in DOMAIN sorted : sorted[p] = sorted[j] => j = p
      BY <1>2 DEF IsInjective
    <3> QED
      BY <1>3, <3>1 DEF Passed
  <2> QED
    BY <1>4, <2>1, <2>2, <2>3, <2>4
<1> QED
  BY <1>3, <1>4, <1>5, <1>6

(* A component is merged: its entry is put at the end of the lists.         *)
LEMMA MergeComponentStep ==
  ASSUME FInv, NEW c \in Comps, MergeComponent(c)
  PROVE  FInv'
<1>1. /\ phase = "merging" /\ c \in comps /\ Complete(c)
      /\ result' = Merged(result, c) /\ comps' = comps \ {c}
      /\ UNCHANGED <<buildVars, selectVars, sortVars>>
      /\ phase' = phase /\ todo' = todo
  BY DEF MergeComponent, Merging
<1>2. phase \in MergePhases
  BY <1>1 DEF MergePhases
<1>3. /\ SelectOK /\ SortP!IInv /\ Sort!Done /\ todo \in Seq(NodeIds) /\ todo # <<>>
  BY <1>2, MergesSomewhere
<1>4. PICK p \in DOMAIN sorted : MergesAt(p)
  BY <1>2, MergesSomewhere DEF MergeOK
<1>5. /\ UNCHANGED <<nodes, selected, sorted>>
      /\ sorted \in Seq(NodeIds) /\ IsInjective(sorted) /\ Range(sorted) = Below(nodes, 1)
  BY <1>1, <1>3, SortedFacts DEF selectVars, sortVars
<1> DEFINE E == NodeIds \X Comps
           n == sorted[p]
           e == <<n, c>>
<1>6. /\ Node = n /\ e \in E /\ e[1] = n /\ e[2] = c /\ e \notin Passed(p)
      /\ selected[n][c] \in BOOLEAN /\ nodes[n].pkg.components[c] \in Component
      /\ c \in Keys(selected[n]) /\ n \in NodeIds /\ p \in 1..Len(sorted)
  <2>1. Head(todo) = todo[1]
    BY <1>3
  <2> QED
    BY <1>1, <1>2, <1>4, <2>1, CurrentFacts DEF Node
<1>7. /\ LinkOnly(c) <=> selected[n][c]
      /\ (selected[n][c] = FALSE) <=> ~selected[n][c]
      /\ Data(c) = DataOf(e)
  BY <1>6 DEF LinkOnly, Data, DataOf
<1>8. Passed(p)' = Passed(p) \cup {e}
  <2>1. ASSUME NEW x \in E
        PROVE  (\E j \in DOMAIN sorted :
                  /\ x[1] = sorted[j] /\ x[2] \in Keys(selected[sorted[j]])
                  /\ j = p => x[2] \notin comps \ {c}
                  /\ j <= p)
                <=> \/ \E j \in DOMAIN sorted :
                         /\ x[1] = sorted[j] /\ x[2] \in Keys(selected[sorted[j]])
                         /\ j = p => x[2] \notin comps
                         /\ j <= p
                    \/ x = e
    <3>1. x = e <=> x[1] = n /\ x[2] = c
      BY <1>6
    <3>2. n \in NodeIds /\ \A j \in DOMAIN sorted : sorted[j] = n => j = p
      BY <1>5, <1>6 DEF IsInjective
    <3>3. ASSUME x = e
          PROVE  \E j \in DOMAIN sorted :
                   /\ x[1] = sorted[j] /\ x[2] \in Keys(selected[sorted[j]])
                   /\ j = p => x[2] \notin comps \ {c}
                   /\ j <= p
      <4>1. p <= p
        BY <1>6
      <4> QED
        BY <1>6, <3>3, <4>1
    <3> QED
      BY <1>6, <3>1, <3>2, <3>3
  <2> QED
    BY <1>1, <1>5, <1>6, <2>1 DEF Passed
<1>9. /\ result.compile \in Seq(E) /\ result.link \in Seq(E) /\ result.location \in Seq(E)
      /\ IsInjective(result.compile) /\ IsInjective(result.link)
      /\ IsInjective(result.location)
      /\ Range(result.link) = Passed(p)
      /\ Range(result.compile) = {x \in Passed(p) : selected[x[1]][x[2]] = FALSE}
      /\ Range(result.location) = {x \in Passed(p) : ~DataOf(x).interface}
      /\ InOrder /\ NoneLacks(p)
  BY <1>4 DEF MergesAt, ListsHold
<1>10. /\ result'.link = Append(result.link, e)
       /\ result'.compile = IF ~selected[n][c] THEN Append(result.compile, e)
                            ELSE result.compile
       /\ result'.location = IF ~DataOf(e).interface THEN Append(result.location, e)
                             ELSE result.location
  <2>1. /\ Compiles(c) <=> ~selected[n][c]
        /\ Locates(c) <=> ~DataOf(e).interface
    BY <1>7 DEF Compiles, Locates
  <2>2. DOMAIN result = {"version", "compile", "link", "location"}
    BY <1>4 DEF MergesAt, ListsHold
  <2> QED
    BY <1>1, <1>6, <2>1, <2>2 DEF Merged
<1> HIDE DEF n, e, E
<1>11. /\ result'.link \in Seq(E) /\ IsInjective(result'.link)
       /\ Range(result'.link) = Passed(p) \cup {e}
  BY <1>6, <1>9, <1>10, AppendOnce
<1>12. /\ result'.compile \in Seq(E) /\ IsInjective(result'.compile)
       /\ Range(result'.compile) = {x \in Passed(p) \cup {e} : selected[x[1]][x[2]] = FALSE}
  <2>1. CASE selected[n][c] = FALSE
    <3>1. result'.compile = Append(result.compile, e)
      BY <1>7, <1>10, <2>1
    <3>2. /\ Append(result.compile, e) \in Seq(E) /\ IsInjective(Append(result.compile, e))
          /\ Range(Append(result.compile, e)) = Range(result.compile) \cup {e}
      BY <1>6, <1>9, AppendOnce
    <3> QED
      BY <1>6, <1>9, <2>1, <3>1, <3>2
  <2>2. CASE selected[n][c] # FALSE
    BY <1>6, <1>7, <1>9, <1>10, <2>2
  <2> QED
    BY <2>1, <2>2
<1>13. /\ result'.location \in Seq(E) /\ IsInjective(result'.location)
       /\ Range(result'.location) = {x \in Passed(p) \cup {e} : ~DataOf(x).interface}
  <2>1. CASE ~DataOf(e).interface
    <3>1. result'.location = Append(result.location, e)
      BY <1>10, <2>1
    <3>2. /\ Append(result.location, e) \in Seq(E) /\ IsInjective(Append(result.location, e))
          /\ Range(Append(result.location, e)) = Range(result.location) \cup {e}
      BY <1>6, <1>9, AppendOnce
    <3> QED
      BY <1>9, <2>1, <3>1, <3>2
  <2>2. CASE DataOf(e).interface
    BY <1>9, <1>10, <2>2
  <2> QED
    BY <2>1, <2>2
<1>14. \A x : DataOf(x)' = DataOf(x)
  BY <1>5 DEF DataOf
<1>15. ListsHold(p)'
  <2>1. DOMAIN result' = {"version", "compile", "link", "location"}
    BY <1>1, <1>4 DEF Merged, MergesAt, ListsHold
  <2> QED
    BY <1>5, <1>8, <1>11, <1>12, <1>13, <1>14, <2>1 DEF ListsHold, E
<1>16. InOrder'
  <2>1. PICK s, l : s = result.link /\ l = Len(s)
    OBVIOUS
  <2>2. /\ s \in Seq(E) /\ l \in Nat /\ DOMAIN s = 1..l
        /\ \A k \in 1..l : result'.link[k] = s[k]
        /\ result'.link[l + 1] = e /\ DOMAIN result'.link = 1..(l + 1)
    <3>1. s \in Seq(E) /\ l \in Nat /\ DOMAIN s = 1..l /\ IsInjective(s) /\ e \in E
          /\ e \notin Range(s) /\ result'.link = Append(s, e)
      BY <1>6, <1>9, <1>10, <2>1
    <3> QED
      BY <2>1, <3>1, AppendOnce
  <2>3. ASSUME NEW k \in 1..l, NEW b \in DOMAIN sorted, s[k][1] = sorted[b]
        PROVE  b <= p
    <3>1. s[k] \in Passed(p)
      BY <1>9, <2>1, <2>2 DEF Range
    <3>2. PICK j \in DOMAIN sorted : s[k][1] = sorted[j] /\ j <= p
      BY <3>1 DEF Passed
    <3>3. j = b
      BY <1>5, <2>3, <3>2 DEF IsInjective
    <3> QED
      BY <3>2, <3>3
  <2>4. ASSUME NEW b \in DOMAIN sorted, e[1] = sorted[b]
        PROVE  b = p
    BY <1>5, <1>6, <2>4 DEF IsInjective, n
  <2>5. ASSUME NEW j \in 1..(l + 1), NEW k \in 1..(l + 1),
               NEW a \in DOMAIN sorted, NEW b \in DOMAIN sorted,
               result'.link[j][1] = sorted[a], result'.link[k][1] = sorted[b], a < b
        PROVE  j < k
    <3>1. CASE j = l + 1
      <4>1. a = p
        BY <2>2, <2>4, <2>5, <3>1
      <4>2. CASE k = l + 1
        <5>1. b = p
          BY <2>2, <2>4, <2>5, <4>2
        <5> QED
          BY <1>6, <2>5, <4>1, <5>1
      <4>3. CASE k # l + 1
        <5>1. k \in 1..l
          BY <2>2, <4>3
        <5>2. b <= p
          BY <2>2, <2>3, <2>5, <5>1
        <5>3. a \in Nat /\ b \in Nat
          BY <1>5
        <5> QED
          BY <2>5, <4>1, <5>2, <5>3
      <4> QED
        BY <4>2, <4>3
    <3>2. CASE j # l + 1 /\ k = l + 1
      BY <2>2, <3>2
    <3>3. CASE j # l + 1 /\ k # l + 1
      <4>1. j \in 1..l /\ k \in 1..l
        BY <2>2, <3>3
      <4>2. s[j][1] = sorted[a] /\ s[k][1] = sorted[b]
        BY <2>2, <2>5, <4>1
      <4> QED
        BY <1>9, <2>1, <2>2, <2>5, <4>1, <4>2 DEF InOrder
    <3> QED
      BY <3>1, <3>2, <3>3
  <2> QED
    BY <1>5, <2>2, <2>5 DEF InOrder
<1>17. NoneLacks(p)'
  <2>1. DataOf(e).interface \/ DataOf(e).located
    BY <1>1, <1>7 DEF Complete
  <2> QED
    BY <1>8, <1>9, <1>14, <2>1 DEF NoneLacks
<1>18. MergeOK'
  <2>1. MergesAt(p)'
    BY <1>1, <1>4, <1>5, <1>15, <1>16, <1>17 DEF MergesAt
  <2> QED
    BY <1>5, <2>1 DEF MergeOK
<1>19. phase' = "merging" /\ todo' \in Seq(NodeIds) /\ todo' # <<>>
  BY <1>1, <1>3
<1> QED
  BY <1>1, <1>2, <1>18, <1>19, KeepSorted DEF FInv, MergePhases

LEMMA KeepMerge ==
  ASSUME MergeOK, UNCHANGED <<nodes, selected, sorted, todo, comps, result>>
  PROVE  MergeOK'
<1>1. PICK p \in DOMAIN sorted : MergesAt(p)
  BY DEF MergeOK
<1>2. Passed(p)' = Passed(p) /\ \A x : DataOf(x)' = DataOf(x)
  BY DEF Passed, DataOf
<1>3. ListsHold(p)'
  BY <1>1, <1>2 DEF ListsHold, MergesAt
<1>4. InOrder' /\ NoneLacks(p)'
  BY <1>1, <1>2 DEF InOrder, NoneLacks, MergesAt
<1>5. MergesAt(p)'
  BY <1>1, <1>3, <1>4 DEF MergesAt
<1> QED
  BY <1>5 DEF MergeOK

(* A component lacks its location.                                         *)
LEMMA MissingLocationStep ==
  ASSUME FInv, NEW c \in Comps, MissingLocation(c)
  PROVE  FInv'
<1>1. /\ phase = "merging" /\ c \in comps /\ ~Complete(c) /\ phase' = "error"
      /\ UNCHANGED <<buildVars, selectVars, sortVars, todo, comps, result>>
  BY DEF MissingLocation, Merging, mergeVars
<1>2. phase \in MergePhases
  BY <1>1 DEF MergePhases
<1>3. /\ UNCHANGED <<nodes, selected, sorted, root>>
      /\ todo \in Seq(NodeIds) /\ todo # <<>> /\ MergeOK
  BY <1>1, <1>2, MergesSomewhere DEF buildVars, selectVars, sortVars
<1>4. MergeOK'
  BY <1>1, <1>3, KeepMerge
<1>5. \E d \in comps' : ~Complete(d)'
  BY <1>1, <1>3 DEF Complete, Data, Node
<1> QED
  BY <1>1, <1>2, <1>3, <1>4, <1>5, KeepSorted DEF FInv, MergePhases

(* The loop goes on with the next of the sorted nodes.                      *)
LEMMA NextNodeStep ==
  ASSUME FInv, NextNode
  PROVE  FInv'
<1>1. /\ phase = "merging" /\ comps = {} /\ Len(todo) > 1
      /\ todo' = Tail(todo) /\ comps' = Keys(selected[todo[2]])
      /\ UNCHANGED <<buildVars, selectVars, sortVars>>
      /\ phase' = phase /\ result' = result
  BY DEF NextNode, Merging
<1>2. phase \in MergePhases
  BY <1>1 DEF MergePhases
<1>3. /\ SelectOK /\ SortP!IInv /\ Sort!Done /\ todo \in Seq(NodeIds) /\ todo # <<>>
  BY <1>2, MergesSomewhere
<1>4. PICK p \in DOMAIN sorted : MergesAt(p)
  BY <1>2, MergesSomewhere DEF MergeOK
<1>5. /\ UNCHANGED <<nodes, selected, sorted>> /\ sorted \in Seq(NodeIds)
  BY <1>1, <1>3, SortedFacts DEF selectVars, sortVars
<1>6. PICK l, m : l = Len(todo) /\ m = Len(sorted)
  OBVIOUS
<1>7. /\ l \in Nat /\ m \in Nat /\ DOMAIN todo = 1..l /\ DOMAIN sorted = 1..m
      /\ p \in 1..m /\ l = m - p + 1 /\ l > 1
      /\ \A k \in 1..l : todo[k] = sorted[p + k - 1]
      /\ todo' \in Seq(NodeIds) /\ Len(todo') = l - 1 /\ DOMAIN todo' = 1..(l - 1)
      /\ \A k \in 1..(l - 1) : todo'[k] = todo[k + 1]
  <2>1. /\ l \in Nat /\ m \in Nat /\ DOMAIN todo = 1..l /\ DOMAIN sorted = 1..m
        /\ p \in 1..m
    BY <1>3, <1>5, <1>6
  <2>2. l = m - p + 1 /\ \A k \in 1..l : todo[k] = sorted[p + k - 1]
    BY <1>4, <1>6, <2>1 DEF MergesAt
  <2>3. /\ todo' \in Seq(NodeIds) /\ Len(todo') = l - 1 /\ DOMAIN todo' = 1..(l - 1)
        /\ \A k \in 1..(l - 1) : todo'[k] = todo[k + 1]
    <3>1. PICK t : t = Tail(todo)
      OBVIOUS
    <3>2. /\ t \in Seq(NodeIds) /\ Len(t) = l - 1 /\ DOMAIN t = 1..(l - 1)
          /\ \A k \in 1..(l - 1) : t[k] = todo[k + 1]
      BY <1>3, <1>6, <3>1
    <3> QED
      BY <1>1, <3>1, <3>2
  <2> QED
    BY <1>1, <1>6, <2>1, <2>2, <2>3
<1>8. p + 1 \in 1..m /\ todo[2] = sorted[p + 1]
  <2>1. 2 \in 1..l /\ p + 2 - 1 = p + 1
    BY <1>7
  <2>2. todo[2] = sorted[p + 2 - 1]
    BY <1>7, <2>1
  <2> QED
    BY <1>7, <2>1, <2>2
<1>9. Passed(p + 1)' = Passed(p)
  <2>1. comps' = Keys(selected[sorted[p + 1]])
    BY <1>1, <1>8
  <2>2. \A j \in 1..m : j <= p <=> j <= p + 1 /\ j # p + 1
    BY <1>7
  <2>3. ASSUME NEW x \in NodeIds \X Comps
        PROVE  (\E j \in 1..m :
                  /\ x[1] = sorted[j] /\ x[2] \in Keys(selected[sorted[j]])
                  /\ j = p + 1 => x[2] \notin Keys(selected[sorted[p + 1]])
                  /\ j <= p + 1)
                <=> \E j \in 1..m :
                      /\ x[1] = sorted[j] /\ x[2] \in Keys(selected[sorted[j]])
                      /\ j = p => x[2] \notin {}
                      /\ j <= p
    BY <2>2
  <2> QED
    BY <1>1, <1>5, <1>7, <2>1, <2>3 DEF Passed
<1>10. /\ \A x : DataOf(x)' = DataOf(x)
       /\ InOrder' /\ (\A x : selected'[x] = selected[x])
  BY <1>1, <1>4, <1>5 DEF DataOf, InOrder, MergesAt
<1>11. ListsHold(p + 1)' /\ NoneLacks(p + 1)'
  BY <1>1, <1>4, <1>9, <1>10 DEF ListsHold, NoneLacks, MergesAt
<1>12. Len(todo') = Len(sorted') - (p + 1) + 1
  BY <1>5, <1>6, <1>7
<1>13. \A k \in DOMAIN todo' : todo'[k] = sorted'[p + 1 + k - 1]
  <2>1. ASSUME NEW k \in 1..(l - 1)
        PROVE  todo'[k] = sorted[p + 1 + k - 1]
    <3>1. k + 1 \in 1..l /\ p + (k + 1) - 1 = p + 1 + k - 1
      BY <1>7
    <3>2. todo[k + 1] = sorted[p + (k + 1) - 1]
      BY <1>7, <3>1
    <3> QED
      BY <1>7, <3>1, <3>2
  <2> QED
    BY <1>5, <1>7, <2>1
<1>14. MergeOK'
  <2>1. comps' \subseteq Keys(selected'[sorted'[p + 1]])
    BY <1>1, <1>5, <1>8
  <2>2. MergesAt(p + 1)'
    BY <1>10, <1>11, <1>12, <1>13, <2>1 DEF MergesAt
  <2>3. p + 1 \in DOMAIN sorted'
    BY <1>5, <1>7, <1>8
  <2> QED
    BY <2>2, <2>3 DEF MergeOK
<1>15. phase' = "merging" /\ todo' # <<>>
  <2>1. Len(todo') # 0
    BY <1>7
  <2> QED
    BY <1>1, <2>1
<1> QED
  BY <1>1, <1>2, <1>7, <1>14, <1>15, KeepSorted DEF FInv, MergePhases

(* The loops end.                                                          *)
LEMMA ReturnResultStep ==
  ASSUME FInv, ReturnResult
  PROVE  FInv'
<1>1. /\ phase = "merging" /\ comps = {} /\ Len(todo) = 1 /\ phase' = "found"
      /\ UNCHANGED <<buildVars, selectVars, sortVars, todo, comps, result>>
  BY DEF ReturnResult, Merging, mergeVars
<1>2. phase \in MergePhases
  BY <1>1 DEF MergePhases
<1>3. /\ UNCHANGED <<nodes, selected, sorted, root>>
      /\ todo \in Seq(NodeIds) /\ todo # <<>> /\ MergeOK
  BY <1>1, <1>2, MergesSomewhere DEF buildVars, selectVars, sortVars
<1>4. MergeOK'
  BY <1>1, <1>3, KeepMerge
<1> QED
  BY <1>1, <1>2, <1>3, <1>4, KeepSorted DEF FInv, MergePhases

-----------------------------------------------------------------------------
(* What pkgconf and the reports of errors leave alone.                      *)
LEMMA KeepFInv ==
  ASSUME FInv, UNCHANGED findVars
  PROVE  FInv'
<1>1. /\ UNCHANGED <<disk, request, nodes, stack, building, root, graph, selected, calls>>
      /\ UNCHANGED <<selection, dfs, visited, sorted, phase, todo, comps, result>>
      /\ UNCHANGED <<buildVars, selectVars, sortVars>>
  BY DEF findVars, buildVars, selectVars, sortVars, mergeVars
<1>2. (disk \in BuildP!DiskType /\ request \in Requests)'
  BY <1>1 DEF FInv
<1>3. CASE phase = "building"
  <2>1. BuildOK /\ building = "running" /\ calls = <<>> /\ selection = "running"
        /\ SortStart /\ result = Empty
    BY <1>3 DEF FInv, MergePhases
  <2>2. BuildOK'
    <3>1. UNCHANGED BuildP!vars
      BY <1>1 DEF BuildP!vars
    <3> QED
      BY <2>1, <3>1, BuildAssumptions, BuildP!NextIInv, BuildP!NextBuilt, BuildP!NextAnswers
      DEF BuildOK
  <2> QED
    BY <1>1, <1>2, <1>3, <2>1, <2>2 DEF FInv, MergePhases, Empty, SortStart
<1>4. CASE phase = "selecting"
  <2>1. /\ SelectStart \/ SelectOK
        /\ selection = "running" /\ SortStart /\ result = Empty /\ request \in Requests
    BY <1>4 DEF FInv, MergePhases
  <2>2. SelectOK'
    <3>1. UNCHANGED SelectP!vars
      BY <1>1 DEF SelectP!vars
    <3> QED
      BY <1>1, <2>1, <3>1, GraphIsReady, KeepSelectOK
  <2> QED
    BY <1>1, <1>2, <1>4, <2>1, <2>2 DEF FInv, MergePhases, Empty, SortStart
<1>5. CASE phase = "sorting"
  <2>1. /\ SelectOK /\ selection = "done" /\ result = Empty
        /\ SortStart \/ SortP!IInv
    BY <1>5 DEF FInv, MergePhases
  <2>2. SelectOK'
    <3>1. UNCHANGED SelectP!vars
      BY <1>1 DEF SelectP!vars
    <3> QED
      BY <1>1, <2>1, <3>1, KeepSelectOK
  <2>3. SortP!IInv'
    <3>1. UNCHANGED SortP!vars
      BY <1>1 DEF SortP!vars
    <3> QED
      BY <2>1, <3>1, SortIsReady, SortAssumptions, SortP!NextIInv
  <2> QED
    BY <1>1, <1>2, <1>5, <2>1, <2>2, <2>3 DEF FInv, MergePhases, Empty
<1>6. CASE phase \in MergePhases
  <2>1. /\ todo \in Seq(NodeIds) /\ todo # <<>> /\ MergeOK
        /\ phase = "found" => comps = {} /\ Len(todo) = 1
        /\ phase = "error" => \E c \in comps : ~Complete(c)
    BY <1>6, MergesSomewhere DEF FInv
  <2>2. MergeOK'
    BY <1>1, <2>1, KeepMerge
  <2>3. (phase = "error" => \E c \in comps : ~Complete(c))'
    BY <1>1, <2>1 DEF Complete, Data, Node
  <2> QED
    BY <1>1, <1>6, <2>1, <2>2, <2>3, KeepSorted DEF FInv, MergePhases
<1>7. CASE phase \in {"terminated", "missing"}
  BY <1>1, <1>2, <1>7 DEF FInv, MergePhases, Empty
<1> QED
  BY <1>3, <1>4, <1>5, <1>6, <1>7 DEF FInv

(* The invariant of the program: without a package nothing is looked for.    *)
MInv ==
  /\ command \in Command
  /\ IF command.packages = <<>> THEN FindStart ELSE FInv

LEMMA FindNextStep ==
  ASSUME FInv, FindNext
  PROVE  FInv'
BY BuildNodeStep, SetComponentsStep, SortNodesStep, MergeComponentStep, MissingLocationStep,
   NextNodeStep, ReturnResultStep DEF FindNext

LEMMA InitMInv == MainInit => MInv
<1> SUFFICES ASSUME MainInit
             PROVE  MInv
  OBVIOUS
<1>1. PICK i \in Invocations :
        /\ disk = i.disk /\ command = i.command
        /\ request = IF i.command.packages = <<>> THEN CHOOSE r \in Requests : TRUE
                     ELSE RequestOf(i.command)
  BY DEF MainInit
<1>2. disk \in Disks /\ command \in Command /\ Build!Start /\ FindStart
  BY <1>1, InvocationsAssumption DEF MainInit, InvocationsAssumption
<1>3. ASSUME command.packages # <<>>
      PROVE  FInv
  <2>1. request \in Requests
    BY <1>1, <1>3, InvocationsAssumption DEF InvocationsAssumption
  <2>2. BuildP!Init /\ building = "running"
    BY <1>2, <2>1
    DEF Build!Start, BuildP!Init, BuildP!Start, Build!Call, BuildP!Call,
        Build!EmptyCache, BuildP!EmptyCache
  <2>3. BuildOK
    BY <2>2, BuildAssumptions, BuildP!InitIInv, BuildP!InitBuilt, BuildP!InitAnswers
    DEF BuildOK
  <2>4. disk \in BuildP!DiskType
    BY <1>2, DemandsAssumption, SameSets DEF DemandsAssumption, BuildP!DiskType
  <2> QED
    BY <1>2, <2>1, <2>2, <2>3, <2>4 DEF FInv, FindStart, MergePhases, SortStart
<1> QED
  BY <1>2, <1>3 DEF MInv

LEMMA NextMInv == MInv /\ [MainNext]_mainVars => MInv'
<1> SUFFICES ASSUME MInv, [MainNext]_mainVars
             PROVE  MInv'
  OBVIOUS
<1>1. command' = command
  BY DEF MainNext, ParseFails, FindPackage, ReportError, PrintFlags, UnknownFormat, Abort,
     mainVars
<1>2. CASE FindPackage
  <2>1. FInv /\ FindNext /\ command.packages # <<>>
    BY <1>2 DEF FindPackage, MInv
  <2> QED
    BY <1>1, <2>1, FindNextStep DEF MInv
<1>3. CASE UNCHANGED findVars
  <2>1. CASE command.packages = <<>>
    <3>1. UNCHANGED <<graph, selected, calls, selection, dfs, visited, sorted, phase, todo,
                      comps, result>>
      BY <1>3 DEF findVars, selectVars, sortVars, mergeVars
    <3> QED
      BY <1>1, <2>1, <3>1 DEF MInv, FindStart, Empty
  <2>2. CASE command.packages # <<>>
    BY <1>1, <1>3, <2>2, KeepFInv DEF MInv
  <2> QED
    BY <2>1, <2>2
<1>4. FindPackage \/ UNCHANGED findVars
  BY DEF MainNext, ParseFails, ReportError, PrintFlags, UnknownFormat, Abort, mainVars
<1> QED
  BY <1>2, <1>3, <1>4

(* find_package keeps what each of its phases makes sure of for those after: *)
(* build_node hands set_components a graph that is made from the files and   *)
(* has no cycle, set_components hands tsort the part of it that is needed,   *)
(* and tsort hands the loops over nodes and components each node once.      *)
THEOREM FindHolds == MainSpec => []MInv
BY InitMInv, NextMInv, PTL DEF MainSpec

-----------------------------------------------------------------------------
(* At the end of the loops all that is selected has been merged.             *)
LEMMA AllPassed ==
  ASSUME FInv, phase = "found"
  PROVE  \E p \in DOMAIN sorted :
           /\ ListsHold(p) /\ InOrder /\ NoneLacks(p) /\ Passed(p) = Selection
<1>1. phase \in MergePhases /\ comps = {} /\ Len(todo) = 1
  BY DEF FInv, MergePhases
<1>2. /\ SelectOK /\ SortP!IInv /\ Sort!Done
      /\ sorted \in Seq(NodeIds) /\ Range(sorted) = Below(nodes, 1)
  BY <1>1, MergesSomewhere, SortedFacts
<1>3. PICK p \in DOMAIN sorted : MergesAt(p)
  BY <1>1, MergesSomewhere DEF MergeOK
<1>4. PICK m : m = Len(sorted)
  OBVIOUS
<1>5. m \in Nat /\ DOMAIN sorted = 1..m /\ p = m
  <2>1. m \in Nat /\ DOMAIN sorted = 1..m
    BY <1>2, <1>4
  <2>2. 1 = m - p + 1
    BY <1>1, <1>3, <1>4 DEF MergesAt
  <2> QED
    BY <1>3, <2>1, <2>2
<1>6. Passed(p) = Selection
  <2>1. ASSUME NEW e \in Passed(p)
        PROVE  e \in Selection
    <3>1. PICK j \in DOMAIN sorted : e[1] = sorted[j] /\ e[2] \in Keys(selected[sorted[j]])
      BY DEF Passed
    <3>2. e[1] \in Below(nodes, 1) /\ e \in NodeIds \X Comps
      BY <1>2, <3>1 DEF Range, Passed
    <3>3. selected[e[1]][e[2]] # None
      BY <1>2, <3>1, <3>2, SelectedFacts
    <3> QED
      BY <3>2, <3>3 DEF Selection
  <2>2. ASSUME NEW e \in Selection
        PROVE  e \in Passed(p)
    <3>1. /\ e \in Below(nodes, 1) \X Comps /\ selected[e[1]][e[2]] # None
          /\ e[1] \in Below(nodes, 1)
      BY DEF Selection
    <3>2. e[1] \in NodeIds /\ e[2] \in Keys(selected[e[1]])
      BY <1>2, <3>1, SelectedFacts
    <3>3. PICK j \in DOMAIN sorted : e[1] = sorted[j]
      BY <1>2, <3>1 DEF Range
    <3>4. j <= p
      BY <1>5
    <3> QED
      BY <1>1, <3>1, <3>2, <3>3, <3>4 DEF Passed
  <2> QED
    BY <2>1, <2>2
<1> QED
  BY <1>3, <1>6 DEF MergesAt

LEMMA FoundMerged == FInv => MergedOnce
<1> SUFFICES ASSUME FInv, phase = "found"
             PROVE  /\ IsInjective(result.link) /\ IsInjective(result.compile)
                    /\ IsInjective(result.location)
                    /\ Range(result.link) = Selection
                    /\ Range(result.compile) =
                         {e \in Selection : selected[e[1]][e[2]] = FALSE}
                    /\ Range(result.location) = {e \in Selection : ~DataOf(e).interface}
  BY DEF MergedOnce, Found
<1> QED
  BY AllPassed DEF ListsHold

(* Whatever is below a node of the sorted ones is at its place or behind it.  *)
LEMMA BelowBehind ==
  ASSUME FInv, phase \in MergePhases, NEW a \in DOMAIN sorted
  PROVE  \A m \in Below(nodes, sorted[a]) : \E b \in DOMAIN sorted : a <= b /\ m = sorted[b]
<1>1. /\ SelectOK /\ SortP!IInv /\ Sort!Done
      /\ sorted \in Seq(NodeIds)
      /\ \A j \in DOMAIN sorted : \A k \in Children(nodes, sorted[j]) :
           \E l \in (j + 1)..Len(sorted) : sorted[l] = k
  BY MergesSomewhere, SortedFacts
<1> DEFINE S == {sorted[b] : b \in {x \in DOMAIN sorted : a <= x}}
<1>2. PICK l : l = Len(sorted) /\ l \in Nat /\ DOMAIN sorted = 1..l /\ a \in 1..l
  BY <1>1
<1>3. sorted[a] \in S
  BY <1>2
<1>4. ASSUME NEW n \in S, NEW k \in BuildP!Children(nodes, n)
      PROVE  k \in S
  <2>1. PICK b \in DOMAIN sorted : a <= b /\ n = sorted[b]
    OBVIOUS
  <2>2. k \in Children(nodes, sorted[b])
    BY <1>4, <2>1, SameGraphs
  <2>3. PICK i \in (b + 1)..Len(sorted) : sorted[i] = k
    BY <1>1, <2>2
  <2>4. i \in DOMAIN sorted /\ a <= i
    BY <1>2, <2>1, <2>3
  <2> QED
    BY <2>3, <2>4
<1>5. Len(nodes) \in Nat
  BY <1>1, GraphIsTrimmed, TrimmedFacts DEF SelectOK
<1>6. Below(nodes, sorted[a]) \subseteq S
  <2> HIDE DEF S
  <2>1. BuildP!Below(nodes, sorted[a]) \subseteq S
    BY <1>3, <1>4, <1>5, BuildAssumptions, BuildP!BelowLeast
  <2> QED
    BY <2>1, SameGraphs
<1> QED
  BY <1>6

LEMMA FoundInOrder == FInv => LinkOrder
<1> SUFFICES ASSUME FInv, phase = "found", NEW j \in DOMAIN result.link,
                    NEW k \in DOMAIN result.link,
                    result.link[j][1] # result.link[k][1],
                    result.link[k][1] \in Below(nodes, result.link[j][1])
             PROVE  j < k
  BY DEF LinkOrder, Found
<1>1. phase \in MergePhases
  BY DEF MergePhases
<1>2. sorted \in Seq(NodeIds)
  BY <1>1, MergesSomewhere, SortedFacts
<1>3. PICK p \in DOMAIN sorted : ListsHold(p) /\ InOrder
  BY AllPassed
<1>4. result.link[j] \in Passed(p)
  BY <1>3 DEF ListsHold, Range
<1>5. PICK a \in DOMAIN sorted : result.link[j][1] = sorted[a]
  BY <1>4 DEF Passed
<1>6. PICK b \in DOMAIN sorted : a <= b /\ result.link[k][1] = sorted[b]
  BY <1>1, <1>5, BelowBehind
<1>7. a < b
  <2>1. a # b
    BY <1>5, <1>6
  <2>2. a \in Nat /\ b \in Nat
    BY <1>2
  <2> QED
    BY <1>6, <2>1, <2>2
<1> QED
  BY <1>3, <1>5, <1>6, <1>7 DEF InOrder

LEMMA FoundLocated == FInv => LocationErrors
<1> SUFFICES ASSUME FInv
             PROVE  LocationErrors
  OBVIOUS
<1> DEFINE lacking == {e \in Selection : ~DataOf(e).interface /\ ~DataOf(e).located}
<1>1. phase = "found" => lacking = {}
  BY AllPassed DEF NoneLacks
<1>2. ASSUME phase = "error"
      PROVE  lacking # {}
  <2>1. phase \in MergePhases
    BY <1>2 DEF MergePhases
  <2>2. SelectOK /\ SortP!IInv /\ Sort!Done /\ todo \in Seq(NodeIds) /\ todo # <<>>
    BY <2>1, MergesSomewhere
  <2>3. PICK p \in DOMAIN sorted : MergesAt(p)
    BY <2>1, MergesSomewhere DEF MergeOK
  <2>4. PICK c \in comps : ~Complete(c)
    BY <1>2 DEF FInv
  <2>5. /\ todo[1] = sorted[p] /\ sorted[p] \in Below(nodes, 1)
        /\ c \in Keys(selected[sorted[p]]) /\ c \in Comps
    BY <2>1, <2>3, CurrentFacts
  <2>6. Head(todo) = sorted[p]
    BY <2>2, <2>5
  <2> DEFINE e == <<sorted[p], c>>
  <2>7. selected[sorted[p]][c] # None
    BY <2>2, <2>5, SelectedFacts
  <2>8. e \in Selection
    BY <2>5, <2>7 DEF Selection
  <2>9. ~DataOf(e).interface /\ ~DataOf(e).located
    BY <2>4, <2>6 DEF Complete, Data, Node, DataOf
  <2> QED
    BY <2>8, <2>9
<1> QED
  BY <1>1, <1>2 DEF LocationErrors, Found

LEMMA NothingFound ==
  ASSUME FindStart
  PROVE  MergedOnce /\ LinkOrder /\ LocationErrors
BY DEF FindStart, MergedOnce, LinkOrder, LocationErrors, Found

(* A result holds each selected component of each node of the graph once,   *)
(* where it belongs: find_package's loops miss none and meet none twice.    *)
THEOREM MergesOnce == MainSpec => []MergedOnce
<1>1. MInv => MergedOnce
  BY FoundMerged, NothingFound DEF MInv
<1> QED
  BY FindHolds, <1>1, PTL

(* A result has the flags of a package before those of all it depends on,    *)
(* directly or not.                                                        *)
THEOREM LinksInOrder == MainSpec => []LinkOrder
<1>1. MInv => LinkOrder
  BY FoundInOrder, NothingFound DEF MInv
<1> QED
  BY FindHolds, <1>1, PTL

(* No result is returned with a component that lacks its location, and one   *)
(* is to blame for the error in every order of visiting them.               *)
THEOREM LocationsReported == MainSpec => []LocationErrors
<1>1. MInv => LocationErrors
  BY FoundLocated, NothingFound DEF MInv
<1> QED
  BY FindHolds, <1>1, PTL

-----------------------------------------------------------------------------
(* What is needed, read through either instance.                            *)
LEMMA SameUses ==
  ASSUME NEW g, NEW r, NEW components
  PROVE  /\ Select!UsesFrom(g, r, components) = SelectP!UsesFrom(g, r, components)
         /\ \A uses : Select!NeededIn(g, uses) = SelectP!NeededIn(g, uses)
         /\ \A needed : Select!Uniform(g, needed) <=> SelectP!Uniform(g, needed)
<1>1. Select!UsesFrom(g, r, components) = SelectP!UsesFrom(g, r, components)
  BY Zenon
  DEF Select!UsesFrom, SelectP!UsesFrom, Select!Defaults, SelectP!Defaults,
      Select!NeededBy, SelectP!NeededBy, Select!NeededOf, SelectP!NeededOf,
      Select!SelfRequires, SelectP!SelfRequires, Select!Require, SelectP!Require,
      Select!LinkRequire, SelectP!LinkRequire, Select!process_requires,
      SelectP!process_requires, Select!Children, SelectP!Children, Select!Range,
      SelectP!Range, Select!Keys, SelectP!Keys, Select!Cardinality, SelectP!Cardinality,
      Select!IsFiniteSet, SelectP!IsFiniteSet
<1>2. \A uses : Select!NeededIn(g, uses) = SelectP!NeededIn(g, uses)
  BY Zenon DEF Select!NeededIn, SelectP!NeededIn
<1>3. \A needed : Select!Uniform(g, needed) <=> SelectP!Uniform(g, needed)
  <2>1. \A n, c : Select!WantsIn(g, n, c) = SelectP!WantsIn(g, n, c)
    BY Zenon
    DEF Select!WantsIn, SelectP!WantsIn, Select!NamedBy, SelectP!NamedBy,
        Select!Require, SelectP!Require, Select!LinkRequire, SelectP!LinkRequire,
        Select!process_requires, SelectP!process_requires, Select!Children,
        SelectP!Children, Select!Range, SelectP!Range, Select!Keys, SelectP!Keys
  <2> QED
    BY <2>1 DEF Select!Uniform, SelectP!Uniform
<1> QED
  BY <1>1, <1>2, <1>3

(* The graph of the files.                                                 *)
LEMMA FilesFacts ==
  ASSUME disk \in BuildP!DiskType
  PROVE  /\ \A m : m \in DOMAIN Files <=>
                     /\ m \in Names /\ HasChosen(disk, m)
                     /\ Chosen(disk, m) # LoadThrow
         /\ \A m \in DOMAIN Files :
              /\ Files[m].pkg = Chosen(disk, m) /\ Files[m].pkg \in Package
              /\ SelectP!Children(Files, m) = Keys(Files[m].pkg.require) \cap DOMAIN Files
         /\ SelectP!FiniteGraph(Files)
<1> DEFINE loads == {m \in Names : HasChosen(disk, m) /\ Chosen(disk, m) # LoadThrow}
<1>1. DOMAIN Files = loads
  BY DEF Files
<1>2. ASSUME NEW m \in loads
      PROVE  /\ Files[m].pkg = Chosen(disk, m)
             /\ Files[m].depends = SetToSeq(Keys(Chosen(disk, m).require) \cap loads)
  BY DEF Files
<1>3. IsFiniteSet(loads)
  BY FindAssumption, FS_Subset DEF FindAssumption
<1> HIDE DEF loads
<1>4. ASSUME NEW m \in loads
      PROVE  /\ Files[m].pkg \in Package
             /\ SelectP!Children(Files, m) = Keys(Files[m].pkg.require) \cap loads
  <2>1. Files[m].pkg \in Package
    <3>1. m \in Names /\ HasChosen(disk, m) /\ Chosen(disk, m) # LoadThrow
      BY DEF loads
    <3>2. BuildP!Chosen(disk, m) \in BuildP!File \ {LoadError}
      BY <3>1, SameDemands, BuildAssumptions, BuildP!ChosenType
    <3> QED
      BY <1>2, <3>1, <3>2, SameDemands, SameSets DEF BuildP!File
  <2> DEFINE S == Keys(Chosen(disk, m).require) \cap loads
  <2>2. IsFiniteSet(S)
    BY <1>3, FS_Subset
  <2>3. Range(SetToSeq(S)) = S
    BY <2>2, ListsAll
  <2> HIDE DEF S
  <2>4. Children(Files, m) = S
    BY <1>2, <2>3 DEF Children, S
  <2> QED
    BY <1>2, <2>1, <2>4, SameGraphs DEF S
<1>5. SelectP!FiniteGraph(Files)
  <2>1. \A m \in loads : SelectP!Children(Files, m) \subseteq loads
    BY <1>4
  <2> QED
    BY <1>1, <1>3, <1>4, <2>1, SameSets DEF SelectP!FiniteGraph, SelectP!IsFiniteSet, IsFiniteSet
<1> QED
  BY <1>1, <1>2, <1>4, <1>5 DEF loads

-----------------------------------------------------------------------------
(* The name each node was made for: the request's, or the entry of its       *)
(* parent's requirements.                                                  *)
IsEntry(entry, n) ==
  /\ entry \in BuildP!Bijection(DOMAIN graph[n].depends, Keys(graph[n].pkg.require))
  /\ \A i \in DOMAIN graph[n].depends :
       BuildP!Fits(graph, disk, graph[n].pkg.require, entry[i], graph[n].depends[i])

EntryOf(n) == CHOOSE entry : IsEntry(entry, n)

StandsFor ==
  {e \in Below(graph, 1) \X Names :
     \/ e[1] = 1 /\ e[2] = request.name
     \/ \E p \in Below(graph, 1) : \E i \in DOMAIN graph[p].depends :
          e[1] = graph[p].depends[i] /\ e[2] = EntryOf(p)[i]}

LEMMA EntryFacts ==
  ASSUME SelectOK, disk \in BuildP!DiskType, NEW n \in Below(graph, 1)
  PROVE  /\ \A i \in DOMAIN graph[n].depends :
              /\ EntryOf(n)[i] \in DOMAIN Files /\ EntryOf(n)[i] \in Keys(graph[n].pkg.require)
              /\ Files[EntryOf(n)[i]].pkg = graph[graph[n].depends[i]].pkg
              /\ <<graph[n].depends[i], EntryOf(n)[i]>> \in StandsFor
         /\ \A m \in Keys(graph[n].pkg.require) :
              \E i \in DOMAIN graph[n].depends : EntryOf(n)[i] = m
<1>1. graph \in BuiltGraphs /\ BuildP!HasKids(graph, disk, n)
  BY DEF SelectOK, FromFiles
<1>2. \E entry : IsEntry(entry, n)
  <2>1. BuildP!Keys(graph[n].pkg.require) = Keys(graph[n].pkg.require)
    BY DEF BuildP!Keys, Keys
  <2> QED
    BY <1>1, <2>1 DEF BuildP!HasKids, BuildP!FoundFor, IsEntry
<1>3. PICK entry : entry = EntryOf(n)
  OBVIOUS
<1>4. IsEntry(entry, n)
  BY <1>2, <1>3, Zenon DEF EntryOf
<1>5. n \in DOMAIN graph /\ graph[n].pkg \in Package
  BY <1>1, BuiltFacts
<1>6. Keys(graph[n].pkg.require) \subseteq Names
  BY <1>5 DEF Package, Map, Keys
<1>7. ASSUME NEW i \in DOMAIN graph[n].depends
      PROVE  /\ entry[i] \in DOMAIN Files /\ entry[i] \in Keys(graph[n].pkg.require)
             /\ Files[entry[i]].pkg = graph[graph[n].depends[i]].pkg
             /\ <<graph[n].depends[i], entry[i]>> \in StandsFor
  <2>1. entry[i] \in Keys(graph[n].pkg.require)
    BY <1>4 DEF IsEntry, BuildP!Bijection, BuildP!Injection
  <2>2. /\ HasChosen(disk, entry[i])
        /\ graph[graph[n].depends[i]].pkg = Chosen(disk, entry[i])
    BY <1>4, SameDemands DEF IsEntry, BuildP!Fits, BuildP!FromFile
  <2>3. graph[n].depends[i] \in Below(graph, 1)
    <3>1. graph[n].depends[i] \in Children(graph, n)
      BY DEF Children, Range
    <3> QED
      BY <1>1, <3>1, BuiltFacts
  <2>4. graph[graph[n].depends[i]].pkg \in Package
    BY <1>1, <2>3, BuiltFacts
  <2>5. Chosen(disk, entry[i]) # LoadThrow
    BY <2>2, <2>4, PackagesAssumption DEF PackagesAssumption
  <2>6. entry[i] \in Names
    BY <1>6, <2>1
  <2>7. <<graph[n].depends[i], entry[i]>> \in StandsFor
    BY <1>3, <2>3, <2>6 DEF StandsFor
  <2> QED
    BY <2>1, <2>2, <2>5, <2>6, <2>7, FilesFacts
<1>8. \A m \in Keys(graph[n].pkg.require) : \E i \in DOMAIN graph[n].depends : entry[i] = m
  BY <1>4 DEF IsEntry, BuildP!Bijection, BuildP!Surjection
<1> QED
  BY <1>3, <1>7, <1>8

(* A node stands for one name, and its children for the names the file of    *)
(* that name requires.                                                     *)
LEMMA StandsForFacts ==
  ASSUME SelectOK, disk \in BuildP!DiskType, request \in Requests
  PROVE  /\ <<1, request.name>> \in StandsFor
         /\ \A n, m : <<n, m>> \in StandsFor =>
              n \in Below(graph, 1) /\ m \in DOMAIN Files /\ graph[n].pkg = Files[m].pkg
         /\ \A n, m, l : <<n, m>> \in StandsFor /\ <<n, l>> \in StandsFor => m = l
         /\ \A n, m, k : <<n, m>> \in StandsFor /\ k \in Children(graph, n) =>
              \E j \in SelectP!Children(Files, m) : <<k, j>> \in StandsFor
         /\ \A n, m, j : <<n, m>> \in StandsFor /\ j \in SelectP!Children(Files, m) =>
              \E k \in Children(graph, n) : <<k, j>> \in StandsFor
<1>1. graph \in BuiltGraphs /\ 1 \in Below(graph, 1) /\ graph[1].pkg \in Package
  BY BuiltFacts DEF SelectOK
<1>2. /\ request.name \in DOMAIN Files /\ request.name \in Names
      /\ graph[1].pkg = Files[request.name].pkg
  <2>1. request.name \in Names
    BY DemandsAssumption DEF DemandsAssumption, RootDemand, Demand
  <2>2. HasChosen(disk, request.name) /\ graph[1].pkg = Chosen(disk, request.name)
    BY SameDemands DEF SelectOK, FromFiles, BuildP!FromFile
  <2>3. Chosen(disk, request.name) # LoadThrow
    BY <1>1, <2>2, PackagesAssumption DEF PackagesAssumption
  <2> QED
    BY <2>1, <2>2, <2>3, FilesFacts
<1>3. <<1, request.name>> \in StandsFor
  BY <1>1, <1>2 DEF StandsFor
<1>4. ASSUME NEW n, NEW m, <<n, m>> \in StandsFor
      PROVE  /\ n \in Below(graph, 1) /\ m \in Names
             /\ \/ n = 1 /\ m = request.name
                \/ \E p \in Below(graph, 1) : \E i \in DOMAIN graph[p].depends :
                     n = graph[p].depends[i] /\ m = EntryOf(p)[i]
  BY <1>4 DEF StandsFor
<1>5. ASSUME NEW n, NEW m, <<n, m>> \in StandsFor
      PROVE  m \in DOMAIN Files /\ graph[n].pkg = Files[m].pkg
  <2>1. CASE n = 1 /\ m = request.name
    BY <1>2, <2>1
  <2>2. CASE \E p \in Below(graph, 1) : \E i \in DOMAIN graph[p].depends :
               n = graph[p].depends[i] /\ m = EntryOf(p)[i]
    <3>1. PICK p \in Below(graph, 1) : \E i \in DOMAIN graph[p].depends :
                        n = graph[p].depends[i] /\ m = EntryOf(p)[i]
      BY <2>2
    <3> QED
      BY <3>1, EntryFacts
  <2> QED
    BY <1>4, <1>5, <2>1, <2>2
<1>6. \A p \in Below(graph, 1) : \A i \in DOMAIN graph[p].depends :
        graph[p].depends[i] \in Children(graph, p)
  BY DEF Children, Range
<1>7. ASSUME NEW n, NEW m, <<n, m>> \in StandsFor, NEW l, <<n, l>> \in StandsFor
      PROVE  m = l
  <2>1. CASE n = 1
    <3>1. \A p \in Below(graph, 1) : \A k \in Children(graph, p) : k # 1
      BY <1>1, BuiltFacts
    <3>2. \A p \in Below(graph, 1) : \A i \in DOMAIN graph[p].depends :
            n # graph[p].depends[i]
      BY <1>6, <2>1, <3>1
    <3> QED
      BY <1>4, <1>7, <3>2
  <2>2. CASE n # 1
    <3>1. PICK p \in Below(graph, 1) : \E i \in DOMAIN graph[p].depends :
                        n = graph[p].depends[i] /\ m = EntryOf(p)[i]
      BY <1>4, <1>7, <2>2
    <3>2. PICK q \in Below(graph, 1) : \E j \in DOMAIN graph[q].depends :
                        n = graph[q].depends[j] /\ l = EntryOf(q)[j]
      BY <1>4, <1>7, <2>2
    <3>3. p = q
      BY <1>1, <1>6, <3>1, <3>2, BuiltFacts
    <3>4. PICK i \in DOMAIN graph[p].depends : n = graph[p].depends[i] /\ m = EntryOf(p)[i]
      BY <3>1
    <3>5. PICK j \in DOMAIN graph[p].depends : n = graph[p].depends[j] /\ l = EntryOf(p)[j]
      BY <3>2, <3>3
    <3>6. SelectP!IsInjective(graph[p].depends)
      BY <1>1, SelectAssumptions, SelectP!ChildrenOnce, SameGraphs
    <3>7. i = j
      BY <3>4, <3>5, <3>6 DEF SelectP!IsInjective
    <3> QED
      BY <3>4, <3>5, <3>7
  <2> QED
    BY <2>1, <2>2
<1>8. ASSUME NEW n, NEW m, <<n, m>> \in StandsFor
      PROVE  /\ \A k \in Children(graph, n) :
                  \E j \in SelectP!Children(Files, m) : <<k, j>> \in StandsFor
             /\ \A j \in SelectP!Children(Files, m) :
                  \E k \in Children(graph, n) : <<k, j>> \in StandsFor
  <2>1. /\ n \in Below(graph, 1)
        /\ SelectP!Children(Files, m) = Keys(graph[n].pkg.require) \cap DOMAIN Files
    BY <1>4, <1>5, <1>8, FilesFacts
  <2>2. ASSUME NEW k \in Children(graph, n)
        PROVE  \E j \in SelectP!Children(Files, m) : <<k, j>> \in StandsFor
    <3>1. PICK i \in DOMAIN graph[n].depends : k = graph[n].depends[i]
      BY DEF Children, Range
    <3> QED
      BY <2>1, <3>1, EntryFacts
  <2>3. ASSUME NEW j \in SelectP!Children(Files, m)
        PROVE  \E k \in Children(graph, n) : <<k, j>> \in StandsFor
    <3>1. PICK i \in DOMAIN graph[n].depends : EntryOf(n)[i] = j
      BY <2>1, EntryFacts
    <3> QED
      BY <1>6, <2>1, <3>1, EntryFacts
  <2> QED
    BY <2>2, <2>3
<1>9. \A n, m : <<n, m>> \in StandsFor =>
        n \in Below(graph, 1) /\ m \in DOMAIN Files /\ graph[n].pkg = Files[m].pkg
  BY <1>4, <1>5
<1>10. \A n, m, l : <<n, m>> \in StandsFor /\ <<n, l>> \in StandsFor => m = l
  BY <1>7
<1>11. \A n, m, k : <<n, m>> \in StandsFor /\ k \in Children(graph, n) =>
         \E j \in SelectP!Children(Files, m) : <<k, j>> \in StandsFor
  BY <1>8
<1>12. \A n, m, j : <<n, m>> \in StandsFor /\ j \in SelectP!Children(Files, m) =>
         \E k \in Children(graph, n) : <<k, j>> \in StandsFor
  BY <1>8
<1> QED
  BY <1>3, <1>9, <1>10, <1>11, <1>12

-----------------------------------------------------------------------------
(* What the request needs in the graph, its file needs.                     *)
LEMMA UsesHere ==
  /\ SelectP!Uses = SelectP!UsesFrom(graph, 1, request.req.components)
  /\ FileUses = SelectP!UsesFrom(Files, request.name, request.req.components)
BY SameUses DEF SelectP!Uses, FileUses

(* The components asked for are components.                                 *)
LEMMA WantedType ==
  ASSUME request \in Requests
  PROVE  request.req.components \in SUBSET Comps
BY DemandsAssumption DEF DemandsAssumption, RootDemand, Demand, Requirement

(* A node that is needed for a component has a file that is, for the same.  *)
LEMMA GraphFileNeeds ==
  ASSUME SelectOK, disk \in BuildP!DiskType, request \in Requests
  PROVE  \A n, c, link : <<n, c, link>> \in SelectP!Uses =>
           \E m : <<n, m>> \in StandsFor /\ <<m, c, link>> \in FileUses
<1> DEFINE wanted == request.req.components
<1>1. graph \in BuiltGraphs
  BY DEF SelectOK
<1>2. SelectP!FiniteGraph(graph) /\ SelectP!FiniteGraph(Files)
  BY <1>1, SelectAssumptions, SelectP!GraphsFinite, FilesFacts
<1>3. 1 \in DOMAIN graph /\ request.name \in DOMAIN Files /\ wanted \in SUBSET Comps
  BY <1>1, BuiltFacts, StandsForFacts, WantedType
<1>4. \A x, y : <<x, y>> \in StandsFor =>
        x \in DOMAIN graph /\ y \in DOMAIN Files /\ graph[x].pkg = Files[y].pkg
  BY <1>1, BuiltFacts, StandsForFacts
<1>5. \A n, m, k : <<n, m>> \in StandsFor /\ k \in Children(graph, n) =>
          \E j \in SelectP!Children(Files, m) : <<k, j>> \in StandsFor
  BY StandsForFacts
<1>6. ASSUME NEW n, NEW m, NEW c, <<n, m>> \in StandsFor, NEW k \in SelectP!WantsIn(graph, n, c)
      PROVE  \E j \in SelectP!Children(Files, m) : <<k, j>> \in StandsFor
  <2>1. k \in Children(graph, n)
    BY SameGraphs DEF SelectP!WantsIn
  <2> QED
    BY <1>6, <2>1, <1>5
<1>7. <<1, request.name>> \in StandsFor
  BY StandsForFacts
<1>8. \A u \in SelectP!UsesFrom(graph, 1, wanted) :
        SelectP!Carried(StandsFor, SelectP!UsesFrom(Files, request.name, wanted), u)
  <2> HIDE DEF wanted
  <2> QED
    BY <1>2, <1>3, <1>4, <1>6, <1>7, SelectAssumptions, SelectP!UsesCarry
<1>9. ASSUME NEW n, NEW c, NEW link, <<n, c, link>> \in SelectP!Uses
      PROVE  \E m : <<n, m>> \in StandsFor /\ <<m, c, link>> \in FileUses
  <2> DEFINE u == <<n, c, link>>
  <2>1. u[1] = n /\ u[2] = c /\ u[3] = link
    OBVIOUS
  <2>2. SelectP!Carried(StandsFor, FileUses, u)
    BY <1>8, <1>9, UsesHere
  <2> HIDE DEF u
  <2> QED
    BY <2>1, <2>2 DEF SelectP!Carried
<1> QED
  BY <1>9

(* Where the needed components of a file ask for the same children, so do    *)
(* those of its nodes.                                                     *)
LEMMA GraphUniform ==
  ASSUME SelectOK, disk \in BuildP!DiskType, request \in Requests,
         Select!Uniform(Files, Select!NeededIn(Files, FileUses))
  PROVE  SelectP!Uniform(graph, SelectP!Needed)
<1> DEFINE needed == SelectP!NeededIn(Files, FileUses)
<1>1. \A m \in DOMAIN Files : \A c, d \in needed[m] :
        SelectP!WantsIn(Files, m, c) = SelectP!WantsIn(Files, m, d)
  BY SameUses DEF SelectP!Uniform
<1>2. ASSUME NEW m \in DOMAIN Files, NEW c, NEW link, <<m, c, link>> \in FileUses
      PROVE  c \in needed[m]
  <2> DEFINE u == <<m, c, link>>
  <2>1. u \in FileUses /\ u[1] = m /\ u[2] = c
    BY <1>2
  <2> HIDE DEF u
  <2> QED
    BY <2>1 DEF SelectP!NeededIn
<1> HIDE DEF needed
<1>3. ASSUME NEW n, NEW m, <<n, m>> \in StandsFor, NEW c \in needed[m], NEW d \in needed[m]
      PROVE  SelectP!WantsIn(graph, n, c) \subseteq SelectP!WantsIn(graph, n, d)
  <2>1. m \in DOMAIN Files /\ graph[n].pkg = Files[m].pkg
    BY <1>3, StandsForFacts
  <2> SUFFICES ASSUME NEW k \in SelectP!WantsIn(graph, n, c)
               PROVE  k \in SelectP!WantsIn(graph, n, d)
    OBVIOUS
  <2>2. /\ k \in SelectP!Children(graph, n)
        /\ graph[k].pkg.name \in SelectP!NamedBy(graph[n].pkg, c)
    BY DEF SelectP!WantsIn
  <2>3. PICK j \in SelectP!Children(Files, m) : <<k, j>> \in StandsFor
    BY <1>3, <2>2, SameGraphs, StandsForFacts
  <2>4. graph[k].pkg = Files[j].pkg
    BY <2>3, StandsForFacts
  <2>5. j \in SelectP!WantsIn(Files, m, c)
    BY <2>1, <2>2, <2>3, <2>4 DEF SelectP!WantsIn
  <2>6. j \in SelectP!WantsIn(Files, m, d)
    BY <1>1, <1>3, <2>1, <2>5
  <2> QED
    BY <2>1, <2>2, <2>4, <2>6 DEF SelectP!WantsIn
<1>4. ASSUME NEW n \in DOMAIN graph, NEW c \in SelectP!Needed[n], NEW d \in SelectP!Needed[n]
      PROVE  SelectP!WantsIn(graph, n, c) = SelectP!WantsIn(graph, n, d)
  <2>1. ASSUME NEW x \in SelectP!Needed[n]
        PROVE  \E m : <<n, m>> \in StandsFor /\ x \in needed[m]
    <3>1. PICK u \in SelectP!Uses : u[1] = n /\ u[2] = x
      BY DEF SelectP!Needed, SelectP!NeededIn
    <3>2. u = <<n, x, u[3]>>
      <4>1. SelectP!Uses \subseteq SelectP!AllUses(graph)
        BY SelectAssumptions, SelectP!UsesFacts DEF SelectOK, SelectP!SInv
      <4> QED
        BY <3>1, <4>1 DEF SelectP!AllUses
    <3>3. PICK m : <<n, m>> \in StandsFor /\ <<m, x, u[3]>> \in FileUses
      BY <3>2, GraphFileNeeds
    <3>4. m \in DOMAIN Files
      BY <3>3, StandsForFacts
    <3> QED
      BY <1>2, <3>3, <3>4
  <2>2. PICK m : <<n, m>> \in StandsFor /\ c \in needed[m]
    BY <2>1
  <2>3. PICK l : <<n, l>> \in StandsFor /\ d \in needed[l]
    BY <2>1
  <2>4. m = l
    BY <2>2, <2>3, StandsForFacts
  <2> QED
    <3>1. c \in needed[m] /\ d \in needed[m] /\ <<n, m>> \in StandsFor
      BY <2>2, <2>3, <2>4
    <3>2. SelectP!WantsIn(graph, n, c) \subseteq SelectP!WantsIn(graph, n, d)
      BY <1>3, <3>1
    <3>3. SelectP!WantsIn(graph, n, d) \subseteq SelectP!WantsIn(graph, n, c)
      BY <1>3, <3>1
    <3> QED
      BY <3>2, <3>3
<1> QED
  BY <1>4 DEF SelectP!Uniform

(* What is needed in the trimmed graph is needed in the graph.              *)
LEMMA TrimmedNeeds ==
  ASSUME SelectOK, request \in Requests
  PROVE  /\ SelectP!FiniteGraph(nodes)
         /\ SelectP!UsesFrom(nodes, 1, request.req.components) \subseteq SelectP!Uses
<1> DEFINE wanted == request.req.components
           same == {<<n, n>> : n \in DOMAIN graph}
<1>1. Trimmed(graph, nodes) /\ graph \in BuiltGraphs
  BY GraphIsTrimmed DEF SelectOK
<1>2. SelectP!FiniteGraph(graph) /\ 1 \in DOMAIN graph /\ wanted \in SUBSET Comps
  BY <1>1, SelectAssumptions, SelectP!GraphsFinite, BuiltFacts, WantedType
<1>3. /\ DOMAIN nodes = DOMAIN graph
      /\ \A n \in DOMAIN graph :
           /\ nodes[n].pkg = graph[n].pkg
           /\ SelectP!Children(nodes, n) \subseteq SelectP!Children(graph, n)
  BY <1>1, SameGraphs DEF Trimmed
<1>4. SelectP!FiniteGraph(nodes)
  BY <1>2, <1>3 DEF SelectP!FiniteGraph
<1>5. \A x, y : <<x, y>> \in same => x = y /\ x \in DOMAIN graph
  OBVIOUS
<1>6. \A n \in DOMAIN graph : <<n, n>> \in same
  OBVIOUS
<1> HIDE DEF wanted, same
<1>7. \A x, y : <<x, y>> \in same =>
        x \in DOMAIN nodes /\ y \in DOMAIN graph /\ nodes[x].pkg = graph[y].pkg
  BY <1>3, <1>5
<1>8. ASSUME NEW n, NEW m, NEW c, <<n, m>> \in same, NEW k \in SelectP!WantsIn(nodes, n, c)
      PROVE  \E j \in SelectP!Children(graph, m) : <<k, j>> \in same
  <2>1. n = m /\ n \in DOMAIN graph /\ k \in SelectP!Children(nodes, n)
    BY <1>5, <1>8 DEF SelectP!WantsIn
  <2>2. k \in SelectP!Children(graph, m) /\ k \in DOMAIN graph
    BY <1>2, <1>3, <2>1 DEF SelectP!FiniteGraph
  <2> QED
    BY <1>6, <2>2
<1>9. \A u \in SelectP!UsesFrom(nodes, 1, wanted) :
        SelectP!Carried(same, SelectP!UsesFrom(graph, 1, wanted), u)
  <2>1. 1 \in DOMAIN nodes /\ <<1, 1>> \in same
    BY <1>2, <1>3, <1>6
  <2> QED
    BY <1>2, <1>4, <1>7, <1>8, <2>1, SelectAssumptions, SelectP!UsesCarry
<1>10. ASSUME NEW u \in SelectP!UsesFrom(nodes, 1, wanted)
       PROVE  u \in SelectP!Uses
  <2>1. PICK m : <<u[1], m>> \in same /\ <<m, u[2], u[3]>> \in SelectP!Uses
    BY <1>9, UsesHere DEF SelectP!Carried, wanted
  <2>2. m = u[1]
    BY <1>5, <2>1
  <2>3. u = <<u[1], u[2], u[3]>>
    <3>1. SelectP!UsesFrom(nodes, 1, wanted) \subseteq SelectP!AllUses(nodes)
      BY <1>2, <1>3, <1>4, SelectAssumptions, SelectP!UsesLeast
    <3> QED
      BY <3>1 DEF SelectP!AllUses
  <2> QED
    BY <2>1, <2>2, <2>3
<1> QED
  BY <1>4, <1>10 DEF wanted

(* What the files need, a node that is left needs, and has selected.        *)
LEMMA FileNeedsSelected ==
  ASSUME SelectOK, selection = "done", disk \in BuildP!DiskType, request \in Requests,
         Select!Uniform(Files, Select!NeededIn(Files, FileUses)), NEW u \in FileUses
  PROVE  \E e \in Selection : nodes[e[1]].pkg = Files[u[1]].pkg /\ e[2] = u[2]
<1> DEFINE wanted == request.req.components
           R == {e \in (DOMAIN Files) \X Below(nodes, 1) : <<e[2], e[1]>> \in StandsFor}
<1>1. /\ Trimmed(graph, nodes) /\ graph \in BuiltGraphs
      /\ SelectP!FiniteGraph(nodes) /\ SelectP!FiniteGraph(Files)
      /\ SelectP!UsesFrom(nodes, 1, wanted) \subseteq SelectP!Uses
  BY GraphIsTrimmed, TrimmedNeeds, FilesFacts DEF SelectOK
<1>2. /\ 1 \in DOMAIN nodes /\ request.name \in DOMAIN Files /\ wanted \in SUBSET Comps
      /\ 1 \in Below(nodes, 1)
  <2>1. 1 \in DOMAIN nodes
    BY <1>1, BuiltFacts DEF Trimmed
  <2>2. 1 \in Below(nodes, 1)
    BY <1>1, TrimmedFacts
  <2>3. request.name \in DOMAIN Files
    BY StandsForFacts
  <2> QED
    BY <2>1, <2>2, <2>3, WantedType
<1>3. /\ SelectP!SInv /\ SelectP!NInv /\ SelectP!Done
      /\ SelectP!TypeOK /\ SelectP!UniformOK
  BY DEF SelectOK, SelectP!SInv, SelectP!NInv, SelectP!Done
<1>4. SelectP!Uniform(graph, SelectP!Needed)
  BY GraphUniform
<1>5. \A n \in DOMAIN graph :
        /\ SelectP!Selected(n) = SelectP!Needed[n]
        /\ \A c \in SelectP!Needed[n] :
             SelectP!WantsIn(graph, n, c) \subseteq SelectP!Children(nodes, n)
  BY <1>3, <1>4, SelectAssumptions, SelectP!AllSelected
  DEF SelectP!NeededSelected, SelectP!UniformOK, SelectP!Wants
<1>6. \A j, n : <<j, n>> \in R <=>
        j \in DOMAIN Files /\ n \in Below(nodes, 1) /\ <<n, j>> \in StandsFor
  OBVIOUS
<1>7. \A n \in Below(nodes, 1) :
        n \in DOMAIN graph /\ n \in DOMAIN nodes /\ nodes[n].pkg = graph[n].pkg
  BY <1>1, BuiltFacts, TrimmedFacts DEF Trimmed
<1> HIDE DEF wanted, R
<1>8. <<request.name, 1>> \in R
  BY <1>2, <1>6, StandsForFacts
<1>9. \A x, y : <<x, y>> \in R =>
        x \in DOMAIN Files /\ y \in DOMAIN nodes /\ Files[x].pkg = nodes[y].pkg
  BY <1>6, <1>7, StandsForFacts
<1>10. ASSUME NEW n, NEW m, NEW c, NEW link, <<n, m>> \in R,
              <<m, c, link>> \in SelectP!UsesFrom(nodes, 1, wanted),
              NEW k \in SelectP!WantsIn(Files, n, c)
       PROVE  \E j \in SelectP!Children(nodes, m) : <<k, j>> \in R
  <2>1. m \in Below(nodes, 1) /\ m \in DOMAIN graph /\ <<m, n>> \in StandsFor
    BY <1>6, <1>7, <1>10
  <2>2. c \in SelectP!Needed[m]
    <3>1. SelectP!Needs(m, c, link)
      BY <1>1, <1>10 DEF SelectP!Needs
    <3> QED
      BY <1>3, <3>1, SelectAssumptions, SelectP!NeedsType
  <2>3. k \in SelectP!Children(Files, n) /\ Files[k].pkg.name \in SelectP!NamedBy(Files[n].pkg, c)
    BY <1>10 DEF SelectP!WantsIn
  <2>4. PICK j \in Children(graph, m) : <<j, k>> \in StandsFor
    BY <2>1, <2>3, StandsForFacts
  <2>5. graph[m].pkg = Files[n].pkg /\ graph[j].pkg = Files[k].pkg /\ k \in DOMAIN Files
    BY <2>1, <2>4, StandsForFacts
  <2>6. j \in SelectP!WantsIn(graph, m, c)
    BY <2>3, <2>4, <2>5, SameGraphs DEF SelectP!WantsIn
  <2>7. j \in SelectP!Children(nodes, m)
    BY <1>5, <2>1, <2>2, <2>6
  <2>8. j \in Below(nodes, 1)
    BY <1>1, <2>1, <2>7, SameGraphs, TrimmedFacts
  <2> QED
    BY <1>6, <2>4, <2>5, <2>7, <2>8
<1>11. \A v \in SelectP!UsesFrom(Files, request.name, wanted) :
         SelectP!Carried(R, SelectP!UsesFrom(nodes, 1, wanted), v)
  BY <1>1, <1>2, <1>8, <1>9, <1>10, SelectAssumptions, SelectP!UsesCarry
<1>12. PICK n : <<u[1], n>> \in R /\ <<n, u[2], u[3]>> \in SelectP!UsesFrom(nodes, 1, wanted)
  BY <1>11, UsesHere DEF SelectP!Carried, wanted
<1>13. u[2] \in SelectP!Needed[n] /\ u[2] \in Comps
  <2>1. SelectP!Needs(n, u[2], u[3])
    BY <1>1, <1>12 DEF SelectP!Needs
  <2> QED
    BY <1>3, <2>1, SelectAssumptions, SelectP!NeedsType
<1>14. n \in Below(nodes, 1) /\ nodes[n].pkg = Files[u[1]].pkg
  BY <1>6, <1>9, <1>12
<1>15. selected[n][u[2]] # None
  <2>1. u[2] \in SelectP!Selected(n)
    BY <1>5, <1>7, <1>13, <1>14
  <2> QED
    BY <2>1 DEF SelectP!Selected, SelectP!Keys
<1> DEFINE e == <<n, u[2]>>
<1>16. e \in Selection
  BY <1>13, <1>14, <1>15 DEF Selection
<1> QED
  BY <1>14, <1>16

-----------------------------------------------------------------------------
(* What is selected in a node below the root, its file is needed for.       *)
LEMMA EntryNeeded ==
  ASSUME SelectOK, disk \in BuildP!DiskType, request \in Requests,
         NEW n \in Below(nodes, 1), NEW c \in Keys(selected[n])
  PROVE  \E m, link : /\ link \in {FALSE, selected[n][c]}
                      /\ <<m, c, link>> \in FileUses /\ nodes[n].pkg = Files[m].pkg
<1>1. n \in DOMAIN graph /\ nodes[n].pkg = graph[n].pkg
  BY SelectedFacts
<1>2. PICK link \in {FALSE, selected[n][c]} : <<n, c, link>> \in SelectP!Uses
  <2>1. SelectP!OnlyNeeded
    BY DEF SelectOK, SelectP!NInv, SelectP!NeedOK
  <2>2. c \in SelectP!Selected(n)
    BY DEF SelectP!Selected, SelectP!Keys, Keys
  <2> QED
    BY <1>1, <2>1, <2>2 DEF SelectP!OnlyNeeded
<1>3. PICK m : <<n, m>> \in StandsFor /\ <<m, c, link>> \in FileUses
  BY <1>2, GraphFileNeeds
<1>4. graph[n].pkg = Files[m].pkg
  BY <1>3, StandsForFacts
<1> QED
  BY <1>1, <1>2, <1>3, <1>4

(* What has been merged so far is selected, thus needed.                    *)
LEMMA OnlyNeededMerged == FInv => MergesOnlyNeeded
<1> SUFFICES ASSUME FInv, result.link # <<>>
             PROVE  /\ Contributors(result.compile) \subseteq Users({u \in FileUses : ~u[3]})
                    /\ Contributors(result.link) \subseteq Users(FileUses)
  BY DEF MergesOnlyNeeded
<1>1. phase \in MergePhases
  BY DEF FInv, Empty
<1>2. /\ SelectOK /\ disk \in BuildP!DiskType /\ request \in Requests
      /\ SortP!IInv /\ Sort!Done
  BY <1>1 DEF FInv
<1>3. Range(sorted) = Below(nodes, 1)
  BY <1>1, <1>2, MergesSomewhere, SortedFacts
<1>4. PICK p \in DOMAIN sorted : ListsHold(p)
  BY <1>1, MergesSomewhere DEF MergeOK, MergesAt
<1>5. ASSUME NEW e \in Passed(p)
      PROVE  e[1] \in Below(nodes, 1) /\ e[2] \in Keys(selected[e[1]])
  BY <1>3 DEF Passed, Range
<1>6. ASSUME NEW x \in Contributors(result.compile)
      PROVE  x \in Users({u \in FileUses : ~u[3]})
  <2>1. PICK e \in Range(result.compile) : x = <<nodes[e[1]].pkg, e[2]>>
    BY DEF Contributors
  <2>2. e \in Passed(p) /\ selected[e[1]][e[2]] = FALSE
    BY <1>4, <2>1 DEF ListsHold
  <2>3. PICK m : <<m, e[2], FALSE>> \in FileUses /\ nodes[e[1]].pkg = Files[m].pkg
    <3>1. e[1] \in Below(nodes, 1) /\ e[2] \in Keys(selected[e[1]])
      BY <1>5, <2>2
    <3>2. PICK m, link : /\ link \in {FALSE, selected[e[1]][e[2]]}
                         /\ <<m, e[2], link>> \in FileUses /\ nodes[e[1]].pkg = Files[m].pkg
      BY <1>2, <3>1, EntryNeeded, Zenon
    <3>3. link = FALSE
      BY <2>2, <3>2, Zenon
    <3> QED
      BY <3>2, <3>3
  <2> DEFINE v == <<m, e[2], FALSE>>
  <2>4. v \in FileUses /\ v[1] = m /\ v[2] = e[2] /\ v[3] = FALSE
    BY <2>3
  <2> HIDE DEF v
  <2>5. ~v[3]
    BY <2>4
  <2>6. v \in {u \in FileUses : ~u[3]}
    BY <2>4, <2>5
  <2> QED
    BY <2>1, <2>3, <2>4, <2>6 DEF Users
<1>7. ASSUME NEW x \in Contributors(result.link)
      PROVE  x \in Users(FileUses)
  <2>1. PICK e \in Range(result.link) : x = <<nodes[e[1]].pkg, e[2]>>
    BY DEF Contributors
  <2>2. e \in Passed(p)
    BY <1>4, <2>1 DEF ListsHold
  <2>3. PICK m, link : <<m, e[2], link>> \in FileUses /\ nodes[e[1]].pkg = Files[m].pkg
    <3>1. e[1] \in Below(nodes, 1) /\ e[2] \in Keys(selected[e[1]])
      BY <1>5, <2>2
    <3>2. PICK m, link : /\ link \in {FALSE, selected[e[1]][e[2]]}
                         /\ <<m, e[2], link>> \in FileUses /\ nodes[e[1]].pkg = Files[m].pkg
      BY <1>2, <3>1, EntryNeeded, Zenon
    <3> QED
      BY <3>2, Zenon
  <2> DEFINE v == <<m, e[2], link>>
  <2>4. v \in FileUses /\ v[1] = m /\ v[2] = e[2]
    BY <2>3
  <2> HIDE DEF v
  <2> QED
    BY <2>1, <2>3, <2>4 DEF Users
<1> QED
  BY <1>6, <1>7

(* Where nothing that is needed has link_requires, nothing is linked only.   *)
LEMMA NoneLinkOnly ==
  ASSUME SelectOK, disk \in BuildP!DiskType, request \in Requests,
         \A u \in FileUses : Files[u[1]].pkg.components[u[2]].link_requires = {},
         NEW e \in Selection
  PROVE  selected[e[1]][e[2]] = FALSE
<1>1. ASSUME NEW u \in SelectP!Uses
      PROVE  graph[u[1]].pkg.components[u[2]].link_requires = {}
  <2>1. u = <<u[1], u[2], u[3]>>
    <3>1. SelectP!Uses \subseteq SelectP!AllUses(graph)
      BY SelectAssumptions, SelectP!UsesFacts DEF SelectOK, SelectP!SInv
    <3> QED
      BY <3>1 DEF SelectP!AllUses
  <2>2. PICK m : <<u[1], m>> \in StandsFor /\ <<m, u[2], u[3]>> \in FileUses
    BY <2>1, GraphFileNeeds
  <2> DEFINE v == <<m, u[2], u[3]>>
  <2>3. v \in FileUses /\ v[1] = m /\ v[2] = u[2]
    BY <2>2
  <2> HIDE DEF v
  <2>4. graph[u[1]].pkg = Files[m].pkg
    BY <2>2, StandsForFacts
  <2> QED
    BY <2>3, <2>4
<1>2. SelectP!NoneLinks(graph, SelectP!Uses)
  BY <1>1 DEF SelectP!NoneLinks
<1>3. \A n \in DOMAIN graph : \A c \in Comps : selected[n][c] # TRUE
  BY <1>2 DEF SelectOK, SelectP!CompileOK
<1>4. e[1] \in Below(nodes, 1) /\ e[2] \in Comps /\ selected[e[1]][e[2]] # None
  BY DEF Selection
<1>5. e[1] \in DOMAIN graph /\ selected[e[1]][e[2]] \in BOOLEAN
  BY <1>4, SelectedFacts
<1>6. selected[e[1]][e[2]] # TRUE
  BY <1>3, <1>4, <1>5
<1> QED
  BY <1>5, <1>6

(* In a result all that is selected has been merged, thus all that is needed. *)
LEMMA AllNeededMerged == FInv => MergesNeeded
<1> SUFFICES ASSUME FInv, phase = "found", Select!Uniform(Files, Select!NeededIn(Files, FileUses))
             PROVE  /\ Contributors(result.link) = Users(FileUses)
                    /\ (\A u \in FileUses :
                          Files[u[1]].pkg.components[u[2]].link_requires = {}) =>
                         Contributors(result.compile) = Users(FileUses)
  BY DEF MergesNeeded, Found
<1>1. /\ SelectOK /\ selection = "done"
      /\ disk \in BuildP!DiskType /\ request \in Requests
  BY DEF FInv, MergePhases
<1>2. /\ Range(result.link) = Selection
      /\ Range(result.compile) = {e \in Selection : selected[e[1]][e[2]] = FALSE}
  BY FoundMerged DEF MergedOnce, Found
<1>3. Contributors(result.link) \subseteq Users(FileUses)
  <2> SUFFICES ASSUME NEW x \in Contributors(result.link)
               PROVE  x \in Users(FileUses)
    OBVIOUS
  <2>1. PICK e \in Selection : x = <<nodes[e[1]].pkg, e[2]>>
    BY <1>2 DEF Contributors
  <2>2. e[1] \in Below(nodes, 1) /\ e[2] \in Comps /\ selected[e[1]][e[2]] # None
    BY DEF Selection
  <2>3. e[2] \in Keys(selected[e[1]])
    BY <1>1, <2>2, SelectedFacts
  <2>4. PICK m, link : <<m, e[2], link>> \in FileUses /\ nodes[e[1]].pkg = Files[m].pkg
    <3>1. PICK m, link : /\ link \in {FALSE, selected[e[1]][e[2]]}
                         /\ <<m, e[2], link>> \in FileUses /\ nodes[e[1]].pkg = Files[m].pkg
      BY <1>1, <2>2, <2>3, EntryNeeded, Zenon
    <3> QED
      BY <3>1, Zenon
  <2> DEFINE v == <<m, e[2], link>>
  <2>5. v \in FileUses /\ v[1] = m /\ v[2] = e[2]
    BY <2>4
  <2> HIDE DEF v
  <2> QED
    BY <2>1, <2>4, <2>5 DEF Users
<1>4. Users(FileUses) \subseteq Contributors(result.link)
  <2> SUFFICES ASSUME NEW u \in FileUses
               PROVE  <<Files[u[1]].pkg, u[2]>> \in Contributors(result.link)
    BY DEF Users
  <2>1. PICK e \in Selection : nodes[e[1]].pkg = Files[u[1]].pkg /\ e[2] = u[2]
    BY <1>1, FileNeedsSelected
  <2> QED
    BY <1>2, <2>1 DEF Contributors
<1>5. ASSUME \A u \in FileUses : Files[u[1]].pkg.components[u[2]].link_requires = {}
      PROVE  Range(result.compile) = Range(result.link)
  BY <1>1, <1>2, <1>5, NoneLinkOnly
<1> QED
  BY <1>3, <1>4, <1>5 DEF Contributors

(* Without a package there is no result.                                    *)
LEMMA NothingMerged ==
  ASSUME FindStart
  PROVE  MergesOnlyNeeded /\ MergesNeeded
BY DEF FindStart, Empty, MergesOnlyNeeded, MergesNeeded, Found

(* Nothing gets into a result but what the files the request leads to ask    *)
(* for, and nothing to compile with that is asked for to link only.         *)
THEOREM NothingElseMerged == MainSpec => []MergesOnlyNeeded
<1>1. MInv => MergesOnlyNeeded
  BY OnlyNeededMerged, NothingMerged DEF MInv
<1> QED
  BY FindHolds, <1>1, PTL

(* All that the files ask for gets into the result, where the needed         *)
(* components of each agree about their children.                           *)
THEOREM NeededMerged == MainSpec => []MergesNeeded
<1>1. MInv => MergesNeeded
  BY AllNeededMerged, NothingMerged DEF MInv
<1> QED
  BY FindHolds, <1>1, PTL

-----------------------------------------------------------------------------
(* How main answers, by how find_package returned.  Once it has answered      *)
(* nothing changes any more.                                               *)
StatusInv ==
  /\ status = "running" => output = <<>> /\ message = "none"
  /\ status = "0" => phase = "found" /\ message = "none" /\ output = pkgconf
  /\ status = "1" => \/ phase \in {"missing", "error"}
                     \/ phase = "found" /\ command.format # "pkgconf"
  /\ output # <<>> => status = "0"

(* It holds at the start, and main's steps keep it.                         *)
LEMMA InitStatus == MainInit => StatusInv
BY DEF MainInit, StatusInv

LEMMA NextStatus == StatusInv /\ [MainNext]_mainVars => StatusInv'
<1> SUFFICES ASSUME StatusInv, [MainNext]_mainVars
             PROVE  StatusInv'
  OBVIOUS
<1>1. PICK flags : flags = pkgconf
  OBVIOUS
<1>2. ASSUME UNCHANGED <<findVars, command>>
      PROVE  pkgconf' = flags /\ phase' = phase /\ command' = command
  BY <1>1, <1>2, Zenon
  DEF findVars, mergeVars, pkgconf, Given, Arguments, Conf, Sets, Lists
<1>3. CASE ParseFails
  BY <1>1, <1>3 DEF StatusInv, ParseFails, Running
<1>4. CASE FindPackage
  BY <1>4 DEF StatusInv, FindPackage, Running
<1>5. CASE ReportError
  BY <1>2, <1>5 DEF StatusInv, ReportError, Running
<1>6. CASE PrintFlags
  BY <1>1, <1>2, <1>6 DEF StatusInv, PrintFlags, Running
<1>7. CASE UnknownFormat
  BY <1>2, <1>7 DEF StatusInv, UnknownFormat, Running
<1>8. CASE Abort
  BY <1>8 DEF StatusInv, Abort, Running
<1>9. CASE UNCHANGED mainVars
  <2>1. UNCHANGED <<findVars, command>> /\ output' = output /\ message' = message /\ status' = status
    BY <1>9 DEF mainVars
  <2> QED
    BY <1>1, <1>2, <2>1 DEF StatusInv
<1> QED
  BY <1>3, <1>4, <1>5, <1>6, <1>7, <1>8, <1>9 DEF MainNext

(* A needed component of a file is to blame for the error.                  *)
LEMMA ErrorLacks ==
  ASSUME FInv, phase = "error"
  PROVE  \E u \in FileUses : /\ ~Files[u[1]].pkg.components[u[2]].interface
                             /\ ~Files[u[1]].pkg.components[u[2]].located
<1>1. SelectOK /\ disk \in BuildP!DiskType /\ request \in Requests
  BY DEF FInv, MergePhases
<1>2. PICK e \in Selection : ~DataOf(e).interface /\ ~DataOf(e).located
  BY FoundLocated DEF LocationErrors
<1>3. e[1] \in Below(nodes, 1) /\ e[2] \in Comps /\ selected[e[1]][e[2]] # None
  BY DEF Selection
<1>4. e[2] \in Keys(selected[e[1]])
  BY <1>1, <1>3, SelectedFacts
<1>5. PICK m, link : /\ link \in {FALSE, selected[e[1]][e[2]]}
                     /\ <<m, e[2], link>> \in FileUses /\ nodes[e[1]].pkg = Files[m].pkg
  BY <1>1, <1>3, <1>4, EntryNeeded, Zenon
<1> DEFINE v == <<m, e[2], link>>
<1>6. v \in FileUses /\ v[1] = m /\ v[2] = e[2]
  BY <1>5, Zenon
<1>7. Files[v[1]].pkg.components[v[2]] = DataOf(e)
  BY <1>5, <1>6, Zenon DEF DataOf
<1> HIDE DEF v
<1> QED
  BY <1>2, <1>6, <1>7

(* The status is right about the files, however find_package returned.      *)
LEMMA StatusAnswers == MInv /\ StatusInv => StatusTells
<1> SUFFICES ASSUME MInv, StatusInv
             PROVE  StatusTells
  OBVIOUS
<1>1. ASSUME phase # "building"
      PROVE  FInv
  BY <1>1 DEF MInv, FindStart
<1>2. ASSUME status = "0"
      PROVE  Resolvable(disk, request) /\ message = "none"
  <2>1. phase = "found" /\ message = "none"
    BY <1>2 DEF StatusInv
  <2>2. SelectOK
    BY <1>1, <2>1 DEF FInv, MergePhases
  <2> QED
    BY <2>1, <2>2 DEF SelectOK, FromFiles
<1>3. ASSUME status = "1"
      PROVE  \/ ~Resolvable(disk, request) \/ command.format = "unknown"
             \/ \E u \in FileUses : /\ ~Files[u[1]].pkg.components[u[2]].interface
                                    /\ ~Files[u[1]].pkg.components[u[2]].located
  <2>1. CASE phase = "missing"
    BY <1>1, <2>1 DEF FInv
  <2>2. CASE phase = "error"
    BY <1>1, <2>2, ErrorLacks
  <2>3. CASE command.format # "pkgconf"
    BY <2>3 DEF MInv, Command
  <2> QED
    BY <1>3, <2>1, <2>2, <2>3 DEF StatusInv
<1>4. output # <<>> => status = "0"
  BY DEF StatusInv
<1> QED
  BY <1>2, <1>3, <1>4 DEF StatusTells

(* The exit status tells what the files hold: main answers 0 only for a      *)
(* request that they can resolve, and 1 only for one that they cannot, for  *)
(* a needed component without a location, or for an unknown format.         *)
THEOREM StatusHolds == MainSpec => []StatusTells
<1>1. MainSpec => []StatusInv
  BY InitStatus, NextStatus, PTL DEF MainSpec
<1> QED
  BY <1>1, StatusAnswers, FindHolds, PTL

-----------------------------------------------------------------------------
(* A list that is asked for is printed entry by entry, in its order.         *)
Entries == NodeIds \X Comps
Printed == {Lists[k][2] : k \in DOMAIN Lists} \X Entries
Asked(k) == Asks(Lists[k][2]) \cap command.options # {}

LEMMA ArgumentsAre ==
  ASSUME FInv, phase = "found", NEW k \in DOMAIN Lists
  PROVE  /\ Arguments(Lists[k]) \in Seq(Printed) /\ IsInjective(Arguments(Lists[k]))
         /\ Asked(k) => Range(Arguments(Lists[k])) =
                          {<<Lists[k][2], x>> : x \in Range(result[Lists[k][3]])}
         /\ ~Asked(k) => Arguments(Lists[k]) = <<>>
<1> PICK kind, list : kind = Lists[k][2] /\ list = result[Lists[k][3]]
  OBVIOUS
<1>1. kind = Lists[k][2] /\ list = result[Lists[k][3]]
  OBVIOUS
<1>2. list \in Seq(Entries) /\ IsInjective(list)
  <2>1. PICK p \in DOMAIN sorted : ListsHold(p)
    BY AllPassed
  <2>2. /\ result.compile \in Seq(Entries) /\ IsInjective(result.compile)
        /\ result.link \in Seq(Entries) /\ IsInjective(result.link)
        /\ result.location \in Seq(Entries) /\ IsInjective(result.location)
    BY <2>1 DEF ListsHold, Entries
  <2>3. Lists[k][3] \in {"compile", "link", "location"}
    BY ListFacts
  <2> QED
    BY <1>1, <2>2, <2>3
<1>3. Lists[k][1] \in Conf <=> Asked(k)
  <2>1. \A o : Lists[k][1] \in Sets(o) <=> o \in Asks(Lists[k][2])
    BY ListFacts
  <2> QED
    BY <2>1, Zenon DEF Conf, Asked
<1>4. kind \in {Lists[j][2] : j \in DOMAIN Lists}
  BY <1>1
<1>5. CASE Asked(k)
  <2>1. Arguments(Lists[k]) = [j \in DOMAIN list |-> <<kind, list[j]>>]
    BY <1>1, <1>3, <1>5, Zenon DEF Arguments
  <2>2. PICK l \in Nat : l = Len(list) /\ DOMAIN list = 1..l
    BY <1>2
  <2>3. \A j \in 1..l : list[j] \in Entries /\ <<kind, list[j]>> \in Printed
    BY <1>2, <1>4, <2>2 DEF Printed
  <2>4. PICK arguments : arguments = Arguments(Lists[k])
    OBVIOUS
  <2>5. arguments = [j \in 1..l |-> <<kind, list[j]>>]
    BY <2>1, <2>2, <2>4
  <2>6. arguments \in Seq(Printed)
    BY <2>3, <2>5
  <2>7. IsInjective(arguments)
    BY <1>2, <2>2, <2>5 DEF IsInjective
  <2>8. Range(arguments) = {<<kind, x>> : x \in Range(list)}
    <3>1. ASSUME NEW a \in Range(arguments)
          PROVE  a \in {<<kind, x>> : x \in Range(list)}
      <4>1. PICK j \in 1..l : a = <<kind, list[j]>>
        BY <2>5 DEF Range
      <4>2. list[j] \in Range(list)
        BY <2>2 DEF Range
      <4> QED
        BY <4>1, <4>2
    <3>2. ASSUME NEW x \in Range(list)
          PROVE  <<kind, x>> \in Range(arguments)
      <4>1. PICK j \in 1..l : x = list[j]
        BY <2>2 DEF Range
      <4>2. arguments[j] = <<kind, x>> /\ j \in DOMAIN arguments
        BY <2>5, <4>1
      <4> QED
        BY <4>2 DEF Range
    <3> QED
      BY <3>1, <3>2
  <2> QED
    BY <1>1, <1>5, <2>4, <2>6, <2>7, <2>8
<1>6. CASE ~Asked(k)
  <2>1. Arguments(Lists[k]) = <<>>
    BY <1>3, <1>6, Zenon DEF Arguments
  <2>2. PICK none : none = <<>>
    OBVIOUS
  <2>3. none \in Seq(Printed) /\ IsInjective(none)
    BY <2>2 DEF IsInjective
  <2> QED
    BY <1>6, <2>1, <2>2, <2>3, Zenon
<1> QED
  BY <1>5, <1>6

(* What is printed of a kind are the entries of its list, or nothing.       *)
LEMMA PrintsAsked == MInv /\ StatusInv => PrintsWhatIsAsked
<1> DEFINE parts == [k \in DOMAIN Lists |-> Arguments(Lists[k])]
<1> SUFFICES ASSUME MInv, StatusInv, status = "0", ~Given("--modversion")
             PROVE  /\ IsInjective(output)
                    /\ \A k \in DOMAIN Lists :
                         {a[2] : a \in {b \in Range(output) : b[1] = Lists[k][2]}} =
                           IF Asks(Lists[k][2]) \cap command.options # {}
                             THEN Range(result[Lists[k][3]]) ELSE {}
  BY Zenon DEF PrintsWhatIsAsked
<1>1. FInv /\ phase = "found"
  BY DEF StatusInv, MInv, FindStart
<1>2. output = FlattenSeq(parts)
  BY Zenon DEF StatusInv, pkgconf
<1>3. DOMAIN Lists = 1..8
  BY ListFacts
<1>4. \A k \in DOMAIN Lists : parts[k] = Arguments(Lists[k])
  OBVIOUS
<1>5. \A k \in 1..8 :
        /\ parts[k] \in Seq(Printed) /\ IsInjective(parts[k])
        /\ Asked(k) => Range(parts[k]) = {<<Lists[k][2], x>> : x \in Range(result[Lists[k][3]])}
        /\ ~Asked(k) => parts[k] = <<>>
  BY <1>1, <1>3, <1>4, ArgumentsAre
<1>6. parts \in Seq(Seq(Printed)) /\ Len(parts) = 8 /\ DOMAIN parts = 1..8
  <2> PICK Q : Q = Seq(Printed)
    OBVIOUS
  <2>1. Q = Seq(Printed)
    OBVIOUS
  <2>2. \A k \in 1..8 : parts[k] \in Q
    BY <1>5, <2>1
  <2>3. DOMAIN parts = 1..8 /\ parts = [k \in 1..8 |-> parts[k]]
    BY <1>3
  <2> HIDE DEF parts
  <2>4. parts \in Seq(Q) /\ Len(parts) = 8
    BY <2>2, <2>3
  <2> QED
    BY <2>1, <2>3, <2>4
<1> HIDE DEF parts
<1>7. \A k \in 1..8 : \A a \in Range(parts[k]) : a[1] = Lists[k][2]
  <2> SUFFICES ASSUME NEW k \in 1..8, NEW a \in Range(parts[k])
               PROVE  a[1] = Lists[k][2]
    OBVIOUS
  <2>1. Asked(k)
    <3>1. parts[k] # <<>>
      BY DEF Range
    <3> QED
      BY <1>5, <3>1
  <2>2. PICK x : a = <<Lists[k][2], x>>
    BY <1>5, <2>1
  <2> QED
    BY <2>2
<1>8. \A j, k \in 1..8 : j # k => Range(parts[j]) \cap Range(parts[k]) = {}
  <2>1. \A j, k \in 1..8 : Lists[j][2] = Lists[k][2] => j = k
    BY <1>3, ListFacts
  <2> QED
    BY <1>7, <2>1
<1>9. /\ IsInjective(output)
      /\ Range(output) = UNION {Range(parts[k]) : k \in 1..8}
  <2>1. /\ parts \in Seq(Seq(Printed)) /\ Len(parts) # 0
        /\ \A k \in DOMAIN parts : IsInjective(parts[k])
        /\ \A j, k \in DOMAIN parts : j # k => Range(parts[j]) \cap Range(parts[k]) = {}
    <3>1. Len(parts) # 0
      BY <1>6
    <3>2. \A k \in DOMAIN parts : IsInjective(parts[k])
      BY <1>5, <1>6, Zenon
    <3> QED
      BY <1>6, <1>8, <3>1, <3>2, Zenon
  <2>2. /\ IsInjective(FlattenSeq(parts))
        /\ Range(FlattenSeq(parts)) = UNION {Range(parts[k]) : k \in DOMAIN parts}
    BY <2>1, FlatOnce, Zenon
  <2> QED
    BY <1>2, <1>6, <2>2, Zenon
<1>10. ASSUME NEW k \in 1..8
       PROVE  {b \in Range(output) : b[1] = Lists[k][2]} = Range(parts[k])
  <2>1. \A j \in 1..8 : Lists[j][2] = Lists[k][2] => j = k
    BY <1>3, ListFacts
  <2>2. ASSUME NEW b \in Range(output), b[1] = Lists[k][2]
        PROVE  b \in Range(parts[k])
    <3>1. PICK j \in 1..8 : b \in Range(parts[j])
      BY <1>9
    <3>2. j = k
      BY <1>7, <2>1, <2>2, <3>1
    <3> QED
      BY <3>1, <3>2
  <2>3. ASSUME NEW b \in Range(parts[k])
        PROVE  b \in Range(output) /\ b[1] = Lists[k][2]
    BY <1>7, <1>9
  <2> QED
    BY <2>2, <2>3
<1>11. ASSUME NEW k \in 1..8
       PROVE  {a[2] : a \in Range(parts[k])} =
                IF Asked(k) THEN Range(result[Lists[k][3]]) ELSE {}
  <2>1. PICK kind, R : kind = Lists[k][2] /\ R = Range(result[Lists[k][3]])
    OBVIOUS
  <2>2. CASE Asked(k)
    <3>1. Range(parts[k]) = {<<kind, x>> : x \in R}
      BY <1>5, <2>1, <2>2
    <3>2. {a[2] : a \in Range(parts[k])} = R
      <4>1. ASSUME NEW a \in Range(parts[k])
            PROVE  a[2] \in R
        BY <3>1
      <4>2. ASSUME NEW x \in R
            PROVE  \E a \in Range(parts[k]) : a[2] = x
        <5>1. <<kind, x>> \in Range(parts[k]) /\ <<kind, x>>[2] = x
          BY <3>1
        <5> QED
          BY <5>1
      <4> QED
        BY <4>1, <4>2
    <3> QED
      BY <2>1, <2>2, <3>2
  <2>3. CASE ~Asked(k)
    <3>1. Range(parts[k]) = {}
      <4>1. parts[k] = <<>>
        BY <1>5, <2>3
      <4> QED
        BY <4>1 DEF Range
    <3> QED
      BY <2>3, <3>1
  <2> QED
    BY <2>2, <2>3
<1> QED
  BY <1>3, <1>9, <1>10, <1>11 DEF Asked

(* Each part of the result is printed once when an option asks for it, and    *)
(* not otherwise: what one option leaves out, the option that has it prints. *)
THEOREM PrintsEachOnce == MainSpec => []PrintsWhatIsAsked
<1>1. MainSpec => []StatusInv
  BY InitStatus, NextStatus, PTL DEF MainSpec
<1> QED
  BY <1>1, PrintsAsked, FindHolds, PTL
=============================================================================
