-------------------------- MODULE SearchPathsProofs --------------------------
(***************************************************************************)
(* The files of a package, for any environment and any disk: all of them    *)
(* and no others are answered, those of better directories first, and the   *)
(* same ones each time.                                                     *)
(***************************************************************************)
EXTENDS SearchPaths, WellFoundedInduction, TLAPS

(* A directory of the search path, and the file of a package it may have.   *)
SystemPrefixes == {<<"usr">>, <<"usr", "local">>}
Listed  == Path \cup Under(Path \cup SystemPrefixes)
Directory == [path : Listed, type : {"cps", "pc"}]

CandidateIn(dirs, j, n) == File(dirs[j].path, n, dirs[j].type)

(* A list has the files of the package in the first directories, in the     *)
(* order of the directories: at gives the directory of each.                *)
PickedAt(dirs, there, files, n, last, at) ==
  /\ files \in Seq(there) /\ at \in [DOMAIN files -> 1..last]
  /\ \A i, j \in DOMAIN files : i < j => at[i] < at[j]
  /\ \A i \in DOMAIN files : files[i] = CandidateIn(dirs, at[i], n)
  /\ \A j \in 1..last :
       CandidateIn(dirs, j, n) \in there => \E i \in DOMAIN files : at[i] = j

Picked(dirs, there, files, n, last) ==
  \E at : PickedAt(dirs, there, files, n, last, at)

(* What is constant, or computed once.                                      *)
EnvOK ==
  /\ getenv \in Environments /\ disk \in Disks
  /\ pc \in {"start", "idle", "asked", "looking"}
  /\ pc # "start" => env = [cps_path        |-> get_paths("CPS_PATH"),
                            cps_prefix_path |-> get_paths("CPS_PREFIX_PATH"),
                            pc_path         |-> get_paths("PKG_CONFIG_PATH")]
  /\ pc = "start" => cached_paths = <<>> /\ answers = <<>>
  /\ cached_paths # <<>> => cached_paths = Expanded

(* The loop has looked into the first k - 1 directories.                    *)
LoopOK ==
  /\ pc # "looking" => found = <<>>
  /\ pc = "looking" => /\ Local(name) \notin disk /\ cached_paths = Expanded
                       /\ k \in 1..(Len(Expanded) + 1)
                       /\ Picked(Expanded, disk, found, name, k - 1)

AnswersOK ==
  \A n \in DOMAIN answers :
    IF Local(n) \in disk THEN answers[n] = <<Local(n)>>
    ELSE Picked(Expanded, disk, answers[n], n, Len(Expanded))

(* The inductive invariant.                                                *)
IInv == EnvOK /\ LoopOK /\ AnswersOK

-----------------------------------------------------------------------------
(* Induction, from the well-foundedness of < on the natural numbers.        *)
LEMMA LeastNumber ==
  ASSUME NEW T, T \subseteq Nat, T # {}
  PROVE  \E m \in T : \A n \in T : m <= n
<1> DEFINE R == OpToRel(<, Nat)
<1>1. IsWellFoundedOn(R, Nat)
  BY NatLessThanWellFounded
<1>2. \A a, b \in Nat : a < b => <<a, b>> \in R
  BY DEF OpToRel
<1> HIDE DEF R
<1>3. PICK m \in T : \A n \in T : ~(<<n, m>> \in R)
  BY <1>1, WFMin
<1>4. ASSUME NEW n \in T
      PROVE  m <= n
  <2>1. n \in Nat /\ m \in Nat /\ ~(n < m)
    BY <1>2, <1>3
  <2> QED
    BY <2>1
<1> QED
  BY <1>4

LEMMA SetInduction ==
  ASSUME NEW S, 0 \in S, \A n \in Nat : n \in S => n + 1 \in S
  PROVE  Nat \subseteq S
<1> DEFINE T == Nat \ S
<1>1. T \subseteq Nat
  OBVIOUS
<1>2. ASSUME T # {}
      PROVE  FALSE
  <2>1. PICK m \in T : \A n \in T : m <= n
    <3> HIDE DEF T
    <3> QED
      BY <1>1, <1>2, LeastNumber
  <2>2. m # 0 /\ m - 1 \in Nat /\ m - 1 \in S
    BY <2>1
  <2>3. (m - 1) + 1 \in S
    BY <2>2
  <2> QED
    BY <2>1, <2>3
<1> QED
  BY <1>2

-----------------------------------------------------------------------------
(* FlattenSeq is a recursive function of the sequences it flattens.         *)
FlattenBody(seqs, w) ==
  [i \in 1..Len(seqs) |-> IF i = 1 THEN seqs[i] ELSE w[i - 1] \o seqs[i]]

LEMMA FlattenExists ==
  ASSUME NEW seqs, Len(seqs) \in Nat
  PROVE  \E w : w = FlattenBody(seqs, w)
<1> DEFINE Step(w, i) == IF i = 1 THEN seqs[i] ELSE w[i - 1] \o seqs[i]
           S == {m \in Nat : \E w : w = [i \in 1..m |-> Step(w, i)]}
<1>1. 0 \in S
  <2> DEFINE w == [i \in 1..0 |-> {}]
  <2>1. w = [i \in 1..0 |-> Step(w, i)]
    OBVIOUS
  <2> QED
    BY <2>1
<1>2. ASSUME NEW m \in Nat, m \in S
      PROVE  m + 1 \in S
  <2>1. PICK w : w = [i \in 1..m |-> Step(w, i)]
    BY <1>2
  <2> DEFINE v == [i \in 1..(m + 1) |-> IF i = m + 1 THEN Step(w, i) ELSE w[i]]
  <2>2. ASSUME NEW i \in 1..(m + 1)
        PROVE  v[i] = Step(v, i)
    <3>1. i # 1 => v[i - 1] = w[i - 1]
      <4> HIDE DEF Step
      <4> QED
        OBVIOUS
    <3>2. Step(v, i) = Step(w, i)
      <4> HIDE DEF v
      <4> QED
        BY <3>1
    <3> HIDE DEF Step
    <3>3. CASE i = m + 1
      BY <3>2, <3>3
    <3>4. CASE i # m + 1
      <4>1. i \in 1..m /\ v[i] = w[i]
        BY <3>4
      <4>2. w[i] = Step(w, i)
        BY <2>1, <4>1
      <4> QED
        BY <3>2, <4>1, <4>2
    <3> QED
      BY <3>3, <3>4
  <2> HIDE DEF Step
  <2>3. v = [i \in 1..(m + 1) |-> v[i]]
    OBVIOUS
  <2> HIDE DEF v
  <2>4. v = [i \in 1..(m + 1) |-> Step(v, i)]
    BY <2>2, <2>3
  <2> QED
    BY <2>4
<1>3. Len(seqs) \in S
  <2> HIDE DEF S
  <2> QED
    BY <1>1, <1>2, SetInduction
<1> QED
  BY <1>3 DEF FlattenBody

(* Two sequences put together have the elements of both.                    *)
LEMMA ConcatRange ==
  ASSUME NEW S, NEW s \in Seq(S), NEW t \in Seq(S)
  PROVE  s \o t \in Seq(S) /\ Range(s \o t) = Range(s) \cup Range(t)
<1>1. s \o t \in Seq(S) /\ Len(s \o t) = Len(s) + Len(t)
  OBVIOUS
<1>2. ASSUME NEW e \in Range(s \o t)
      PROVE  e \in Range(s) \cup Range(t)
  <2>1. PICK i \in 1..(Len(s) + Len(t)) : e = (s \o t)[i]
    BY <1>1 DEF Range
  <2>2. CASE i <= Len(s)
    BY <2>1, <2>2 DEF Range
  <2>3. CASE i > Len(s)
    <3>1. i - Len(s) \in 1..Len(t) /\ e = t[i - Len(s)]
      BY <2>1, <2>3
    <3> QED
      BY <3>1 DEF Range
  <2> QED
    BY <2>2, <2>3
<1>3. ASSUME NEW e \in Range(s)
      PROVE  e \in Range(s \o t)
  <2>1. PICK i \in 1..Len(s) : e = s[i]
    BY DEF Range
  <2>2. i \in 1..Len(s \o t) /\ (s \o t)[i] = s[i]
    BY <1>1
  <2> QED
    BY <1>1, <2>1, <2>2 DEF Range
<1>4. ASSUME NEW e \in Range(t)
      PROVE  e \in Range(s \o t)
  <2>1. PICK i \in 1..Len(t) : e = t[i]
    BY DEF Range
  <2>2. Len(s) + i \in 1..Len(s \o t) /\ (s \o t)[Len(s) + i] = t[i]
    BY <1>1
  <2> QED
    BY <1>1, <2>1, <2>2 DEF Range
<1> QED
  BY <1>1, <1>2, <1>3, <1>4

(* What is flattened has the elements of all the sequences.                 *)
LEMMA FlattenRange ==
  ASSUME NEW S, NEW seqs \in Seq(Seq(S))
  PROVE  /\ FlattenSeq(seqs) \in Seq(S)
         /\ Range(FlattenSeq(seqs)) = UNION {Range(seqs[i]) : i \in 1..Len(seqs)}
<1> DEFINE v == CHOOSE w : w = FlattenBody(seqs, w)
<1> PICK l \in Nat : l = Len(seqs)
  OBVIOUS
<1>1. v = FlattenBody(seqs, v)
  BY FlattenExists
<1>2. CASE l = 0
  <2>1. FlattenSeq(seqs) = seqs
    <3>1. Len(seqs) = 0
      BY <1>2
    <3> QED
      BY <3>1, Zenon DEF FlattenSeq
  <2>2. seqs = <<>>
    <3> DEFINE Q == Seq(S)
    <3>1. seqs \in Seq(Q) /\ Len(seqs) = 0
      BY <1>2
    <3> HIDE DEF Q
    <3> QED
      BY <3>1
  <2> QED
    BY <1>2, <2>1, <2>2 DEF Range
<1>3. CASE l # 0
  <2>1. FlattenSeq(seqs) = v[l]
    <3>1. Len(seqs) # 0
      BY <1>3
    <3>2. FlattenSeq(seqs) = v[Len(seqs)]
      BY <3>1, Zenon DEF FlattenSeq, FlattenBody
    <3> QED
      BY <3>2, Zenon
  <2> HIDE DEF v
  <2> DEFINE Good(i) == /\ v[i] \in Seq(S)
                        /\ Range(v[i]) = UNION {Range(seqs[j]) : j \in 1..i}
             T == {m \in Nat : m + 1 <= l => Good(m + 1)}
  <2>2. 0 \in T
    <3>1. v[1] = seqs[1] /\ seqs[1] \in Seq(S)
      BY <1>1, <1>3 DEF FlattenBody
    <3>2. UNION {Range(seqs[j]) : j \in 1..1} = Range(seqs[1])
      OBVIOUS
    <3>3. Good(1)
      BY <3>1, <3>2
    <3>4. 0 + 1 = 1
      OBVIOUS
    <3> QED
      BY <3>3, <3>4, Zenon
  <2>3. ASSUME NEW m \in Nat, m \in T
        PROVE  m + 1 \in T
    <3> SUFFICES ASSUME (m + 1) + 1 <= l
                 PROVE  Good((m + 1) + 1)
      OBVIOUS
    <3>0. PICK i \in Nat : i = m + 2 /\ i - 1 = m + 1 /\ i = (m + 1) + 1
      OBVIOUS
    <3>1. Good(i - 1) /\ i \in 1..l /\ i # 1
      <4>1. m + 1 <= l /\ i \in 1..l /\ i # 1
        BY <3>0
      <4>2. Good(m + 1)
        BY <2>3, <4>1, Zenon
      <4> QED
        BY <3>0, <4>1, <4>2, Zenon
    <3>2. v[i] = v[i - 1] \o seqs[i] /\ seqs[i] \in Seq(S)
      <4>1. i \in 1..Len(seqs)
        BY <3>1
      <4>2. v[i] = IF i = 1 THEN seqs[i] ELSE v[i - 1] \o seqs[i]
        BY <1>1, <4>1, Zenon DEF FlattenBody
      <4>3. seqs[i] \in Seq(S)
        <5> DEFINE Q == Seq(S)
        <5>1. seqs \in Seq(Q)
          OBVIOUS
        <5> HIDE DEF Q
        <5> QED
          BY <4>1, <5>1 DEF Q
      <4> QED
        BY <3>1, <4>2, <4>3, Zenon
    <3>3. v[i] \in Seq(S) /\ Range(v[i]) = Range(v[i - 1]) \cup Range(seqs[i])
      BY <3>1, <3>2, ConcatRange
    <3>4. UNION {Range(seqs[j]) : j \in 1..i} =
            (UNION {Range(seqs[j]) : j \in 1..(i - 1)}) \cup Range(seqs[i])
      <4>1. 1..i = (1..(i - 1)) \cup {i}
        BY <3>1
      <4> QED
        BY <4>1, Zenon
    <3>5. Good(i)
      BY <3>1, <3>3, <3>4
    <3> QED
      BY <3>0, <3>5, Zenon
  <2>4. l - 1 \in T
    <3> HIDE DEF T
    <3>1. l - 1 \in Nat
      BY <1>3
    <3> QED
      BY <2>2, <2>3, <3>1, SetInduction
  <2>5. Good(l)
    BY <1>3, <2>4
  <2> QED
    BY <2>1, <2>5
<1> QED
  BY <1>2, <1>3
-----------------------------------------------------------------------------
(* A list of directories, and the set of what it lists.                     *)
Lists(l, A) ==
  l \in Seq(Directory) /\ {<<d.path, d.type>> : d \in Range(l)} = A

LEMMA TypedLists ==
  ASSUME NEW dirs \in Seq(Listed), NEW type \in {"cps", "pc"}
  PROVE  Lists(Typed(dirs, type), Range(dirs) \X {type})
<1> DEFINE l == Typed(dirs, type)
<1>1. l \in Seq(Directory) /\ DOMAIN l = DOMAIN dirs
  <2> PICK n \in Nat : n = Len(dirs)
    OBVIOUS
  <2>1. DOMAIN dirs = 1..n /\ \A i \in 1..n : dirs[i] \in Listed
    OBVIOUS
  <2>2. l = [i \in 1..n |-> [path |-> dirs[i], type |-> type]]
    BY <2>1 DEF Typed
  <2>3. \A i \in 1..n : [path |-> dirs[i], type |-> type] \in Directory
    BY <2>1 DEF Directory
  <2> HIDE DEF l
  <2> QED
    BY <2>1, <2>2, <2>3
<1>2. \A i \in DOMAIN dirs : l[i].path = dirs[i] /\ l[i].type = type
  BY DEF Typed
<1> HIDE DEF l
<1>3. ASSUME NEW e \in {<<d.path, d.type>> : d \in Range(l)}
      PROVE  e \in Range(dirs) \X {type}
  <2>1. PICK i \in DOMAIN l : e = <<l[i].path, l[i].type>>
    BY DEF Range
  <2> QED
    BY <1>1, <1>2, <2>1 DEF Range
<1>4. ASSUME NEW e \in Range(dirs) \X {type}
      PROVE  e \in {<<d.path, d.type>> : d \in Range(l)}
  <2>1. PICK i \in DOMAIN dirs : e = <<dirs[i], type>>
    BY DEF Range
  <2>2. l[i] \in Range(l) /\ e = <<l[i].path, l[i].type>>
    BY <1>1, <1>2, <2>1 DEF Range
  <2> QED
    BY <2>2
<1> QED
  BY <1>1, <1>3, <1>4 DEF Lists, l

LEMMA ConcatLists ==
  ASSUME NEW s, NEW A, Lists(s, A), NEW t, NEW B, Lists(t, B)
  PROVE  Lists(s \o t, A \cup B)
<1> DEFINE D == Directory
<1>1. s \in Seq(D) /\ t \in Seq(D)
  BY DEF Lists
<1> HIDE DEF D
<1>2. s \o t \in Seq(D) /\ Range(s \o t) = Range(s) \cup Range(t)
  BY <1>1, ConcatRange
<1>3. {<<d.path, d.type>> : d \in Range(s) \cup Range(t)} = A \cup B
  BY DEF Lists
<1> QED
  BY <1>2, <1>3 DEF Lists, D

(* The two directories of each prefix.                                     *)
InPrefix(prefix, dir) == prefix \o dir \o <<"cps">>

LEMMA UnderPrefixes ==
  ASSUME NEW P, NEW e
  PROVE  e \in Under(P) <=>
           \E p \in P : e = InPrefix(p, Libdir) \/ e = InPrefix(p, Datadir)
<1>1. Under(P) = {InPrefix(p, d) : p \in P, d \in {Libdir, Datadir}}
  BY DEF Under, InPrefix
<1>2. e \in Under(P) <=> \E p \in P, d \in {Libdir, Datadir} : e = InPrefix(p, d)
  BY <1>1
<1> QED
  BY <1>2

(* The directories of a prefix.                                            *)
LEMMA PrefixRange ==
  ASSUME NEW prefix \in Path \cup SystemPrefixes
  PROVE  expand_prefix(prefix) \in Seq(Listed) /\ Range(expand_prefix(prefix)) = Under({prefix})
<1> DEFINE lib == InPrefix(prefix, Libdir)
           data == InPrefix(prefix, Datadir)
<1>1. Under({prefix}) = {lib, data} /\ Under({prefix}) \subseteq Listed
  <2>1. ASSUME NEW e
        PROVE  /\ e \in Under({prefix}) <=> e = lib \/ e = data
               /\ e \in Under({prefix}) => e \in Under(Path \cup SystemPrefixes)
    BY UnderPrefixes
  <2> HIDE DEF lib, data
  <2> QED
    BY <2>1 DEF Listed
<1>2. expand_prefix(prefix) = <<lib, data>>
  BY DEF expand_prefix, InPrefix
<1> HIDE DEF lib, data
<1>3. <<lib, data>> \in Seq(Listed) /\ Range(<<lib, data>>) = {lib, data}
  BY <1>1 DEF Range
<1> QED
  BY <1>1, <1>2, <1>3

(* The directories of all prefixes.                                        *)
LEMMA PrefixesRange ==
  ASSUME NEW prefixes \in Seq(Path)
  PROVE  LET dirs == FlattenSeq([i \in DOMAIN prefixes |-> expand_prefix(prefixes[i])])
         IN  dirs \in Seq(Listed) /\ Range(dirs) = Under(Range(prefixes))
<1> DEFINE seqs == [i \in DOMAIN prefixes |-> expand_prefix(prefixes[i])]
           Q == Seq(Listed)
           P == Path
<1>1. ASSUME NEW i \in DOMAIN prefixes
      PROVE  seqs[i] \in Q /\ Range(seqs[i]) = Under({prefixes[i]})
  <2>1. prefixes[i] \in Path
    <3> prefixes \in Seq(P)
      OBVIOUS
    <3> HIDE DEF P
    <3> QED
      BY DEF P
  <2> QED
    BY <2>1, PrefixRange
<1>2. DOMAIN seqs = DOMAIN prefixes /\ DOMAIN prefixes = 1..Len(prefixes) /\ Len(prefixes) \in Nat
  <2> prefixes \in Seq(P)
    OBVIOUS
  <2> HIDE DEF P
  <2> QED
    OBVIOUS
<1>3. seqs = [i \in 1..Len(prefixes) |-> seqs[i]]
  BY <1>2
<1> HIDE DEF seqs, Q
<1>4. seqs \in Seq(Q) /\ Len(seqs) = Len(prefixes)
  <2>0. PICK n \in Nat : n = Len(prefixes)
    BY <1>2
  <2>1. DOMAIN seqs = 1..n /\ \A i \in 1..n : seqs[i] \in Q
    BY <1>1, <1>2, <2>0
  <2>2. seqs = [i \in 1..n |-> seqs[i]]
    BY <1>3, <2>0
  <2>3. seqs \in [1..n -> Q]
    BY <2>1, <2>2
  <2>4. seqs \in Seq(Q)
    BY <2>3
  <2>5. DOMAIN seqs = 1..Len(seqs) /\ Len(seqs) \in Nat
    BY <2>4
  <2>6. ASSUME NEW m \in Nat, 1..n = 1..m
        PROVE  n = m
    BY <2>6
  <2>7. PICK m \in Nat : m = Len(seqs) /\ 1..n = 1..m
    BY <2>1, <2>5
  <2>8. n = m
    BY <2>6, <2>7
  <2>9. Len(seqs) = Len(prefixes)
    BY <2>0, <2>7, <2>8, Zenon
  <2> QED
    BY <2>4, <2>9, ZenonT(60)
<1>5. /\ FlattenSeq(seqs) \in Seq(Listed)
      /\ Range(FlattenSeq(seqs)) = UNION {Range(seqs[i]) : i \in 1..Len(seqs)}
  BY <1>4, FlattenRange DEF Q
<1>6. UNION {Range(seqs[i]) : i \in 1..Len(seqs)} = UNION {Under({prefixes[i]}) : i \in 1..Len(prefixes)}
  BY <1>1, <1>2, <1>4
<1>7. UNION {Under({prefixes[i]}) : i \in DOMAIN prefixes} = Under(Range(prefixes))
  <2>1. ASSUME NEW e
        PROVE  e \in UNION {Under({prefixes[i]}) : i \in DOMAIN prefixes} <=> e \in Under(Range(prefixes))
    <3>1. ASSUME NEW S
          PROVE  e \in Under(S) <=> \E p \in S : e \in Under({p})
      <4>1. \A p : e \in Under({p}) <=> e = InPrefix(p, Libdir) \/ e = InPrefix(p, Datadir)
        BY UnderPrefixes
      <4>2. e \in Under(S) <=>
              \E p \in S : e = InPrefix(p, Libdir) \/ e = InPrefix(p, Datadir)
        BY UnderPrefixes
      <4> QED
        BY <4>1, <4>2
    <3>2. e \in Under(Range(prefixes)) <=> \E p \in Range(prefixes) : e \in Under({p})
      BY <3>1
    <3>3. e \in Under(Range(prefixes)) <=> \E i \in DOMAIN prefixes : e \in Under({prefixes[i]})
      BY <3>2 DEF Range
    <3> QED
      BY <3>3, Zenon
  <2> QED
    BY <2>1, Zenon
<1> QED
  BY <1>2, <1>5, <1>6, <1>7 DEF seqs

(* The directories of the system, each for files of both types.             *)
LEMMA SystemLists ==
  Lists(FlattenSeq([i \in DOMAIN nix_prefix |-> System(nix_prefix[i])]),
        Under(SystemPrefixes) \X {"cps", "pc"})
<1> DEFINE seqs == [i \in DOMAIN nix_prefix |-> System(nix_prefix[i])]
           D == Directory
           Pairs(l) == {<<d.path, d.type>> : d \in Range(l)}
<1>1. ASSUME NEW prefix \in SystemPrefixes
      PROVE  Lists(System(prefix), Under({prefix}) \X {"cps", "pc"})
  <2> DEFINE dirs == expand_prefix(prefix)
  <2>1. dirs \in Seq(Listed) /\ Range(dirs) = Under({prefix})
    BY PrefixRange
  <2> HIDE DEF dirs
  <2>2. /\ Lists(Typed(dirs, "cps"), Range(dirs) \X {"cps"})
        /\ Lists(Typed(dirs, "pc"), Range(dirs) \X {"pc"})
    BY <2>1, TypedLists
  <2>3. Lists(Typed(dirs, "cps") \o Typed(dirs, "pc"),
              (Range(dirs) \X {"cps"}) \cup (Range(dirs) \X {"pc"}))
    BY <2>2, ConcatLists
  <2>4. (Range(dirs) \X {"cps"}) \cup (Range(dirs) \X {"pc"}) = Under({prefix}) \X {"cps", "pc"}
    BY <2>1
  <2> QED
    BY <2>3, <2>4 DEF System, dirs
<1>2. /\ nix_prefix[1] = <<"usr">> /\ nix_prefix[2] = <<"usr", "local">>
      /\ nix_prefix[1] \in SystemPrefixes /\ nix_prefix[2] \in SystemPrefixes
      /\ DOMAIN nix_prefix = 1..2
  BY DEF nix_prefix, SystemPrefixes
<1>3. /\ DOMAIN seqs = 1..2 /\ Len(seqs) = 2
      /\ \A i \in 1..2 : /\ seqs[i] \in Seq(D)
                         /\ Pairs(seqs[i]) = Under({nix_prefix[i]}) \X {"cps", "pc"}
  <2>1. seqs = [i \in 1..2 |-> System(nix_prefix[i])]
    BY <1>2
  <2>2. ASSUME NEW i \in 1..2
        PROVE  /\ seqs[i] \in Seq(D)
               /\ Pairs(seqs[i]) = Under({nix_prefix[i]}) \X {"cps", "pc"}
    <3>1. Lists(System(nix_prefix[i]), Under({nix_prefix[i]}) \X {"cps", "pc"})
      BY <1>1, <1>2
    <3>2. seqs[i] = System(nix_prefix[i])
      BY <2>1
    <3> HIDE DEF seqs
    <3> QED
      BY <3>1, <3>2, Zenon DEF Lists
  <2>3. DOMAIN seqs = 1..2 /\ Len(seqs) = 2
    <3>1. DOMAIN seqs = 1..2
      BY <2>1
    <3>2. seqs \in Seq(Range(seqs))
      BY <2>1 DEF Range
    <3> HIDE DEF seqs
    <3> QED
      BY <3>1, <3>2
  <2> HIDE DEF D, Pairs, seqs
  <2> QED
    BY <2>2, <2>3, Zenon
<1>4. seqs \in Seq(Seq(D))
  BY <1>3
<1> HIDE DEF seqs, D
<1>5. /\ FlattenSeq(seqs) \in Seq(D)
      /\ Range(FlattenSeq(seqs)) = UNION {Range(seqs[i]) : i \in 1..2}
  BY <1>3, <1>4, FlattenRange
<1>6. UNION {Range(seqs[i]) : i \in 1..2} = Range(seqs[1]) \cup Range(seqs[2])
  BY 1..2 = {1, 2}
<1>7. Pairs(FlattenSeq(seqs)) = Pairs(seqs[1]) \cup Pairs(seqs[2])
  BY <1>5, <1>6
<1>8. Under({nix_prefix[1]}) \cup Under({nix_prefix[2]}) = Under(SystemPrefixes)
  <2>1. {nix_prefix[1]} \cup {nix_prefix[2]} = SystemPrefixes
    BY <1>2 DEF SystemPrefixes
  <2>2. ASSUME NEW p, NEW q, NEW e
        PROVE  e \in Under({p}) \cup Under({q}) <=> e \in Under({p} \cup {q})
    BY UnderPrefixes
  <2> QED
    BY <2>1, <2>2
<1>9. Pairs(FlattenSeq(seqs)) = Under(SystemPrefixes) \X {"cps", "pc"}
  <2>1. /\ Pairs(seqs[1]) = Under({nix_prefix[1]}) \X {"cps", "pc"}
        /\ Pairs(seqs[2]) = Under({nix_prefix[2]}) \X {"cps", "pc"}
    <3> 1 \in 1..2 /\ 2 \in 1..2
      OBVIOUS
    <3> HIDE DEF Pairs
    <3> QED
      BY <1>3, Zenon
  <2> HIDE DEF Pairs
  <2>2. ASSUME NEW A, NEW B, NEW C
        PROVE  (A \X C) \cup (B \X C) = (A \cup B) \X C
    OBVIOUS
  <2> QED
    BY <1>7, <1>8, <2>1, <2>2
<1> QED
  BY <1>5, <1>9 DEF Lists, seqs, D

-----------------------------------------------------------------------------
(* A list has directories of four sources one after the other, and all the  *)
(* directories of each: from gives the source of each directory.            *)
Sourced(l, source, from) ==
  /\ from \in [1..Len(l) -> 1..4]
  /\ \A i, j \in 1..Len(l) : i < j => from[i] <= from[j]
  /\ \A i \in 1..Len(l) : <<l[i].path, l[i].type>> \in source[from[i]]
  /\ \A s \in 1..4 : \A e \in source[s] :
       \E i \in 1..Len(l) : from[i] = s /\ <<l[i].path, l[i].type>> = e

Joined(st, s, l, t) ==
  /\ Len(st) = l + Len(t)
  /\ \A i \in 1..l : st[i] = s[i]
  /\ \A i \in 1..Len(t) : st[l + i] = t[i]

LEMMA Join ==
  ASSUME NEW S, NEW s \in Seq(S), NEW t \in Seq(S)
  PROVE  s \o t \in Seq(S) /\ Joined(s \o t, s, Len(s), t)
BY DEF Joined

LEMMA FourLists ==
  ASSUME NEW source, NEW a, NEW b, NEW c, NEW d,
         Lists(a, source[1]), Lists(b, source[2]), Lists(c, source[3]), Lists(d, source[4]),
         NEW l, l = a \o b \o c \o d
  PROVE  l \in Seq(Directory) /\ \E from : Sourced(l, source, from)
<1>a. PICK A, B, C, D : A = source[1] /\ B = source[2] /\ C = source[3] /\ D = source[4]
  OBVIOUS
<1>0. Lists(a, A) /\ Lists(b, B) /\ Lists(c, C) /\ Lists(d, D)
  BY <1>a
<1> DEFINE R == Directory
<1>1. a \in Seq(R) /\ b \in Seq(R) /\ c \in Seq(R) /\ d \in Seq(R)
  BY <1>0 DEF Lists
<1> HIDE DEF R
<1> PICK la \in Nat, lb \in Nat, lc \in Nat, ld \in Nat :
      la = Len(a) /\ lb = Len(b) /\ lc = Len(c) /\ ld = Len(d)
  BY <1>1
<1>3. /\ l \in Seq(R) /\ Len(l) = la + lb + lc + ld
      /\ \A i \in 1..la : l[i] = a[i]
      /\ \A i \in 1..lb : l[la + i] = b[i]
      /\ \A i \in 1..lc : l[la + lb + i] = c[i]
      /\ \A i \in 1..ld : l[la + lb + lc + i] = d[i]
  <2>1. PICK ab, abc : ab = a \o b /\ abc = ab \o c
    OBVIOUS
  <2>2. ab \in Seq(R) /\ Joined(ab, a, la, b)
    BY <1>1, <2>1, Join
  <2>3. Len(ab) = la + lb
    BY <2>2 DEF Joined
  <2>4. abc \in Seq(R) /\ Joined(abc, ab, la + lb, c)
    BY <1>1, <2>1, <2>2, <2>3, Join
  <2>5. Len(abc) = la + lb + lc
    BY <2>4 DEF Joined
  <2>6. l \in Seq(R) /\ Joined(l, abc, la + lb + lc, d)
    BY <1>1, <2>1, <2>4, <2>5, Join
  <2>7. \A i \in 1..la : l[i] = a[i]
    BY <2>2, <2>4, <2>6 DEF Joined
  <2>8. \A i \in 1..lb : l[la + i] = b[i]
    <3> TAKE i \in 1..lb
    <3>1. la + i \in 1..(la + lb) /\ la + i \in 1..(la + lb + lc)
      OBVIOUS
    <3> QED
      BY <2>2, <2>4, <2>6, <3>1 DEF Joined
  <2>9. \A i \in 1..lc : l[la + lb + i] = c[i]
    <3> TAKE i \in 1..lc
    <3>1. la + lb + i \in 1..(la + lb + lc)
      OBVIOUS
    <3> QED
      BY <2>4, <2>6, <3>1 DEF Joined
  <2>10. Len(l) = la + lb + lc + ld /\ \A i \in 1..ld : l[la + lb + lc + i] = d[i]
    BY <2>6 DEF Joined
  <2> QED
    BY <2>6, <2>7, <2>8, <2>9, <2>10, Zenon
<1>2. Len(l) = la + lb + lc + ld
  BY <1>3
<1> DEFINE from == [i \in 1..Len(l) |-> IF i <= la THEN 1 ELSE IF i <= la + lb THEN 2
                                         ELSE IF i <= la + lb + lc THEN 3 ELSE 4]
           Pair(e) == <<e.path, e.type>>
<1>4. from \in [1..Len(l) -> 1..4] /\ \A i, j \in 1..Len(l) : i < j => from[i] <= from[j]
  BY <1>2
<1>5. /\ \A i \in 1..la : Pair(a[i]) \in A
      /\ \A i \in 1..lb : Pair(b[i]) \in B
      /\ \A i \in 1..lc : Pair(c[i]) \in C
      /\ \A i \in 1..ld : Pair(d[i]) \in D
  <2>1. ASSUME NEW s, NEW S, s \in Seq(R), {<<e.path, e.type>> : e \in Range(s)} = S
        PROVE  \A i \in 1..Len(s) : Pair(s[i]) \in S
    BY <2>1 DEF Range
  <2> HIDE DEF Pair
  <2>2. \A i \in 1..Len(a) : Pair(a[i]) \in A
    BY <1>0, <1>1, <2>1 DEF Lists
  <2>3. \A i \in 1..Len(b) : Pair(b[i]) \in B
    BY <1>0, <1>1, <2>1 DEF Lists
  <2>4. \A i \in 1..Len(c) : Pair(c[i]) \in C
    BY <1>0, <1>1, <2>1 DEF Lists
  <2>5. \A i \in 1..Len(d) : Pair(d[i]) \in D
    BY <1>0, <1>1, <2>1 DEF Lists
  <2> QED
    BY <2>2, <2>3, <2>4, <2>5
<1>6. /\ \A e \in A : \E i \in 1..la : Pair(a[i]) = e
      /\ \A e \in B : \E i \in 1..lb : Pair(b[i]) = e
      /\ \A e \in C : \E i \in 1..lc : Pair(c[i]) = e
      /\ \A e \in D : \E i \in 1..ld : Pair(d[i]) = e
  <2>1. ASSUME NEW s, NEW S, s \in Seq(R), {<<e.path, e.type>> : e \in Range(s)} = S
        PROVE  \A e \in S : \E i \in 1..Len(s) : Pair(s[i]) = e
    <3>1. ASSUME NEW e \in S
          PROVE  \E i \in 1..Len(s) : Pair(s[i]) = e
      <4>1. PICK f \in Range(s) : e = <<f.path, f.type>>
        BY <2>1, Zenon
      <4>2. PICK i \in 1..Len(s) : f = s[i]
        <5>1. DOMAIN s = 1..Len(s)
          BY <2>1
        <5> QED
          BY <4>1, <5>1, Zenon DEF Range
      <4> QED
        BY <4>1, <4>2
    <3> QED
      BY <3>1
  <2> HIDE DEF Pair
  <2>2. \A e \in A : \E i \in 1..Len(a) : Pair(a[i]) = e
    BY <1>0, <1>1, <2>1 DEF Lists
  <2>3. \A e \in B : \E i \in 1..Len(b) : Pair(b[i]) = e
    BY <1>0, <1>1, <2>1 DEF Lists
  <2>4. \A e \in C : \E i \in 1..Len(c) : Pair(c[i]) = e
    BY <1>0, <1>1, <2>1 DEF Lists
  <2>5. \A e \in D : \E i \in 1..Len(d) : Pair(d[i]) = e
    BY <1>0, <1>1, <2>1 DEF Lists
  <2> QED
    BY <2>2, <2>3, <2>4, <2>5
<1>7. ASSUME NEW i \in 1..Len(l)
      PROVE  Pair(l[i]) \in source[from[i]]
  <2> HIDE DEF Pair
  <2>1. CASE i <= la
    <3>1. from[i] = 1 /\ l[i] = a[i] /\ i \in 1..la
      BY <1>3, <2>1
    <3> QED
      BY <1>5, <1>a, <3>1
  <2>2. CASE i > la /\ i <= la + lb
    <3>1. from[i] = 2 /\ i - la \in 1..lb /\ la + (i - la) = i
      BY <2>2
    <3>2. l[i] = b[i - la] /\ Pair(b[i - la]) \in B
      BY <1>3, <1>5, <3>1
    <3> QED
      BY <1>a, <3>1, <3>2, Zenon
  <2>3. CASE i > la + lb /\ i <= la + lb + lc
    <3>1. from[i] = 3 /\ i - la - lb \in 1..lc /\ la + lb + (i - la - lb) = i
      BY <2>3
    <3>2. l[i] = c[i - la - lb] /\ Pair(c[i - la - lb]) \in C
      BY <1>3, <1>5, <3>1
    <3> QED
      BY <1>a, <3>1, <3>2, Zenon
  <2>4. CASE i > la + lb + lc
    <3>1. from[i] = 4 /\ i - la - lb - lc \in 1..ld /\ la + lb + lc + (i - la - lb - lc) = i
      BY <1>2, <2>4
    <3>2. l[i] = d[i - la - lb - lc] /\ Pair(d[i - la - lb - lc]) \in D
      BY <1>3, <1>5, <3>1
    <3> QED
      BY <1>a, <3>1, <3>2, Zenon
  <2>5. \/ i <= la
        \/ i > la /\ i <= la + lb
        \/ i > la + lb /\ i <= la + lb + lc
        \/ i > la + lb + lc
    BY <1>2
  <2> QED
    BY <2>1, <2>2, <2>3, <2>4, <2>5, Zenon
<1>8. /\ \A e \in A : \E i \in 1..Len(l) : from[i] = 1 /\ Pair(l[i]) = e
      /\ \A e \in B : \E i \in 1..Len(l) : from[i] = 2 /\ Pair(l[i]) = e
      /\ \A e \in C : \E i \in 1..Len(l) : from[i] = 3 /\ Pair(l[i]) = e
      /\ \A e \in D : \E i \in 1..Len(l) : from[i] = 4 /\ Pair(l[i]) = e
  <2> HIDE DEF Pair
  <2>1. ASSUME NEW e \in A
        PROVE  \E i \in 1..Len(l) : from[i] = 1 /\ Pair(l[i]) = e
    <3>1. PICK i \in 1..la : Pair(a[i]) = e
      BY <1>6
    <3>2. i \in 1..Len(l) /\ from[i] = 1 /\ l[i] = a[i]
      BY <1>2, <1>3
    <3> QED
      BY <3>1, <3>2
  <2>2. ASSUME NEW e \in B
        PROVE  \E i \in 1..Len(l) : from[i] = 2 /\ Pair(l[i]) = e
    <3>1. PICK i \in 1..lb : Pair(b[i]) = e
      BY <1>6
    <3>2. la + i \in 1..Len(l) /\ from[la + i] = 2 /\ l[la + i] = b[i]
      BY <1>2, <1>3
    <3> QED
      BY <3>1, <3>2
  <2>3. ASSUME NEW e \in C
        PROVE  \E i \in 1..Len(l) : from[i] = 3 /\ Pair(l[i]) = e
    <3>1. PICK i \in 1..lc : Pair(c[i]) = e
      BY <1>6
    <3>2. la + lb + i \in 1..Len(l) /\ from[la + lb + i] = 3 /\ l[la + lb + i] = c[i]
      BY <1>2, <1>3
    <3> QED
      BY <3>1, <3>2
  <2>4. ASSUME NEW e \in D
        PROVE  \E i \in 1..Len(l) : from[i] = 4 /\ Pair(l[i]) = e
    <3>1. PICK i \in 1..ld : Pair(d[i]) = e
      BY <1>6
    <3>2. /\ la + lb + lc + i \in 1..Len(l) /\ from[la + lb + lc + i] = 4
          /\ l[la + lb + lc + i] = d[i]
      BY <1>2, <1>3
    <3> QED
      BY <3>1, <3>2
  <2> QED
    BY <2>1, <2>2, <2>3, <2>4
<1> HIDE DEF from, Pair
<1>9. ASSUME NEW s \in 1..4, NEW e \in source[s]
      PROVE  \E i \in 1..Len(l) : from[i] = s /\ Pair(l[i]) = e
  <2>1. s = 1 \/ s = 2 \/ s = 3 \/ s = 4
    OBVIOUS
  <2>2. CASE s = 1
    BY <1>8, <1>a, <2>2
  <2>3. CASE s = 2
    BY <1>8, <1>a, <2>3
  <2>4. CASE s = 3
    BY <1>8, <1>a, <2>4
  <2>5. CASE s = 4
    BY <1>8, <1>a, <2>5
  <2> QED
    BY <2>1, <2>2, <2>3, <2>4, <2>5
<1>10. Sourced(l, source, from)
  BY <1>4, <1>7, <1>9, Zenon DEF Sourced, Pair
<1> QED
  BY <1>3, <1>10 DEF R

-----------------------------------------------------------------------------
(* The sources, by what get_env has read of the environment.                *)
LEMMA Sources ==
  ASSUME EnvOK, pc # "start"
  PROVE  /\ env.cps_path \in Seq(Path) /\ env.cps_prefix_path \in Seq(Path)
         /\ env.pc_path \in Seq(Path)
         /\ Source(1) = Range(env.cps_path) \X {"cps"}
         /\ Source(2) = Under(Range(env.cps_prefix_path)) \X {"cps"}
         /\ Source(3) = Range(env.pc_path) \X {"pc"}
         /\ Source(4) = Under(SystemPrefixes) \X {"cps", "pc"}
<1> DEFINE Of(v) == IF v \in DOMAIN getenv THEN Range(getenv[v]) ELSE {}
<1>1. /\ env.cps_path = get_paths("CPS_PATH")
      /\ env.cps_prefix_path = get_paths("CPS_PREFIX_PATH")
      /\ env.pc_path = get_paths("PKG_CONFIG_PATH")
  BY DEF EnvOK
<1>2. ASSUME NEW v
      PROVE  get_paths(v) \in Seq(Path) /\ Range(get_paths(v)) = Of(v)
  <2> DEFINE P == Path
  <2>1. CASE v \in DOMAIN getenv
    BY <2>1, PathsAssumption DEF EnvOK, get_paths
  <2>2. CASE v \notin DOMAIN getenv
    <3>1. get_paths(v) = <<>> /\ Of(v) = {}
      BY <2>2 DEF get_paths
    <3> HIDE DEF P, Of
    <3>2. <<>> \in Seq(P) /\ Range(<<>>) = {}
      BY DEF Range
    <3> QED
      BY <3>1, <3>2 DEF P
  <2> QED
    BY <2>1, <2>2
<1>3. /\ Source(1) = Of("CPS_PATH") \X {"cps"}
      /\ Source(2) = Under(Of("CPS_PREFIX_PATH")) \X {"cps"}
      /\ Source(3) = Of("PKG_CONFIG_PATH") \X {"pc"}
      /\ Source(4) = Under(SystemPrefixes) \X {"cps", "pc"}
  BY DEF Source, SystemPrefixes
<1> HIDE DEF Of
<1> QED
  BY <1>1, <1>2, <1>3

(* The directories of the search path, by source.                           *)
From(from) == Sourced(Expanded, [s \in 1..4 |-> Source(s)], from)

LEMMA ExpandedFrom ==
  ASSUME EnvOK, pc # "start"
  PROVE  Expanded \in Seq(Directory) /\ \E from : From(from)
<1> DEFINE a == Typed(env.cps_path, "cps")
           b == Typed(CpsPrefixes, "cps")
           c == Typed(env.pc_path, "pc")
           d == FlattenSeq([i \in DOMAIN nix_prefix |-> System(nix_prefix[i])])
<1>0. \A s : s \in Seq(Path) => s \in Seq(Listed)
  <2> DEFINE P == Path
  <2>1. P \subseteq Listed
    BY DEF Listed
  <2> HIDE DEF P
  <2>2. \A s : s \in Seq(P) => s \in Seq(Listed)
    BY <2>1
  <2> QED
    BY <2>2 DEF P
<1>1. Lists(a, Source(1)) /\ Lists(c, Source(3))
  BY <1>0, Sources, TypedLists
<1>2. Lists(b, Source(2))
  <2>1. CpsPrefixes \in Seq(Listed) /\ Range(CpsPrefixes) = Under(Range(env.cps_prefix_path))
    BY Sources, PrefixesRange DEF CpsPrefixes
  <2> QED
    BY <2>1, Sources, TypedLists
<1>3. Lists(d, Source(4))
  BY Sources, SystemLists
<1>4. Expanded = a \o b \o c \o d
  BY DEF Expanded
<1> DEFINE source == [s \in 1..4 |-> Source(s)]
<1>5. /\ source[1] = Source(1) /\ source[2] = Source(2)
      /\ source[3] = Source(3) /\ source[4] = Source(4)
  OBVIOUS
<1> HIDE DEF a, b, c, d, source
<1>6. Expanded \in Seq(Directory) /\ \E from : Sourced(Expanded, source, from)
  BY <1>1, <1>2, <1>3, <1>4, <1>5, FourLists
<1> QED
  BY <1>6 DEF From, source

-----------------------------------------------------------------------------
(* Two rising sequences of the same numbers are the same.                   *)
Rising(at, l) ==
  (\A i \in 1..l : at[i] \in Nat) /\ \A i, j \in 1..l : i < j => at[i] < at[j]

Among(at, l, bt, m) == \A i \in 1..l : \E j \in 1..m : bt[j] = at[i]

LEMMA RisingOnce ==
  ASSUME NEW l \in Nat, NEW m \in Nat, NEW at, NEW bt, Rising(at, l), Rising(bt, m),
         Among(at, l, bt, m), Among(bt, m, at, l)
  PROVE  l = m /\ \A i \in 1..l : at[i] = bt[i]
<1>0. /\ Rising(at, l) /\ Rising(bt, m) /\ Among(at, l, bt, m) /\ Among(bt, m, at, l)
      /\ \A i \in 1..l : at[i] \in Nat
      /\ \A i \in 1..m : bt[i] \in Nat
      /\ \A i, j \in 1..l : i < j => at[i] < at[j]
      /\ \A i, j \in 1..m : i < j => bt[i] < bt[j]
      /\ \A i \in 1..l : \E j \in 1..m : bt[j] = at[i]
      /\ \A j \in 1..m : \E i \in 1..l : at[i] = bt[j]
  BY DEF Rising, Among
<1>1. ASSUME NEW i \in 1..l
      PROVE  i \in 1..m /\ at[i] = bt[i]
  <2> DEFINE T == {j \in 1..l : ~(j \in 1..m /\ at[j] = bt[j])}
  <2> SUFFICES ASSUME T # {}
               PROVE  FALSE
    OBVIOUS
  <2>1. PICK e \in T : \A j \in T : e <= j
    <3>1. T \subseteq Nat
      OBVIOUS
    <3> HIDE DEF T
    <3> QED
      BY <3>1, LeastNumber
  <2>2. e \in 1..l /\ \A j \in 1..(e - 1) : j \in 1..l /\ j \in 1..m /\ at[j] = bt[j]
    BY <2>1
  <2>3. PICK j \in 1..m : bt[j] = at[e]
    BY <1>0, <2>2
  <2>4. j >= e
    BY <1>0, <2>2, <2>3
  <2>5. e \in 1..m
    BY <2>2, <2>4
  <2>6. PICK h \in 1..l : at[h] = bt[e]
    BY <1>0, <2>5
  <2>7. h >= e
    BY <1>0, <2>2, <2>5, <2>6
  <2>8. bt[e] <= at[e]
    <3>1. e = j \/ e < j
      BY <2>3, <2>4, <2>5
    <3>2. bt[e] \in Nat /\ bt[j] \in Nat
      BY <1>0, <2>3, <2>5, Zenon
    <3>3. bt[e] = bt[j] \/ bt[e] < bt[j]
      BY <1>0, <2>3, <2>5, <3>1, Zenon
    <3> QED
      BY <2>3, <3>2, <3>3
  <2>9. at[e] <= bt[e]
    <3>1. e = h \/ e < h
      BY <2>2, <2>6, <2>7
    <3>2. at[e] \in Nat /\ at[h] \in Nat
      BY <1>0, <2>2, <2>6, Zenon
    <3>3. at[e] = at[h] \/ at[e] < at[h]
      BY <1>0, <2>2, <2>6, <3>1, Zenon
    <3> QED
      BY <2>6, <3>2, <3>3
  <2>10. at[e] = bt[e]
    <3>1. at[e] \in Nat /\ bt[e] \in Nat
      BY <1>0, <2>2, <2>5, Zenon
    <3> QED
      BY <2>8, <2>9, <3>1
  <2> QED
    BY <2>1, <2>5, <2>10
<1>2. l <= m
  BY <1>1
<1>3. ~(l < m)
  <2> SUFFICES ASSUME l < m
               PROVE  FALSE
    OBVIOUS
  <2>1. l + 1 \in 1..m
    OBVIOUS
  <2>2. PICK h \in 1..l : at[h] = bt[l + 1]
    BY <1>0, <2>1
  <2>3. at[h] = bt[h] /\ h \in 1..m
    BY <1>1
  <2>4. bt[h] < bt[l + 1]
    BY <1>0, <2>1, <2>3
  <2> QED
    BY <1>0, <2>1, <2>2, <2>3, <2>4
<1> QED
  BY <1>1, <1>2, <1>3

(* What is picked, as a sequence.                                          *)
Picks(dirs, there, files, n, last, at) ==
  /\ files \in Seq(there) /\ Len(files) \in Nat /\ DOMAIN files = 1..Len(files)
  /\ \A i \in 1..Len(files) : at[i] \in 1..last /\ files[i] \in there
  /\ \A i, j \in 1..Len(files) : i < j => at[i] < at[j]
  /\ \A i \in 1..Len(files) : files[i] = CandidateIn(dirs, at[i], n)
  /\ \A j \in 1..last :
       CandidateIn(dirs, j, n) \in there <=> \E i \in 1..Len(files) : at[i] = j

LEMMA PickedFacts ==
  ASSUME NEW dirs, NEW there, NEW files, NEW n, NEW last \in Nat, NEW at,
         PickedAt(dirs, there, files, n, last, at)
  PROVE  Picks(dirs, there, files, n, last, at)
<1>1. files \in Seq(there)
  BY DEF PickedAt
<1>2. Len(files) \in Nat /\ DOMAIN files = 1..Len(files) /\ \A i \in 1..Len(files) : files[i] \in there
  BY <1>1
<1> QED
  BY <1>1, <1>2 DEF PickedAt, Picks

(* Two lists of the files in the first directories are the same.            *)
LEMMA PickedOnce ==
  ASSUME NEW dirs, NEW there, NEW s, NEW t, NEW n, NEW last \in Nat,
         Picked(dirs, there, s, n, last), Picked(dirs, there, t, n, last)
  PROVE  s = t
<1>1. PICK at : PickedAt(dirs, there, s, n, last, at)
  BY DEF Picked
<1>2. PICK bt : PickedAt(dirs, there, t, n, last, bt)
  BY DEF Picked
<1>3. ASSUME NEW u, NEW ct, PickedAt(dirs, there, u, n, last, ct)
      PROVE  /\ u \in Seq(there) /\ Len(u) \in Nat /\ DOMAIN u = 1..Len(u)
             /\ \A i \in 1..Len(u) : ct[i] \in 1..last
             /\ \A i, j \in 1..Len(u) : i < j => ct[i] < ct[j]
             /\ \A i \in 1..Len(u) : u[i] = CandidateIn(dirs, ct[i], n)
             /\ \A j \in 1..last :
                  CandidateIn(dirs, j, n) \in there <=> \E i \in 1..Len(u) : ct[i] = j
  <2>1. Picks(dirs, there, u, n, last, ct)
    BY <1>3, PickedFacts
  <2> QED
    BY <2>1, Zenon DEF Picks
<1> DEFINE A(u, ct) == \A j \in 1..last :
                CandidateIn(dirs, j, n) \in there <=> \E i \in 1..Len(u) : ct[i] = j
<1>4. /\ \A i \in 1..Len(s) : \E j \in 1..Len(t) : bt[j] = at[i]
      /\ \A j \in 1..Len(t) : \E i \in 1..Len(s) : at[i] = bt[j]
  <2>1. \A i \in 1..Len(s) : at[i] \in 1..last
    BY <1>1, <1>3
  <2>2. \A i \in 1..Len(t) : bt[i] \in 1..last
    BY <1>2, <1>3
  <2>3. A(s, at)
    BY <1>1, <1>3
  <2>4. A(t, bt)
    BY <1>2, <1>3
  <2> QED
    BY <2>1, <2>2, <2>3, <2>4
<1> HIDE DEF A
<1>5. Len(s) = Len(t) /\ \A i \in 1..Len(s) : at[i] = bt[i]
  <2>0. PICK l, m : l = Len(s) /\ m = Len(t)
    OBVIOUS
  <2>1. l \in Nat /\ Rising(at, l)
    BY <1>1, <1>3, <2>0 DEF Rising
  <2>2. m \in Nat /\ Rising(bt, m)
    BY <1>2, <1>3, <2>0 DEF Rising
  <2>3. Among(at, l, bt, m) /\ Among(bt, m, at, l)
    BY <1>4, <2>0 DEF Among
  <2>4. l = m /\ \A i \in 1..l : at[i] = bt[i]
    BY <2>1, <2>2, <2>3, RisingOnce
  <2> QED
    BY <2>0, <2>4
<1>6. /\ s \in Seq(there) /\ t \in Seq(there)
      /\ \A i \in 1..Len(s) : s[i] = t[i]
  BY <1>1, <1>2, <1>3, <1>5
<1> QED
  BY <1>5, <1>6

(* Looking into one more directory.                                        *)
LEMMA PickNone ==
  ASSUME NEW dirs, NEW there, NEW n
  PROVE  Picked(dirs, there, <<>>, n, 0)
<1>1. PickedAt(dirs, there, <<>>, n, 0, <<>>)
  BY DEF PickedAt
<1> QED
  BY <1>1 DEF Picked

LEMMA PickNext ==
  ASSUME NEW dirs, NEW there, NEW files, NEW n, NEW last \in Nat,
         Picked(dirs, there, files, n, last), NEW more, NEW e,
         e = CandidateIn(dirs, last + 1, n),
         more = IF e \in there THEN Append(files, e) ELSE files
  PROVE  Picked(dirs, there, more, n, last + 1)
<1>1. PICK at : PickedAt(dirs, there, files, n, last, at)
  BY DEF Picked
<1>a. PICK l : l = Len(files)
  OBVIOUS
<1>2. /\ files \in Seq(there) /\ l \in Nat /\ DOMAIN files = 1..l
      /\ \A i \in 1..l : at[i] \in 1..last /\ files[i] \in there
      /\ \A i, j \in 1..l : i < j => at[i] < at[j]
      /\ \A i \in 1..l : files[i] = CandidateIn(dirs, at[i], n)
      /\ \A j \in 1..last :
           CandidateIn(dirs, j, n) \in there <=> \E i \in 1..l : at[i] = j
  <2>1. Picks(dirs, there, files, n, last, at)
    BY <1>1, PickedFacts
  <2> QED
    BY <1>a, <2>1 DEF Picks
<1>3. CASE e \in there
  <2> DEFINE bt == [i \in 1..(l + 1) |-> IF i = l + 1 THEN last + 1 ELSE at[i]]
  <2>1. /\ more \in Seq(there) /\ DOMAIN more = 1..(l + 1)
        /\ more[l + 1] = e /\ \A i \in 1..l : more[i] = files[i]
    BY <1>2, <1>3
  <2>2. bt \in [1..(l + 1) -> 1..(last + 1)]
    BY <1>2
  <2>3. bt[l + 1] = last + 1 /\ \A i \in 1..l : bt[i] = at[i] /\ bt[i] \in 1..last
    BY <1>2
  <2> HIDE DEF bt
  <2>4. \A i, j \in 1..(l + 1) : i < j => bt[i] < bt[j]
    <3> SUFFICES ASSUME NEW i \in 1..(l + 1), NEW j \in 1..(l + 1), i < j
                 PROVE  bt[i] < bt[j]
      OBVIOUS
    <3>1. i \in 1..l
      BY <1>2
    <3>2. CASE j = l + 1
      <4>1. bt[i] \in 1..last /\ bt[j] = last + 1
        BY <2>3, <3>1, <3>2
      <4> QED
        BY <4>1
    <3>3. CASE j # l + 1
      BY <1>2, <2>3, <3>1, <3>3
    <3> QED
      BY <3>2, <3>3
  <2>5. \A i \in 1..(l + 1) : more[i] = CandidateIn(dirs, bt[i], n)
    <3> TAKE i \in 1..(l + 1)
    <3>1. i = l + 1 \/ i \in 1..l
      BY <1>2
    <3> QED
      BY <1>2, <2>1, <2>3, <3>1
  <2>6. \A j \in 1..(last + 1) :
          CandidateIn(dirs, j, n) \in there => \E i \in 1..(l + 1) : bt[i] = j
    <3> SUFFICES ASSUME NEW j \in 1..(last + 1), CandidateIn(dirs, j, n) \in there
                 PROVE  \E i \in 1..(l + 1) : bt[i] = j
      OBVIOUS
    <3>1. CASE j = last + 1
      <4>1. l + 1 \in 1..(l + 1)
        BY <1>2
      <4> QED
        BY <2>3, <3>1, <4>1
    <3>2. CASE j # last + 1
      <4>1. PICK i \in 1..l : at[i] = j
        BY <1>2, <3>2
      <4>2. i \in 1..(l + 1)
        BY <1>2
      <4> QED
        BY <2>3, <4>1, <4>2
    <3> QED
      BY <3>1, <3>2
  <2>7. PickedAt(dirs, there, more, n, last + 1, bt)
    BY <2>1, <2>2, <2>4, <2>5, <2>6 DEF PickedAt
  <2> QED
    BY <2>7 DEF Picked
<1>4. CASE e \notin there
  <2>1. more = files
    BY <1>4
  <2>2. at \in [DOMAIN files -> 1..(last + 1)]
    BY <1>1, <1>2 DEF PickedAt
  <2>3. \A j \in 1..(last + 1) :
          CandidateIn(dirs, j, n) \in there => \E i \in DOMAIN files : at[i] = j
    <3> SUFFICES ASSUME NEW j \in 1..(last + 1), CandidateIn(dirs, j, n) \in there
                 PROVE  \E i \in 1..l : at[i] = j
      BY <1>2
    <3>1. j \in 1..last
      BY <1>4
    <3> QED
      BY <1>2, <3>1
  <2>4. PickedAt(dirs, there, files, n, last + 1, at)
    BY <1>1, <2>2, <2>3 DEF PickedAt
  <2> QED
    BY <2>1, <2>4 DEF Picked
<1> QED
  BY <1>3, <1>4

-----------------------------------------------------------------------------
(* What is done after get_env leaves the search path alone.                 *)
LEMMA SamePath == UNCHANGED env => UNCHANGED <<CpsPrefixes, Expanded>>
BY DEF CpsPrefixes, Expanded

LEMMA InitIInv == Init => IInv
<1> SUFFICES ASSUME Init
             PROVE  IInv
  OBVIOUS
<1>1. DOMAIN answers = {}
  BY DEF Init
<1> QED
  BY <1>1 DEF Init, IInv, EnvOK, LoopOK, AnswersOK

(* A step that leaves the environment, the cache and the answers alone.     *)
LEMMA AnswersKept ==
  ASSUME IInv, UNCHANGED <<getenv, disk, env, answers>>
  PROVE  AnswersOK'
<1>1. Expanded' = Expanded
  BY SamePath
<1> QED
  BY <1>1 DEF IInv, AnswersOK, Local

LEMMA GetEnvStep ==
  ASSUME IInv, GetEnv
  PROVE  IInv'
<1>1. /\ cached_paths' = <<>> /\ answers' = <<>> /\ pc' = "idle" /\ found' = <<>>
  BY DEF IInv, EnvOK, LoopOK, GetEnv
<1>2. EnvOK'
  BY <1>1 DEF IInv, EnvOK, GetEnv, get_paths
<1>3. DOMAIN answers' = {}
  BY <1>1
<1> QED
  BY <1>1, <1>2, <1>3 DEF IInv, LoopOK, AnswersOK

LEMMA AskStep ==
  ASSUME IInv, NEW n, Ask(n)
  PROVE  IInv'
<1>1. Expanded' = Expanded
  BY SamePath DEF Ask
<1>2. EnvOK'
  BY <1>1 DEF IInv, EnvOK, Ask, get_paths
<1>3. LoopOK'
  BY DEF IInv, LoopOK, Ask
<1> QED
  BY <1>2, <1>3, AnswersKept DEF IInv, Ask

(* An answer is as it has to be.                                           *)
LEMMA AnswerStep ==
  ASSUME IInv, NEW files, Answer(files), pc # "start", UNCHANGED cached_paths,
         IF Local(name) \in disk THEN files = <<Local(name)>>
         ELSE Picked(Expanded, disk, files, name, Len(Expanded))
  PROVE  IInv'
<1>1. Expanded' = Expanded
  BY SamePath DEF Answer
<1>2. EnvOK'
  BY <1>1 DEF IInv, EnvOK, Answer, get_paths
<1>3. LoopOK'
  BY DEF IInv, LoopOK, Answer
<1>4. AnswersOK'
  BY <1>1 DEF IInv, AnswersOK, Answer, Local
<1> QED
  BY <1>2, <1>3, <1>4 DEF IInv

LEMMA SearchPathsStep ==
  ASSUME IInv, SearchPaths
  PROVE  IInv'
<1>1. Expanded' = Expanded /\ pc = "asked" /\ pc' = "looking" /\ k' = 1
  BY SamePath DEF SearchPaths
<1>2. cached_paths' = Expanded
  BY <1>1 DEF IInv, EnvOK, SearchPaths, search_paths
<1>3. Len(Expanded) \in Nat
  BY <1>1, ExpandedFrom DEF IInv
<1>4. EnvOK'
  BY <1>1, <1>2 DEF IInv, EnvOK, SearchPaths, get_paths
<1>5. Picked(Expanded, disk, <<>>, name, 0)
  BY PickNone
<1>6. LoopOK'
  <2>1. found' = <<>> /\ name' = name /\ disk' = disk /\ Local(name) \notin disk
    BY <1>1 DEF IInv, LoopOK, SearchPaths
  <2>2. k' - 1 = 0 /\ k' \in 1..(Len(Expanded) + 1)
    BY <1>1, <1>3
  <2> QED
    BY <1>1, <1>2, <1>5, <2>1, <2>2 DEF LoopOK, Local
<1> QED
  BY <1>4, <1>6, AnswersKept DEF IInv, SearchPaths

LEMMA LookInStep ==
  ASSUME IInv, LookIn
  PROVE  IInv'
<1>1. /\ Expanded' = Expanded /\ pc = "looking" /\ pc' = "looking"
      /\ Local(name) \notin disk /\ cached_paths = Expanded
      /\ k \in 1..(Len(Expanded) + 1) /\ k <= Len(Expanded)
      /\ Picked(Expanded, disk, found, name, k - 1)
      /\ found' = IF Candidate \in disk THEN Append(found, Candidate) ELSE found
      /\ k' = k + 1 /\ UNCHANGED <<getenv, disk, env, cached_paths, pc, name, answers>>
  BY SamePath DEF IInv, LoopOK, LookIn
<1>2. Len(Expanded) \in Nat
  BY <1>1, ExpandedFrom DEF IInv
<1>3. EnvOK'
  BY <1>1 DEF IInv, EnvOK, get_paths
<1>4. Picked(Expanded, disk, found', name, (k - 1) + 1)
  <2>1. Candidate = CandidateIn(Expanded, (k - 1) + 1, name)
    BY <1>1 DEF Candidate, CandidateIn
  <2>2. k - 1 \in Nat
    BY <1>1
  <2> QED
    BY <1>1, <2>1, <2>2, PickNext
<1>5. (k - 1) + 1 = k' - 1 /\ k' \in 1..(Len(Expanded) + 1)
  BY <1>1, <1>2
<1>6. LoopOK'
  BY <1>1, <1>4, <1>5 DEF LoopOK, Local
<1> QED
  BY <1>1, <1>3, <1>6, AnswersKept DEF IInv

LEMMA NextIInv == IInv /\ [Next]_vars => IInv'
<1> SUFFICES ASSUME IInv, [Next]_vars
             PROVE  IInv'
  OBVIOUS
<1>1. CASE GetEnv
  BY <1>1, GetEnvStep
<1>2. CASE \E n \in Names : Ask(n)
  BY <1>2, AskStep
<1>3. CASE AnswerLocal
  BY <1>3, AnswerStep DEF AnswerLocal
<1>4. CASE SearchPaths
  BY <1>4, SearchPathsStep
<1>5. CASE LookIn
  BY <1>5, LookInStep
<1>6. CASE AnswerFound
  <2>1. /\ pc = "looking" /\ Local(name) \notin disk /\ cached_paths = Expanded
        /\ k \in 1..(Len(Expanded) + 1) /\ k > Len(Expanded)
        /\ Picked(Expanded, disk, found, name, k - 1)
    BY <1>6 DEF IInv, LoopOK, AnswerFound
  <2>2. Len(Expanded) \in Nat
    BY <2>1, ExpandedFrom DEF IInv
  <2>3. k - 1 = Len(Expanded)
    BY <2>1, <2>2
  <2> QED
    BY <1>6, <2>1, <2>3, AnswerStep DEF AnswerFound
<1>7. CASE UNCHANGED vars
  <2>1. Expanded' = Expanded
    BY <1>7, SamePath DEF vars
  <2>2. EnvOK'
    BY <1>7, <2>1 DEF IInv, EnvOK, get_paths, vars
  <2>3. LoopOK'
    BY <1>7, <2>1 DEF IInv, LoopOK, Local, vars
  <2> QED
    BY <1>7, <2>2, <2>3, AnswersKept DEF IInv, vars
<1> QED
  BY <1>1, <1>2, <1>3, <1>4, <1>5, <1>6, <1>7 DEF Next

LEMMA IInvHolds == Spec => []IInv
BY InitIInv, NextIInv, PTL DEF Spec
-----------------------------------------------------------------------------
(* The search path is made: a name was asked for after the environment was  *)
(* read.                                                                   *)
LEMMA AnsweredPicked ==
  ASSUME IInv, NEW n \in Searched
  PROVE  /\ pc # "start" /\ Len(Expanded) \in Nat /\ Expanded \in Seq(Directory)
         /\ Picked(Expanded, disk, answers[n], n, Len(Expanded))
<1>1. n \in DOMAIN answers /\ Local(n) \notin disk
  BY DEF Searched
<1>2. pc # "start"
  <2> SUFFICES ASSUME pc = "start"
               PROVE  FALSE
    OBVIOUS
  <2>1. DOMAIN answers = {}
    BY DEF IInv, EnvOK
  <2> QED
    BY <1>1, <2>1
<1>3. Expanded \in Seq(Directory)
  BY <1>2, ExpandedFrom DEF IInv
<1> QED
  BY <1>1, <1>2, <1>3 DEF IInv, AnswersOK

(* The files of a disk are records of three fields.                         *)
LEMMA FileParts ==
  ASSUME IInv, NEW f \in disk
  PROVE  f = File(f.dir, f.name, f.type)
<1>1. f \in [dir : Path, name : Names, type : {"cps", "pc", "file"}]
  BY PathsAssumption DEF IInv, EnvOK
<1> QED
  BY <1>1 DEF File

(* Find_paths finds every file of a package that is in one of the           *)
(* directories of the environment or of the system, and no other.           *)
THEOREM FindsEvery == Spec => []EveryFileFound
<1>1. IInv => EveryFileFound
  <2> SUFFICES ASSUME IInv, NEW n \in Searched
               PROVE  Range(answers[n]) = Files(n)
    BY DEF EveryFileFound
  <2> DEFINE files == answers[n]
             l == Len(Expanded)
  <2>1. PICK at : PickedAt(Expanded, disk, files, n, l, at)
    BY AnsweredPicked DEF Picked
  <2>2. PICK from : From(from)
    BY AnsweredPicked, ExpandedFrom DEF IInv
  <2>3. /\ from \in [1..l -> 1..4]
        /\ \A i \in 1..l : <<Expanded[i].path, Expanded[i].type>> \in Source(from[i])
        /\ \A s \in 1..4 : \A e \in Source(s) :
             \E i \in 1..l : from[i] = s /\ <<Expanded[i].path, Expanded[i].type>> = e
    BY <2>2 DEF From, Sourced
  <2>4. /\ DOMAIN files = 1..Len(files)
        /\ \A i \in 1..Len(files) : at[i] \in 1..l /\ files[i] \in disk
        /\ \A i \in 1..Len(files) : files[i] = CandidateIn(Expanded, at[i], n)
        /\ \A j \in 1..l :
             CandidateIn(Expanded, j, n) \in disk <=> \E i \in 1..Len(files) : at[i] = j
    <3>1. Picks(Expanded, disk, files, n, l, at)
      BY <2>1, AnsweredPicked, PickedFacts
    <3> QED
      BY <3>1, Zenon DEF Picks
  <2> HIDE DEF files, l
  <2>5. ASSUME NEW f \in Range(files)
        PROVE  f \in Files(n)
    <3>1. PICK i \in 1..Len(files) : f = files[i]
      BY <2>4 DEF Range
    <3>2. f \in disk /\ f = CandidateIn(Expanded, at[i], n) /\ at[i] \in 1..l
      BY <2>4, <3>1
    <3>3. f.name = n /\ <<f.dir, f.type>> \in Source(from[at[i]]) /\ from[at[i]] \in 1..4
      BY <2>3, <3>2 DEF CandidateIn, File
    <3> QED
      BY <3>2, <3>3 DEF Files
  <2>6. ASSUME NEW f \in Files(n)
        PROVE  f \in Range(files)
    <3>1. PICK s \in 1..4 : f \in disk /\ f.name = n /\ <<f.dir, f.type>> \in Source(s)
      BY DEF Files
    <3>2. PICK j \in 1..l : <<Expanded[j].path, Expanded[j].type>> = <<f.dir, f.type>>
      BY <2>3, <3>1
    <3>3. f = CandidateIn(Expanded, j, n)
      BY <3>1, <3>2, FileParts DEF CandidateIn
    <3>4. PICK i \in 1..Len(files) : at[i] = j
      BY <2>4, <3>1, <3>3
    <3> QED
      BY <2>4, <3>3, <3>4 DEF Range
  <2> QED
    BY <2>5, <2>6 DEF files
<1> QED
  BY <1>1, IInvHolds, PTL

(* The source a file's directory first appears in.                          *)
LEMMA RankLeast ==
  ASSUME NEW file, NEW s \in 1..4, <<file.dir, file.type>> \in Source(s)
  PROVE  /\ Rank(file) \in 1..4 /\ Rank(file) <= s
         /\ <<file.dir, file.type>> \in Source(Rank(file))
<1> DEFINE T == {i \in 1..4 : <<file.dir, file.type>> \in Source(i)}
           First(i) == /\ <<file.dir, file.type>> \in Source(i)
                       /\ \A j \in 1..(i - 1) : <<file.dir, file.type>> \notin Source(j)
<1>1. PICK m \in T : \A j \in T : m <= j
  <2>1. T \subseteq Nat /\ T # {}
    OBVIOUS
  <2> HIDE DEF T
  <2> QED
    BY <2>1, LeastNumber
<1>2. m \in 1..4 /\ First(m)
  BY <1>1
<1>3. Rank(file) \in 1..4 /\ First(Rank(file))
  BY <1>2, Zenon DEF Rank
<1>4. Rank(file) <= s
  BY <1>3
<1> QED
  BY <1>3, <1>4

(* Find_paths puts the files of better sources first, for any number of     *)
(* directories in any of the variables.                                    *)
THEOREM BestFirst == Spec => []BetterSourceFirst
<1>1. IInv => BetterSourceFirst
  <2> SUFFICES ASSUME IInv, NEW n \in Searched,
                      NEW i \in DOMAIN answers[n], NEW j \in DOMAIN answers[n], ~(i >= j),
                      ~(Rank(answers[n][i]) <= Rank(answers[n][j]))
               PROVE  \E h \in 1..(i - 1) : answers[n][h] = answers[n][j]
    BY DEF BetterSourceFirst
  <2> DEFINE files == answers[n]
             l == Len(Expanded)
  <2>1. PICK at : PickedAt(Expanded, disk, files, n, l, at)
    BY AnsweredPicked DEF Picked
  <2>2. PICK from : From(from)
    BY AnsweredPicked, ExpandedFrom DEF IInv
  <2>3. /\ l \in Nat /\ from \in [1..l -> 1..4]
        /\ \A g, h \in 1..l : g < h => from[g] <= from[h]
        /\ \A g \in 1..l : <<Expanded[g].path, Expanded[g].type>> \in Source(from[g])
        /\ \A s \in 1..4 : \A e \in Source(s) :
             \E g \in 1..l : from[g] = s /\ <<Expanded[g].path, Expanded[g].type>> = e
    BY <2>2, AnsweredPicked DEF From, Sourced
  <2>4. /\ DOMAIN files = 1..Len(files) /\ Len(files) \in Nat
        /\ \A g \in 1..Len(files) : at[g] \in 1..l /\ files[g] \in disk
        /\ \A g, h \in 1..Len(files) : g < h => at[g] < at[h]
        /\ \A g \in 1..Len(files) : files[g] = CandidateIn(Expanded, at[g], n)
        /\ \A g \in 1..l :
             CandidateIn(Expanded, g, n) \in disk <=> \E h \in 1..Len(files) : at[h] = g
    <3>1. Picks(Expanded, disk, files, n, l, at)
      BY <2>1, AnsweredPicked, PickedFacts
    <3> QED
      BY <3>1, Zenon DEF Picks
  <2>5. /\ i \in 1..Len(files) /\ j \in 1..Len(files) /\ i < j
        /\ ~(Rank(files[i]) <= Rank(files[j]))
    BY <2>4
  <2> HIDE DEF files, l
  <2>6. ASSUME NEW g \in 1..Len(files)
        PROVE  /\ Rank(files[g]) \in 1..4 /\ Rank(files[g]) <= from[at[g]]
               /\ <<files[g].dir, files[g].type>> \in Source(Rank(files[g]))
               /\ files[g].name = n
    <3> DEFINE s == from[at[g]]
               f == files[g]
    <3>0. at[g] \in 1..l /\ files[g] = CandidateIn(Expanded, at[g], n)
      BY <2>4
    <3>1. f.name = n /\ <<f.dir, f.type>> \in Source(s)
      BY <2>3, <3>0 DEF CandidateIn, File
    <3>2. s \in 1..4
      BY <2>3, <3>0
    <3> HIDE DEF s, f
    <3>3. Rank(f) \in 1..4 /\ Rank(f) <= s /\ <<f.dir, f.type>> \in Source(Rank(f))
      BY <3>1, <3>2, RankLeast
    <3> QED
      BY <3>1, <3>3, Zenon DEF s, f
  <2> DEFINE r == Rank(files[j])
  <2>7. PICK q \in 1..l : from[q] = r /\ <<Expanded[q].path, Expanded[q].type>> = <<files[j].dir, files[j].type>>
    <3>1. r \in 1..4 /\ <<files[j].dir, files[j].type>> \in Source(r)
      BY <2>5, <2>6
    <3> QED
      BY <2>3, <3>1, Zenon
  <2>8. CandidateIn(Expanded, q, n) = files[j]
    <3>1. files[j] \in disk /\ files[j].name = n
      BY <2>4, <2>5, <2>6
    <3> QED
      BY <2>7, <3>1, FileParts DEF CandidateIn
  <2>9. PICK h \in 1..Len(files) : at[h] = q
    BY <2>4, <2>5, <2>8
  <2>10. r < from[at[i]]
    <3>1. r \in 1..4 /\ Rank(files[i]) \in 1..4 /\ Rank(files[i]) <= from[at[i]]
      BY <2>5, <2>6
    <3>2. from[at[i]] \in 1..4
      BY <2>3, <2>4, <2>5
    <3> QED
      BY <2>5, <3>1, <3>2
  <2>11. q < at[i]
    <3>1. at[i] \in 1..l /\ q \in 1..l /\ from[at[i]] \in 1..4 /\ from[q] \in 1..4
      BY <2>3, <2>4, <2>5
    <3>2. ~(at[i] < q) /\ at[i] # q
      BY <2>3, <2>7, <2>10, <3>1
    <3> QED
      BY <3>1, <3>2
  <2>12. h < i
    <3>1. ~(i < h) /\ i # h
      BY <2>3, <2>4, <2>5, <2>9, <2>11
    <3> QED
      BY <2>5, <3>1
  <2>13. h \in 1..(i - 1) /\ files[h] = files[j]
    BY <2>4, <2>5, <2>8, <2>9, <2>12
  <2> QED
    BY <2>13 DEF files
<1> QED
  BY <1>1, IInvHolds, PTL

(* A name asked for again is answered as before, whatever was asked for in  *)
(* between: the cache of the search path does not change what is found.     *)
THEOREM SameAnswers == Spec => AnswersRepeat
<1>1. IInv /\ IInv' /\ [Next]_vars => [\A n \in DOMAIN answers : answers'[n] = answers[n]]_vars
  <2> SUFFICES ASSUME IInv, IInv', Next, NEW n \in DOMAIN answers
               PROVE  answers'[n] = answers[n]
    OBVIOUS
  <2>1. CASE UNCHANGED answers
    BY <2>1
  <2>2. CASE \E paths : Answer(paths) /\ pc # "start"
    <3>1. PICK paths : Answer(paths) /\ pc # "start"
      BY <2>2
    <3>2. n \in DOMAIN answers' /\ disk' = disk /\ Expanded' = Expanded
      BY <3>1, SamePath DEF Answer
    <3>3. CASE Local(n) \in disk
      BY <3>2, <3>3 DEF IInv, AnswersOK, Local
    <3>4. CASE Local(n) \notin disk
      <4>1. /\ Picked(Expanded, disk, answers[n], n, Len(Expanded))
            /\ Picked(Expanded, disk, answers'[n], n, Len(Expanded))
        BY <3>2, <3>4 DEF IInv, AnswersOK, Local
      <4>2. Len(Expanded) \in Nat
        BY <3>1, ExpandedFrom DEF IInv
      <4> QED
        BY <4>1, <4>2, PickedOnce
    <3> QED
      BY <3>3, <3>4
  <2> QED
    BY <2>1, <2>2 DEF Next, GetEnv, Ask, AnswerLocal, SearchPaths, LookIn, AnswerFound
<1>2. Spec => [][\A n \in DOMAIN answers : answers'[n] = answers[n]]_vars
  BY <1>1, IInvHolds, PTL DEF Spec
<1> QED
  BY <1>2 DEF AnswersRepeat

=============================================================================
