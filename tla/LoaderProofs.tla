---------------------------- MODULE LoaderProofs ----------------------------
(***************************************************************************)
(* Proofs about Loader and the CalculatePrefix it ends with.                *)
(***************************************************************************)
EXTENDS Loader, SequenceTheorems, TLAPS

(* What is climbed of cps_path: its names without the trailing slash.       *)
Slashless == IF stem(cps_path) = NoName THEN parent_path(cps_path).names
                                        ELSE cps_path.names

Cut(s, m)   == SubSeq(s, 1, Len(s) - m)
EndAt(s, k) == IF k < Len(s) THEN Stem(s[Len(s) - k]) ELSE NoName

(* After m climbs both paths are the arguments without their last m names,  *)
(* which had equal stems, and "@prefix@" has not been climbed past.         *)
Climbed(m) ==
  /\ p = [root |-> cps_path.root, names |-> Cut(Slashless, m)]
  /\ f = [root |-> directory.root, names |-> Cut(directory.names, m)]
  /\ \A k \in 0..(m - 1) : EndAt(Slashless, k) = EndAt(directory.names, k)
  /\ Relocatable => m < Len(Slashless)

(* The inductive invariant of CalculatePrefix.                             *)
PrefixInv ==
  /\ cps_path \in CpsPaths /\ directory \in Directories
  /\ answer \in {"start", "climbing", "prefix", "error"}
  /\ answer = "start" => Start
  /\ answer = "climbing" => \E m \in Nat : Climbed(m)
  /\ PrefixLeadsBack

(* The rank of the first fault that has not been looked for.                *)
Last20 == EntryRank(Len(doc.entries) + 1)

Place == CASE ~doc.json        -> 0
           [] doc.json /\ part = "header"  -> at
           [] doc.json /\ part = "entries" -> EntryRank(entry)
           [] doc.json /\ part = "entry"   -> EntryRank(entry) + at
           [] doc.json /\ part = "trailer" -> Last20 + at
           [] doc.json /\ part = "prefix"  -> Last20 + 11

(* Where the reading of the document can be.                                *)
Position ==
  /\ part \in {"header", "entries", "entry", "trailer", "prefix"}
  /\ part = "header"  => at \in 1..4 /\ entry = 1
  /\ part = "entries" => at = 1 /\ entry \in 1..(Len(doc.entries) + 1)
  /\ part = "entry"   => at \in 1..11 /\ entry \in 1..Len(doc.entries)
  /\ part = "trailer" => at \in 1..7 /\ entry = Len(doc.entries) + 1
  /\ part = "prefix"  => /\ at = 1 /\ entry = Len(doc.entries) + 1 /\ doc.json
                         /\ Checked /\ Has("cps_path")
  /\ ~doc.json => part = "header"

(* What the code does with components of unknown type, too: it loads no     *)
(* document with a fault in one, and answers with the first fault of all.   *)
LoadsFaultless == outcome = "loaded" => Faults = {} /\ components = Known

FirstOfAll ==
  outcome \in {"error", "terminated"} =>
    \E first \in Faults : /\ first.how = outcome
                          /\ \A other \in Faults : first.rank <= other.rank

(* The inductive invariant of Loader: the components are the known entries  *)
(* read so far, and no fault is ranked before the place being read.         *)
LoadInv ==
  /\ doc \in Documents /\ cps_path = doc.path /\ directory = doc.directory
  /\ Position
  /\ part # "prefix" => answer = "start"
  /\ outcome \in {"loading", "loaded", "error", "terminated"}
  /\ outcome = "loading" => answer \in {"start", "climbing"}
  /\ components = {k \in Known : k < entry}
  /\ outcome = "loading" => \A x \in Faults : x.rank >= Place
  /\ LoadsFaultless /\ FirstOfAll

-----------------------------------------------------------------------------
(* The end and the parent of a path cut short.                             *)
LEMMA CutEnd ==
  ASSUME NEW s \in Seq(Elements), NEW m \in Nat, NEW r \in BOOLEAN
  PROVE  /\ stem([root |-> r, names |-> Cut(s, m)]) = EndAt(s, m)
         /\ parent_path([root |-> r, names |-> Cut(s, m)])
              = [root |-> r, names |-> Cut(s, m + 1)]
<1> DEFINE c == Cut(s, m)
<1>1. PICK n \in Nat : n = Len(s)
  OBVIOUS
<1>2. CASE m < n
  <2>1. c \in Seq(Elements) /\ Len(c) = n - m
    BY <1>1, <1>2 DEF Cut
  <2>2. c[n - m] = s[n - m]
    BY <1>1, <1>2 DEF Cut
  <2>3. c # <<>> /\ Last(c) = s[n - m]
    BY <2>1, <2>2, <1>2 DEF Last
  <2>4. Front(c) = Cut(s, m + 1)
    <3>1. /\ Front(c) \in Seq(Elements) /\ Len(Front(c)) = n - m - 1
          /\ \A k \in 1..(n - m - 1) : Front(c)[k] = c[k]
      BY <2>1, <1>2 DEF Front
    <3>2. /\ Cut(s, m + 1) \in Seq(Elements) /\ Len(Cut(s, m + 1)) = n - m - 1
          /\ \A k \in 1..(n - m - 1) : Cut(s, m + 1)[k] = s[k]
      BY <1>1, <1>2 DEF Cut
    <3>3. \A k \in 1..(n - m - 1) : c[k] = s[k]
      BY <1>1, <1>2 DEF Cut
    <3> HIDE DEF c
    <3> QED  BY <3>1, <3>2, <3>3, SeqEqual
  <2> QED  BY <1>1, <1>2, <2>3, <2>4 DEF stem, parent_path, EndAt
<1>3. CASE m >= n
  <2>1. c = <<>> /\ Cut(s, m + 1) = <<>>
    BY <1>1, <1>3 DEF Cut
  <2> QED  BY <1>1, <1>3, <2>1 DEF stem, parent_path, EndAt
<1> QED  BY <1>1, <1>2, <1>3

(* A path that is cut short has the names it had, up to there.              *)
LEMMA CutNames ==
  ASSUME NEW s \in Seq(Elements), NEW m \in Nat
  PROVE  /\ Cut(s, m) \in Seq(Elements)
         /\ Len(Cut(s, m)) = IF m < Len(s) THEN Len(s) - m ELSE 0
         /\ \A k \in 1..(Len(s) - m) : Cut(s, m)[k] = s[k]
<1>1. PICK n \in Nat : n = Len(s)
  OBVIOUS
<1>2. CASE m < n  BY <1>1, <1>2 DEF Cut
<1>3. CASE m >= n
  <2>1. Cut(s, m) = <<>>  BY <1>1, <1>3 DEF Cut
  <2> QED  BY <1>1, <1>3, <2>1
<1> QED  BY <1>1, <1>2, <1>3

(* What is climbed has no empty name, begins with "@prefix@" when cps_path  *)
(* does, and is then "@prefix@" and the suffix.                            *)
LEMMA SlashlessNames ==
  ASSUME cps_path \in CpsPaths
  PROVE  /\ Slashless \in Seq(Elements)
         /\ \A k \in 1..Len(Slashless) : Slashless[k] # NoName
         /\ (cps_path.names # <<>> /\ Head(cps_path.names) = PrefixMark)
              <=> (Slashless # <<>> /\ Slashless[1] = PrefixMark)
<1> DEFINE s == cps_path.names
<1>1. s \in Seq(Elements) /\ cps_path \in Path
  BY PathsAssumption DEF Path
<1>2. PICK n \in Nat : n = Len(s)
  BY <1>1
<1>3. CASE n = 0
  <2>1. s = <<>>
    BY <1>1, <1>2, <1>3, EmptySeq
  <2>2. Slashless = <<>>
    BY <2>1 DEF Slashless, parent_path
  <2> QED  BY <2>1, <2>2
<1>4. CASE n > 0
  <2>1. s # <<>> /\ Head(s) = s[1] /\ Last(s) = s[n] /\ \A k \in 1..n : s[k] \in Elements
    BY <1>1, <1>2, <1>4 DEF Last
  <2>2. /\ Front(s) \in Seq(Elements) /\ Len(Front(s)) = n - 1
        /\ \A k \in 1..(n - 1) : Front(s)[k] = s[k]
    BY <1>1, <1>2, <1>4 DEF Front
  <2>3. \A k \in 1..(n - 1) : s[k] # NoName
    BY <2>2, PathsAssumption DEF Range
  <2>4. stem(cps_path) = Stem(s[n])
    BY <2>1 DEF stem
  <2>5. CASE Stem(s[n]) = NoName
    <3>1. Slashless = Front(s)
      BY <2>1, <2>4, <2>5, <1>1 DEF Slashless, parent_path, Path
    <3>2. s[n] = NoName
      BY <2>5, <2>1, <1>4, PathsAssumption
    <3>3. Head(s) = PrefixMark => n > 1
      BY <3>2, <2>1, <1>4, PathsAssumption
    <3>4. Front(s) # <<>> <=> n > 1
      BY <2>2
    <3>5. n > 1 => Front(s)[1] = s[1]
      BY <2>2
    <3>6. \A k \in 1..Len(Slashless) : Slashless[k] # NoName
      BY <3>1, <2>2, <2>3
    <3>7. s # <<>> /\ Head(s) = PrefixMark <=> Slashless # <<>> /\ Slashless[1] = PrefixMark
      <4>1. CASE n = 1  BY <4>1, <3>1, <3>3, <3>4
      <4>2. CASE n > 1  BY <4>2, <3>1, <3>4, <3>5, <2>1
      <4> QED  BY <4>1, <4>2, <1>4
    <3> QED  BY <3>1, <3>6, <3>7, <2>2
  <2>6. CASE Stem(s[n]) # NoName
    <3>1. Slashless = s
      BY <2>4, <2>6 DEF Slashless
    <3>2. s[n] # NoName
      BY <2>6, PathsAssumption
    <3>3. \A k \in 1..n : s[k] # NoName
      BY <3>2, <2>3
    <3> QED  BY <3>1, <3>3, <2>1, <1>1, <1>2
  <2> QED  BY <2>5, <2>6
<1>5. n = 0 \/ n > 0
  OBVIOUS
<1> QED  BY <1>3, <1>4, <1>5

(* A path that begins with "@prefix@" has it and the suffix to climb.       *)
LEMMA SuffixNames ==
  ASSUME cps_path \in CpsPaths, Relocatable
  PROVE  /\ Suffix \in Seq(Elements)
         /\ Len(Slashless) = Len(Suffix) + 1
         /\ \A k \in 1..Len(Suffix) : Suffix[k] = Slashless[k + 1]
<1> DEFINE s == cps_path.names
<1>1. s \in Seq(Elements) /\ cps_path \in Path
  BY PathsAssumption DEF Path
<1>2. PICK n \in Nat : n = Len(s)
  BY <1>1
<1>3. s # <<>> /\ n >= 1 /\ Head(s) = s[1] /\ s[1] = PrefixMark /\ Last(s) = s[n]
  BY <1>1, <1>2 DEF Relocatable, Last
<1> DEFINE b == Tail(s)
<1>4. b \in Seq(Elements) /\ Len(b) = n - 1 /\ \A k \in 1..(n - 1) : b[k] = s[k + 1]
  BY <1>1, <1>2, <1>3
<1>5. stem(cps_path) = Stem(s[n]) /\ (Stem(s[n]) = NoName <=> s[n] = NoName)
  <2>1. s[n] \in Elements
    BY <1>1, <1>2, <1>3
  <2> QED  BY <2>1, <1>3, PathsAssumption DEF stem
<1>6. Slashless = IF s[n] = NoName THEN Front(s) ELSE s
  BY <1>5, <1>3 DEF Slashless, parent_path
<1>7. CASE n = 1
  <2>1. b = <<>> /\ s[n] # NoName
    <3>1. b = <<>>
      <4>1. b \in Seq(Elements) /\ Len(b) = 0
        BY <1>7, <1>4
      <4> HIDE DEF b
      <4> QED  BY <4>1, EmptySeq
    <3>2. s[n] # NoName  BY <1>7, <1>3, PathsAssumption
    <3> QED  BY <3>1, <3>2
  <2>2. Suffix = <<>> /\ Slashless = s
    BY <2>1, <1>6 DEF Suffix
  <2> QED  BY <2>2, <1>1, <1>2, <1>7
<1>8. CASE n > 1
  <2>1. b # <<>> /\ Last(b) = s[n]
    BY <1>4, <1>8 DEF Last
  <2>2. CASE s[n] = NoName
    <3>1. Suffix = Front(b) /\ Slashless = Front(s)
      BY <2>1, <2>2, <1>6 DEF Suffix
    <3>2. /\ Front(b) \in Seq(Elements) /\ Len(Front(b)) = n - 2
          /\ \A k \in 1..(n - 2) : Front(b)[k] = b[k]
      BY <1>4, <1>8 DEF Front
    <3>3. Len(Front(s)) = n - 1 /\ \A k \in 1..(n - 1) : Front(s)[k] = s[k]
      BY <1>1, <1>2, <1>8 DEF Front
    <3> QED  BY <3>1, <3>2, <3>3, <1>4, <1>8
  <2>3. CASE s[n] # NoName
    <3>1. Suffix = b /\ Slashless = s
      BY <2>1, <2>3, <1>6 DEF Suffix
    <3> QED  BY <3>1, <1>2, <1>4
  <2> QED  BY <2>2, <2>3
<1> QED  BY <1>3, <1>7, <1>8

(* Where the paths climbed m times end, and their parents.                  *)
LEMMA ClimbedEnds ==
  ASSUME cps_path \in CpsPaths, directory \in Directories, NEW m \in Nat, Climbed(m)
  PROVE  /\ stem(p) = EndAt(Slashless, m)
         /\ stem(f) = EndAt(directory.names, m)
         /\ parent_path(p) = [root |-> cps_path.root, names |-> Cut(Slashless, m + 1)]
         /\ parent_path(f) = [root |-> directory.root, names |-> Cut(directory.names, m + 1)]
<1>1. /\ cps_path.root \in BOOLEAN
      /\ directory.root \in BOOLEAN /\ directory.names \in Seq(Elements)
  BY PathsAssumption DEF Path
<1>2. Slashless \in Seq(Elements)
  BY SlashlessNames
<1> QED  BY <1>1, <1>2, CutEnd DEF Climbed

(* A path that begins with "@prefix@" is climbed until that is all of it.   *)
LEMMA PrefixReached ==
  ASSUME cps_path \in CpsPaths, NEW m \in Nat, Climbed(m), Relocatable,
         m + 1 = Len(Slashless)
  PROVE  AtPrefix
<1> DEFINE c == Cut(Slashless, m)
<1>1. Slashless \in Seq(Elements) /\ Slashless[1] = PrefixMark
  BY SlashlessNames DEF Relocatable
<1>2. c \in Seq(Elements) /\ Len(c) = 1 /\ c[1] = PrefixMark
  <2>1. PICK n \in Nat : n = Len(Slashless)
    BY <1>1
  <2>2. n - m = 1 /\ m < n
    BY <2>1
  <2>3. c \in Seq(Elements) /\ Len(c) = n - m /\ \A k \in 1..(n - m) : c[k] = Slashless[k]
    BY <1>1, <2>1, <2>2, CutNames
  <2> QED  BY <1>1, <2>2, <2>3
<1>3. c = <<PrefixMark>>
  <2> HIDE DEF c
  <2>1. <<PrefixMark>> \in Seq(Elements)
    BY PathsAssumption
  <2> QED  BY <1>2, <2>1, SeqEqual
<1>4. cps_path.root = FALSE
  BY PathsAssumption DEF Relocatable, Path
<1> QED  BY <1>3, <1>4 DEF Climbed, AtPrefix

(* "@prefix@" is reached only where the directory ends in the suffix.       *)
LEMMA PrefixAnswered ==
  ASSUME cps_path \in CpsPaths, directory \in Directories, NEW m \in Nat,
         Climbed(m), AtPrefix
  PROVE  /\ Relocatable /\ EndsWith(Suffix)
         /\ f = [directory EXCEPT !.names = SubSeq(@, 1, Len(@) - Len(Suffix))]
<1> DEFINE d == directory.names
<1>1. directory = [root |-> directory.root, names |-> d] /\ d \in Seq(Elements)
  BY PathsAssumption DEF Path
<1>2. Slashless \in Seq(Elements)
  BY SlashlessNames
<1>3. ~cps_path.root /\ Cut(Slashless, m) = <<PrefixMark>>
  BY DEF Climbed, AtPrefix
<1>4. Len(Slashless) = m + 1 /\ Slashless[1] = PrefixMark
  <2>1. Len(Cut(Slashless, m)) = 1 /\ Cut(Slashless, m)[1] = PrefixMark
    BY <1>3
  <2>2. PICK n \in Nat : n = Len(Slashless)
    BY <1>2
  <2>3. /\ Len(Cut(Slashless, m)) = IF m < Len(Slashless) THEN Len(Slashless) - m ELSE 0
        /\ \A k \in 1..(Len(Slashless) - m) : Cut(Slashless, m)[k] = Slashless[k]
    BY <1>2, CutNames
  <2>4. n - m = 1 /\ m < n
    <3> DEFINE l == Len(Cut(Slashless, m))
    <3>1. l = 1 /\ l = IF m < n THEN n - m ELSE 0
      BY <2>1, <2>2, <2>3
    <3> HIDE DEF l
    <3> QED  BY <3>1
  <2>5. Cut(Slashless, m)[1] = Slashless[1]
    BY <2>2, <2>3, <2>4
  <2> QED  BY <2>1, <2>2, <2>4, <2>5
<1>5. Relocatable
  <2>1. Slashless # <<>>
    BY <1>4
  <2> QED  BY <2>1, <1>3, <1>4, SlashlessNames DEF Relocatable
<1>6. /\ Suffix \in Seq(Elements) /\ Len(Suffix) = m
      /\ \A k \in 1..m : Suffix[k] = Slashless[k + 1]
  BY <1>4, <1>5, SuffixNames
<1>7. PICK n \in Nat : n = Len(d)
  BY <1>1
<1>8. \A k \in 0..(m - 1) : EndAt(Slashless, k) = EndAt(d, k)
  BY DEF Climbed
<1>9. \A k \in 0..(m - 1) : EndAt(Slashless, k) = Stem(Slashless[m + 1 - k])
  BY <1>4 DEF EndAt
<1>10. n >= m
  <2>1. SUFFICES ASSUME n < m  PROVE FALSE
    OBVIOUS
  <2>2. EndAt(d, n) = NoName
    BY <1>7 DEF EndAt
  <2>3. Stem(Slashless[m + 1 - n]) = NoName
    BY <2>1, <2>2, <1>8, <1>9
  <2>4. m + 1 - n \in 1..Len(Slashless)
    BY <2>1, <1>4
  <2>5. Slashless[m + 1 - n] \in Elements /\ Slashless[m + 1 - n] # NoName
    BY <2>4, <1>2, SlashlessNames
  <2> QED  BY <2>3, <2>5, PathsAssumption
<1>11. \A k \in 1..m : Stem(Suffix[k]) = Stem(d[n - m + k])
  <2> TAKE k \in 1..m
  <2>1. m - k \in 0..(m - 1) /\ m + 1 - (m - k) = k + 1 /\ n - (m - k) = n - m + k
    OBVIOUS
  <2>2. EndAt(d, m - k) = Stem(d[n - m + k])
    BY <2>1, <1>7, <1>10 DEF EndAt
  <2>3. EndAt(Slashless, m - k) = Stem(Slashless[k + 1])
    BY <2>1, <1>9
  <2> QED  BY <2>1, <2>2, <2>3, <1>6, <1>8
<1>12. EndsWith(Suffix)
  BY <1>6, <1>7, <1>10, <1>11 DEF EndsWith
<1>13. f = [directory EXCEPT !.names = SubSeq(@, 1, Len(@) - Len(Suffix))]
  <2>1. \A x : [directory EXCEPT !.names = x] = [root |-> directory.root, names |-> x]
    BY <1>1
  <2>2. f = [root |-> directory.root, names |-> SubSeq(d, 1, Len(d) - Len(Suffix))]
    BY <1>6 DEF Climbed, Cut
  <2> QED  BY <2>1, <2>2
<1> QED  BY <1>5, <1>12, <1>13

(* The stems differ only where the directory does not end in the suffix.    *)
LEMMA MismatchFound ==
  ASSUME cps_path \in CpsPaths, directory \in Directories, NEW m \in Nat,
         Climbed(m), ~AtPrefix, Relocatable, EndsWith(Suffix)
  PROVE  stem(p) = stem(f)
<1> DEFINE d == directory.names
<1>1. d \in Seq(Elements)
  BY PathsAssumption DEF Path
<1>2. /\ Suffix \in Seq(Elements) /\ Len(Slashless) = Len(Suffix) + 1
      /\ \A k \in 1..Len(Suffix) : Suffix[k] = Slashless[k + 1]
  BY SuffixNames
<1>3. PICK l \in Nat : l = Len(Suffix)
  BY <1>2
<1>4. PICK n \in Nat : n = Len(d)
  BY <1>1
<1>5. m < l
  <2>1. m < l + 1
    BY <1>2, <1>3 DEF Climbed
  <2>2. m # l
    BY <1>2, <1>3, PrefixReached
  <2> QED  BY <2>1, <2>2
<1>6. n >= l /\ \A k \in 1..l : Stem(Suffix[k]) = Stem(d[n - l + k])
  <2>1. n - l >= 0 /\ \A k \in DOMAIN Suffix : Stem(Suffix[k]) = Stem(d[n - l + k])
    BY <1>3, <1>4 DEF EndsWith
  <2>2. DOMAIN Suffix = 1..l
    BY <1>2, <1>3
  <2> QED  BY <2>1, <2>2
<1>7. EndAt(Slashless, m) = Stem(Slashless[l + 1 - m])
  BY <1>2, <1>3, <1>5 DEF EndAt
<1>8. EndAt(d, m) = Stem(d[n - m])
  BY <1>4, <1>5, <1>6 DEF EndAt
<1>9. l - m \in 1..l /\ l - m + 1 = l + 1 - m /\ n - l + (l - m) = n - m
  BY <1>5
<1> QED  BY <1>2, <1>3, <1>6, <1>7, <1>8, <1>9, ClimbedEnds

-----------------------------------------------------------------------------
(* The invariant holds initially ...                                       *)
LEMMA PrefixInit == Init => PrefixInv
BY DEF Init, PrefixInv, Start, PrefixLeadsBack

(* ... and every step keeps it.                                            *)
LEMMA PrefixNext == PrefixInv /\ [Next]_vars => PrefixInv'
<1>1. SUFFICES ASSUME PrefixInv, [Next]_vars  PROVE PrefixInv'
  OBVIOUS
<1>2. cps_path \in CpsPaths /\ directory \in Directories
  BY <1>1 DEF PrefixInv
<1>3. cps_path' = cps_path /\ directory' = directory
  BY <1>1 DEF Next, vars, Begin, Climb, Mismatch, ReturnPrefix
<1>4. Relocatable' = Relocatable /\ Suffix' = Suffix /\ Slashless' = Slashless
  BY <1>3 DEF Relocatable, Suffix, Slashless, stem, parent_path
<1>5. EndsWith(Suffix)' = EndsWith(Suffix)
  BY <1>3, <1>4 DEF EndsWith
<1>6. CASE Begin
  <2>1. p' = [root |-> cps_path.root, names |-> Slashless] /\ f' = directory
    <3>1. p = cps_path /\ f = directory /\ f' = f
      BY <1>1, <1>6 DEF PrefixInv, Begin, Start
    <3>2. cps_path = [root |-> cps_path.root, names |-> cps_path.names]
      BY <1>2, PathsAssumption DEF Path
    <3>3. p' = IF stem(cps_path) = NoName THEN parent_path(cps_path) ELSE cps_path
      BY <3>1, <1>6 DEF Begin
    <3>4. parent_path(cps_path) = [root |-> cps_path.root, names |-> parent_path(cps_path).names]
      BY <3>2 DEF parent_path
    <3> QED  BY <3>1, <3>2, <3>3, <3>4 DEF Slashless
  <2>2. Slashless \in Seq(Elements) /\ directory.names \in Seq(Elements)
    BY <1>2, SlashlessNames, PathsAssumption DEF Path
  <2>3. Cut(Slashless, 0) = Slashless /\ Cut(directory.names, 0) = directory.names
    <3>1. \A s \in Seq(Elements) : Cut(s, 0) = s
      <4> TAKE s \in Seq(Elements)
      <4>1. PICK n \in Nat : n = Len(s)
        OBVIOUS
      <4>2. 0 \in Nat
        OBVIOUS
      <4>3. /\ Cut(s, 0) \in Seq(Elements)
            /\ Len(Cut(s, 0)) = IF 0 < Len(s) THEN Len(s) - 0 ELSE 0
            /\ \A k \in 1..(Len(s) - 0) : Cut(s, 0)[k] = s[k]
        BY <4>2, CutNames, Zenon
      <4>4. n - 0 = n /\ (0 < n \/ n = 0)
        OBVIOUS
      <4> QED  BY <4>1, <4>3, <4>4, SeqEqual
    <3> QED  BY <2>2, <3>1
  <2>4. directory = [root |-> directory.root, names |-> directory.names]
    BY <1>2, PathsAssumption DEF Path
  <2>5. Relocatable => 0 < Len(Slashless)
    BY <1>2, <2>2, SlashlessNames, EmptySeq DEF Relocatable
  <2>6. Climbed(0)'
    BY <2>1, <2>3, <2>4, <2>5, <1>3, <1>4 DEF Climbed
  <2> QED  BY <2>6, <1>2, <1>3, <1>6 DEF PrefixInv, Begin, PrefixLeadsBack
<1>7. ASSUME answer = "climbing"  PROVE \E m \in Nat : Climbed(m)
  BY <1>1, <1>7 DEF PrefixInv
<1>8. CASE Climb
  <2>1. PICK m \in Nat : Climbed(m)
    BY <1>7, <1>8 DEF Climb
  <2>2. EndAt(Slashless, m) = EndAt(directory.names, m)
    BY <2>1, <1>2, <1>8, ClimbedEnds DEF Climb
  <2>3. /\ p' = [root |-> cps_path.root, names |-> Cut(Slashless, m + 1)]
        /\ f' = [root |-> directory.root, names |-> Cut(directory.names, m + 1)]
    BY <2>1, <1>2, <1>8, ClimbedEnds DEF Climb
  <2>4. \A k \in 0..(m + 1 - 1) : EndAt(Slashless, k) = EndAt(directory.names, k)
    BY <2>1, <2>2 DEF Climbed
  <2>5. Relocatable => m + 1 < Len(Slashless)
    <3>1. Slashless \in Seq(Elements)
      BY <1>2, SlashlessNames
    <3>2. Relocatable => m < Len(Slashless) /\ m + 1 # Len(Slashless)
      BY <2>1, <1>2, <1>8, PrefixReached DEF Climbed, Climb
    <3> QED  BY <3>1, <3>2
  <2>6. Climbed(m + 1)'
    BY <2>3, <2>4, <2>5, <1>3, <1>4 DEF Climbed
  <2>7. m + 1 \in Nat /\ answer' = "climbing"
    BY <1>8 DEF Climb
  <2> QED  BY <2>6, <2>7, <1>2, <1>3 DEF PrefixInv, PrefixLeadsBack
<1>9. CASE Mismatch
  <2>1. ~(Relocatable /\ EndsWith(Suffix))
    BY <1>2, <1>7, <1>9, MismatchFound DEF Mismatch
  <2> QED  BY <2>1, <1>2, <1>3, <1>4, <1>5, <1>9 DEF PrefixInv, PrefixLeadsBack, Mismatch
<1>10. CASE ReturnPrefix
  <2>1. /\ Relocatable /\ EndsWith(Suffix)
        /\ f = [directory EXCEPT !.names = SubSeq(@, 1, Len(@) - Len(Suffix))]
    BY <1>2, <1>7, <1>10, PrefixAnswered DEF ReturnPrefix
  <2>2. f' = [directory EXCEPT !.names = SubSeq(@, 1, Len(@) - Len(Suffix))]'
    BY <2>1, <1>3, <1>4, <1>10 DEF ReturnPrefix
  <2>3. answer' = "prefix"
    BY <1>10 DEF ReturnPrefix
  <2> QED  BY <2>1, <2>2, <2>3, <1>2, <1>3, <1>4, <1>5 DEF PrefixInv, PrefixLeadsBack
<1>11. CASE UNCHANGED vars
  <2>1. p' = p /\ f' = f /\ answer' = answer
    BY <1>11 DEF vars
  <2>2. \A m : Climbed(m)' = Climbed(m)
    BY <2>1, <1>3, <1>4 DEF Climbed
  <2>3. PrefixLeadsBack' = PrefixLeadsBack
    BY <2>1, <1>3, <1>4, <1>5 DEF PrefixLeadsBack
  <2>4. Start' = Start
    BY <2>1, <1>3 DEF Start
  <2> QED  BY <1>1, <2>1, <2>2, <2>3, <2>4, <1>3 DEF PrefixInv
<1> QED  BY <1>1, <1>6, <1>8, <1>9, <1>10, <1>11 DEF Next

-----------------------------------------------------------------------------
(* loader::load calls calculate_prefix: every step of Loader is one of      *)
(* CalculatePrefix or leaves it alone.                                     *)
LEMMA LoadStepIsPrefixStep == [LoadNext]_loadVars => [Next]_vars
<1>1. SUFFICES ASSUME LoadNext  PROVE [Next]_vars
  BY DEF loadVars
<1>2. CASE calculate_prefix  BY <1>2 DEF calculate_prefix
<1>3. CASE UNCHANGED vars  BY <1>3
<1> QED
  BY <1>1, <1>2, <1>3 DEF LoadNext, ParseFails, ReadField, FieldFails, BeginComponents,
     ComponentsFail, BeginEntry, EntryFails, SkipUnknown, AddComponent, ArchiveFails,
     EndComponents, NoComponents, CheckFails, UsePrefix, BeginPrefix, Goto, Stop

LEMMA LoadInitIsPrefixInit == LoadInit => Init
BY DocumentsAssumption DEF LoadInit, Init, Start, Document

LEMMA PrefixInvHolds == LoadSpec => []PrefixInv
<1>1. LoadInit => PrefixInv
  BY LoadInitIsPrefixInit, PrefixInit
<1>2. PrefixInv /\ [LoadNext]_loadVars => PrefixInv'
  BY LoadStepIsPrefixStep, PrefixNext
<1> QED  BY <1>1, <1>2, PTL DEF LoadSpec

(* A prefix is answered exactly when the directory ends in what cps_path    *)
(* has below "@prefix@", up to extensions, and it is the rest of the        *)
(* directory; an error is answered only otherwise (calculate_prefix).       *)
THEOREM PrefixFound == LoadSpec => []PrefixLeadsBack
<1>1. PrefixInv => PrefixLeadsBack
  BY DEF PrefixInv
<1> QED  BY <1>1, PrefixInvHolds, PTL

-----------------------------------------------------------------------------
LEMMA Readers ==
  ASSUME NEW field, NEW v
  PROVE  Reader(field, v) \in {"good", "error", "terminated"}
BY DEF Reader, RequiredReader, StringReader, SchemaReader, ListReader, LangReader,
       DefinesReader, RequiresReader

(* How a field is read: one of the header, of entry k, of the trailer.      *)
HowHeader(i)    == Reader(Header[i], doc.fields[Header[i]])
HowMember(k, i) == Reader(Members[i], doc.entries[k].members[Members[i]])
HowTrailer(i)   == Reader(Trailer[i], doc.fields[Trailer[i]])

NotObject(k) == ~doc.entries[k].object
Archive(k) ==
  doc.entries[k].type = "archive" /\ doc.entries[k].members["location"] = "absent"

LEMMA FaultKinds ==
  ASSUME NEW x
  PROVE  x \in Faults <=>
           \/ x \in WrongIf(~doc.json, 0)
           \/ x \in Wrong(Header, doc.fields, 0)
           \/ x \in WrongIf(doc.components # "object", 10)
           \/ x \in UNION {EntryFaults(k) : k \in DOMAIN doc.entries}
           \/ x \in WrongIf(Known = {}, Last20)
           \/ x \in Wrong(Trailer, doc.fields, Last20)
           \/ x \in WrongIf(~Checked, Last20 + 10)
           \/ x \in WrongIf(~Has("prefix") /\ ~(Relocatable /\ EndsWith(Suffix)), Last20 + 11)
<1> DEFINE located == ~Has("prefix") /\ ~(Relocatable /\ EndsWith(Suffix))
           A == WrongIf(~doc.json, 0)
           B == Wrong(Header, doc.fields, 0)
           C == WrongIf(doc.components # "object", 10)
           D == UNION {EntryFaults(k) : k \in DOMAIN doc.entries}
           E == WrongIf(Known = {}, Last20)
           F == Wrong(Trailer, doc.fields, Last20)
           G == WrongIf(~Checked, Last20 + 10)
           H == WrongIf(located, Last20 + 11)
<1>1. Faults = A \cup B \cup C \cup D \cup E \cup F \cup G \cup H
  BY Zenon DEF Faults, Last20, Checked
<1> HIDE DEF A, B, C, D, E, F, G, H
<1>2. x \in Faults <=> \/ x \in A \/ x \in B \/ x \in C \/ x \in D
                       \/ x \in E \/ x \in F \/ x \in G \/ x \in H
  BY <1>1
<1> QED  BY <1>2, Zenon DEF A, B, C, D, E, F, G, H

(* The faults there can be, one by one.                                    *)
LEMMA FaultsAre ==
  ASSUME NEW x \in Faults
  PROVE  \/ x.rank = 0 /\ ~doc.json
         \/ \E i \in 1..3 : x.rank = i /\ HowHeader(i) # "good"
         \/ x.rank = 10 /\ doc.components # "object"
         \/ \E k \in DOMAIN doc.entries : x.rank = EntryRank(k) /\ NotObject(k)
         \/ \E k \in DOMAIN doc.entries : \E i \in 1..10 :
              x.rank = EntryRank(k) + i /\ HowMember(k, i) # "good"
         \/ \E k \in DOMAIN doc.entries : x.rank = EntryRank(k) + 11 /\ Archive(k)
         \/ x.rank = Last20 /\ Known = {}
         \/ \E i \in 1..6 : x.rank = Last20 + i /\ HowTrailer(i) # "good"
         \/ x.rank = Last20 + 10 /\ ~Checked
         \/ x.rank = Last20 + 11 /\ ~Has("prefix") /\ ~(Relocatable /\ EndsWith(Suffix))
<1>1. DOMAIN Header = 1..3 /\ DOMAIN Members = 1..10 /\ DOMAIN Trailer = 1..6
  BY DEF Header, Members, Trailer
<1>2. ASSUME NEW c, NEW r, x \in WrongIf(c, r)  PROVE c /\ x.rank = r
  BY <1>2 DEF WrongIf
<1>3. ASSUME NEW fields, NEW values, NEW b, x \in Wrong(fields, values, b)
      PROVE  \E i \in DOMAIN fields :
               x.rank = b + i /\ Reader(fields[i], values[fields[i]]) # "good"
  BY <1>3 DEF Wrong
<1>4. ASSUME NEW k \in DOMAIN doc.entries, x \in EntryFaults(k)
      PROVE  \/ x.rank = EntryRank(k) /\ NotObject(k)
             \/ \E i \in 1..10 :
                  x.rank = EntryRank(k) + i /\ HowMember(k, i) # "good"
             \/ x.rank = EntryRank(k) + 11 /\ Archive(k)
  <2>1. CASE x \in WrongIf(NotObject(k), EntryRank(k))
    BY <2>1, <1>2
  <2>2. CASE x \in Wrong(Members, doc.entries[k].members, EntryRank(k))
    BY <2>2, <1>1, <1>3 DEF HowMember
  <2>3. CASE x \in WrongIf(Archive(k), EntryRank(k) + 11)
    BY <2>3, <1>2
  <2> QED  BY <1>4, <2>1, <2>2, <2>3 DEF EntryFaults, NotObject, Archive
<1>5. CASE x \in WrongIf(~doc.json, 0)
  BY <1>5, <1>2
<1>6. CASE x \in Wrong(Header, doc.fields, 0)
  <2>1. PICK i \in 1..3 : x.rank = 0 + i /\ HowHeader(i) # "good"
    BY <1>6, <1>1, <1>3 DEF HowHeader
  <2> QED  BY <2>1
<1>7. CASE x \in WrongIf(doc.components # "object", 10)
  BY <1>7, <1>2
<1>8. CASE x \in UNION {EntryFaults(k) : k \in DOMAIN doc.entries}
  <2>1. PICK k \in DOMAIN doc.entries : x \in EntryFaults(k)
    BY <1>8
  <2> QED  BY <2>1, <1>4
<1>9. CASE x \in WrongIf(Known = {}, Last20)
  BY <1>9, <1>2
<1>10. CASE x \in Wrong(Trailer, doc.fields, Last20)
  BY <1>10, <1>1, <1>3 DEF HowTrailer
<1>11. CASE x \in WrongIf(~Checked, Last20 + 10)
  BY <1>11, <1>2
<1>12. CASE x \in WrongIf(~Has("prefix") /\ ~(Relocatable /\ EndsWith(Suffix)), Last20 + 11)
  BY <1>12, <1>2
<1> QED
  BY <1>5, <1>6, <1>7, <1>8, <1>9, <1>10, <1>11, <1>12, FaultKinds, Zenon

(* And each of them is one.                                                *)
LEMMA AreFaults ==
  /\ ~doc.json => [rank |-> 0, how |-> "error"] \in Faults
  /\ \A i \in 1..3 : HowHeader(i) # "good" =>
       [rank |-> i, how |-> HowHeader(i)] \in Faults
  /\ doc.components # "object" => [rank |-> 10, how |-> "error"] \in Faults
  /\ \A k \in DOMAIN doc.entries :
       /\ NotObject(k) => [rank |-> EntryRank(k), how |-> "error"] \in Faults
       /\ \A i \in 1..10 : HowMember(k, i) # "good" =>
            [rank |-> EntryRank(k) + i, how |-> HowMember(k, i)] \in Faults
       /\ Archive(k) => [rank |-> EntryRank(k) + 11, how |-> "error"] \in Faults
  /\ Known = {} => [rank |-> Last20, how |-> "error"] \in Faults
  /\ \A i \in 1..6 : HowTrailer(i) # "good" =>
       [rank |-> Last20 + i, how |-> HowTrailer(i)] \in Faults
  /\ ~Checked => [rank |-> Last20 + 10, how |-> "error"] \in Faults
  /\ ~Has("prefix") /\ ~(Relocatable /\ EndsWith(Suffix))
       => [rank |-> Last20 + 11, how |-> "error"] \in Faults
<1>1. DOMAIN Header = 1..3 /\ DOMAIN Members = 1..10 /\ DOMAIN Trailer = 1..6
  BY DEF Header, Members, Trailer
<1>2. ASSUME NEW c, NEW r, c  PROVE [rank |-> r, how |-> "error"] \in WrongIf(c, r)
  BY <1>2 DEF WrongIf
<1>3. ASSUME NEW fields, NEW values, NEW b, NEW i \in DOMAIN fields,
             Reader(fields[i], values[fields[i]]) # "good"
      PROVE  [rank |-> b + i, how |-> Reader(fields[i], values[fields[i]])]
               \in Wrong(fields, values, b)
  BY <1>3 DEF Wrong
<1>4. /\ WrongIf(~doc.json, 0) \subseteq Faults
      /\ Wrong(Header, doc.fields, 0) \subseteq Faults
      /\ WrongIf(doc.components # "object", 10) \subseteq Faults
      /\ \A k \in DOMAIN doc.entries : EntryFaults(k) \subseteq Faults
      /\ WrongIf(Known = {}, Last20) \subseteq Faults
      /\ Wrong(Trailer, doc.fields, Last20) \subseteq Faults
      /\ WrongIf(~Checked, Last20 + 10) \subseteq Faults
      /\ WrongIf(~Has("prefix") /\ ~(Relocatable /\ EndsWith(Suffix)), Last20 + 11)
           \subseteq Faults
  <2>1. \A k \in DOMAIN doc.entries : \A x \in EntryFaults(k) :
          x \in UNION {EntryFaults(j) : j \in DOMAIN doc.entries}
    OBVIOUS
  <2> QED  BY <2>1, FaultKinds, Zenon
<1>5. \A k \in DOMAIN doc.entries :
        /\ WrongIf(NotObject(k), EntryRank(k)) \subseteq EntryFaults(k)
        /\ Wrong(Members, doc.entries[k].members, EntryRank(k)) \subseteq EntryFaults(k)
        /\ WrongIf(Archive(k), EntryRank(k) + 11) \subseteq EntryFaults(k)
  BY DEF EntryFaults, NotObject, Archive
<1>6. ~doc.json => [rank |-> 0, how |-> "error"] \in Faults
  BY <1>2, <1>4
<1>7. \A i \in 1..3 : HowHeader(i) # "good" =>
        [rank |-> i, how |-> HowHeader(i)] \in Faults
  <2> TAKE i \in 1..3
  <2>1. 0 + i = i
    OBVIOUS
  <2> QED  BY <2>1, <1>1, <1>3, <1>4 DEF HowHeader
<1>8. doc.components # "object" => [rank |-> 10, how |-> "error"] \in Faults
  BY <1>2, <1>4
<1>9. \A k \in DOMAIN doc.entries :
        /\ NotObject(k) => [rank |-> EntryRank(k), how |-> "error"] \in Faults
        /\ \A i \in 1..10 : HowMember(k, i) # "good" =>
             [rank |-> EntryRank(k) + i, how |-> HowMember(k, i)] \in Faults
        /\ Archive(k) => [rank |-> EntryRank(k) + 11, how |-> "error"] \in Faults
  <2> TAKE k \in DOMAIN doc.entries
  <2>1. NotObject(k) => [rank |-> EntryRank(k), how |-> "error"] \in Faults
    BY <1>2, <1>4, <1>5
  <2>2. \A i \in 1..10 : HowMember(k, i) # "good" =>
          [rank |-> EntryRank(k) + i, how |-> HowMember(k, i)] \in Faults
    BY <1>1, <1>3, <1>4, <1>5 DEF HowMember
  <2>3. Archive(k) => [rank |-> EntryRank(k) + 11, how |-> "error"] \in Faults
    BY <1>2, <1>4, <1>5
  <2> QED  BY <2>1, <2>2, <2>3
<1>10. Known = {} => [rank |-> Last20, how |-> "error"] \in Faults
  BY <1>2, <1>4
<1>11. \A i \in 1..6 : HowTrailer(i) # "good" =>
         [rank |-> Last20 + i, how |-> HowTrailer(i)] \in Faults
  BY <1>1, <1>3, <1>4 DEF HowTrailer
<1>12. ~Checked => [rank |-> Last20 + 10, how |-> "error"] \in Faults
  BY <1>2, <1>4
<1>13. ~Has("prefix") /\ ~(Relocatable /\ EndsWith(Suffix))
         => [rank |-> Last20 + 11, how |-> "error"] \in Faults
  BY <1>2, <1>4
<1> QED
  BY <1>6, <1>7, <1>8, <1>9, <1>10, <1>11, <1>12, <1>13

-----------------------------------------------------------------------------
(* The document does not change, and so neither does what is wrong with it. *)
LEMMA Fixed ==
  ASSUME [LoadNext]_loadVars
  PROVE  /\ doc' = doc /\ cps_path' = cps_path /\ directory' = directory
         /\ Faults' = Faults /\ Known' = Known /\ Last20' = Last20
<1>1. doc' = doc
  BY DEF loadVars, readVars, LoadNext, ParseFails, ReadField, FieldFails, BeginComponents,
     ComponentsFail, BeginEntry, EntryFails, SkipUnknown, AddComponent, ArchiveFails,
     EndComponents, NoComponents, CheckFails, UsePrefix, BeginPrefix, calculate_prefix,
     Goto, Stop
<1>2. cps_path' = cps_path /\ directory' = directory
  BY LoadStepIsPrefixStep DEF Next, vars, Begin, Climb, Mismatch, ReturnPrefix
<1>3. Known' = Known /\ Last20' = Last20
  BY <1>1 DEF Known, Last20
<1>4. \A k : EntryFaults(k)' = EntryFaults(k)
  BY <1>1 DEF EntryFaults
<1> DEFINE located == ~Has("prefix") /\ ~(Relocatable /\ EndsWith(Suffix))
           A == WrongIf(~doc.json, 0)
           B == Wrong(Header, doc.fields, 0)
           C == WrongIf(doc.components # "object", 10)
           D == UNION {EntryFaults(k) : k \in DOMAIN doc.entries}
           E == WrongIf(Known = {}, Last20)
           F == Wrong(Trailer, doc.fields, Last20)
           G == WrongIf(~Checked, Last20 + 10)
           H == WrongIf(located, Last20 + 11)
<1>5. located' = located /\ Checked' = Checked
  BY <1>1, <1>2 DEF Relocatable, EndsWith, Suffix, Has, Checked
<1>6. A' = A /\ B' = B /\ C' = C /\ D' = D
  BY <1>1, <1>4
<1>7. E' = E /\ F' = F /\ G' = G /\ H' = H
  BY <1>1, <1>3, <1>5
<1>8. Faults = A \cup B \cup C \cup D \cup E \cup F \cup G \cup H
  BY Zenon DEF Faults, Last20, Checked
<1>9. Faults' = A' \cup B' \cup C' \cup D' \cup E' \cup F' \cup G' \cup H'
  BY Zenon DEF Faults, Last20, Checked
<1>10. Faults' = Faults
  <2> HIDE DEF A, B, C, D, E, F, G, H
  <2> QED  BY <1>6, <1>7, <1>8, <1>9, Zenon
<1> QED  BY <1>1, <1>2, <1>3, <1>10

(* Where the fields are read ...                                           *)
LEMMA ReadingWhere ==
  ASSUME Position, Reading
  PROVE  \/ part = "header" /\ at \in 1..3 /\ Result = HowHeader(at)
         \/ /\ part = "entry" /\ at \in 1..10 /\ entry \in 1..Len(doc.entries)
            /\ Result = HowMember(entry, at)
         \/ part = "trailer" /\ at \in 1..6 /\ Result = HowTrailer(at)
<1>1. Len(Header) = 3 /\ Len(Members) = 10 /\ Len(Trailer) = 6 /\ Len(<<>>) = 0
  BY DEF Header, Members, Trailer
<1>2. at <= Len(Fields)
  BY DEF Reading
<1>3. CASE part = "header"
  <2>1. Fields = Header
    BY <1>3 DEF Fields
  <2>2. at \in 1..3
    <3>1. at <= 3
      BY <1>1, <1>2, <2>1
    <3> QED  BY <3>1, <1>3 DEF Position
  <2>3. Result = HowHeader(at)
    BY <1>3, <2>1 DEF Result, HowHeader
  <2> QED  BY <1>3, <2>2, <2>3
<1>4. CASE part = "entry"
  <2>1. Fields = Members
    BY <1>4 DEF Fields
  <2>2. at \in 1..10 /\ entry \in 1..Len(doc.entries)
    <3>1. at <= 10
      BY <1>1, <1>2, <2>1
    <3> QED  BY <3>1, <1>4 DEF Position
  <2>3. Result = HowMember(entry, at)
    BY <1>4, <2>1 DEF Result, HowMember, Current
  <2> QED  BY <1>4, <2>2, <2>3
<1>5. CASE part = "trailer"
  <2>1. Fields = Trailer
    BY <1>5 DEF Fields
  <2>2. at \in 1..6
    <3>1. at <= 6
      BY <1>1, <1>2, <2>1
    <3> QED  BY <3>1, <1>5 DEF Position
  <2>3. Result = HowTrailer(at)
    BY <1>5, <2>1 DEF Result, HowTrailer
  <2> QED  BY <1>5, <2>2, <2>3
<1>6. CASE part \in {"entries", "prefix"}
  <2>1. Fields = <<>>
    BY <1>6 DEF Fields
  <2>2. at = 1
    BY <1>6 DEF Position
  <2> QED  BY <1>1, <1>2, <2>1, <2>2
<1> QED  BY <1>3, <1>4, <1>5, <1>6 DEF Position

(* ... and how far it has come when they all have been.                     *)
LEMMA HasReadWhere ==
  ASSUME Position
  PROVE  /\ HasRead("header")  => at = 4 /\ entry = 1
         /\ HasRead("entries") => at = 1 /\ entry \in 1..(Len(doc.entries) + 1)
         /\ HasRead("entry")   => at = 11 /\ entry \in 1..Len(doc.entries)
         /\ HasRead("trailer") => at = 7 /\ entry = Len(doc.entries) + 1
<1>1. Len(Header) = 3 /\ Len(Members) = 10 /\ Len(Trailer) = 6
  BY DEF Header, Members, Trailer
<1>2. HasRead("header") => at = 4 /\ entry = 1
  <2>1. HasRead("header") => at > Len(Header) /\ part = "header"
    BY DEF HasRead, Fields
  <2> QED  BY <1>1, <2>1 DEF Position
<1>3. HasRead("entries") => at = 1 /\ entry \in 1..(Len(doc.entries) + 1)
  BY DEF Position, HasRead
<1>4. HasRead("entry") => at = 11 /\ entry \in 1..Len(doc.entries)
  <2>1. HasRead("entry") => at > Len(Members) /\ part = "entry"
    BY DEF HasRead, Fields
  <2> QED  BY <1>1, <2>1 DEF Position
<1>5. HasRead("trailer") => at = 7 /\ entry = Len(doc.entries) + 1
  <2>1. HasRead("trailer") => at > Len(Trailer) /\ part = "trailer"
    BY DEF HasRead, Fields
  <2> QED  BY <1>1, <2>1 DEF Position
<1> QED  BY <1>2, <1>3, <1>4, <1>5

LEMMA Entries ==
  ASSUME doc \in Documents
  PROVE  Len(doc.entries) \in Nat /\ DOMAIN doc.entries = 1..Len(doc.entries)
BY DocumentsAssumption DEF Document

(* The faults with their ranks as numbers.                                 *)
LEMMA FaultRanks ==
  ASSUME doc \in Documents, NEW n, n = Len(doc.entries), NEW x \in Faults
  PROVE  \/ x.rank = 0 /\ ~doc.json
         \/ \E i \in 1..3 : x.rank = i /\ HowHeader(i) # "good"
         \/ x.rank = 10 /\ doc.components # "object"
         \/ \E k \in 1..n : x.rank = 20 * k /\ NotObject(k)
         \/ \E k \in 1..n : \E i \in 1..10 : x.rank = 20 * k + i /\ HowMember(k, i) # "good"
         \/ \E k \in 1..n : x.rank = 20 * k + 11 /\ Archive(k)
         \/ x.rank = 20 * (n + 1) /\ Known = {}
         \/ \E i \in 1..6 : x.rank = 20 * (n + 1) + i /\ HowTrailer(i) # "good"
         \/ x.rank = 20 * (n + 1) + 10 /\ ~Checked
         \/ x.rank = 20 * (n + 1) + 11 /\ ~Has("prefix") /\ ~(Relocatable /\ EndsWith(Suffix))
<1>1. DOMAIN doc.entries = 1..n
  BY Entries
<1>2. Last20 = 20 * (n + 1) /\ \A k : EntryRank(k) = 20 * k
  BY DEF Last20, EntryRank
<1> QED  BY <1>1, <1>2, FaultsAre

LEMMA RanksNat ==
  ASSUME doc \in Documents, NEW x \in Faults
  PROVE  x.rank \in Nat /\ (doc.json => x.rank >= 1)
<1>1. PICK n \in Nat : n = Len(doc.entries)
  BY Entries
<1>2. \/ x.rank = 0 /\ ~doc.json
      \/ \E i \in 1..3 : x.rank = i
      \/ x.rank = 10
      \/ \E k \in 1..n : x.rank = 20 * k
      \/ \E k \in 1..n : \E i \in 1..10 : x.rank = 20 * k + i
      \/ \E k \in 1..n : x.rank = 20 * k + 11
      \/ x.rank = 20 * (n + 1)
      \/ \E i \in 1..6 : x.rank = 20 * (n + 1) + i
      \/ x.rank = 20 * (n + 1) + 10
      \/ x.rank = 20 * (n + 1) + 11
  BY <1>1, FaultRanks, Zenon
<1> QED  BY <1>2

(* What a rank says of its fault.                                          *)
LEMMA RankTells ==
  ASSUME doc \in Documents, NEW n \in Nat, n = Len(doc.entries), NEW x \in Faults
  PROVE  /\ \A i \in 1..3 : x.rank = i => HowHeader(i) # "good"
         /\ x.rank \notin 4..9 /\ x.rank \notin 11..19
         /\ x.rank = 10 => doc.components # "object"
         /\ \A k \in 1..n :
              /\ x.rank = 20 * k => NotObject(k)
              /\ \A i \in 1..10 : x.rank = 20 * k + i => HowMember(k, i) # "good"
              /\ x.rank = 20 * k + 11 => Archive(k)
              /\ x.rank \notin (20 * k + 12)..(20 * k + 19)
         /\ x.rank = 20 * (n + 1) => Known = {}
         /\ \A i \in 1..6 : x.rank = 20 * (n + 1) + i => HowTrailer(i) # "good"
         /\ x.rank \notin (20 * (n + 1) + 7)..(20 * (n + 1) + 9)
         /\ x.rank = 20 * (n + 1) + 10 => ~Checked
         /\ x.rank = 20 * (n + 1) + 11 => ~Has("prefix") /\ ~(Relocatable /\ EndsWith(Suffix))
         /\ x.rank <= 20 * (n + 1) + 11
<1> DEFINE r == x.rank
           l == 20 * (n + 1)
           AtHeader == \A i \in 1..3 : r = i => HowHeader(i) # "good"
           AtEntries == \A k \in 1..n :
              /\ r = 20 * k => NotObject(k)
              /\ \A i \in 1..10 : r = 20 * k + i => HowMember(k, i) # "good"
              /\ r = 20 * k + 11 => Archive(k)
              /\ r \notin (20 * k + 12)..(20 * k + 19)
           AtTrailer == \A i \in 1..6 : r = l + i => HowTrailer(i) # "good"
           Gaps == r \notin 4..9 /\ r \notin 11..19 /\ r \notin (l + 7)..(l + 9) /\ r <= l + 11
           located == ~Has("prefix") /\ ~(Relocatable /\ EndsWith(Suffix))
<1>11. r \in Nat /\ l \in Nat /\ l >= 20 /\ \A k \in 1..n : 20 * k + 20 <= l
  BY RanksNat
<1> HIDE DEF r, l, located
<1>12. SUFFICES /\ AtHeader /\ AtEntries /\ AtTrailer /\ Gaps
                /\ r = 10 => doc.components # "object"
                /\ r = l => Known = {}
                /\ r = l + 10 => ~Checked
                /\ r = l + 11 => located
  BY Zenon DEF r, l, located
<1>1. CASE r = 0
  BY <1>11, <1>1
<1>2. CASE \E i \in 1..3 : r = i /\ HowHeader(i) # "good"
  BY <1>11, <1>2
<1>3. CASE r = 10 /\ doc.components # "object"
  BY <1>11, <1>3
<1>4. CASE \E k \in 1..n : r = 20 * k /\ NotObject(k)
  BY <1>11, <1>4
<1>5. CASE \E k \in 1..n : \E i \in 1..10 : r = 20 * k + i /\ HowMember(k, i) # "good"
  BY <1>11, <1>5
<1>6. CASE \E k \in 1..n : r = 20 * k + 11 /\ Archive(k)
  BY <1>11, <1>6
<1>7. CASE r = l /\ Known = {}
  BY <1>11, <1>7
<1>8. CASE \E i \in 1..6 : r = l + i /\ HowTrailer(i) # "good"
  BY <1>11, <1>8
<1>9. CASE r = l + 10 /\ ~Checked
  BY <1>11, <1>9
<1>10. CASE r = l + 11 /\ located
  BY <1>11, <1>10
<1> QED
  BY <1>1, <1>2, <1>3, <1>4, <1>5, <1>6, <1>7, <1>8, <1>9, <1>10, FaultRanks, ZenonT(60)
     DEF r, l, located

(* A load that stops at the first of the faults stops rightly.              *)
LEMMA Stopped ==
  ASSUME LoadInv, Loading, NEW how \in {"error", "terminated"}, outcome' = how,
         UNCHANGED readVars, part # "prefix" => answer' = "start",
         cps_path' = cps_path, directory' = directory, Faults' = Faults, Known' = Known,
         NEW x \in Faults, x.how = how, \A y \in Faults : x.rank <= y.rank
  PROVE  LoadInv'
<1>1. UNCHANGED <<doc, part, at, entry, components>>
  BY DEF readVars
<1>2. Position'
  BY <1>1 DEF LoadInv, Position, Checked, Has
<1>4. FirstOfAll'
  BY DEF FirstOfAll
<1>5. LoadsFaultless'
  BY DEF LoadsFaultless
<1> QED  BY <1>1, <1>2, <1>4, <1>5 DEF LoadInv

(* A load that goes on has passed the place it was at without a fault.      *)
LEMMA Moved ==
  ASSUME LoadInv, Loading, outcome' = "loading", doc' = doc, Position',
         answer' \in {"start", "climbing"}, part' # "prefix" => answer' = "start",
         cps_path' = cps_path, directory' = directory, Faults' = Faults, Known' = Known,
         components' = {k \in Known : k < entry'},
         \A x \in Faults : x.rank >= Place => x.rank >= Place'
  PROVE  LoadInv'
<1>1. \A x \in Faults' : x.rank >= Place'
  BY DEF LoadInv, Loading
<1>2. FirstOfAll' /\ LoadsFaultless'
  BY DEF FirstOfAll, LoadsFaultless
<1> QED  BY <1>1, <1>2 DEF LoadInv

(* A document is loaded once everything in it has been found right.         *)
LEMMA Loaded ==
  ASSUME LoadInv, Loading, outcome' = "loaded", UNCHANGED readVars,
         part # "prefix" => answer' = "start", entry = Len(doc.entries) + 1,
         cps_path' = cps_path, directory' = directory, Faults' = Faults, Known' = Known,
         \A x \in Faults : ~(x.rank >= Place)
  PROVE  LoadInv'
<1>1. UNCHANGED <<doc, part, at, entry, components>>
  BY DEF readVars
<1>2. Position'
  BY <1>1 DEF LoadInv, Position, Checked, Has
<1>3. Faults = {}
  BY DEF LoadInv, Loading
<1>4. components = Known
  <2>1. Len(doc.entries) \in Nat /\ DOMAIN doc.entries = 1..Len(doc.entries)
    BY Entries DEF LoadInv
  <2>2. \A k \in Known : k < entry
    BY <2>1 DEF Known
  <2> QED  BY <2>2 DEF LoadInv
<1>5. LoadsFaultless'
  BY <1>1, <1>3, <1>4 DEF LoadsFaultless
<1>6. FirstOfAll'
  BY DEF FirstOfAll
<1> QED  BY <1>1, <1>2, <1>5, <1>6 DEF LoadInv

LEMMA LoadInvInit == LoadInit => LoadInv
<1>1. SUFFICES ASSUME LoadInit  PROVE LoadInv
  OBVIOUS
<1>2. /\ doc \in Documents /\ part = "header" /\ at = 1 /\ entry = 1 /\ components = {}
      /\ outcome = "loading" /\ answer = "start" /\ cps_path = doc.path
      /\ directory = doc.directory
  BY <1>1 DEF LoadInit, Start
<1>3. Len(doc.entries) \in Nat /\ DOMAIN doc.entries = 1..Len(doc.entries)
  BY <1>2, DocumentsAssumption DEF Document
<1>4. Position
  BY <1>2, <1>3 DEF Position
<1>5. components = {k \in Known : k < entry}
  <2>1. \A k \in Known : ~(k < entry)
    BY <1>2, <1>3 DEF Known
  <2> QED  BY <2>1, <1>2
<1>6. \A x \in Faults : x.rank >= Place
  <2> TAKE x \in Faults
  <2>1. CASE ~doc.json
    <3>1. Place = 0
      BY <2>1 DEF Place
    <3>2. x.rank \in Nat
      BY <1>2, RanksNat
    <3> QED  BY <3>1, <3>2
  <2>2. CASE doc.json
    <3>1. Place = 1
      BY <1>2, <2>2 DEF Place
    <3>2. x.rank \in Nat /\ x.rank >= 1
      BY <1>2, <2>2, RanksNat
    <3> QED  BY <3>1, <3>2
  <2> QED  BY <2>1, <2>2
<1>7. LoadsFaultless /\ FirstOfAll
  BY <1>2 DEF LoadsFaultless, FirstOfAll
<1> QED  BY <1>2, <1>4, <1>5, <1>6, <1>7 DEF LoadInv

(* Every step keeps the invariant.                                         *)
LEMMA LoadInvNext ==
  ASSUME LoadInv, PrefixInv, [LoadNext]_loadVars
  PROVE  LoadInv'
<1>1. /\ doc' = doc /\ cps_path' = cps_path /\ directory' = directory
      /\ Faults' = Faults /\ Known' = Known
  BY Fixed
<1>2. doc \in Documents /\ Position
  BY DEF LoadInv
<1>3. PICK n \in Nat : n = Len(doc.entries)
  BY <1>2, Entries
<1>4. DOMAIN doc.entries = 1..n /\ Last20 = 20 * (n + 1) /\ \A k : EntryRank(k) = 20 * k
  BY <1>2, <1>3, Entries DEF Last20, EntryRank
<1>5. components = {k \in Known : k < entry} /\ (part # "prefix" => answer = "start")
  BY DEF LoadInv
<1>6. PrefixInv'
  BY LoadStepIsPrefixStep, PrefixNext
<1>7. ASSUME NEW how, Loading, Stop(how), how \in {"error", "terminated"},
             NEW x \in Faults, x.rank = Place, x.how = how
      PROVE  LoadInv'
  <2>1. outcome' = how /\ UNCHANGED readVars /\ (part # "prefix" => answer' = "start")
    BY <1>5, <1>7 DEF Stop, vars
  <2>2. \A y \in Faults : x.rank <= y.rank
    <3> TAKE y \in Faults
    <3>1. y.rank >= x.rank /\ y.rank \in Nat /\ x.rank \in Nat
      BY <1>2, <1>7, RanksNat DEF LoadInv, Loading
    <3> QED  BY <3>1
  <2> QED  BY <1>1, <1>7, <2>1, <2>2, Stopped
<1>8. CASE ParseFails
  <2>1. Place = 0 /\ Loading /\ Stop("error") /\ ~doc.json
    BY <1>8 DEF ParseFails, Place
  <2>2. [rank |-> 0, how |-> "error"] \in Faults
    BY <2>1, AreFaults
  <2> QED  BY <1>7, <2>1, <2>2
<1>9. CASE ReadField
  <2>1. /\ Loading /\ doc.json /\ Result = "good" /\ outcome' = "loading" /\ answer' = answer
        /\ at' = at + 1 /\ part' = part /\ entry' = entry /\ components' = components
    BY <1>9 DEF ReadField, Reading, Loading, vars
  <2>2. \/ part = "header" /\ at \in 1..3 /\ Result = HowHeader(at)
        \/ /\ part = "entry" /\ at \in 1..10 /\ entry \in 1..n
           /\ Result = HowMember(entry, at)
        \/ part = "trailer" /\ at \in 1..6 /\ Result = HowTrailer(at)
    BY <1>2, <1>3, <1>9, ReadingWhere DEF ReadField
  <2>3. Position'
    BY <1>1, <1>2, <1>3, <2>1, <2>2 DEF Position
  <2>4. \A x \in Faults : x.rank >= Place => x.rank >= Place'
    <3> TAKE x \in Faults
    <3>1. x.rank \in Nat
      BY <1>2, RanksNat
    <3>2. CASE part = "header"
      <4>1. Place = at /\ Place' = at + 1
        BY <1>1, <2>1, <3>2 DEF Place
      <4>2. x.rank # at
        BY <1>2, <1>3, <2>1, <2>2, <3>2, RankTells
      <4> QED  BY <2>2, <3>1, <3>2, <4>1, <4>2
    <3>3. CASE part = "entry"
      <4>1. Place = 20 * entry + at /\ Place' = 20 * entry + (at + 1)
        BY <1>1, <2>1, <3>3 DEF Place, EntryRank
      <4>2. x.rank # 20 * entry + at
        BY <1>2, <1>3, <2>1, <2>2, <3>3, RankTells
      <4> QED  BY <2>2, <3>1, <3>3, <4>1, <4>2
    <3>4. CASE part = "trailer"
      <4>1. Place = 20 * (n + 1) + at /\ Place' = 20 * (n + 1) + (at + 1)
        BY <1>1, <1>4, <2>1, <3>4, Fixed DEF Place
      <4>2. x.rank # 20 * (n + 1) + at
        BY <1>2, <1>3, <2>1, <2>2, <3>4, RankTells
      <4> QED  BY <2>2, <3>1, <3>4, <4>1, <4>2
    <3> QED  BY <2>2, <3>2, <3>3, <3>4
  <2>5. answer' \in {"start", "climbing"} /\ (part' # "prefix" => answer' = "start")
    BY <1>5, <2>1 DEF LoadInv, Loading
  <2> QED  BY <1>1, <1>5, <2>1, <2>3, <2>4, <2>5, Moved
<1>10. CASE FieldFails
  <2>1. Loading /\ doc.json /\ Result # "good" /\ Stop(Result)
    BY <1>10 DEF FieldFails, Reading
  <2>2. \/ part = "header" /\ at \in 1..3 /\ Result = HowHeader(at)
        \/ /\ part = "entry" /\ at \in 1..10 /\ entry \in 1..n
           /\ Result = HowMember(entry, at)
        \/ part = "trailer" /\ at \in 1..6 /\ Result = HowTrailer(at)
    BY <1>2, <1>3, <1>10, ReadingWhere DEF FieldFails
  <2>3. Result \in {"error", "terminated"}
    BY <2>1, Readers DEF Result
  <2>4. PICK x \in Faults : x.rank = Place /\ x.how = Result
    <3>1. CASE part = "header"
      <4>1. Place = at /\ [rank |-> at, how |-> Result] \in Faults
        BY <2>1, <2>2, <3>1, AreFaults DEF Place
      <4> QED  BY <4>1
    <3>2. CASE part = "entry"
      <4>1. /\ Place = EntryRank(entry) + at
            /\ [rank |-> EntryRank(entry) + at, how |-> Result] \in Faults
        BY <1>4, <2>1, <2>2, <3>2, AreFaults DEF Place
      <4> QED  BY <4>1
    <3>3. CASE part = "trailer"
      <4>1. Place = Last20 + at /\ [rank |-> Last20 + at, how |-> Result] \in Faults
        BY <2>1, <2>2, <3>3, AreFaults DEF Place
      <4> QED  BY <4>1
    <3> QED  BY <2>2, <3>1, <3>2, <3>3
  <2> QED  BY <1>7, <2>1, <2>3, <2>4
<1>11. ASSUME NEW what, HasRead(what), what # "prefix", NEW next, Goto(next), Position',
              components' = {k \in Known : k < entry'},
              \A x \in Faults : x.rank >= Place => x.rank >= Place'
       PROVE  LoadInv'
  <2>1. Loading /\ outcome' = "loading" /\ answer' = answer /\ part = what
    BY <1>11 DEF HasRead, Loading, Goto, vars
  <2>2. answer' = "start"
    BY <1>5, <1>11, <2>1
  <2> QED  BY <1>1, <1>11, <2>1, <2>2, Moved
<1>12. CASE BeginComponents
  <2>1. /\ HasRead("header") /\ Goto("entries") /\ doc.components = "object"
        /\ entry' = entry /\ components' = components
    BY <1>12 DEF BeginComponents
  <2>2. doc.json /\ part = "header" /\ at = 4 /\ entry = 1 /\ part' = "entries" /\ at' = 1
    BY <1>2, <2>1, HasReadWhere DEF HasRead, Goto
  <2>3. Position'
    BY <1>1, <1>3, <2>1, <2>2 DEF Position
  <2>4. Place = 4 /\ Place' = 20
    BY <1>1, <2>1, <2>2 DEF Place, EntryRank
  <2>5. \A x \in Faults : x.rank >= 4 => x.rank >= 20
    <3> TAKE x \in Faults
    <3>1. x.rank \in Nat /\ x.rank \notin 4..9 /\ x.rank \notin 11..19 /\ x.rank # 10
      BY <1>2, <1>3, <2>1, RanksNat, RankTells
    <3> QED  BY <3>1
  <2> QED  BY <1>5, <1>11, <2>1, <2>3, <2>4, <2>5
<1>13. CASE ComponentsFail
  <2>1. HasRead("header") /\ doc.components # "object" /\ Stop("error")
    BY <1>13 DEF ComponentsFail
  <2>2. Loading /\ doc.json /\ part = "header" /\ at = 4
    BY <1>2, <2>1, HasReadWhere DEF HasRead
  <2>3. PICK x \in Faults : x.rank = 10 /\ x.how = "error"
    <3>1. [rank |-> 10, how |-> "error"] \in Faults
      BY <2>1, AreFaults
    <3> QED  BY <3>1
  <2>4. \A y \in Faults : x.rank <= y.rank
    <3> TAKE y \in Faults
    <3>1. y.rank >= 4
      BY <2>2 DEF LoadInv, Loading, Place
    <3>2. y.rank \in Nat /\ y.rank \notin 4..9
      BY <1>2, <1>3, RanksNat, RankTells
    <3> QED  BY <2>3, <3>1, <3>2
  <2>5. outcome' = "error" /\ UNCHANGED readVars /\ answer' = "start"
    BY <1>5, <2>1, <2>2 DEF Stop, vars
  <2> QED  BY <1>1, <2>2, <2>3, <2>4, <2>5, Stopped
<1>14. CASE BeginEntry
  <2>1. /\ HasRead("entries") /\ entry <= n /\ doc.entries[entry].object /\ Goto("entry")
        /\ entry' = entry /\ components' = components
    BY <1>3, <1>14 DEF BeginEntry, Current
  <2>2. doc.json /\ part = "entries" /\ at = 1 /\ entry \in 1..n /\ part' = "entry" /\ at' = 1
    BY <1>2, <1>3, <2>1, HasReadWhere DEF HasRead, Goto
  <2>3. Position'
    BY <1>1, <1>3, <2>1, <2>2 DEF Position
  <2>4. Place = 20 * entry /\ Place' = 20 * entry + 1
    BY <1>1, <2>1, <2>2 DEF Place, EntryRank
  <2>5. \A x \in Faults : x.rank >= 20 * entry => x.rank >= 20 * entry + 1
    <3> TAKE x \in Faults
    <3>1. x.rank \in Nat /\ x.rank # 20 * entry
      BY <1>2, <1>3, <2>1, <2>2, RanksNat, RankTells DEF NotObject
    <3> QED  BY <2>2, <3>1
  <2> QED  BY <1>5, <1>11, <2>1, <2>3, <2>4, <2>5
<1>15. CASE EntryFails
  <2>1. HasRead("entries") /\ entry <= n /\ ~doc.entries[entry].object /\ Stop("error")
    BY <1>3, <1>15 DEF EntryFails, Current
  <2>2. Loading /\ doc.json /\ part = "entries" /\ entry \in 1..n
    BY <1>2, <1>3, <2>1, HasReadWhere DEF HasRead
  <2>3. Place = EntryRank(entry) /\ [rank |-> EntryRank(entry), how |-> "error"] \in Faults
    BY <1>4, <2>1, <2>2, AreFaults DEF Place, NotObject
  <2> QED  BY <1>7, <2>1, <2>2, <2>3
<1>16. ASSUME HasRead("entry"), ~Unlocated, entry' = entry + 1, Goto("entries")
       PROVE  /\ entry \in 1..n /\ Position'
              /\ \A x \in Faults : x.rank >= Place => x.rank >= Place'
  <2>1. doc.json /\ part = "entry" /\ at = 11 /\ entry \in 1..n /\ part' = "entries" /\ at' = 1
    BY <1>2, <1>3, <1>16, HasReadWhere DEF HasRead, Goto
  <2>2. Position'
    BY <1>1, <1>3, <1>16, <2>1 DEF Position
  <2>3. Place = 20 * entry + 11 /\ Place' = 20 * (entry + 1)
    BY <1>1, <1>16, <2>1 DEF Place, EntryRank
  <2>4. ~Archive(entry)
    BY <1>16 DEF Unlocated, Archive, Current
  <2>5. \A x \in Faults : x.rank >= 20 * entry + 11 => x.rank >= 20 * (entry + 1)
    <3> TAKE x \in Faults
    <3>1. /\ x.rank \in Nat /\ x.rank # 20 * entry + 11
          /\ x.rank \notin (20 * entry + 12)..(20 * entry + 19)
      BY <1>2, <1>3, <2>1, <2>4, RanksNat, RankTells
    <3> QED  BY <2>1, <3>1
  <2> QED  BY <2>1, <2>2, <2>3, <2>5
<1>17. CASE SkipUnknown
  <2>1. /\ HasRead("entry") /\ doc.entries[entry].type = "unknown" /\ entry' = entry + 1
        /\ Goto("entries") /\ components' = components
    BY <1>17 DEF SkipUnknown, Current
  <2>2. ~Unlocated
    BY <2>1 DEF Unlocated, Current
  <2>3. entry \notin Known
    BY <2>1 DEF Known
  <2>4. \A k \in Known : k \in Nat
    BY <1>4 DEF Known
  <2>5. entry \in 1..n
    BY <1>16, <2>1, <2>2
  <2>6. components' = {k \in Known : k < entry'}
    BY <1>5, <2>1, <2>3, <2>4, <2>5
  <2> QED  BY <1>1, <1>11, <1>16, <2>1, <2>2, <2>6
<1>18. CASE AddComponent
  <2>1. /\ HasRead("entry") /\ doc.entries[entry].type # "unknown" /\ ~Unlocated
        /\ entry' = entry + 1 /\ Goto("entries") /\ components' = components \cup {entry}
    BY <1>18 DEF AddComponent, Current
  <2>2. entry \in 1..n
    BY <1>16, <2>1
  <2>3. entry \in Known /\ \A k \in Known : k \in Nat
    BY <1>4, <2>1, <2>2 DEF Known
  <2>4. \A k \in Known : k < entry + 1 <=> k < entry \/ k = entry
    BY <2>2, <2>3
  <2>5. components' = {k \in Known : k < entry'}
    BY <1>5, <2>1, <2>3, <2>4
  <2> QED  BY <1>1, <1>11, <1>16, <2>1, <2>5
<1>19. CASE ArchiveFails
  <2>1. HasRead("entry") /\ Unlocated /\ Stop("error")
    BY <1>19 DEF ArchiveFails
  <2>2. Loading /\ doc.json /\ part = "entry" /\ at = 11 /\ entry \in 1..n
    BY <1>2, <1>3, <2>1, HasReadWhere DEF HasRead
  <2>3. Archive(entry)
    BY <2>1 DEF Unlocated, Archive, Current
  <2>4. /\ Place = EntryRank(entry) + 11
        /\ [rank |-> EntryRank(entry) + 11, how |-> "error"] \in Faults
    BY <1>4, <2>2, <2>3, AreFaults DEF Place
  <2> QED  BY <1>7, <2>1, <2>2, <2>4
<1>20. ASSUME HasRead("entries"), entry > n
       PROVE  /\ Loading /\ doc.json /\ part = "entries" /\ entry = n + 1
              /\ Place = Last20 /\ Last20 = 20 * (n + 1) /\ components = Known
  <2>1. Loading /\ doc.json /\ part = "entries" /\ entry \in 1..(n + 1)
    BY <1>2, <1>3, <1>20, HasReadWhere DEF HasRead
  <2>2. entry = n + 1
    BY <1>20, <2>1
  <2>3. Place = Last20
    BY <1>3, <2>1, <2>2 DEF Place, Last20
  <2>4. \A k \in Known : k < entry
    BY <1>4, <2>2 DEF Known
  <2> QED  BY <1>4, <1>5, <2>1, <2>2, <2>3, <2>4
<1>21. CASE EndComponents
  <2>1. /\ HasRead("entries") /\ entry > n /\ components # {} /\ Goto("trailer")
        /\ entry' = entry /\ components' = components
    BY <1>3, <1>21 DEF EndComponents
  <2>2. part' = "trailer" /\ at' = 1 /\ entry' = n + 1
    BY <1>20, <2>1 DEF Goto
  <2>3. Position'
    BY <1>1, <1>3, <1>20, <2>1, <2>2 DEF Position
  <2>4. Place = 20 * (n + 1) /\ Place' = 20 * (n + 1) + 1
    BY <1>1, <1>20, <2>1, <2>2, Fixed DEF Place
  <2>5. \A x \in Faults : x.rank >= 20 * (n + 1) => x.rank >= 20 * (n + 1) + 1
    <3> TAKE x \in Faults
    <3>1. x.rank \in Nat /\ x.rank # 20 * (n + 1)
      BY <1>2, <1>3, <1>20, <2>1, RanksNat, RankTells
    <3> QED  BY <3>1
  <2> QED  BY <1>5, <1>11, <2>1, <2>3, <2>4, <2>5
<1>22. CASE NoComponents
  <2>1. HasRead("entries") /\ entry > n /\ components = {} /\ Stop("error")
    BY <1>3, <1>22 DEF NoComponents
  <2>2. [rank |-> Last20, how |-> "error"] \in Faults
    BY <1>20, <2>1, AreFaults
  <2> QED  BY <1>7, <1>20, <2>1, <2>2
<1>23. ASSUME HasRead("trailer")
       PROVE  /\ Loading /\ doc.json /\ part = "trailer" /\ entry = n + 1
              /\ \A x \in Faults : /\ x.rank \in Nat /\ x.rank >= 20 * (n + 1) + 10
                                   /\ x.rank <= 20 * (n + 1) + 11
  <2>1. Loading /\ doc.json /\ part = "trailer" /\ entry = n + 1 /\ at = 7
    BY <1>2, <1>3, <1>23, HasReadWhere DEF HasRead
  <2>2. Place = 20 * (n + 1) + 7
    BY <1>4, <2>1 DEF Place
  <2>3. \A x \in Faults : /\ x.rank \in Nat /\ x.rank >= 20 * (n + 1) + 10
                          /\ x.rank <= 20 * (n + 1) + 11
    <3> TAKE x \in Faults
    <3>1. x.rank >= 20 * (n + 1) + 7
      BY <2>1, <2>2 DEF LoadInv, Loading
    <3>2. /\ x.rank \in Nat /\ x.rank <= 20 * (n + 1) + 11
          /\ x.rank \notin (20 * (n + 1) + 7)..(20 * (n + 1) + 9)
      BY <1>2, <1>3, RanksNat, RankTells
    <3> QED  BY <3>1, <3>2
  <2> QED  BY <2>1, <2>3
<1>24. CASE CheckFails
  <2>1. HasRead("trailer") /\ ~Checked /\ Stop("error")
    BY <1>24 DEF CheckFails
  <2>2. PICK x \in Faults : x.rank = 20 * (n + 1) + 10 /\ x.how = "error"
    <3>1. [rank |-> 20 * (n + 1) + 10, how |-> "error"] \in Faults
      BY <1>4, <2>1, AreFaults
    <3> QED  BY <3>1
  <2>3. \A y \in Faults : x.rank <= y.rank
    BY <1>23, <2>1, <2>2
  <2>4. Loading /\ outcome' = "error" /\ UNCHANGED readVars /\ answer' = "start"
    BY <1>5, <1>23, <2>1 DEF Stop, vars
  <2> QED  BY <1>1, <2>2, <2>3, <2>4, Stopped
<1>25. CASE UsePrefix
  <2>1. HasRead("trailer") /\ Checked /\ Has("prefix") /\ Stop("loaded")
    BY <1>25 DEF UsePrefix
  <2>2. \A x \in Faults : FALSE
    <3> TAKE x \in Faults
    <3>1. x.rank # 20 * (n + 1) + 10 /\ x.rank # 20 * (n + 1) + 11
      BY <1>2, <1>3, <2>1, RankTells
    <3> QED  BY <1>23, <2>1, <3>1
  <2>3. outcome' = "loaded" /\ UNCHANGED readVars /\ answer' = answer
    BY <2>1 DEF Stop, vars
  <2> QED  BY <1>1, <1>3, <1>5, <1>23, <2>1, <2>2, <2>3, Loaded
<1>26. CASE BeginPrefix
  <2>1. /\ HasRead("trailer") /\ Checked /\ Has("cps_path") /\ Goto("prefix")
        /\ entry' = entry /\ components' = components
    BY <1>26 DEF BeginPrefix
  <2>2. part' = "prefix" /\ at' = 1 /\ doc'.json
    BY <1>1, <1>23, <2>1 DEF Goto
  <2>3. Position'
    BY <1>1, <1>3, <1>23, <2>1, <2>2 DEF Position, Checked, Has
  <2>4. Place' = 20 * (n + 1) + 11
    BY <1>4, <2>2, Fixed DEF Place
  <2>5. \A x \in Faults : x.rank >= 20 * (n + 1) + 11
    <3> TAKE x \in Faults
    <3>1. x.rank # 20 * (n + 1) + 10
      BY <1>2, <1>3, <2>1, RankTells
    <3> QED  BY <1>23, <2>1, <3>1
  <2> QED  BY <1>5, <1>11, <2>1, <2>3, <2>4, <2>5
<1>27. CASE calculate_prefix
  <2>1. /\ Loading /\ part = "prefix" /\ UNCHANGED readVars
        /\ outcome' = CASE answer' = "prefix" -> "loaded"
                        [] answer' = "error"  -> "error"
                        [] OTHER              -> "loading"
    BY <1>27 DEF calculate_prefix
  <2>2. /\ part' = "prefix" /\ at' = at /\ entry' = entry /\ components' = components
        /\ entry = n + 1 /\ doc.json /\ Checked /\ Has("cps_path")
    BY <1>2, <1>3, <2>1 DEF readVars, Position
  <2>3. ~Has("prefix")
    BY <2>2 DEF Checked
  <2>4. Place = 20 * (n + 1) + 11 /\ Place' = Place
    BY <1>1, <1>4, <2>1, <2>2, Fixed DEF Place
  <2>5. Position'
    BY <1>1, <1>2, <2>1, <2>2 DEF Position, Checked, Has
  <2>6. (Relocatable /\ EndsWith(Suffix))' = (Relocatable /\ EndsWith(Suffix))
    BY <1>1 DEF Relocatable, EndsWith, Suffix
  <2>7. answer' \in {"start", "climbing", "prefix", "error"} /\ PrefixLeadsBack'
    BY <1>6 DEF PrefixInv
  <2>8. CASE answer' = "prefix"
    <3>1. Relocatable /\ EndsWith(Suffix)
      BY <2>6, <2>7, <2>8 DEF PrefixLeadsBack
    <3>2. \A x \in Faults : ~(x.rank >= Place)
      <4> TAKE x \in Faults
      <4>1. /\ x.rank \in Nat /\ x.rank <= 20 * (n + 1) + 11
            /\ x.rank # 20 * (n + 1) + 11
        BY <1>2, <1>3, <3>1, RanksNat, RankTells
      <4> QED  BY <2>4, <4>1
    <3> QED  BY <1>1, <1>3, <2>1, <2>2, <2>8, <3>2, Loaded
  <2>9. CASE answer' = "error"
    <3>1. ~(Relocatable /\ EndsWith(Suffix))
      BY <2>6, <2>7, <2>9 DEF PrefixLeadsBack
    <3>2. PICK x \in Faults : x.rank = Place /\ x.how = "error"
      <4>1. [rank |-> Place, how |-> "error"] \in Faults
        BY <1>4, <2>3, <2>4, <3>1, AreFaults
      <4> QED  BY <4>1
    <3>3. \A y \in Faults : x.rank <= y.rank
      <4> TAKE y \in Faults
      <4>1. y.rank >= x.rank /\ y.rank \in Nat /\ x.rank \in Nat
        BY <1>2, <2>1, <3>2, RanksNat DEF LoadInv, Loading
      <4> QED  BY <4>1
    <3> QED  BY <1>1, <2>1, <2>9, <3>2, <3>3, Stopped
  <2>10. CASE answer' \in {"start", "climbing"}
    <3>1. outcome' = "loading"
      BY <2>1, <2>10
    <3>2. components' = {k \in Known : k < entry'}
      BY <1>5, <2>2
    <3> QED  BY <1>1, <2>1, <2>2, <2>4, <2>5, <2>10, <3>1, <3>2, Moved
  <2> QED  BY <2>7, <2>8, <2>9, <2>10
<1>28. CASE UNCHANGED loadVars
  <2>1. UNCHANGED <<doc, part, at, entry, components, outcome, answer>>
    BY <1>28 DEF loadVars, readVars, vars
  <2>2. Position' /\ Place' = Place
    BY <1>2, <2>1, Fixed DEF Position, Place, Checked, Has
  <2> QED  BY <1>1, <2>1, <2>2 DEF LoadInv, LoadsFaultless, FirstOfAll
<1> QED
  BY <1>8, <1>9, <1>10, <1>12, <1>13, <1>14, <1>15, <1>17, <1>18, <1>19, <1>21, <1>22,
     <1>24, <1>25, <1>26, <1>27, <1>28 DEF LoadNext

LEMMA LoadInvHolds == LoadSpec => []LoadInv
<1> QED  BY LoadInvInit, LoadInvNext, PrefixInvHolds, PTL DEF LoadSpec

(* A package is loaded only from a document in which nothing is wrong but   *)
(* in components of a type that is not recognized, and then has exactly the *)
(* components of a known type; and a document is refused only if something  *)
(* is wrong with it (loader::load), for any documents.                      *)
THEOREM LoadedIsValid == LoadSpec => []LoadsExactlyValid
<1>1. LoadInv => LoadsExactlyValid
  BY DEF LoadInv, LoadsFaultless, FirstOfAll, LoadsExactlyValid
<1> QED  BY <1>1, LoadInvHolds, PTL

(* What is wrong first in the order of the source, up to components of a    *)
(* type that is not recognized, decides whether loader::load returns an     *)
(* error or ends the program.                                              *)
THEOREM FirstFault == LoadSpec => []FirstFaultDecides
<1>1. LoadInv => FirstFaultDecides
  BY DEF LoadInv, FirstOfAll, FirstFaultDecides
<1> QED  BY <1>1, LoadInvHolds, PTL

=============================================================================
