------------------------ MODULE SetComponentsProofs ------------------------
(***************************************************************************)
(* Proofs about SetComponents: what is selected, and what is trimmed.       *)
(***************************************************************************)
EXTENDS SetComponents, FiniteSetTheorems, SequenceTheorems, WellFoundedInduction, TLAPS

(* A call of set_components, and a frame: a call that is under way.         *)
CallType == [node : DOMAIN graph, components : SUBSET Comps, defaults : BOOLEAN,
             link_only : BOOLEAN]
Frame    == [node : DOMAIN graph, link_only : BOOLEAN, todo : SUBSET Comps,
             comp : Comps \cup {None}, pending : Seq(CallType), trimmed : Seq(DOMAIN graph)]

TypeOK ==
  /\ graph \in Graphs
  /\ request \in SUBSET Keys(graph[1].pkg.components)
  /\ nodes \in [DOMAIN graph -> [pkg : Package, depends : Seq(DOMAIN graph)]]
  /\ \A n \in DOMAIN graph : nodes[n].pkg = graph[n].pkg
  /\ selected \in [DOMAIN graph -> [Comps -> BOOLEAN \cup {None}]]
  /\ calls \in Seq(Frame)
  /\ outcome \in {"running", "done", "terminated"}
  /\ outcome = "done" => calls = <<>>

(* The active calls are a path down the tree, and no node is on it twice.   *)
PathOK ==
  /\ calls # <<>> => calls[1].node = 1
  /\ \A i \in DOMAIN calls :
       /\ calls[i].node \in Below(graph, 1)
       /\ \A call \in Range(calls[i].pending) :
            calls[i].comp # None /\ call.node \in Children(graph, calls[i].node)
  /\ \A i \in DOMAIN calls : i + 1 \in DOMAIN calls =>
       calls[i].comp # None /\ calls[i + 1].node \in Children(graph, calls[i].node)
  /\ \A i, j \in DOMAIN calls : calls[i].node = calls[j].node => i = j

(* The selected components exist, and are closed under ":c" requires.       *)
SelectionOK ==
  \A n \in DOMAIN graph :
    /\ Selected(n) # {} => n \in Below(graph, 1)
    /\ \A c \in Selected(n) :
         c \in Existing(n) /\ SelfRequires(graph[n].pkg, c) \subseteq Selected(n)

(* A frame keeps the children that its component names; children are only   *)
(* ever taken away.                                                        *)
Named(g, f) ==
  {k \in Children(g, f.node) : g[k].pkg.name \in NamedBy(g[f.node].pkg, f.comp)}

TrimOK ==
  /\ \A n \in DOMAIN graph : Children(nodes, n) \subseteq Children(graph, n)
  /\ \A i \in DOMAIN calls :
       /\ calls[i].todo \subseteq Selected(calls[i].node)
       /\ calls[i].comp # None => /\ calls[i].comp \in Selected(calls[i].node)
                                  /\ Range(calls[i].trimmed) = Named(nodes, calls[i])

(* No component of the node asks for a child both to compile and to link.   *)
Distinct(n) ==
  \A c \in Selected(n) :
    DOMAIN Require(graph[n].pkg, c) \cap DOMAIN LinkRequire(graph[n].pkg, c) \subseteq {Self}

InjectiveOK ==
  /\ \A n \in Below(graph, 1) : Distinct(n) => IsInjective(nodes[n].depends)
  /\ \A i \in DOMAIN calls :
       calls[i].comp # None /\ Distinct(calls[i].node) => IsInjective(calls[i].trimmed)

(* A node with components has been trimmed, or is about to be.              *)
Trimmed(n) == \E c \in Selected(n) : Children(nodes, n) \subseteq Wants(n, c)

KeptOK ==
  \A n \in DOMAIN graph : Selected(n) # {} =>
    \/ Trimmed(n)
    \/ \E i \in DOMAIN calls :
         calls[i].node = n /\ (calls[i].comp # None \/ calls[i].todo # {})

(* The inductive invariant for what is selected and what is kept.           *)
SInv == TypeOK /\ PathOK /\ SelectionOK /\ TrimOK /\ InjectiveOK /\ KeptOK

-----------------------------------------------------------------------------
(* The calls that component c of node n makes, as a set.                    *)
Asked(g, n, required, link) ==
  {Call(k, required[g[k].pkg.name].components, required[g[k].pkg.name].defaults, link) :
     k \in {m \in Children(g, n) : g[m].pkg.name \in DOMAIN required}}

CallsFor(g, n, c, link) ==
  Asked(g, n, Require(g[n].pkg, c), link) \cup Asked(g, n, LinkRequire(g[n].pkg, c), TRUE)

(* What a call asks for is selected.                                        *)
Met(call) == Listed(call) \subseteq Selected(call.node)

(* A frame has made the calls of its component, or has yet to.              *)
PendingOK ==
  \A i \in DOMAIN calls : calls[i].comp # None =>
    LET all == CallsFor(nodes, calls[i].node, calls[i].comp, calls[i].link_only)
    IN  /\ Range(calls[i].pending) \subseteq all
        /\ \A call \in all : call \in Range(calls[i].pending) \/ Met(call)

(* The children that component c of n names, those left, have what it wants.*)
Processed(n, c) == \A call \in CallsFor(nodes, n, c, FALSE) : Met(call)

ProcessedOK ==
  \A n \in DOMAIN graph : \A c \in Selected(n) :
    \/ Processed(n, c)
    \/ \E i \in DOMAIN calls : calls[i].node = n /\ (calls[i].comp = c \/ c \in calls[i].todo)

(* Whoever is called is called for what is needed, or has it already.       *)
Needs(n, c, link) == <<n, c, link>> \in Uses

CallOK(call) ==
  \A c \in Listed(call) : Needs(call.node, c, call.link_only) \/ c \in Selected(call.node)

NeedOK ==
  /\ OnlyNeeded
  /\ \A i \in DOMAIN calls :
       /\ \A c \in calls[i].todo :
            Processed(calls[i].node, c) \/ Needs(calls[i].node, c, calls[i].link_only)
       /\ \A call \in Range(calls[i].pending) : CallOK(call)

(* Everything that is needed is left, where the needed components agree.    *)
UniformOK ==
  LET needed == Needed
  IN  Uniform(graph, needed) =>
        \A n \in DOMAIN graph : \A c \in needed[n] : Wants(n, c) \subseteq Children(nodes, n)

RootCall == Call(1, request, request = {}, FALSE)
StartOK ==
  IF calls = <<>> /\ outcome # "done" THEN \A n \in DOMAIN graph : Selected(n) = {}
                                      ELSE Met(RootCall)

(* The inductive invariant for what is needed.                              *)
NInv == PendingOK /\ ProcessedOK /\ NeedOK /\ UniformOK /\ StartOK
-----------------------------------------------------------------------------
(* Induction, from the well-foundedness of < on the natural numbers: a set  *)
(* of numbers has a least element, so one that has 0 and, with each number, *)
(* the next one has them all.                                              *)
LEMMA LeastNumber ==
  ASSUME NEW T, T \subseteq Nat, T # {}
  PROVE  \E m \in T : \A k \in T : m <= k
<1> DEFINE R == OpToRel(<, Nat)
<1>1. IsWellFoundedOn(R, Nat)
  BY NatLessThanWellFounded
<1>2. \A a, b \in Nat : a < b => <<a, b>> \in R
  BY DEF OpToRel
<1> HIDE DEF R
<1>3. PICK m \in T : \A k \in T : ~(<<k, m>> \in R)
  BY <1>1, WFMin
<1>4. ASSUME NEW k \in T
      PROVE  m <= k
  <2>1. k \in Nat /\ m \in Nat /\ ~(k < m)
    BY <1>2, <1>3
  <2> QED
    BY <2>1
<1> QED
  BY <1>4

LEMMA SetInduction ==
  ASSUME NEW S, 0 \in S, \A n \in Nat : n \in S => n + 1 \in S
  PROVE  Nat \subseteq S
<1> DEFINE T == Nat \ S
<1>1. T \subseteq Nat
  OBVIOUS
<1>2. ASSUME T # {}
      PROVE  FALSE
  <2>1. PICK m \in T : \A k \in T : m <= k
    <3> HIDE DEF T
    <3> QED
      BY <1>1, <1>2, LeastNumber
  <2>2. m # 0 /\ m - 1 \in Nat /\ m - 1 \in S
    BY <2>1
  <2>3. (m - 1) + 1 \in S
    BY <2>2
  <2> QED
    BY <2>1, <2>3
<1> QED
  BY <1>2

-----------------------------------------------------------------------------
(* What a set grows to: m times, what follows from its elements is added.    *)
Grown(first, succ, m, w) ==
  w = [k \in 0..m |-> IF k = 0 THEN first
                      ELSE w[k - 1] \cup UNION {succ[u] : u \in w[k - 1]}]

LEMMA GrownExists ==
  ASSUME NEW first, NEW succ, NEW m \in Nat
  PROVE  \E w : Grown(first, succ, m, w)
<1> DEFINE Step(w, k) == IF k = 0 THEN first
                         ELSE w[k - 1] \cup UNION {succ[u] : u \in w[k - 1]}
           S == {n \in Nat : \E w : w = [k \in 0..n |-> Step(w, k)]}
<1>1. 0 \in S
  <2> DEFINE w == [k \in 0..0 |-> first]
  <2>1. w = [k \in 0..0 |-> Step(w, k)]
    OBVIOUS
  <2> QED  BY <2>1
<1>2. ASSUME NEW n \in Nat, n \in S  PROVE n + 1 \in S
  <2>1. PICK w : w = [k \in 0..n |-> Step(w, k)]
    BY <1>2
  <2> DEFINE v == [k \in 0..(n + 1) |-> IF k = n + 1 THEN Step(w, k) ELSE w[k]]
  <2>2. ASSUME NEW k \in 0..(n + 1)  PROVE v[k] = Step(v, k)
    <3>1. k # 0 => v[k - 1] = w[k - 1]
      OBVIOUS
    <3>2. Step(v, k) = Step(w, k)
      <4> HIDE DEF v
      <4> QED  BY <3>1
    <3>3. CASE k = n + 1
      BY <3>2, <3>3
    <3>4. CASE k # n + 1
      <4>1. k \in 0..n /\ v[k] = w[k]
        BY <3>4
      <4>2. w[k] = Step(w, k)
        BY <2>1, <4>1
      <4> QED  BY <3>2, <4>1, <4>2
    <3> QED  BY <3>3, <3>4
  <2>3. v = [k \in 0..(n + 1) |-> v[k]]
    OBVIOUS
  <2> HIDE DEF v
  <2>4. v = [k \in 0..(n + 1) |-> Step(v, k)]
    BY <2>2, <2>3
  <2> QED  BY <2>4
<1>3. m \in S
  <2> HIDE DEF S
  <2> QED  BY <1>1, <1>2, SetInduction
<1> QED  BY <1>3 DEF Grown

(* Sequences of sets that begin and go on alike are alike.                  *)
LEMMA SameGrowth ==
  ASSUME NEW w, NEW v, NEW m \in Nat, w[0] = v[0],
         \A k \in 0..(m - 1) : w[k] = v[k] => w[k + 1] = v[k + 1]
  PROVE  w[m] = v[m]
<1> DEFINE S == {n \in Nat : n <= m => w[n] = v[n]}
<1>1. 0 \in S
  OBVIOUS
<1>2. ASSUME NEW n \in Nat, n \in S  PROVE n + 1 \in S
  BY <1>2
<1>3. m \in S
  <2> HIDE DEF S
  <2> QED  BY <1>1, <1>2, SetInduction
<1> QED  BY <1>3

GrowsBy(first, succ, m, w) ==
  /\ w[0] = first
  /\ \A k \in 0..(m - 1) : w[k + 1] = w[k] \cup UNION {succ[u] : u \in w[k]}

LEMMA GrownStep ==
  ASSUME NEW first, NEW succ, NEW m \in Nat, NEW w, Grown(first, succ, m, w)
  PROVE  GrowsBy(first, succ, m, w)
<1>1. w[0] = first
  BY DEF Grown
<1>2. ASSUME NEW k \in 0..(m - 1)
      PROVE  w[k + 1] = w[k] \cup UNION {succ[u] : u \in w[k]}
  <2>1. k + 1 \in 0..m /\ k + 1 # 0 /\ (k + 1) - 1 = k
    OBVIOUS
  <2>2. w[k + 1] = w[(k + 1) - 1] \cup UNION {succ[u] : u \in w[(k + 1) - 1]}
    BY <2>1 DEF Grown
  <2> QED  BY <2>1, <2>2
<1> QED  BY <1>1, <1>2 DEF GrowsBy

(* The last of these sets has the first and is closed under what follows,    *)
(* and is within every set of which that is true.                          *)
Saturated(U, succ, first, m, w) ==
  /\ \A k \in 0..m : w[k] \subseteq U
  /\ first \subseteq w[m]
  /\ \A u \in w[m] : succ[u] \subseteq w[m]
  /\ \A G : first \subseteq G /\ (\A u \in G \cap U : succ[u] \subseteq G) => w[m] \subseteq G

(* A set within a finite one, grown as many times as that has elements, is   *)
(* the least that is closed under what follows.                            *)
LEMMA GrownLeast ==
  ASSUME NEW U, IsFiniteSet(U), NEW succ \in [U -> SUBSET U], NEW first, first \subseteq U,
         NEW m \in Nat, Cardinality(U) <= m, NEW w, Grown(first, succ, m, w)
  PROVE  Saturated(U, succ, first, m, w)
<1>7. GrowsBy(first, succ, m, w)
  BY GrownStep
<1>1. w[0] = first
  BY <1>7 DEF GrowsBy
<1>2. \A k \in 0..(m - 1) : w[k + 1] = w[k] \cup UNION {succ[u] : u \in w[k]}
  BY <1>7 DEF GrowsBy
<1>3. ASSUME NEW G, first \subseteq G, \A u \in G \cap U : succ[u] \subseteq G
      PROVE  \A k \in 0..m : w[k] \subseteq G \cap U
  <2> DEFINE S == {n \in Nat : n <= m => w[n] \subseteq G \cap U}
  <2>1. 0 \in S
    BY <1>1, <1>3
  <2>2. ASSUME NEW n \in Nat, n \in S  PROVE n + 1 \in S
    <3>1. SUFFICES ASSUME n + 1 <= m  PROVE w[n + 1] \subseteq G \cap U
      OBVIOUS
    <3>2. w[n] \subseteq G \cap U
      BY <2>2, <3>1
    <3>3. w[n + 1] = w[n] \cup UNION {succ[u] : u \in w[n]}
      BY <1>2, <3>1
    <3> QED  BY <1>3, <3>2, <3>3
  <2>3. Nat \subseteq S
    <3> HIDE DEF S
    <3> QED  BY <2>1, <2>2, SetInduction
  <2> QED  BY <2>3
<1>4. \A k \in 0..m : w[k] \subseteq U
  BY <1>3
<1>5. first \subseteq w[m]
  <2> DEFINE S == {n \in Nat : n <= m => first \subseteq w[n]}
  <2>1. 0 \in S
    BY <1>1
  <2>2. ASSUME NEW n \in Nat, n \in S  PROVE n + 1 \in S
    BY <1>2, <2>2
  <2>3. m \in S
    <3> HIDE DEF S
    <3> QED  BY <2>1, <2>2, SetInduction
  <2> QED  BY <2>3
<1>6. \A u \in w[m] : succ[u] \subseteq w[m]
  <2> DEFINE Closed(T) == \A u \in T : succ[u] \subseteq T
             S == {n \in Nat : n <= m => Closed(w[n]) \/ Cardinality(w[n]) >= n}
  <2>1. 0 \in S
    <3>1. IsFiniteSet(w[0])
      BY <1>4, FS_Subset
    <3>2. Cardinality(w[0]) \in Nat
      BY <3>1, FS_CardinalityType
    <3> QED  BY <3>2
  <2>2. ASSUME NEW n \in Nat, n \in S  PROVE n + 1 \in S
    <3>1. SUFFICES ASSUME n + 1 <= m
                   PROVE  Closed(w[n + 1]) \/ Cardinality(w[n + 1]) >= n + 1
      OBVIOUS
    <3>2. w[n + 1] = w[n] \cup UNION {succ[u] : u \in w[n]}
      BY <1>2, <3>1
    <3>3. CASE Closed(w[n])
      <4>1. w[n + 1] = w[n]
        BY <3>2, <3>3
      <4> QED  BY <3>3, <4>1
    <3>4. CASE ~Closed(w[n])
      <4>1. Cardinality(w[n]) >= n
        BY <2>2, <3>1, <3>4
      <4>2. w[n] \subseteq w[n + 1] /\ w[n] # w[n + 1]
        BY <3>2, <3>4
      <4>3. w[n + 1] \subseteq U
        BY <1>4, <3>1
      <4>4. IsFiniteSet(w[n + 1])
        BY <4>3, FS_Subset
      <4>5. /\ IsFiniteSet(w[n]) /\ Cardinality(w[n]) <= Cardinality(w[n + 1])
            /\ Cardinality(w[n + 1]) # Cardinality(w[n])
        BY <4>2, <4>4, FS_Subset
      <4>6. Cardinality(w[n]) \in Nat /\ Cardinality(w[n + 1]) \in Nat
        BY <4>4, <4>5, FS_CardinalityType
      <4> QED  BY <4>1, <4>5, <4>6
    <3> QED  BY <3>3, <3>4
  <2>3. m \in S
    <3> HIDE DEF S
    <3> QED  BY <2>1, <2>2, SetInduction
  <2>4. CASE Closed(w[m])
    BY <2>4
  <2>5. CASE Cardinality(w[m]) >= m
    <3>1. w[m] \subseteq U
      BY <1>4
    <3>2. IsFiniteSet(w[m]) /\ Cardinality(w[m]) <= Cardinality(U)
      BY <3>1, FS_Subset
    <3>3. Cardinality(w[m]) \in Nat /\ Cardinality(U) \in Nat
      BY <3>2, FS_CardinalityType
    <3>4. Cardinality(w[m]) = Cardinality(U)
      BY <2>5, <3>2, <3>3
    <3>5. w[m] = U
      BY <3>1, <3>4, FS_Subset
    <3> QED  BY <3>5
  <2> QED  BY <2>3, <2>4, <2>5
<1> QED  BY <1>3, <1>4, <1>5, <1>6 DEF Saturated

-----------------------------------------------------------------------------
(* The components of a package that ":c" requires lead to.                  *)
SelfBody(p, start, w) ==
  [k \in 0..Cardinality(Comps) |->
     IF k = 0 THEN start
     ELSE LET before == w[k - 1]
          IN  before \cup UNION {SelfRequires(p, c) : c \in before}]

LEMMA SelfRequiresComps ==
  ASSUME NEW p \in Package, NEW c
  PROVE  /\ SelfRequires(p, c) \subseteq Comps
         /\ SelfRequires(p, c) # {} => c \in Keys(p.components) /\ c \in Comps
<1>1. p.components \in Map(Comps, Component) /\ p.default_components \subseteq Comps
  BY DEF Package
<1>2. CASE c \in Keys(p.components) /\ Self \in DOMAIN Require(p, c)
  <2>1. c \in Comps /\ p.components[c] \in Component
    BY <1>1, <1>2 DEF Keys, Map, Optional
  <2>2. p.components[c].require \subseteq Dependency
    BY <2>1 DEF Component
  <2>3. Require(p, c)[Self].components \subseteq Comps
    <3>1. Require(p, c)[Self].components =
            {d.comp : d \in {e \in p.components[c].require : e.pkg = Self}} \ {Default}
      BY <1>2 DEF Require, process_requires
    <3>2. \A d \in p.components[c].require : d.comp \in Comps \cup {Default}
      BY <2>2 DEF Dependency
    <3> QED  BY <3>1, <3>2
  <2>4. \A b : Defaults(p, b) \subseteq Comps
    BY <1>1 DEF Defaults
  <2>5. SelfRequires(p, c) =
          Require(p, c)[Self].components \cup Defaults(p, Require(p, c)[Self].defaults)
    BY <1>2 DEF SelfRequires
  <2> QED  BY <1>2, <2>1, <2>3, <2>4, <2>5
<1>3. CASE ~(c \in Keys(p.components) /\ Self \in DOMAIN Require(p, c))
  BY <1>3 DEF SelfRequires
<1> QED  BY <1>2, <1>3

(* SelfClosure is the least set that has the start and is closed.           *)
LEMMA SelfClosureLeast ==
  ASSUME NEW p \in Package, NEW start, start \subseteq Comps
  PROVE  /\ SelfClosure(p, start) \subseteq Comps
         /\ start \subseteq SelfClosure(p, start)
         /\ \A c \in SelfClosure(p, start) : SelfRequires(p, c) \subseteq SelfClosure(p, start)
         /\ \A G : start \subseteq G /\ (\A c \in G \cap Comps : SelfRequires(p, c) \subseteq G)
                     => SelfClosure(p, start) \subseteq G
<1> DEFINE succ == [c \in Comps |-> SelfRequires(p, c)]
           m == Cardinality(Comps)
           v == CHOOSE w : w = SelfBody(p, start, w)
<1>1. m \in Nat /\ IsFiniteSet(Comps)
  BY GraphsAssumption, FS_CardinalityType
<1>2. succ \in [Comps -> SUBSET Comps] /\ \A c \in Comps : succ[c] = SelfRequires(p, c)
  BY SelfRequiresComps
<1> HIDE DEF succ
<1>3. PICK w : Grown(start, succ, m, w)
  BY <1>1, GrownExists
<1>4. /\ \A k \in 0..m : w[k] \subseteq Comps
      /\ start \subseteq w[m]
      /\ \A u \in w[m] : succ[u] \subseteq w[m]
      /\ \A G : start \subseteq G /\ (\A u \in G \cap Comps : succ[u] \subseteq G)
                  => w[m] \subseteq G
  <2>1. Cardinality(Comps) <= m
    BY <1>1
  <2>2. Saturated(Comps, succ, start, m, w)
    <3> HIDE DEF m
    <3> QED  BY <1>1, <1>2, <1>3, <2>1, GrownLeast
  <2> QED  BY <2>2 DEF Saturated
<1>5. w = SelfBody(p, start, w)
  <2>1. \A k \in 0..m : k # 0 =>
          UNION {succ[u] : u \in w[k - 1]} = UNION {SelfRequires(p, c) : c \in w[k - 1]}
    <3> TAKE k \in 0..m
    <3>1. k # 0 => w[k - 1] \subseteq Comps
      BY <1>1, <1>4
    <3> QED  BY <1>2, <3>1
  <2> QED  BY <1>3, <2>1 DEF Grown, SelfBody
<1>6. v = SelfBody(p, start, v)
  BY <1>5
<1>7. SelfClosure(p, start) = v[m]
  BY DEF SelfClosure, SelfBody
<1> HIDE DEF v
<1>8. \A x : x = SelfBody(p, start, x) =>
        /\ x[0] = start
        /\ \A k \in 0..(m - 1) : x[k + 1] = x[k] \cup UNION {SelfRequires(p, c) : c \in x[k]}
  <2> SUFFICES ASSUME NEW x, x = SelfBody(p, start, x)
               PROVE  /\ x[0] = start
                      /\ \A k \in 0..(m - 1) :
                           x[k + 1] = x[k] \cup UNION {SelfRequires(p, c) : c \in x[k]}
    OBVIOUS
  <2>1. x[0] = start
    BY <1>1 DEF SelfBody
  <2>2. ASSUME NEW k \in 0..(m - 1)
        PROVE  x[k + 1] = x[k] \cup UNION {SelfRequires(p, c) : c \in x[k]}
    <3>1. k + 1 \in 0..m /\ k + 1 # 0 /\ (k + 1) - 1 = k
      BY <1>1
    <3>2. x[k + 1] = x[(k + 1) - 1] \cup UNION {SelfRequires(p, c) : c \in x[(k + 1) - 1]}
      BY <3>1 DEF SelfBody
    <3> QED  BY <3>1, <3>2
  <2> QED  BY <2>1, <2>2
<1>9. v[m] = w[m]
  <2>1. v[0] = w[0]
    BY <1>5, <1>6, <1>8
  <2>2. ASSUME NEW k \in 0..(m - 1), v[k] = w[k]  PROVE v[k + 1] = w[k + 1]
    <3>1. v[k + 1] = v[k] \cup UNION {SelfRequires(p, c) : c \in v[k]}
      BY <1>6, <1>8
    <3>2. w[k + 1] = w[k] \cup UNION {SelfRequires(p, c) : c \in w[k]}
      BY <1>5, <1>8
    <3> QED  BY <2>2, <3>1, <3>2
  <2> HIDE DEF m
  <2> QED  BY <1>1, <2>1, <2>2, SameGrowth
<1>10. w[m] \subseteq Comps
  BY <1>1, <1>4
<1> QED  BY <1>2, <1>4, <1>7, <1>9, <1>10

-----------------------------------------------------------------------------
(* What the graphs are.                                                     *)
LEMMA GraphFacts ==
  ASSUME NEW g \in Graphs
  PROVE  /\ g \in Seq([pkg : Package, depends : Seq(DOMAIN g)])
         /\ Len(g) \in Nat /\ DOMAIN g = 1..Len(g) /\ 1 \in DOMAIN g
         /\ IsFiniteSet(DOMAIN g) /\ Cardinality(DOMAIN g) = Len(g)
         /\ \A n \in DOMAIN g : /\ g[n].pkg \in Package
                                /\ g[n].depends \in Seq(DOMAIN g)
                                /\ Children(g, n) \subseteq DOMAIN g
         /\ IsTree(g, 1)
<1>1. g \in Seq([pkg : Package, depends : Seq(DOMAIN g)]) /\ Len(g) >= 1 /\ IsBuilt(g, 1)
  BY GraphsAssumption
<1>2. Len(g) \in Nat /\ DOMAIN g = 1..Len(g)
  BY <1>1
<1>3. IsFiniteSet(1..Len(g)) /\ Cardinality(1..Len(g)) = Len(g)
  BY <1>1, <1>2, FS_Interval
<1>4. ASSUME NEW n \in DOMAIN g
      PROVE  /\ g[n].pkg \in Package
             /\ g[n].depends \in Seq(DOMAIN g)
             /\ Children(g, n) \subseteq DOMAIN g
  <2>1. g[n] \in [pkg : Package, depends : Seq(DOMAIN g)]
    BY <1>1, <1>2, ElementOfSeq
  <2>2. g[n].pkg \in Package /\ g[n].depends \in Seq(DOMAIN g)
    BY <2>1
  <2> QED  BY <2>2 DEF Children, Range
<1>5. IsTree(g, 1)
  BY <1>1 DEF IsBuilt
<1> QED  BY <1>1, <1>2, <1>3, <1>4, <1>5

(* Below is a recursive function of nodes.                                  *)
BelowBody(g, r, w) ==
  [k \in 0..Len(g) |->
     IF k = 0 THEN {r}
     ELSE LET nearer == w[k - 1]
          IN  nearer \cup UNION {Children(g, n) : n \in nearer}]

(* What is below the root has the root and the children of what it has.     *)
LEMMA BelowCloses ==
  ASSUME NEW g, Len(g) \in Nat, DOMAIN g = 1..Len(g), 1 \in DOMAIN g,
         \A n \in DOMAIN g : Children(g, n) \subseteq DOMAIN g
  PROVE  /\ Below(g, 1) \subseteq DOMAIN g
         /\ 1 \in Below(g, 1)
         /\ \A n \in Below(g, 1) : Children(g, n) \subseteq Below(g, 1)
<1> DEFINE succ == [n \in DOMAIN g |-> Children(g, n)]
           m == Len(g)
           v == CHOOSE w : w = BelowBody(g, 1, w)
<1>1. /\ m \in Nat /\ IsFiniteSet(DOMAIN g) /\ Cardinality(DOMAIN g) <= m
      /\ {1} \subseteq DOMAIN g
  <2>1. /\ m \in Nat /\ 1 \in DOMAIN g /\ IsFiniteSet(DOMAIN g)
        /\ Cardinality(DOMAIN g) = m
    BY FS_Interval
  <2> QED  BY <2>1
<1>2. succ \in [DOMAIN g -> SUBSET (DOMAIN g)] /\ \A n \in DOMAIN g : succ[n] = Children(g, n)
  OBVIOUS
<1> HIDE DEF succ
<1>3. PICK w : Grown({1}, succ, m, w)
  BY <1>1, GrownExists
<1>4. /\ \A k \in 0..m : w[k] \subseteq DOMAIN g
      /\ {1} \subseteq w[m]
      /\ \A u \in w[m] : succ[u] \subseteq w[m]
  <2>1. Saturated(DOMAIN g, succ, {1}, m, w)
    <3> HIDE DEF m, v
    <3> QED  BY <1>1, <1>2, <1>3, GrownLeast
  <2> QED  BY <2>1 DEF Saturated
<1>5. w = BelowBody(g, 1, w)
  <2>1. \A k \in 0..m : k # 0 =>
          UNION {succ[u] : u \in w[k - 1]} = UNION {Children(g, n) : n \in w[k - 1]}
    <3> TAKE k \in 0..m
    <3>1. k # 0 => w[k - 1] \subseteq DOMAIN g
      BY <1>1, <1>4
    <3> QED  BY <1>2, <3>1
  <2> QED  BY <1>3, <2>1 DEF Grown, BelowBody
<1>6. v = BelowBody(g, 1, v)
  BY <1>5
<1>7. Below(g, 1) = v[m]
  BY DEF Below, BelowBody
<1> HIDE DEF v
<1>8. \A x : x = BelowBody(g, 1, x) =>
        /\ x[0] = {1}
        /\ \A k \in 0..(m - 1) : x[k + 1] = x[k] \cup UNION {Children(g, n) : n \in x[k]}
  <2> SUFFICES ASSUME NEW x, x = BelowBody(g, 1, x)
               PROVE  /\ x[0] = {1}
                      /\ \A k \in 0..(m - 1) :
                           x[k + 1] = x[k] \cup UNION {Children(g, n) : n \in x[k]}
    OBVIOUS
  <2>1. x[0] = {1}
    BY <1>1 DEF BelowBody
  <2>2. ASSUME NEW k \in 0..(m - 1)
        PROVE  x[k + 1] = x[k] \cup UNION {Children(g, n) : n \in x[k]}
    <3>1. k + 1 \in 0..m /\ k + 1 # 0 /\ (k + 1) - 1 = k
      BY <1>1
    <3>2. x[k + 1] = x[(k + 1) - 1] \cup UNION {Children(g, n) : n \in x[(k + 1) - 1]}
      BY <3>1 DEF BelowBody
    <3> QED  BY <3>1, <3>2
  <2> QED  BY <2>1, <2>2
<1>9. v[m] = w[m]
  <2>1. v[0] = w[0]
    BY <1>5, <1>6, <1>8
  <2>2. ASSUME NEW k \in 0..(m - 1), v[k] = w[k]  PROVE v[k + 1] = w[k + 1]
    <3>1. v[k + 1] = v[k] \cup UNION {Children(g, n) : n \in v[k]}
      BY <1>6, <1>8
    <3>2. w[k + 1] = w[k] \cup UNION {Children(g, n) : n \in w[k]}
      BY <1>5, <1>8
    <3> QED  BY <2>2, <3>1, <3>2
  <2> HIDE DEF m
  <2> QED  BY <1>1, <2>1, <2>2, SameGrowth
<1>10. w[m] \subseteq DOMAIN g
  BY <1>1, <1>4
<1> QED  BY <1>2, <1>4, <1>7, <1>9, <1>10

LEMMA BelowClosed ==
  ASSUME NEW g \in Graphs
  PROVE  /\ Below(g, 1) \subseteq DOMAIN g
         /\ 1 \in Below(g, 1)
         /\ \A n \in Below(g, 1) : Children(g, n) \subseteq Below(g, 1)
<1>1. /\ Len(g) \in Nat /\ DOMAIN g = 1..Len(g) /\ 1 \in DOMAIN g
      /\ \A n \in DOMAIN g : Children(g, n) \subseteq DOMAIN g
  BY GraphFacts
<1> QED  BY <1>1, BelowCloses

(* A node below the root is the child of one node only, and the root of none.*)
LEMMA OneParent ==
  ASSUME NEW g \in Graphs, NEW m \in Below(g, 1), NEW n \in Below(g, 1), NEW k,
         k \in Children(g, m)
  PROVE  k # 1 /\ (k \in Children(g, n) => m = n)
<1> DEFINE E        == Edges(g, Below(g, 1))
           Child(e) == g[e[1]].depends[e[2]]
<1>1. /\ \A e \in E : Child(e) # 1
      /\ \A e, f \in E : Child(e) = Child(f) => e = f
  BY GraphFacts DEF IsTree
<1>2. ASSUME NEW a \in Below(g, 1), k \in Children(g, a)
      PROVE  \E i : <<a, i>> \in E /\ k = Child(<<a, i>>)
  <2>1. PICK i \in DOMAIN g[a].depends : k = g[a].depends[i]
    BY <1>2 DEF Children, Range
  <2>2. <<a, i>> \in E
    BY <2>1 DEF Edges
  <2> QED  BY <2>1, <2>2
<1>3. PICK i : <<m, i>> \in E /\ k = Child(<<m, i>>)
  BY <1>2
<1> HIDE DEF E
<1>4. k # 1
  BY <1>1, <1>3
<1>5. ASSUME k \in Children(g, n)  PROVE m = n
  <2>1. PICK j : <<n, j>> \in E /\ k = Child(<<n, j>>)
    BY <1>2, <1>5
  <2> HIDE DEF Child
  <2>2. <<m, i>> = <<n, j>>
    BY <1>1, <1>3, <2>1
  <2> QED  BY <2>2
<1> QED  BY <1>4, <1>5

(* A depends vector of the graph names no node twice.                       *)
LEMMA ChildrenOnce ==
  ASSUME NEW g \in Graphs, NEW n \in Below(g, 1)
  PROVE  IsInjective(g[n].depends)
<1> DEFINE E        == Edges(g, Below(g, 1))
           Child(e) == g[e[1]].depends[e[2]]
<1>1. \A e, f \in E : Child(e) = Child(f) => e = f
  BY GraphFacts DEF IsTree
<1>2. \A i \in DOMAIN g[n].depends : <<n, i>> \in E /\ Child(<<n, i>>) = g[n].depends[i]
  BY DEF Edges
<1> HIDE DEF E, Child
<1>3. ASSUME NEW i \in DOMAIN g[n].depends, NEW j \in DOMAIN g[n].depends,
             g[n].depends[i] = g[n].depends[j]
      PROVE  i = j
  <2>1. <<n, i>> = <<n, j>>
    BY <1>1, <1>2, <1>3
  <2> QED  BY <2>1
<1> QED  BY <1>3 DEF IsInjective

-----------------------------------------------------------------------------
(* What a list of requirements names.                                       *)
LEMMA RequireTypes ==
  ASSUME NEW p \in Package, NEW c \in Keys(p.components)
  PROVE  /\ c \in Comps
         /\ \A r \in {Require(p, c), LinkRequire(p, c)} : \A n \in DOMAIN r :
              r[n].components \in SUBSET Comps /\ r[n].defaults \in BOOLEAN
<1>1. p.components \in Map(Comps, Component)
  BY DEF Package
<1>2. c \in Comps /\ p.components[c] \in Component
  BY <1>1 DEF Keys, Map, Optional
<1>3. p.components[c].require \subseteq Dependency /\ p.components[c].link_requires \subseteq Dependency
  BY <1>2 DEF Component
<1>4. ASSUME NEW deps, deps \subseteq Dependency, NEW n \in DOMAIN process_requires(deps)
      PROVE  /\ process_requires(deps)[n].components \in SUBSET Comps
             /\ process_requires(deps)[n].defaults \in BOOLEAN
  <2>1. process_requires(deps)[n] =
          [components |-> {d.comp : d \in {e \in deps : e.pkg = n}} \ {Default},
           defaults   |-> \E d \in deps : d.pkg = n /\ d.comp = Default]
    BY <1>4 DEF process_requires
  <2>2. \A d \in deps : d.comp \in Comps \cup {Default}
    BY <1>4 DEF Dependency
  <2> QED  BY <2>1, <2>2
<1>5. Require(p, c) = process_requires(p.components[c].require)
  BY DEF Require
<1>6. LinkRequire(p, c) = process_requires(p.components[c].link_requires)
  BY DEF LinkRequire
<1>7. \A n \in DOMAIN Require(p, c) : /\ Require(p, c)[n].components \in SUBSET Comps
                                     /\ Require(p, c)[n].defaults \in BOOLEAN
  BY <1>3, <1>4, <1>5
<1>8. \A n \in DOMAIN LinkRequire(p, c) : /\ LinkRequire(p, c)[n].components \in SUBSET Comps
                                         /\ LinkRequire(p, c)[n].defaults \in BOOLEAN
  BY <1>3, <1>4, <1>6, SMTT(60)
<1> QED  BY <1>2, <1>7, <1>8, Zenon

(* ChildCalls is a recursive function of depends.                           *)
CallsBody(n, required, link, w) ==
  [k \in 0..Len(nodes[n].depends) |->
     IF k = 0 THEN <<>>
     ELSE LET name == nodes[nodes[n].depends[k]].pkg.name
          IN  IF name \notin DOMAIN required THEN w[k - 1]
              ELSE Append(w[k - 1],
                     Call(nodes[n].depends[k], required[name].components,
                          required[name].defaults, link))]

LEMMA CallsExist ==
  ASSUME NEW n, Len(nodes[n].depends) \in Nat, NEW required, NEW link
  PROVE  \E w : w = CallsBody(n, required, link, w)
<1> DEFINE depends == nodes[n].depends
           Name(k) == nodes[depends[k]].pkg.name
           Step(w, k) == IF k = 0 THEN <<>>
                         ELSE IF Name(k) \notin DOMAIN required THEN w[k - 1]
                         ELSE Append(w[k - 1],
                                Call(depends[k], required[Name(k)].components,
                                     required[Name(k)].defaults, link))
           S == {m \in Nat : \E w : w = [k \in 0..m |-> Step(w, k)]}
<1>1. 0 \in S
  <2> DEFINE w == [k \in 0..0 |-> <<>>]
  <2>1. w = [k \in 0..0 |-> Step(w, k)]
    OBVIOUS
  <2> QED  BY <2>1
<1>2. ASSUME NEW m \in Nat, m \in S  PROVE m + 1 \in S
  <2>1. PICK w : w = [k \in 0..m |-> Step(w, k)]
    BY <1>2
  <2> DEFINE v == [k \in 0..(m + 1) |-> IF k = m + 1 THEN Step(w, k) ELSE w[k]]
  <2>2. ASSUME NEW k \in 0..(m + 1)  PROVE v[k] = Step(v, k)
    <3>1. k # 0 => v[k - 1] = w[k - 1]
      <4> HIDE DEF Step
      <4> QED  OBVIOUS
    <3>2. Step(v, k) = Step(w, k)
      <4> HIDE DEF v, depends, Name
      <4> QED  BY <3>1
    <3> HIDE DEF Step
    <3>3. CASE k = m + 1
      BY <3>2, <3>3
    <3>4. CASE k # m + 1
      <4>1. k \in 0..m /\ v[k] = w[k]
        BY <3>4
      <4>2. w[k] = Step(w, k)
        BY <2>1, <4>1
      <4> QED  BY <3>2, <4>1, <4>2
    <3> QED  BY <3>3, <3>4
  <2> HIDE DEF Step
  <2>3. v = [k \in 0..(m + 1) |-> v[k]]
    OBVIOUS
  <2> HIDE DEF v
  <2>4. v = [k \in 0..(m + 1) |-> Step(v, k)]
    BY <2>2, <2>3
  <2> QED  BY <2>4
<1>3. Len(depends) \in S
  <2> HIDE DEF S
  <2> QED  BY <1>1, <1>2, SetInduction
<1> QED  BY <1>3, ZenonT(60) DEF CallsBody

(* The indices of a function built step by step.                           *)
LEMMA Indices ==
  ASSUME NEW l \in Nat
  PROVE  /\ 0 \in 0..l
         /\ \A k \in 0..(l - 1) :
              k + 1 \in 0..l /\ k + 1 \in 1..l /\ k + 1 # 0 /\ (k + 1) - 1 = k
OBVIOUS

(* One list of calls: to the children that the requirements name, and to    *)
(* no node twice if depends has none twice.                                *)
CallList(cs, n, required, link) ==
  /\ cs \in Seq(CallType)
  /\ Range(cs) = Asked(nodes, n, required, link)
  /\ IsInjective(nodes[n].depends) =>
       \A i, j \in DOMAIN cs : cs[i].node = cs[j].node => i = j

LEMMA ChildCallsAre ==
  ASSUME NEW n, nodes[n].depends \in Seq(DOMAIN graph), NEW required, NEW link \in BOOLEAN,
         \A m \in DOMAIN required : /\ required[m].components \in SUBSET Comps
                                    /\ required[m].defaults \in BOOLEAN
  PROVE  CallList(ChildCalls(n, required, link), n, required, link)
<1> DEFINE depends == nodes[n].depends
           Name(k) == nodes[depends[k]].pkg.name
           Asks(k) == Call(depends[k], required[Name(k)].components,
                           required[Name(k)].defaults, link)
           v == CHOOSE w : w = CallsBody(n, required, link, w)
<1> PICK l \in Nat : l = Len(nodes[n].depends)
  OBVIOUS
<1>1. v = CallsBody(n, required, link, v)
  BY CallsExist
<1>2. ChildCalls(n, required, link) = v[l]
  <2>1. ChildCalls(n, required, link) = v[Len(nodes[n].depends)]
    BY ZenonT(60) DEF ChildCalls, CallsBody
  <2> QED  BY <2>1, Zenon
<1> HIDE DEF v
<1>3. v[0] = <<>>
  <2>1. 0 \in 0..l
    BY Indices, Zenon
  <2> QED  BY <1>1, <2>1 DEF CallsBody
<1>4. ASSUME NEW k \in 0..(l - 1)
      PROVE  v[k + 1] = IF Name(k + 1) \notin DOMAIN required THEN v[k]
                        ELSE Append(v[k], Asks(k + 1))
  <2>1. k + 1 \in 0..Len(depends) /\ k + 1 # 0 /\ (k + 1) - 1 = k
    BY Indices, ZenonT(60)
  <2>2. v[k + 1] = IF Name(k + 1) \notin DOMAIN required THEN v[(k + 1) - 1]
                   ELSE Append(v[(k + 1) - 1], Asks(k + 1))
    BY <1>1, <2>1 DEF CallsBody
  <2> QED  BY <2>1, <2>2
<1>5. ASSUME NEW k \in 1..l
      PROVE  /\ depends[k] \in DOMAIN graph
             /\ Name(k) \in DOMAIN required => Asks(k) \in CallType
             /\ Asks(k).node = depends[k]
  <2>1. depends[k] \in DOMAIN graph
    BY ElementOfSeq
  <2> HIDE DEF depends, Name
  <2> QED  BY <2>1 DEF Call, CallType
<1> DEFINE Good(k) ==
             /\ v[k] \in Seq(CallType)
             /\ \A call : call \in Range(v[k]) <=>
                  \E j \in 1..k : Name(j) \in DOMAIN required /\ call = Asks(j)
             /\ IsInjective(depends) =>
                  \A i, j \in DOMAIN v[k] : v[k][i].node = v[k][j].node => i = j
           S == {k \in Nat : k <= l => Good(k)}
<1> HIDE DEF depends, Name, Asks
<1>6. 0 \in S
  <2>1. v[0] \in Seq(CallType) /\ DOMAIN v[0] = {}
    BY <1>3
  <2>2. Range(v[0]) = {}
    BY <2>1 DEF Range
  <2> QED  BY <2>1, <2>2
<1>7. ASSUME NEW k \in Nat, k \in S  PROVE k + 1 \in S
  <2> SUFFICES ASSUME k + 1 <= l  PROVE Good(k + 1)
    OBVIOUS
  <2>1. Good(k)
    BY <1>7
  <2> HIDE DEF S
  <2>2. CASE Name(k + 1) \notin DOMAIN required
    <3>1. v[k + 1] = v[k]
      BY <1>4, <2>2
    <3>2. \A j \in 1..(k + 1) : Name(j) \in DOMAIN required => j \in 1..k
      BY <2>2
    <3> QED  BY <2>1, <3>1, <3>2
  <2>3. CASE Name(k + 1) \in DOMAIN required
    <3> DEFINE a == Asks(k + 1)
    <3>1. v[k + 1] = Append(v[k], a)
      <4>1. k \in 0..(l - 1)
        OBVIOUS
      <4> HIDE DEF Good
      <4> QED  BY <1>4, <2>3, <4>1
    <3>2. a \in CallType /\ a.node = depends[k + 1]
      BY <1>5, <2>3
    <3> PICK r \in Nat : r = Len(v[k])
      BY <2>1
    <3>3. /\ v[k + 1] \in Seq(CallType) /\ DOMAIN v[k + 1] = 1..(r + 1)
          /\ DOMAIN v[k] = 1..r
          /\ v[k + 1][r + 1] = a /\ \A i \in 1..r : v[k + 1][i] = v[k][i]
      BY <2>1, <3>1, <3>2
    <3>4. ASSUME NEW call
          PROVE  call \in Range(v[k + 1]) <=> call \in Range(v[k]) \/ call = a
      <4> HIDE DEF Good, a
      <4>1. ASSUME call \in Range(v[k + 1])  PROVE call \in Range(v[k]) \/ call = a
        <5>1. PICK i \in 1..(r + 1) : call = v[k + 1][i]
          BY <3>3, <4>1 DEF Range
        <5>2. CASE i = r + 1
          BY <3>3, <5>1, <5>2
        <5>3. CASE i # r + 1
          <6>1. i \in 1..r
            BY <5>3
          <6> QED  BY <3>3, <5>1, <6>1 DEF Range
        <5> QED  BY <5>2, <5>3
      <4>2. ASSUME call \in Range(v[k])  PROVE call \in Range(v[k + 1])
        <5>1. PICK i \in 1..r : call = v[k][i]
          BY <3>3, <4>2 DEF Range
        <5>2. i \in 1..(r + 1) /\ call = v[k + 1][i]
          BY <3>3, <5>1
        <5> QED  BY <3>3, <5>2 DEF Range
      <4>3. a \in Range(v[k + 1])
        <5>1. r + 1 \in 1..(r + 1)
          OBVIOUS
        <5> QED  BY <3>3, <5>1 DEF Range
      <4> QED  BY <4>1, <4>2, <4>3
    <3>5. ASSUME NEW call
          PROVE  call \in Range(v[k + 1]) <=>
                   \E j \in 1..(k + 1) : Name(j) \in DOMAIN required /\ call = Asks(j)
      BY <2>1, <2>3, <3>4
    <3>6. ASSUME IsInjective(depends), NEW i \in DOMAIN v[k + 1], NEW j \in DOMAIN v[k + 1],
                 v[k + 1][i].node = v[k + 1][j].node
          PROVE  i = j
      <4>1. ASSUME NEW h \in 1..r  PROVE v[k + 1][h].node # a.node
        <5>1. v[k][h] \in Range(v[k])
          BY <3>3 DEF Range
        <5>2. PICK q \in 1..k : v[k][h] = Asks(q)
          BY <2>1, <5>1
        <5>3. v[k + 1][h].node = depends[q]
          <6> HIDE DEF Good, a
          <6>1. q \in 1..l
            OBVIOUS
          <6>2. v[k + 1][h] = Asks(q)
            BY <3>3, <5>2
          <6> QED  BY <1>5, <6>1, <6>2
        <5>4. depends[q] # depends[k + 1]
          BY <3>6 DEF IsInjective, depends
        <5> QED  BY <3>2, <5>3, <5>4
      <4>2. CASE i \in 1..r /\ j \in 1..r
        BY <2>1, <3>3, <3>6, <4>2
      <4>3. CASE i = r + 1 \/ j = r + 1
        <5> HIDE DEF Good, a
        <5>1. i \in 1..(r + 1) /\ j \in 1..(r + 1)
          BY <3>3
        <5>2. CASE i = r + 1 /\ j # r + 1
          <6>1. j \in 1..r
            BY <5>1, <5>2
          <6> QED  BY <3>3, <3>6, <4>1, <5>2, <6>1
        <5>3. CASE j = r + 1 /\ i # r + 1
          <6>1. i \in 1..r
            BY <5>1, <5>3
          <6> QED  BY <3>3, <3>6, <4>1, <5>3, <6>1
        <5> QED  BY <4>3, <5>2, <5>3
      <4> QED  BY <3>3, <4>2, <4>3
    <3> HIDE DEF a
    <3> QED  BY <3>3, <3>5, <3>6
  <2> QED  BY <2>2, <2>3
<1>8. Good(l)
  <2>1. l \in S
    <3> HIDE DEF S
    <3> QED  BY <1>6, <1>7, SetInduction
  <2> HIDE DEF Good
  <2> QED  BY <2>1
<1>9. Range(v[l]) = Asked(nodes, n, required, link)
  <2>1. Children(nodes, n) = {depends[j] : j \in 1..l}
    BY DEF Children, Range, depends
  <2>2. Asked(nodes, n, required, link) = {Asks(j) : j \in {i \in 1..l : Name(i) \in DOMAIN required}}
    BY <2>1 DEF Asked, Asks, Name
  <2>3. \A call : call \in Range(v[l]) <=> call \in Asked(nodes, n, required, link)
    BY <1>8, <2>2
  <2> QED  BY <2>3
<1> QED  BY <1>2, <1>8, <1>9 DEF CallList, depends

-----------------------------------------------------------------------------
(* The types of a node, of the top frame, and of a call's components.        *)
LEMMA NodeFacts ==
  ASSUME TypeOK, NEW n \in DOMAIN graph
  PROVE  /\ graph \in Graphs
         /\ graph[n].pkg \in Package /\ nodes[n].pkg = graph[n].pkg
         /\ nodes[n].depends \in Seq(DOMAIN graph)
         /\ nodes[n] \in [pkg : Package, depends : Seq(DOMAIN graph)]
         /\ Children(nodes, n) \subseteq DOMAIN graph
         /\ selected[n] \in [Comps -> BOOLEAN \cup {None}]
         /\ Selected(n) = {c \in Comps : selected[n][c] # None}
         /\ Existing(n) \subseteq Comps
<1>1. graph \in Graphs /\ nodes[n].pkg = graph[n].pkg
      /\ nodes[n] \in [pkg : Package, depends : Seq(DOMAIN graph)]
      /\ selected[n] \in [Comps -> BOOLEAN \cup {None}]
  BY DEF TypeOK
<1>2. nodes[n].depends \in Seq(DOMAIN graph) /\ nodes[n].pkg \in Package
  BY <1>1
<1>3. Children(nodes, n) \subseteq DOMAIN graph
  BY <1>2 DEF Children, Range
<1>4. Selected(n) = {c \in Comps : selected[n][c] # None}
  BY <1>1 DEF Selected, Keys
<1>5. Existing(n) \subseteq Comps
  BY <1>1, <1>2 DEF Existing, Keys, Package, Map
<1> QED  BY <1>1, <1>2, <1>3, <1>4, <1>5

LEMMA FrontFacts ==
  ASSUME NEW F, NEW s \in Seq(F), s # <<>>
  PROVE  /\ Len(s) \in Nat /\ Len(s) > 0 /\ Len(s) \in DOMAIN s /\ DOMAIN s = 1..Len(s)
         /\ s[Len(s)] \in F
         /\ SubSeq(s, 1, Len(s) - 1) \in Seq(F)
         /\ Len(SubSeq(s, 1, Len(s) - 1)) = Len(s) - 1
         /\ \A i \in 1..(Len(s) - 1) : SubSeq(s, 1, Len(s) - 1)[i] = s[i]
<1>1. /\ Len(s) \in Nat /\ Len(s) > 0 /\ Len(s) \in DOMAIN s /\ DOMAIN s = 1..Len(s)
      /\ s[Len(s)] \in F
  BY EmptySeq
<1>2. SubSeq(s, 1, Len(s) - 1) \in Seq(F) /\ Len(SubSeq(s, 1, Len(s) - 1)) = Len(s) - 1
  BY <1>1
<1>3. \A i \in 1..(Len(s) - 1) : SubSeq(s, 1, Len(s) - 1)[i] = s[i]
  BY <1>1
<1> QED  BY <1>1, <1>2, <1>3

LEMMA FrameFacts ==
  ASSUME TypeOK, NEW i \in DOMAIN calls
  PROVE  /\ calls[i] \in Frame /\ calls[i].node \in DOMAIN graph
         /\ calls[i].link_only \in BOOLEAN /\ calls[i].todo \subseteq Comps
         /\ calls[i].pending \in Seq(CallType)
<1> DEFINE F == Frame
<1>1. calls \in Seq(F)
  BY DEF TypeOK
<1> HIDE DEF F
<1>2. calls[i] \in F
  BY <1>1
<1> QED  BY <1>2 DEF F, Frame

LEMMA TopFacts ==
  ASSUME TypeOK, calls # <<>>
  PROVE  /\ Len(calls) \in Nat /\ Len(calls) > 0 /\ Len(calls) \in DOMAIN calls
         /\ DOMAIN calls = 1..Len(calls)
         /\ Top = calls[Len(calls)] /\ Top \in Frame
         /\ Front(calls) \in Seq(Frame) /\ Len(Front(calls)) = Len(calls) - 1
         /\ \A i \in 1..(Len(calls) - 1) : Front(calls)[i] = calls[i]
<1>1. calls \in Seq(Frame)
  BY DEF TypeOK
<1> DEFINE F == Frame
<1> HIDE DEF F
<1>2. /\ Len(calls) \in Nat /\ Len(calls) > 0 /\ Len(calls) \in DOMAIN calls
      /\ DOMAIN calls = 1..Len(calls)
      /\ calls[Len(calls)] \in F
      /\ SubSeq(calls, 1, Len(calls) - 1) \in Seq(F)
      /\ Len(SubSeq(calls, 1, Len(calls) - 1)) = Len(calls) - 1
      /\ \A i \in 1..(Len(calls) - 1) : SubSeq(calls, 1, Len(calls) - 1)[i] = calls[i]
  <2>1. calls \in Seq(F)
    BY <1>1 DEF F
  <2> QED  BY <2>1, FrontFacts
<1> QED  BY <1>2 DEF F, Top, Last, Front

(* Who is called: the root first, then a child that is not on the path.      *)
LEMMA CalledFacts ==
  ASSUME TypeOK, PathOK, Calling
  PROVE  /\ NextCall \in CallType /\ NextCall.node \in DOMAIN graph
         /\ NextCall.node \in Below(graph, 1)
         /\ calls = <<>> => NextCall = RootCall /\ NextCall.node = 1
         /\ calls # <<>> => /\ Top.comp # None /\ NextCall \in Range(Top.pending)
                            /\ NextCall.node \in Children(graph, Top.node)
         /\ \A i \in DOMAIN calls : calls[i].node # NextCall.node
<1>1. graph \in Graphs
  BY DEF TypeOK
<1>2. CASE calls = <<>>
  <2>1. NextCall = RootCall
    BY <1>2 DEF NextCall, RootCall
  <2>2. request \in SUBSET Comps
    <3>1. 1 \in DOMAIN graph
      BY <1>1, GraphFacts
    <3> QED  BY <3>1, NodeFacts DEF TypeOK, Existing
  <2>3. RootCall \in CallType /\ RootCall.node = 1
    BY <1>1, <2>2, GraphFacts DEF RootCall, Call, CallType
  <2> QED  BY <1>1, <1>2, <2>1, <2>3, BelowClosed DEF CallType
<1>3. CASE calls # <<>>
  <2>1. Top.comp # None /\ Top.pending # <<>> /\ NextCall = Head(Top.pending)
    BY <1>3 DEF Calling, InCalls, NextCall
  <2>2. Top \in Frame /\ Len(calls) \in DOMAIN calls /\ Top = calls[Len(calls)]
    BY <1>3, TopFacts
  <2>3. Top.pending \in Seq(CallType)
    BY <2>2 DEF Frame
  <2>4. NextCall \in CallType /\ NextCall \in Range(Top.pending)
    <3> DEFINE C == CallType
    <3> HIDE DEF C
    <3>1. \A s \in Seq(C) : s # <<>> => Head(s) \in C /\ Head(s) = s[1] /\ 1 \in DOMAIN s
      OBVIOUS
    <3>2. Head(Top.pending) \in C /\ Head(Top.pending) \in Range(Top.pending)
      BY <2>1, <2>3, <3>1 DEF Range, C
    <3> QED  BY <2>1, <3>2 DEF C
  <2>5. NextCall.node \in Children(graph, Top.node) /\ Top.node \in Below(graph, 1)
    BY <2>2, <2>4 DEF PathOK
  <2>6. NextCall.node \in Below(graph, 1)
    BY <1>1, <2>5, BelowClosed
  <2>7. ASSUME NEW i \in DOMAIN calls, calls[i].node = NextCall.node
        PROVE  FALSE
    <3>1. Len(calls) \in Nat /\ DOMAIN calls = 1..Len(calls)
      BY <1>3, TopFacts
    <3>2. CASE i = 1
      BY <1>1, <1>3, <2>5, <2>7, <3>2, OneParent DEF PathOK
    <3>3. CASE i # 1
      <4>1. i - 1 \in DOMAIN calls /\ (i - 1) + 1 = i
        BY <3>1, <3>3
      <4>2. /\ calls[i].node \in Children(graph, calls[i - 1].node)
            /\ calls[i - 1].node \in Below(graph, 1)
        BY <4>1 DEF PathOK
      <4>3. calls[i - 1].node = Top.node
        BY <1>1, <2>5, <2>7, <4>2, OneParent
      <4>4. i - 1 = Len(calls)
        BY <2>2, <4>1, <4>3 DEF PathOK
      <4> QED  BY <3>1, <4>4
    <3> QED  BY <3>2, <3>3
  <2> QED  BY <1>3, <2>1, <2>4, <2>5, <2>6, <2>7 DEF CallType
<1> QED  BY <1>2, <1>3

-----------------------------------------------------------------------------
(* How each step changes the frames.  Two frames are alike when at most      *)
(* their pending calls differ.                                             *)
Alike(f, h) ==
  /\ f.node = h.node /\ f.link_only = h.link_only /\ f.todo = h.todo
  /\ f.comp = h.comp /\ f.trimmed = h.trimmed

Entered ==
  [node |-> NextCall.node, link_only |-> NextCall.link_only,
   todo |-> Keys(UpdatedComponents(NextCall)),
   comp |-> None, pending |-> <<>>, trimmed |-> <<>>]

LEMMA EnterFrames ==
  ASSUME TypeOK, PathOK, Enter
  PROVE  /\ calls' \in Seq(Frame) /\ Len(calls') = Len(calls) + 1
         /\ DOMAIN calls' = 1..(Len(calls) + 1) /\ Len(calls) \in Nat
         /\ DOMAIN calls = 1..Len(calls)
         /\ calls'[Len(calls) + 1] = Entered
         /\ \A i \in 1..(Len(calls) - 1) : calls'[i] = calls[i]
         /\ calls # <<>> => calls'[Len(calls)] = [Top EXCEPT !.pending = Tail(@)]
         /\ \A i \in DOMAIN calls : /\ Alike(calls'[i], calls[i])
                                    /\ Range(calls'[i].pending) \subseteq Range(calls[i].pending)
<1> DEFINE F == Frame
<1>1. calls \in Seq(F) /\ calls' = Append(Callers, Entered)
  BY DEF TypeOK, Enter, Entered
<1>2. NextCall \in CallType /\ Calling
  BY CalledFacts DEF Enter
<1>3. Entered \in F
  <2>1. Keys(UpdatedComponents(NextCall)) \in SUBSET Comps
    BY DEF UpdatedComponents, Keys
  <2> QED  BY <1>2, <2>1 DEF Entered, Frame, CallType
<1>4. /\ Callers \in Seq(F) /\ Len(Callers) = Len(calls) /\ Len(calls) \in Nat
      /\ DOMAIN calls = 1..Len(calls)
      /\ \A i \in 1..(Len(calls) - 1) : Callers[i] = calls[i]
      /\ calls # <<>> => /\ Callers[Len(calls)] = [Top EXCEPT !.pending = Tail(@)]
                         /\ Alike(Callers[Len(calls)], calls[Len(calls)])
                         /\ Range(Callers[Len(calls)].pending)
                              \subseteq Range(calls[Len(calls)].pending)
  <2>1. CASE calls = <<>>
    <3>1. Callers = <<>>
      BY <2>1 DEF Callers
    <3> HIDE DEF F
    <3> QED  BY <2>1, <3>1
  <2>2. CASE calls # <<>>
    <3> DEFINE t == [Top EXCEPT !.pending = Tail(@)]
               C == CallType
    <3>1. Callers = Append(Front(calls), t)
      BY <2>2, SMTT(60) DEF Callers
    <3>2. /\ Len(calls) \in Nat /\ Len(calls) > 0 /\ DOMAIN calls = 1..Len(calls)
          /\ Top = calls[Len(calls)] /\ Top \in Frame
          /\ Front(calls) \in Seq(Frame) /\ Len(Front(calls)) = Len(calls) - 1
          /\ \A i \in 1..(Len(calls) - 1) : Front(calls)[i] = calls[i]
      BY <2>2, TopFacts
    <3>3. Top.pending \in Seq(C) /\ Top.pending # <<>>
      BY <2>2, <3>2, <1>2 DEF Calling, InCalls, Frame
    <3>4. /\ Tail(Top.pending) \in Seq(C)
          /\ Range(Tail(Top.pending)) \subseteq Range(Top.pending)
      <4> HIDE DEF C
      <4>1. \A s \in Seq(C) : s # <<>> => /\ Tail(s) \in Seq(C)
                                           /\ \A i \in DOMAIN Tail(s) : /\ i + 1 \in DOMAIN s
                                                                        /\ Tail(s)[i] = s[i + 1]
        OBVIOUS
      <4> QED  BY <3>3, <4>1 DEF Range
    <3>5. t \in F /\ t.pending = Tail(Top.pending) /\ Alike(t, Top)
      BY <3>2, <3>4 DEF Frame, Alike
    <3> HIDE DEF F, t
    <3>6. Front(calls) \in Seq(F)
      BY <3>2 DEF F
    <3>7. /\ Callers \in Seq(F) /\ Len(Callers) = Len(calls)
          /\ Callers[Len(calls)] = t
          /\ \A i \in 1..(Len(calls) - 1) : Callers[i] = calls[i]
      <4> DEFINE s == Front(calls)
      <4>1. s \in Seq(F) /\ t \in F /\ Callers = Append(s, t)
        BY <3>1, <3>5, <3>6
      <4>2. Len(s) \in Nat /\ Len(s) + 1 = Len(calls) /\ Len(calls) - 1 = Len(s)
        BY <3>2
      <4>3. \A i \in 1..Len(s) : s[i] = calls[i]
        BY <3>2
      <4> HIDE DEF s
      <4> QED  BY <4>1, <4>2, <4>3
    <3>8. t = [Top EXCEPT !.pending = Tail(@)]
      BY DEF t
    <3> QED  BY <3>2, <3>4, <3>5, <3>7, <3>8
  <2> QED  BY <2>1, <2>2
<1> HIDE DEF F
<1>5. /\ calls' \in Seq(F) /\ Len(calls') = Len(calls) + 1
      /\ DOMAIN calls' = 1..(Len(calls) + 1)
      /\ calls'[Len(calls) + 1] = Entered
      /\ \A i \in 1..Len(calls) : calls'[i] = Callers[i]
  BY <1>1, <1>3, <1>4
<1>6. ASSUME NEW i \in DOMAIN calls
      PROVE  /\ Alike(calls'[i], calls[i])
             /\ Range(calls'[i].pending) \subseteq Range(calls[i].pending)
  <2>1. CASE i = Len(calls)
    <3>1. calls # <<>> /\ calls'[i] = Callers[i]
      BY <1>4, <1>5, <2>1
    <3> QED  BY <1>4, <2>1, <3>1
  <2>2. CASE i # Len(calls)
    <3>1. calls'[i] = calls[i]
      BY <1>4, <1>5, <2>2
    <3> QED  BY <3>1 DEF Alike
  <2> QED  BY <2>1, <2>2
<1>7. \A i \in 1..(Len(calls) - 1) : calls'[i] = calls[i]
  BY <1>4, <1>5
<1>8. calls # <<>> => calls'[Len(calls)] = [Top EXCEPT !.pending = Tail(@)]
  <2>1. calls # <<>> => Len(calls) \in 1..Len(calls)
    BY TopFacts
  <2> QED  BY <1>4, <1>5, <2>1
<1> QED  BY <1>4, <1>5, <1>6, <1>7, <1>8 DEF F

LEMMA AppendFacts ==
  ASSUME NEW F, NEW s \in Seq(F), NEW f \in F
  PROVE  /\ Append(s, f) \in Seq(F) /\ Len(Append(s, f)) = Len(s) + 1
         /\ DOMAIN Append(s, f) = 1..(Len(s) + 1)
         /\ Append(s, f)[Len(s) + 1] = f
         /\ \A i \in 1..Len(s) : Append(s, f)[i] = s[i]
OBVIOUS

LEMMA SetTopFrames ==
  ASSUME TypeOK, calls # <<>>, NEW f \in Frame, calls' = Append(Front(calls), f)
  PROVE  /\ calls' \in Seq(Frame) /\ Len(calls') = Len(calls) /\ Len(calls) \in Nat
         /\ DOMAIN calls' = DOMAIN calls /\ DOMAIN calls = 1..Len(calls)
         /\ Len(calls) \in DOMAIN calls
         /\ calls'[Len(calls)] = f
         /\ \A i \in DOMAIN calls : i # Len(calls) => calls'[i] = calls[i]
<1> DEFINE s == Front(calls)
           F == Frame
<1>1. /\ Len(calls) \in Nat /\ Len(calls) > 0 /\ DOMAIN calls = 1..Len(calls)
      /\ s \in Seq(F) /\ Len(s) = Len(calls) - 1
      /\ \A i \in 1..(Len(calls) - 1) : s[i] = calls[i]
  BY TopFacts
<1>2. Len(s) \in Nat /\ Len(s) + 1 = Len(calls) /\ \A i \in 1..Len(s) : s[i] = calls[i]
  BY <1>1
<1>3. f \in F /\ calls' = Append(s, f)
  OBVIOUS
<1> HIDE DEF s, F
<1>4. PICK l \in Nat : l = Len(s) /\ Len(calls) = l + 1
  BY <1>2
<1>5. /\ calls' \in Seq(F) /\ Len(calls') = l + 1 /\ DOMAIN calls' = 1..(l + 1)
      /\ calls'[l + 1] = f /\ \A i \in 1..l : calls'[i] = s[i]
  <2>1. s \in Seq(F) /\ f \in F
    BY <1>1, <1>3
  <2>2. /\ Append(s, f) \in Seq(F) /\ Len(Append(s, f)) = Len(s) + 1
        /\ DOMAIN Append(s, f) = 1..(Len(s) + 1)
        /\ Append(s, f)[Len(s) + 1] = f
        /\ \A i \in 1..Len(s) : Append(s, f)[i] = s[i]
    BY <2>1, AppendFacts
  <2> QED  BY <1>3, <1>4, <2>2
<1>6. \A i \in 1..l : calls'[i] = calls[i]
  BY <1>2, <1>4, <1>5
<1>7. \A i \in DOMAIN calls : i # l + 1 => i \in 1..l
  BY <1>1, <1>4
<1>8. \A i \in DOMAIN calls : i # Len(calls) => calls'[i] = calls[i]
  BY <1>4, <1>6, <1>7
<1>9. calls'[Len(calls)] = f /\ DOMAIN calls' = 1..Len(calls) /\ Len(calls') = Len(calls)
  BY <1>4, <1>5
<1>10. calls' \in Seq(Frame)
  BY <1>5 DEF F
<1>11. Len(calls) \in Nat /\ DOMAIN calls = 1..Len(calls) /\ Len(calls) \in DOMAIN calls
  BY TopFacts
<1> QED  BY <1>8, <1>9, <1>10, <1>11

LEMMA ReturnFrames ==
  ASSUME TypeOK, Return
  PROVE  /\ calls # <<>> /\ calls' \in Seq(Frame) /\ Len(calls') = Len(calls) - 1
         /\ Len(calls) \in Nat
         /\ Len(calls) \in DOMAIN calls /\ DOMAIN calls = 1..Len(calls)
         /\ Top = calls[Len(calls)] /\ Top.comp = None /\ Top.todo = {}
         /\ DOMAIN calls' = 1..(Len(calls) - 1)
         /\ \A i \in DOMAIN calls' : i \in DOMAIN calls /\ calls'[i] = calls[i]
<1>1. calls # <<>> /\ calls' = Front(calls) /\ Top.comp = None /\ Top.todo = {}
  BY SMTT(60) DEF Return, InLoop
<1> DEFINE F == Frame
<1>2. /\ calls' \in Seq(F) /\ Len(calls') = Len(calls) - 1
      /\ \A i \in 1..(Len(calls) - 1) : calls'[i] = calls[i]
      /\ Len(calls) \in Nat /\ Len(calls) \in DOMAIN calls /\ DOMAIN calls = 1..Len(calls)
      /\ Top = calls[Len(calls)]
  BY <1>1, TopFacts
<1> HIDE DEF F
<1>3. DOMAIN calls' = 1..(Len(calls) - 1)
  BY <1>2
<1> QED  BY <1>1, <1>2, <1>3 DEF F

-----------------------------------------------------------------------------
(* A list of requirements makes a call to each child whose package it names. *)
LEMMA AskedNodes ==
  ASSUME NEW g, NEW n, NEW r, NEW link
  PROVE  /\ \A call \in Asked(g, n, r, link) :
              /\ call.node \in Children(g, n) /\ g[call.node].pkg.name \in DOMAIN r
              /\ call.link_only = link
              /\ call.components = r[g[call.node].pkg.name].components
              /\ call.defaults = r[g[call.node].pkg.name].defaults
         /\ \A k \in Children(g, n) : g[k].pkg.name \in DOMAIN r =>
              \E call \in Asked(g, n, r, link) : call.node = k
<1>1. ASSUME NEW call \in Asked(g, n, r, link)
      PROVE  /\ call.node \in Children(g, n) /\ g[call.node].pkg.name \in DOMAIN r
             /\ call.link_only = link
             /\ call.components = r[g[call.node].pkg.name].components
             /\ call.defaults = r[g[call.node].pkg.name].defaults
  <2>1. PICK k \in Children(g, n) :
           /\ g[k].pkg.name \in DOMAIN r
           /\ call = Call(k, r[g[k].pkg.name].components, r[g[k].pkg.name].defaults, link)
    BY DEF Asked
  <2>2. /\ call.node = k /\ call.link_only = link
        /\ call.components = r[g[k].pkg.name].components
        /\ call.defaults = r[g[k].pkg.name].defaults
    BY <2>1 DEF Call
  <2> QED  BY <2>1, <2>2
<1>2. ASSUME NEW k \in Children(g, n), g[k].pkg.name \in DOMAIN r
      PROVE  \E call \in Asked(g, n, r, link) : call.node = k
  <2> DEFINE call == Call(k, r[g[k].pkg.name].components, r[g[k].pkg.name].defaults, link)
  <2>1. call \in Asked(g, n, r, link)
    BY <1>2 DEF Asked
  <2>2. call.node = k
    BY DEF Call
  <2> QED  BY <2>1, <2>2
<1> QED  BY <1>1, <1>2

(* The calls that a component makes: what it asks for, each node once if    *)
(* its requires and its link_requires name no package both.                *)
LEMMA ComponentCallsAre ==
  ASSUME TypeOK, NEW n \in DOMAIN graph, NEW c \in Existing(n), NEW link \in BOOLEAN
  PROVE  LET cs == ComponentCalls(n, c, link)
             p  == graph[n].pkg
         IN  /\ cs \in Seq(CallType)
             /\ Range(cs) = CallsFor(nodes, n, c, link)
             /\ IsInjective(nodes[n].depends)
                  /\ DOMAIN Require(p, c) \cap DOMAIN LinkRequire(p, c) \subseteq {Self}
                => \A i, j \in DOMAIN cs : cs[i].node = cs[j].node => i = j
<1> DEFINE cs == ComponentCalls(n, c, link)
           p  == graph[n].pkg
           a  == ChildCalls(n, Require(p, c), link)
           b  == ChildCalls(n, LinkRequire(p, c), TRUE)
           C  == CallType
<1>1. /\ p \in Package /\ nodes[n].pkg = p /\ c \in Keys(p.components)
      /\ nodes[n].depends \in Seq(DOMAIN graph) /\ Children(nodes, n) \subseteq DOMAIN graph
  BY NodeFacts DEF Existing
<1>2. cs = a \o b
  BY <1>1 DEF ComponentCalls
<1>3. \A r \in {Require(p, c), LinkRequire(p, c)} : \A m \in DOMAIN r :
        r[m].components \in SUBSET Comps /\ r[m].defaults \in BOOLEAN
  BY <1>1, RequireTypes
<1>4. CallList(a, n, Require(p, c), link) /\ CallList(b, n, LinkRequire(p, c), TRUE)
  <2> HIDE DEF p
  <2>1. CallList(a, n, Require(p, c), link)
    BY <1>1, <1>3, ChildCallsAre
  <2>2. CallList(b, n, LinkRequire(p, c), TRUE)
    BY <1>1, <1>3, ChildCallsAre
  <2> QED  BY <2>1, <2>2
<1>5. a \in Seq(C) /\ b \in Seq(C)
  BY <1>4 DEF CallList
<1>6. Range(a) = Asked(nodes, n, Require(p, c), link)
      /\ Range(b) = Asked(nodes, n, LinkRequire(p, c), TRUE)
  BY <1>4 DEF CallList
<1> HIDE DEF a, b, cs, C
<1>7. PICK la \in Nat, lb \in Nat : la = Len(a) /\ lb = Len(b)
  BY <1>5
<1>8. /\ cs \in Seq(C) /\ DOMAIN cs = 1..(la + lb)
      /\ DOMAIN a = 1..la /\ DOMAIN b = 1..lb
      /\ \A i \in 1..la : cs[i] = a[i]
      /\ \A i \in 1..lb : cs[la + i] = b[i]
  <2>1. cs \in Seq(C) /\ Len(cs) = la + lb
    BY <1>2, <1>5, <1>7
  <2>2. \A i \in 1..la : cs[i] = a[i]
    BY <1>2, <1>5, <1>7
  <2>3. \A i \in 1..lb : cs[la + i] = b[i]
    BY <1>2, <1>5, <1>7
  <2> QED  BY <1>5, <1>7, <2>1, <2>2, <2>3
<1>9. \A i \in 1..(la + lb) : i \in 1..la \/ \E j \in 1..lb : i = la + j
  <2> TAKE i \in 1..(la + lb)
  <2>1. CASE i <= la
    BY <1>7, <2>1
  <2>2. CASE i > la
    <3>1. i - la \in 1..lb /\ i = la + (i - la)
      BY <1>7, <2>2
    <3> QED  BY <3>1
  <2> QED  BY <1>7, <2>1, <2>2
<1>10. Range(cs) = Range(a) \cup Range(b)
  <2>1. ASSUME NEW x \in Range(cs)  PROVE x \in Range(a) \cup Range(b)
    <3>1. PICK i \in 1..(la + lb) : x = cs[i]
      BY <1>8 DEF Range
    <3>2. CASE i \in 1..la
      BY <1>8, <3>1, <3>2 DEF Range
    <3>3. CASE \E j \in 1..lb : i = la + j
      BY <1>8, <3>1, <3>3 DEF Range
    <3> QED  BY <1>9, <3>2, <3>3
  <2>2. ASSUME NEW x \in Range(a)  PROVE x \in Range(cs)
    <3>1. PICK i \in 1..la : x = a[i]
      BY <1>8 DEF Range
    <3>2. i \in 1..(la + lb)
      BY <1>7
    <3> QED  BY <1>8, <3>1, <3>2 DEF Range
  <2>3. ASSUME NEW x \in Range(b)  PROVE x \in Range(cs)
    <3>1. PICK i \in 1..lb : x = b[i]
      BY <1>8 DEF Range
    <3>2. la + i \in 1..(la + lb)
      BY <1>7
    <3> QED  BY <1>8, <3>1, <3>2 DEF Range
  <2> QED  BY <2>1, <2>2, <2>3
<1>11. Range(cs) = CallsFor(nodes, n, c, link)
  BY <1>1, <1>6, <1>10 DEF CallsFor
<1>12. ASSUME IsInjective(nodes[n].depends),
              DOMAIN Require(p, c) \cap DOMAIN LinkRequire(p, c) \subseteq {Self},
              NEW i \in DOMAIN cs, NEW j \in DOMAIN cs, cs[i].node = cs[j].node
       PROVE  i = j
  <2>1. /\ \A q, r \in 1..la : a[q].node = a[r].node => q = r
        /\ \A q, r \in 1..lb : b[q].node = b[r].node => q = r
    BY <1>4, <1>8, <1>12 DEF CallList
  <2>2. ASSUME NEW q \in 1..la, NEW r \in 1..lb, a[q].node = b[r].node
        PROVE  FALSE
    <3>1. a[q] \in Asked(nodes, n, Require(p, c), link)
      BY <1>6, <1>8 DEF Range
    <3>2. b[r] \in Asked(nodes, n, LinkRequire(p, c), TRUE)
      BY <1>6, <1>8 DEF Range
    <3> DEFINE k == a[q].node
    <3>3. k \in Children(nodes, n) /\ nodes[k].pkg.name \in DOMAIN Require(p, c)
      BY <3>1, AskedNodes
    <3>4. nodes[k].pkg.name \in DOMAIN LinkRequire(p, c)
      <4>1. nodes[b[r].node].pkg.name \in DOMAIN LinkRequire(p, c)
        BY <3>2, AskedNodes
      <4> QED  BY <2>2, <4>1
    <3> HIDE DEF k
    <3>5. nodes[k].pkg.name \in Names
      <4>1. k \in DOMAIN graph
        BY <1>1, <3>3
      <4> QED  BY <4>1, NodeFacts DEF Package
    <3> QED  BY <1>12, <3>3, <3>4, <3>5, PackagesAssumption
  <2>3. CASE i \in 1..la /\ j \in 1..la
    BY <1>8, <1>12, <2>1, <2>3
  <2>4. CASE i \in 1..la /\ \E s \in 1..lb : j = la + s
    BY <1>8, <1>12, <2>2, <2>4
  <2>5. CASE j \in 1..la /\ \E s \in 1..lb : i = la + s
    <3>1. PICK s \in 1..lb : i = la + s
      BY <2>5
    <3>2. a[j].node = b[s].node
      BY <1>8, <1>12, <2>5, <3>1
    <3> QED  BY <2>2, <2>5, <3>2
  <2>6. CASE (\E s \in 1..lb : i = la + s) /\ (\E s \in 1..lb : j = la + s)
    <3>1. PICK s \in 1..lb : i = la + s
      BY <2>6
    <3>2. PICK r \in 1..lb : j = la + r
      BY <2>6
    <3>3. b[s].node = b[r].node
      BY <1>8, <1>12, <3>1, <3>2
    <3> QED  BY <2>1, <3>1, <3>2, <3>3
  <2> QED  BY <1>8, <1>9, <2>3, <2>4, <2>5, <2>6
<1>13. cs \in Seq(CallType)
  BY <1>8 DEF C
<1> HIDE DEF p
<1> QED  BY <1>11, <1>12, <1>13 DEF cs, p

(* They are to the children that it names.                                  *)
LEMMA CalledAreNamed ==
  ASSUME TypeOK, NEW n \in DOMAIN graph, NEW c \in Existing(n), NEW link
  PROVE  {call.node : call \in CallsFor(nodes, n, c, link)} =
           {k \in Children(nodes, n) : nodes[k].pkg.name \in NamedBy(nodes[n].pkg, c)}
<1> DEFINE p == nodes[n].pkg
<1>1. p = graph[n].pkg /\ c \in Keys(p.components) /\ Children(nodes, n) \subseteq DOMAIN graph
  BY NodeFacts DEF Existing
<1>2. \A k \in Children(nodes, n) : nodes[k].pkg.name # Self
  <2> TAKE k \in Children(nodes, n)
  <2>1. nodes[k].pkg.name \in Names
    BY <1>1, NodeFacts DEF Package
  <2> QED  BY <2>1, PackagesAssumption
<1>3. NamedBy(p, c) = (DOMAIN Require(p, c) \cup DOMAIN LinkRequire(p, c)) \ {Self}
  BY <1>1 DEF NamedBy
<1> HIDE DEF p
<1>4. CallsFor(nodes, n, c, link) =
        Asked(nodes, n, Require(p, c), link) \cup Asked(nodes, n, LinkRequire(p, c), TRUE)
  BY DEF CallsFor, p
<1>5. ASSUME NEW call \in CallsFor(nodes, n, c, link)
      PROVE  call.node \in Children(nodes, n) /\ nodes[call.node].pkg.name \in NamedBy(p, c)
  <2>1. CASE call \in Asked(nodes, n, Require(p, c), link)
    BY <1>2, <1>3, <2>1, AskedNodes
  <2>2. CASE call \in Asked(nodes, n, LinkRequire(p, c), TRUE)
    BY <1>2, <1>3, <2>2, AskedNodes
  <2> QED  BY <1>4, <2>1, <2>2
<1>6. ASSUME NEW k \in Children(nodes, n), nodes[k].pkg.name \in NamedBy(p, c)
      PROVE  \E call \in CallsFor(nodes, n, c, link) : call.node = k
  <2>1. CASE nodes[k].pkg.name \in DOMAIN Require(p, c)
    <3>1. PICK call \in Asked(nodes, n, Require(p, c), link) : call.node = k
      BY <2>1, AskedNodes
    <3> QED  BY <1>4, <3>1
  <2>2. CASE nodes[k].pkg.name \in DOMAIN LinkRequire(p, c)
    <3> DEFINE yes == TRUE
               r   == LinkRequire(p, c)
    <3>1. nodes[k].pkg.name \in DOMAIN r
      BY <2>2
    <3> HIDE DEF yes, r
    <3>2. PICK call \in Asked(nodes, n, r, yes) : call.node = k
      BY <3>1, AskedNodes
    <3>3. call \in Asked(nodes, n, LinkRequire(p, c), TRUE)
      BY <3>2 DEF yes, r
    <3> QED  BY <1>4, <3>2, <3>3
  <2> QED  BY <1>3, <1>6, <2>1, <2>2
<1> QED  BY <1>5, <1>6 DEF p

-----------------------------------------------------------------------------
(* What a call selects: what it lists, and what ":c" requires lead to.       *)
LEMMA ClosureFacts ==
  ASSUME TypeOK, NEW call \in CallType
  PROVE  LET n == call.node
         IN  /\ Listed(call) \subseteq Touched(call)
             /\ Touched(call) \subseteq Closure(call)
             /\ Closure(call) \subseteq Comps
             /\ Selected(n) \subseteq Closure(call)
             /\ \A c \in Closure(call) : SelfRequires(graph[n].pkg, c) \subseteq Touched(call)
             /\ \A G : /\ Selected(n) \cup Listed(call) \subseteq G
                       /\ \A c \in G \cap Comps : SelfRequires(graph[n].pkg, c) \subseteq G
                       => Closure(call) \subseteq G
<1> DEFINE n == call.node
           p == graph[n].pkg
           start == Selected(n) \cup Listed(call)
<1>1. n \in DOMAIN graph /\ call.components \in SUBSET Comps
  BY DEF CallType
<1>2. p \in Package /\ nodes[n].pkg = p /\ Selected(n) \subseteq Comps
  BY <1>1, NodeFacts
<1>3. Listed(call) \subseteq Comps
  <2>1. p.default_components \subseteq Comps
    BY <1>2 DEF Package
  <2> QED  BY <1>1, <1>2, <2>1 DEF Listed, Defaults
<1>4. Closure(call) = SelfClosure(p, start)
  BY <1>2 DEF Closure, Selected
<1>5. Touched(call) = Listed(call) \cup UNION {SelfRequires(p, c) : c \in Closure(call)}
  BY <1>2 DEF Touched
<1> HIDE DEF p, n, start
<1>6. start \subseteq Comps
  BY <1>2, <1>3 DEF start
<1>7. /\ SelfClosure(p, start) \subseteq Comps
      /\ start \subseteq SelfClosure(p, start)
      /\ \A c \in SelfClosure(p, start) : SelfRequires(p, c) \subseteq SelfClosure(p, start)
      /\ \A G : start \subseteq G /\ (\A c \in G \cap Comps : SelfRequires(p, c) \subseteq G)
                  => SelfClosure(p, start) \subseteq G
  BY <1>2, <1>6, SelfClosureLeast
<1>8. Listed(call) \subseteq Touched(call) /\ Touched(call) \subseteq Closure(call)
  BY <1>4, <1>5, <1>7 DEF start
<1>9. \A c \in Closure(call) : SelfRequires(p, c) \subseteq Touched(call)
  BY <1>5
<1>10. Selected(n) \subseteq Closure(call) /\ Closure(call) \subseteq Comps
  BY <1>4, <1>7 DEF start
<1>11. ASSUME NEW G, Selected(n) \cup Listed(call) \subseteq G,
              \A c \in G \cap Comps : SelfRequires(p, c) \subseteq G
       PROVE  Closure(call) \subseteq G
  BY <1>4, <1>7, <1>11 DEF start
<1> QED  BY <1>8, <1>9, <1>10, <1>11 DEF n, p

(* A component that is updated was there, or gets the call's link_only.      *)
Joined(old, new, link) ==
  /\ old = None => new = link
  /\ old # None => new = (old \/ link)

LEMMA EnterSelects ==
  ASSUME TypeOK, PathOK, Enter
  PROVE  LET n == NextCall.node
         IN  /\ NextCall \in CallType
             /\ selected' \in [DOMAIN graph -> [Comps -> BOOLEAN \cup {None}]]
             /\ \A m \in DOMAIN graph : m # n => selected'[m] = selected[m]
             /\ selected'[n] = UpdatedComponents(NextCall)
             /\ \A c \in Comps \ Touched(NextCall) : selected'[n][c] = selected[n][c]
             /\ \A c \in Touched(NextCall) :
                  /\ Joined(selected[n][c], selected'[n][c], NextCall.link_only)
                  /\ selected'[n][c] \in BOOLEAN
             /\ Keys(selected'[n]) = Selected(n) \cup Touched(NextCall)
             /\ Closure(NextCall) \subseteq Existing(n)
<1> DEFINE n == NextCall.node
           u == UpdatedComponents(NextCall)
           S == selected[n]
           link == NextCall.link_only
<1>1. NextCall \in CallType /\ n \in DOMAIN graph /\ link \in BOOLEAN
  BY CalledFacts DEF Enter, CallType
<1>2. /\ S \in [Comps -> BOOLEAN \cup {None}] /\ nodes[n].pkg = graph[n].pkg
      /\ Selected(n) = {c \in Comps : S[c] # None}
  BY <1>1, NodeFacts
<1>3. Touched(NextCall) \subseteq Comps
  <2>1. Touched(NextCall) \subseteq Closure(NextCall) /\ Closure(NextCall) \subseteq Comps
    BY <1>1, ClosureFacts
  <2> QED  BY <2>1
<1>4. Closure(NextCall) \subseteq Existing(n)
  BY <1>2 DEF Enter, AtThrows, Existing
<1>5. u = [c \in Comps |-> IF c \in Touched(NextCall) THEN Update(S[c], link) ELSE S[c]]
  BY DEF UpdatedComponents
<1>6. ASSUME NEW c \in Comps
      PROVE  /\ Update(S[c], link) \in BOOLEAN
             /\ Joined(S[c], Update(S[c], link), link)
  <2>1. CASE S[c] = None
    BY <1>1, <2>1 DEF Update, Joined
  <2>2. CASE S[c] # None
    <3>1. Update(S[c], link) = (S[c] \/ link)
      BY <2>2 DEF Update
    <3>2. (S[c] \/ link) \in BOOLEAN
      OBVIOUS
    <3> QED  BY <2>2, <3>1, <3>2 DEF Joined
  <2> QED  BY <2>1, <2>2
<1>7. u \in [Comps -> BOOLEAN \cup {None}]
  BY <1>2, <1>5, <1>6
<1>8. /\ \A c \in Touched(NextCall) : /\ Joined(S[c], u[c], link)
                                      /\ u[c] \in BOOLEAN
      /\ \A c \in Comps \ Touched(NextCall) : u[c] = S[c]
  BY <1>3, <1>5, <1>6
<1>9. Keys(u) = Selected(n) \cup Touched(NextCall)
  <2>1. \A c \in Comps : u[c] # None <=> S[c] # None \/ c \in Touched(NextCall)
    BY <1>8, GraphsAssumption
  <2>2. Keys(u) = {c \in Comps : u[c] # None}
    BY <1>7 DEF Keys
  <2> HIDE DEF u, S
  <2> QED  BY <1>2, <1>3, <2>1, <2>2
<1>10. selected' = [selected EXCEPT ![n] = u] /\ selected \in [DOMAIN graph -> [Comps -> BOOLEAN \cup {None}]]
  BY DEF Enter, TypeOK
<1> HIDE DEF u, n
<1>11. /\ selected' \in [DOMAIN graph -> [Comps -> BOOLEAN \cup {None}]]
       /\ \A m \in DOMAIN graph : m # n => selected'[m] = selected[m]
       /\ selected'[n] = u
  BY <1>1, <1>7, <1>10
<1> QED  BY <1>1, <1>4, <1>8, <1>9, <1>11 DEF u, n

-----------------------------------------------------------------------------
(* Each step preserves the invariant: a call is made.                       *)
LEMMA EnterPath ==
  ASSUME TypeOK, PathOK, Enter
  PROVE  TypeOK' /\ PathOK'
<1> DEFINE l == Len(calls)
           n == NextCall.node
<1>1. /\ graph' = graph /\ request' = request /\ nodes' = nodes /\ outcome' = outcome
      /\ outcome = "running" /\ Calling
  BY DEF Enter, Calling, InCalls, Running
<1>2. TypeOK'
  <2>1. Frame' = Frame
    BY <1>1 DEF Frame, CallType
  <2>2. selected' \in [DOMAIN graph -> [Comps -> BOOLEAN \cup {None}]]
    BY EnterSelects
  <2>3. calls' \in Seq(Frame)
    BY EnterFrames
  <2>4. /\ graph \in Graphs
        /\ request \in SUBSET Keys(graph[1].pkg.components)
        /\ nodes \in [DOMAIN graph -> [pkg : Package, depends : Seq(DOMAIN graph)]]
        /\ \A m \in DOMAIN graph : nodes[m].pkg = graph[m].pkg
    BY DEF TypeOK
  <2> QED  BY <1>1, <2>1, <2>2, <2>3, <2>4 DEF TypeOK
<1>3. /\ l \in Nat /\ DOMAIN calls = 1..l /\ DOMAIN calls' = 1..(l + 1)
      /\ calls'[l + 1] = Entered
      /\ \A i \in 1..l : /\ Alike(calls'[i], calls[i])
                         /\ Range(calls'[i].pending) \subseteq Range(calls[i].pending)
  BY EnterFrames
<1>4. /\ Entered.node = n /\ Entered.pending = <<>>
  BY DEF Entered
<1>5. /\ n \in Below(graph, 1)
      /\ calls = <<>> => n = 1
      /\ \A i \in 1..l : calls[i].node # n
      /\ calls # <<>> => /\ Top = calls[l] /\ Top.comp # None
                         /\ n \in Children(graph, Top.node)
      /\ calls # <<>> => 1 \in 1..l
      /\ calls = <<>> => l = 0
  <2>1. calls # <<>> => Top = calls[l] /\ 1 \in 1..l
    <3>1. calls # <<>> => Top = calls[l] /\ Len(calls) > 0 /\ Len(calls) \in Nat
      BY TopFacts
    <3> QED  BY <3>1
  <2> QED  BY <1>1, <1>3, <2>1, CalledFacts
<1> HIDE DEF l, n
<1>6. ASSUME NEW i \in 1..l
      PROVE  calls'[i].node = calls[i].node /\ calls'[i].comp = calls[i].comp
  BY <1>3 DEF Alike
<1>7. calls' # <<>> => calls'[1].node = 1
  <2>1. CASE calls = <<>>
    BY <1>3, <1>4, <1>5, <2>1
  <2>2. CASE calls # <<>>
    BY <1>5, <1>6, <2>2 DEF PathOK
  <2> QED  BY <2>1, <2>2
<1>8. ASSUME NEW i \in 1..(l + 1)
      PROVE  /\ calls'[i].node \in Below(graph, 1)
             /\ \A call \in Range(calls'[i].pending) :
                  calls'[i].comp # None /\ call.node \in Children(graph, calls'[i].node)
  <2>1. CASE i = l + 1
    <3>1. Range(<<>>) = {}
      BY DEF Range
    <3> QED  BY <1>3, <1>4, <1>5, <2>1, <3>1
  <2>2. CASE i # l + 1
    <3>1. i \in 1..l
      BY <1>3, <2>2
    <3> QED  BY <1>3, <1>6, <3>1 DEF PathOK
  <2> QED  BY <2>1, <2>2
<1>9. ASSUME NEW i \in 1..(l + 1), i + 1 \in 1..(l + 1)
      PROVE  calls'[i].comp # None /\ calls'[i + 1].node \in Children(graph, calls'[i].node)
  <2>1. i \in 1..l
    BY <1>3, <1>9
  <2>2. CASE i = l
    <3>1. calls # <<>>
      BY <1>5, <2>1
    <3> QED  BY <1>3, <1>4, <1>5, <1>6, <2>1, <2>2, <3>1
  <2>3. CASE i # l
    <3>1. i + 1 \in 1..l
      BY <1>3, <2>1, <2>3
    <3> QED  BY <1>3, <1>6, <2>1, <3>1 DEF PathOK
  <2> QED  BY <2>2, <2>3
<1>10. ASSUME NEW i \in 1..(l + 1), NEW j \in 1..(l + 1), calls'[i].node = calls'[j].node
       PROVE  i = j
  <2>1. \A k \in 1..(l + 1) : k # l + 1 => k \in 1..l
    BY <1>3
  <2>2. CASE i = l + 1 \/ j = l + 1
    BY <1>3, <1>4, <1>5, <1>6, <1>10, <2>1, <2>2
  <2>3. CASE i \in 1..l /\ j \in 1..l
    BY <1>3, <1>6, <1>10, <2>3 DEF PathOK
  <2> QED  BY <2>1, <2>2, <2>3
<1>11. PathOK'
  BY <1>1, <1>3, <1>7, <1>8, <1>9, <1>10 DEF PathOK
<1> QED  BY <1>2, <1>11

LEMMA EnterKept ==
  ASSUME SInv, Enter
  PROVE  SelectionOK' /\ TrimOK' /\ InjectiveOK' /\ KeptOK'
<1> PICK l : l = Len(calls)
  OBVIOUS
<1> PICK n : n = NextCall.node
  OBVIOUS
<1> DEFINE after(m) == Keys(selected'[m])
<1>1. /\ graph' = graph /\ nodes' = nodes /\ Calling
      /\ TypeOK /\ PathOK /\ SelectionOK /\ TrimOK /\ InjectiveOK /\ KeptOK
  BY DEF Enter, SInv
<1>2. /\ l \in Nat /\ DOMAIN calls = 1..l /\ DOMAIN calls' = 1..(l + 1)
      /\ calls'[l + 1] = Entered
      /\ \A i \in 1..l : Alike(calls'[i], calls[i])
  BY <1>1, EnterFrames
<1>3. /\ n \in DOMAIN graph /\ n \in Below(graph, 1)
      /\ \A i \in 1..l : calls[i].node # n
  BY <1>1, <1>2, CalledFacts
<1>4. /\ \A m \in DOMAIN graph : m # n => selected'[m] = selected[m]
      /\ selected'[n] = UpdatedComponents(NextCall)
      /\ after(n) = Selected(n) \cup Touched(NextCall)
      /\ Closure(NextCall) \subseteq Existing(n)
      /\ NextCall \in CallType
  BY <1>1, EnterSelects
<1>5. /\ Touched(NextCall) \subseteq Closure(NextCall)
      /\ \A c \in Closure(NextCall) : SelfRequires(graph[n].pkg, c) \subseteq Touched(NextCall)
  BY <1>1, <1>4, ClosureFacts
<1>6. /\ \A m \in DOMAIN graph : m # n => after(m) = Selected(m)
      /\ \A m : Selected(m)' = after(m)
      /\ \A m : Existing(m)' = Existing(m)
  BY <1>1, <1>4 DEF Selected, Existing
<1>7. /\ Entered.node = n /\ Entered.comp = None /\ Entered.todo = after(n)
  BY <1>4 DEF Entered
<1> HIDE DEF after
<1>8. \A i \in 1..l : /\ calls'[i].node = calls[i].node /\ calls'[i].comp = calls[i].comp
                      /\ calls'[i].todo = calls[i].todo /\ calls'[i].trimmed = calls[i].trimmed
                      /\ calls'[i].node # n /\ calls[i].node \in DOMAIN graph
  <2>1. \A i \in 1..l : calls[i].node \in DOMAIN graph
    BY <1>1, <1>2, FrameFacts
  <2> QED  BY <1>2, <1>3, <2>1 DEF Alike
<1>9. SelectionOK'
  <2>1. ASSUME NEW m \in DOMAIN graph
        PROVE  /\ after(m) # {} => m \in Below(graph, 1)
               /\ \A c \in after(m) :
                    c \in Existing(m) /\ SelfRequires(graph[m].pkg, c) \subseteq after(m)
    <3>1. CASE m = n
      <4>1. ASSUME NEW c \in after(n)
            PROVE  c \in Existing(n) /\ SelfRequires(graph[n].pkg, c) \subseteq after(n)
        <5>1. CASE c \in Selected(n)
          BY <1>1, <1>3, <1>4, <5>1 DEF SelectionOK
        <5>2. CASE c \in Touched(NextCall)
          BY <1>4, <1>5, <5>2
        <5> QED  BY <1>4, <4>1, <5>1, <5>2
      <4> QED  BY <1>3, <3>1, <4>1
    <3>2. CASE m # n
      BY <1>1, <1>6, <3>2 DEF SelectionOK
    <3> QED  BY <3>1, <3>2
  <2> QED  BY <1>1, <1>6, <2>1 DEF SelectionOK
<1>10. \A i \in 1..(l + 1) : i # l + 1 => i \in 1..l
  BY <1>2
<1>11. TrimOK'
  <2>1. ASSUME NEW i \in 1..(l + 1)
        PROVE  /\ calls'[i].todo \subseteq after(calls'[i].node)
               /\ calls'[i].comp # None => /\ calls'[i].comp \in after(calls'[i].node)
                                           /\ Range(calls'[i].trimmed) = Named(nodes, calls'[i])
    <3>1. CASE i = l + 1
      BY <1>2, <1>7, <3>1
    <3>2. CASE i \in 1..l
      <4>1. calls[i].node \in DOMAIN graph /\ after(calls'[i].node) = Selected(calls[i].node)
        BY <1>6, <1>8, <3>2
      <4>2. Named(nodes, calls'[i]) = Named(nodes, calls[i])
        BY <1>8, <3>2 DEF Named
      <4> QED  BY <1>1, <1>2, <1>8, <3>2, <4>1, <4>2 DEF TrimOK
    <3> QED  BY <1>10, <3>1, <3>2
  <2>2. \A m \in DOMAIN graph : Children(nodes, m) \subseteq Children(graph, m)
    BY <1>1 DEF TrimOK
  <2> QED  BY <1>1, <1>2, <1>6, <2>1, <2>2 DEF TrimOK
<1>12. \A m \in DOMAIN graph : Selected(m) \subseteq after(m)
  BY <1>4, <1>6
<1>13. \A m \in DOMAIN graph : Distinct(m)' => Distinct(m)
  BY <1>1, <1>6, <1>12 DEF Distinct
<1>14. InjectiveOK'
  <2>1. \A m \in Below(graph, 1) : m \in DOMAIN graph
    BY <1>1, BelowClosed DEF TypeOK
  <2>2. \A m \in Below(graph, 1) : Distinct(m)' => IsInjective(nodes[m].depends)
    BY <1>1, <1>13, <2>1 DEF InjectiveOK
  <2>3. ASSUME NEW i \in 1..(l + 1), calls'[i].comp # None, Distinct(calls[i].node)'
        PROVE  IsInjective(calls'[i].trimmed)
    <3>1. i \in 1..l
      BY <1>2, <1>7, <1>10, <2>3
    <3> PICK m \in DOMAIN graph : m = calls[i].node /\ m = calls'[i].node
      BY <1>8, <3>1
    <3>2. Distinct(m)'
      BY <2>3 DEF Distinct
    <3> QED  BY <1>1, <1>2, <1>8, <1>13, <2>3, <3>1, <3>2 DEF InjectiveOK
  <2> QED  BY <1>1, <1>2, <2>2, <2>3 DEF InjectiveOK
<1>15. KeptOK'
  <2>1. ASSUME NEW m \in DOMAIN graph, after(m) # {}
        PROVE  \/ Trimmed(m)'
               \/ \E i \in DOMAIN calls' :
                    calls'[i].node = m /\ (calls'[i].comp # None \/ calls'[i].todo # {})
    <3>1. CASE m = n
      <4>1. l + 1 \in DOMAIN calls'
        BY <1>2
      <4> QED  BY <1>2, <1>7, <2>1, <3>1, <4>1
    <3>2. CASE m # n
      <4>1. after(m) = Selected(m) /\ Selected(m)' = Selected(m)
        BY <1>6, <3>2
      <4>2. CASE Trimmed(m)
        BY <1>1, <4>1, <4>2 DEF Trimmed, Wants
      <4>3. CASE \E i \in DOMAIN calls :
                   calls[i].node = m /\ (calls[i].comp # None \/ calls[i].todo # {})
        <5>1. \A i \in 1..l : i \in DOMAIN calls'
          BY <1>2
        <5> QED  BY <1>2, <1>8, <4>3, <5>1
      <4> QED  BY <1>1, <2>1, <4>1, <4>2, <4>3 DEF KeptOK
    <3> QED  BY <3>1, <3>2
  <2> QED  BY <1>1, <1>6, <2>1 DEF KeptOK
<1> QED  BY <1>9, <1>11, <1>14, <1>15

-----------------------------------------------------------------------------
(* A component is taken up.                                                 *)
LEMMA BeginFrames ==
  ASSUME SInv, NEW c \in Comps, BeginComponent(c)
  PROVE  LET l  == Len(calls)
             n  == calls[l].node
             cs == ComponentCalls(n, c, calls[l].link_only)
         IN  /\ l \in Nat /\ DOMAIN calls = 1..l /\ l \in DOMAIN calls
             /\ calls' \in Seq(Frame) /\ DOMAIN calls' = 1..l
             /\ \A i \in 1..l : i # l => calls'[i] = calls[i]
             /\ calls'[l].node = n /\ calls'[l].link_only = calls[l].link_only
             /\ calls'[l].todo = calls[l].todo \ {c} /\ calls'[l].comp = c
             /\ calls'[l].pending = cs
             /\ calls'[l].trimmed = [k \in DOMAIN cs |-> cs[k].node]
             /\ calls[l].comp = None /\ c \in calls[l].todo
             /\ n \in DOMAIN graph /\ n \in Below(graph, 1)
             /\ c \in Selected(n) /\ c \in Existing(n) /\ c # None
             /\ cs \in Seq(CallType)
             /\ Range(cs) = CallsFor(nodes, n, c, calls[l].link_only)
             /\ Distinct(n) => IsInjective([k \in DOMAIN cs |-> cs[k].node])
<1> PICK l : l = Len(calls)
  OBVIOUS
<1>1. /\ calls # <<>> /\ Top.comp = None /\ c \in Top.todo /\ nodes' = nodes
      /\ TypeOK /\ PathOK /\ SelectionOK /\ TrimOK /\ InjectiveOK
  BY DEF BeginComponent, InLoop, SInv
<1>2. /\ l \in Nat /\ DOMAIN calls = 1..l /\ l \in DOMAIN calls
      /\ Top = calls[l] /\ calls[l] \in Frame
  BY <1>1, TopFacts
<1> PICK n : n = calls[l].node
  OBVIOUS
<1>3. n \in DOMAIN graph /\ n \in Below(graph, 1) /\ calls[l].link_only \in BOOLEAN
  BY <1>1, <1>2, FrameFacts DEF PathOK
<1>4. c \in Selected(n) /\ c \in Existing(n) /\ c # None
  BY <1>1, <1>2, <1>3, GraphsAssumption DEF TrimOK, SelectionOK
<1> PICK cs : cs = ComponentCalls(n, c, calls[l].link_only)
  OBVIOUS
<1>5. /\ cs \in Seq(CallType)
      /\ Range(cs) = CallsFor(nodes, n, c, calls[l].link_only)
      /\ IsInjective(nodes[n].depends)
           /\ DOMAIN Require(graph[n].pkg, c) \cap DOMAIN LinkRequire(graph[n].pkg, c)
                \subseteq {Self}
         => \A i, j \in DOMAIN cs : cs[i].node = cs[j].node => i = j
  <2> PICK link \in BOOLEAN : link = calls[l].link_only
    BY <1>3
  <2>1. /\ ComponentCalls(n, c, link) \in Seq(CallType)
        /\ Range(ComponentCalls(n, c, link)) = CallsFor(nodes, n, c, link)
        /\ IsInjective(nodes[n].depends)
             /\ DOMAIN Require(graph[n].pkg, c) \cap DOMAIN LinkRequire(graph[n].pkg, c)
                  \subseteq {Self}
           => \A i, j \in DOMAIN ComponentCalls(n, c, link) :
                ComponentCalls(n, c, link)[i].node = ComponentCalls(n, c, link)[j].node => i = j
    BY <1>1, <1>3, <1>4, ComponentCallsAre, SMTT(60)
  <2>2. cs = ComponentCalls(n, c, link)
    OBVIOUS
  <2> QED  BY <2>1, <2>2
<1>6. Distinct(n) => IsInjective([k \in DOMAIN cs |-> cs[k].node])
  <2>1. ASSUME Distinct(n)  PROVE IsInjective([k \in DOMAIN cs |-> cs[k].node])
    <3>1. \A i, j \in DOMAIN cs : cs[i].node = cs[j].node => i = j
      BY <1>1, <1>3, <1>4, <1>5, <2>1 DEF Distinct, InjectiveOK
    <3> QED  BY <3>1 DEF IsInjective
  <2> QED  BY <2>1
<1> DEFINE trimmed == [k \in DOMAIN cs |-> cs[k].node]
           f == [Top EXCEPT !.todo = @ \ {c}, !.comp = c, !.pending = cs, !.trimmed = trimmed]
<1>7. trimmed \in Seq(DOMAIN graph)
  <2> DEFINE C == CallType
             D == DOMAIN graph
  <2>1. \A call \in C : call.node \in D
    BY DEF CallType
  <2>2. cs \in Seq(C)
    BY <1>5
  <2> HIDE DEF C, D
  <2> PICK k \in Nat : k = Len(cs)
    BY <2>2
  <2>3. DOMAIN cs = 1..k /\ \A i \in 1..k : cs[i].node \in D
    BY <2>1, <2>2
  <2>4. trimmed = [i \in 1..k |-> cs[i].node]
    BY <2>3
  <2>5. trimmed \in Seq(D)
    BY <2>3, <2>4
  <2> QED  BY <2>5 DEF D
<1>8. /\ f \in Frame /\ f.node = n /\ f.link_only = calls[l].link_only
      /\ f.todo = calls[l].todo \ {c} /\ f.comp = c /\ f.pending = cs /\ f.trimmed = trimmed
  <2> DEFINE C == CallType
             D == DOMAIN graph
  <2> HIDE DEF trimmed
  <2>1. Top \in [node : D, link_only : BOOLEAN, todo : SUBSET Comps,
                 comp : Comps \cup {None}, pending : Seq(C), trimmed : Seq(D)]
    BY <1>2 DEF Frame
  <2>2. cs \in Seq(C) /\ trimmed \in Seq(D) /\ Top = calls[l]
    BY <1>2, <1>5, <1>7
  <2> HIDE DEF C, D
  <2>3. f \in [node : D, link_only : BOOLEAN, todo : SUBSET Comps,
               comp : Comps \cup {None}, pending : Seq(C), trimmed : Seq(D)]
    BY <2>1, <2>2, ZenonT(60)
  <2>4. /\ f.node = n /\ f.link_only = calls[l].link_only
        /\ f.todo = calls[l].todo \ {c} /\ f.comp = c /\ f.pending = cs /\ f.trimmed = trimmed
    BY <2>1, <2>2
  <2> HIDE DEF f
  <2> QED  BY <2>3, <2>4 DEF Frame, C, D
<1>9. calls' = Append(Front(calls), f)
  BY <1>2 DEF BeginComponent
<1> HIDE DEF f
<1>10. /\ calls' \in Seq(Frame) /\ DOMAIN calls' = DOMAIN calls
       /\ calls'[l] = f
       /\ \A i \in DOMAIN calls : i # l => calls'[i] = calls[i]
  BY <1>1, <1>8, <1>9, SetTopFrames
<1>11. DOMAIN calls' = 1..l /\ \A i \in 1..l : i # l => calls'[i] = calls[i]
  BY <1>2, <1>10
<1>12. /\ calls'[l].node = n /\ calls'[l].link_only = calls[l].link_only
       /\ calls'[l].todo = calls[l].todo \ {c} /\ calls'[l].comp = c
       /\ calls'[l].pending = cs /\ calls'[l].trimmed = trimmed
  BY <1>8, <1>10
<1>13. calls[l].comp = None /\ c \in calls[l].todo
  BY <1>1, <1>2
<1> QED  BY <1>2, <1>3, <1>4, <1>5, <1>6, <1>10, <1>11, <1>12, <1>13

LEMMA BeginKept ==
  ASSUME SInv, NEW c \in Comps, BeginComponent(c)
  PROVE  SInv'
<1> PICK l : l = Len(calls)
  OBVIOUS
<1> PICK n : n = calls[l].node
  OBVIOUS
<1> PICK cs : cs = ComponentCalls(n, c, calls[l].link_only)
  OBVIOUS
<1>1. /\ graph' = graph /\ nodes' = nodes /\ request' = request /\ selected' = selected
      /\ outcome' = outcome /\ outcome = "running"
      /\ TypeOK /\ PathOK /\ SelectionOK /\ TrimOK /\ InjectiveOK /\ KeptOK
  BY DEF BeginComponent, InLoop, Running, SInv
<1>2. /\ l \in Nat /\ DOMAIN calls = 1..l /\ l \in DOMAIN calls
      /\ calls' \in Seq(Frame) /\ DOMAIN calls' = 1..l
      /\ \A i \in 1..l : i # l => calls'[i] = calls[i]
      /\ calls'[l].node = n
      /\ calls'[l].todo = calls[l].todo \ {c} /\ calls'[l].comp = c
      /\ calls'[l].pending = cs
      /\ calls'[l].trimmed = [k \in DOMAIN cs |-> cs[k].node]
      /\ calls[l].comp = None
      /\ n \in DOMAIN graph /\ n \in Below(graph, 1)
      /\ c \in Selected(n) /\ c \in Existing(n) /\ c # None
      /\ Range(cs) = CallsFor(nodes, n, c, calls[l].link_only)
      /\ Distinct(n) => IsInjective([k \in DOMAIN cs |-> cs[k].node])
  BY BeginFrames
<1>3. TypeOK'
  <2>1. Frame' = Frame
    BY <1>1 DEF Frame, CallType
  <2>2. outcome' = "done" => calls' = <<>>
    BY <1>1
  <2> QED  BY <1>1, <1>2, <2>1, <2>2 DEF TypeOK
<1>4. \A i \in 1..l : calls'[i].node = calls[i].node
  BY <1>2
<1>5. {call.node : call \in Range(cs)} = Named(nodes, calls'[l])
  <2> PICK link : link = calls[l].link_only
    OBVIOUS
  <2>1. {call.node : call \in CallsFor(nodes, n, c, link)} =
          {k \in Children(nodes, n) : nodes[k].pkg.name \in NamedBy(nodes[n].pkg, c)}
    <3>1. TypeOK /\ n \in DOMAIN graph /\ c \in Existing(n)
      BY <1>1, <1>2
    <3> QED  BY <3>1, CalledAreNamed
  <2>2. calls'[l].node = n /\ calls'[l].comp = c
    BY <1>2
  <2>3. Named(nodes, calls'[l]) =
          {k \in Children(nodes, n) : nodes[k].pkg.name \in NamedBy(nodes[n].pkg, c)}
    BY <2>2 DEF Named
  <2>4. Range(cs) = CallsFor(nodes, n, c, link)
    BY <1>2
  <2> QED  BY <2>1, <2>3, <2>4
<1>6. Named(nodes, calls'[l]) \subseteq Children(graph, n)
  BY <1>1, <1>2 DEF TrimOK, Named
<1>7. PathOK'
  <2>1. calls' # <<>> => calls'[1].node = 1
    <3>1. calls # <<>> /\ 1 \in 1..l
      BY <1>2
    <3> QED  BY <1>1, <1>4, <3>1 DEF PathOK
  <2>2. ASSUME NEW i \in 1..l
        PROVE  /\ calls'[i].node \in Below(graph, 1)
               /\ \A call \in Range(calls'[i].pending) :
                    calls'[i].comp # None /\ call.node \in Children(graph, calls'[i].node)
    <3>1. CASE i = l
      BY <1>2, <1>5, <1>6, <3>1
    <3>2. CASE i # l
      BY <1>1, <1>2, <3>2 DEF PathOK
    <3> QED  BY <3>1, <3>2
  <2>3. ASSUME NEW i \in 1..l, i + 1 \in 1..l
        PROVE  calls'[i].comp # None /\ calls'[i + 1].node \in Children(graph, calls'[i].node)
    <3>1. i # l
      BY <1>2, <2>3
    <3> QED  BY <1>1, <1>2, <1>4, <2>3, <3>1 DEF PathOK
  <2>4. \A i, j \in 1..l : calls'[i].node = calls'[j].node => i = j
    BY <1>1, <1>2, <1>4 DEF PathOK
  <2> QED  BY <1>1, <1>2, <2>1, <2>2, <2>3, <2>4 DEF PathOK
<1>8. \A m : Selected(m)' = Selected(m) /\ Existing(m)' = Existing(m)
  BY <1>1 DEF Selected, Existing
<1>9. SelectionOK'
  BY <1>1, <1>8 DEF SelectionOK
<1>10. TrimOK'
  <2>1. ASSUME NEW i \in 1..l
        PROVE  /\ calls'[i].todo \subseteq Selected(calls[i].node)
               /\ calls'[i].comp # None => /\ calls'[i].comp \in Selected(calls[i].node)
                                           /\ Range(calls'[i].trimmed) = Named(nodes, calls'[i])
    <3>1. CASE i = l
      <4>1. Range([k \in DOMAIN cs |-> cs[k].node]) = {call.node : call \in Range(cs)}
        BY DEF Range
      <4> QED  BY <1>1, <1>2, <1>5, <3>1, <4>1 DEF TrimOK
    <3>2. CASE i # l
      BY <1>1, <1>2, <3>2 DEF TrimOK
    <3> QED  BY <3>1, <3>2
  <2>2. \A i \in 1..l : Selected(calls[i].node)' = Selected(calls[i].node)
    BY <1>1, <1>4 DEF Selected
  <2>3. \A m \in DOMAIN graph : Children(nodes, m) \subseteq Children(graph, m)
    BY <1>1 DEF TrimOK
  <2> QED  BY <1>1, <1>2, <2>1, <2>2, <2>3 DEF TrimOK
<1>11. \A m : Distinct(m)' = Distinct(m)
  BY <1>1, <1>8 DEF Distinct
<1>12. InjectiveOK'
  <2>1. ASSUME NEW i \in 1..l, calls'[i].comp # None, Distinct(calls[i].node)'
        PROVE  IsInjective(calls'[i].trimmed)
    <3> PICK m : m = calls[i].node /\ m = calls'[i].node
      BY <1>4
    <3>1. Distinct(m)
      BY <1>1, <2>1 DEF Distinct, Selected
    <3>2. CASE i = l
      BY <1>2, <3>1, <3>2
    <3>3. CASE i # l
      BY <1>1, <1>2, <2>1, <3>1, <3>3 DEF InjectiveOK
    <3> QED  BY <3>2, <3>3
  <2>2. \A m \in Below(graph, 1) : Distinct(m)' => IsInjective(nodes[m].depends)
    BY <1>1, <1>11 DEF InjectiveOK
  <2> QED  BY <1>1, <1>2, <2>1, <2>2 DEF InjectiveOK
<1>13. KeptOK'
  <2>1. ASSUME NEW m \in DOMAIN graph, Selected(m) # {}
        PROVE  \/ Trimmed(m)
               \/ \E i \in DOMAIN calls' :
                    calls'[i].node = m /\ (calls'[i].comp # None \/ calls'[i].todo # {})
    <3>1. CASE \E i \in 1..l :
                 calls[i].node = m /\ (calls[i].comp # None \/ calls[i].todo # {})
      <4>1. PICK i \in 1..l :
               calls[i].node = m /\ (calls[i].comp # None \/ calls[i].todo # {})
        BY <3>1
      <4>2. calls'[i].node = m /\ (calls'[i].comp # None \/ calls'[i].todo # {})
        BY <1>2, <4>1
      <4> QED  BY <1>2, <4>2
    <3>2. CASE Trimmed(m)
      BY <3>2
    <3> QED  BY <1>1, <1>2, <2>1, <3>1, <3>2 DEF KeptOK
  <2>2. \A m : Trimmed(m)' = Trimmed(m)
    BY <1>1, <1>8 DEF Trimmed, Wants
  <2> QED  BY <1>1, <1>8, <2>1, <2>2 DEF KeptOK
<1> QED  BY <1>3, <1>7, <1>9, <1>10, <1>12, <1>13 DEF SInv

-----------------------------------------------------------------------------
(* A component is done with, and its children take the place of depends.    *)
LEMMA EndFrames ==
  ASSUME SInv, EndComponent
  PROVE  LET l == Len(calls)
             n == calls[l].node
         IN  /\ l \in Nat /\ DOMAIN calls = 1..l /\ l \in DOMAIN calls
             /\ calls' \in Seq(Frame) /\ DOMAIN calls' = 1..l
             /\ \A i \in 1..l : i # l => calls'[i] = calls[i]
             /\ calls'[l] = [calls[l] EXCEPT !.comp = None]
             /\ calls[l].comp # None /\ calls[l].pending = <<>>
             /\ n \in DOMAIN graph /\ n \in Below(graph, 1)
             /\ nodes' \in [DOMAIN graph -> [pkg : Package, depends : Seq(DOMAIN graph)]]
             /\ \A m \in DOMAIN graph : nodes'[m].pkg = nodes[m].pkg
             /\ \A m \in DOMAIN graph : m # n => nodes'[m] = nodes[m]
             /\ nodes'[n].depends = calls[l].trimmed
             /\ Children(nodes', n) = Named(nodes, calls[l])
             /\ \A m \in DOMAIN graph : Children(nodes', m) \subseteq Children(nodes, m)
<1> PICK l : l = Len(calls)
  OBVIOUS
<1>1. /\ calls # <<>> /\ Top.comp # None /\ Top.pending = <<>>
      /\ TypeOK /\ PathOK /\ SelectionOK /\ TrimOK
  BY DEF EndComponent, InCalls, SInv
<1>2. /\ l \in Nat /\ DOMAIN calls = 1..l /\ l \in DOMAIN calls
      /\ Top = calls[l] /\ calls[l] \in Frame
  BY <1>1, TopFacts
<1> PICK n : n = calls[l].node
  OBVIOUS
<1>3. n \in DOMAIN graph /\ n \in Below(graph, 1)
  BY <1>1, <1>2, FrameFacts DEF PathOK
<1> DEFINE f == [Top EXCEPT !.comp = None]
<1>4. f \in Frame
  BY <1>2 DEF Frame
<1>5. calls' = Append(Front(calls), f)
  BY <1>2 DEF EndComponent
<1>6. f = [calls[l] EXCEPT !.comp = None]
  BY <1>2
<1> HIDE DEF f
<1>7. /\ calls' \in Seq(Frame) /\ DOMAIN calls' = DOMAIN calls
      /\ calls'[l] = f
      /\ \A i \in DOMAIN calls : i # l => calls'[i] = calls[i]
  BY <1>1, <1>4, <1>5, SetTopFrames
<1> DEFINE D == DOMAIN graph
           t == calls[l].trimmed
<1>8. t \in Seq(D)
  BY <1>2 DEF Frame
<1>9. nodes' = [nodes EXCEPT ![n].depends = t]
  BY <1>2 DEF EndComponent, DependsAfter
<1>10. nodes \in [D -> [pkg : Package, depends : Seq(D)]] /\ n \in D
  BY <1>1, <1>3 DEF TypeOK
<1> HIDE DEF D, t
<1>11. /\ nodes' \in [D -> [pkg : Package, depends : Seq(D)]]
       /\ \A m \in D : nodes'[m].pkg = nodes[m].pkg
       /\ \A m \in D : m # n => nodes'[m] = nodes[m]
       /\ nodes'[n].depends = t
  <2>1. nodes[n] \in [pkg : Package, depends : Seq(D)]
    BY <1>10
  <2>2. nodes'[n] = [nodes[n] EXCEPT !.depends = t]
    BY <1>9, <1>10
  <2>3. \A m \in D : m # n => nodes'[m] = nodes[m]
    BY <1>9, <1>10
  <2>4. /\ nodes'[n] \in [pkg : Package, depends : Seq(D)]
        /\ nodes'[n].pkg = nodes[n].pkg /\ nodes'[n].depends = t
    BY <1>8, <2>1, <2>2
  <2>5. nodes' = [m \in D |-> nodes'[m]]
    BY <1>9, <1>10
  <2>6. \A m \in D : nodes'[m] \in [pkg : Package, depends : Seq(D)]
    BY <1>10, <2>3, <2>4
  <2> QED  BY <2>3, <2>4, <2>5, <2>6
<1>12. Children(nodes', n) = Named(nodes, calls[l])
  BY <1>1, <1>2, <1>11 DEF TrimOK, Children, t
<1>13. \A m \in D : Children(nodes', m) \subseteq Children(nodes, m)
  <2> TAKE m \in D
  <2>1. CASE m = n
    BY <1>12, <2>1 DEF Named
  <2>2. CASE m # n
    BY <1>11, <2>2 DEF Children
  <2> QED  BY <2>1, <2>2
<1>14. DOMAIN calls' = 1..l /\ \A i \in 1..l : i # l => calls'[i] = calls[i]
  BY <1>2, <1>7
<1>15. calls[l].comp # None /\ calls[l].pending = <<>>
  BY <1>1, <1>2
<1> QED  BY <1>2, <1>3, <1>6, <1>7, <1>11, <1>12, <1>13, <1>14, <1>15 DEF D, t

LEMMA EndKept ==
  ASSUME SInv, EndComponent
  PROVE  SInv'
<1> PICK l : l = Len(calls)
  OBVIOUS
<1> PICK n : n = calls[l].node
  OBVIOUS
<1>1. /\ graph' = graph /\ request' = request /\ selected' = selected
      /\ outcome' = outcome /\ outcome = "running"
      /\ TypeOK /\ PathOK /\ SelectionOK /\ TrimOK /\ InjectiveOK /\ KeptOK
  BY DEF EndComponent, InCalls, Running, SInv
<1>2. /\ l \in Nat /\ DOMAIN calls = 1..l /\ l \in DOMAIN calls
      /\ calls' \in Seq(Frame) /\ DOMAIN calls' = 1..l
      /\ \A i \in 1..l : i # l => calls'[i] = calls[i]
      /\ calls'[l] = [calls[l] EXCEPT !.comp = None]
      /\ calls[l].comp # None
      /\ n \in DOMAIN graph /\ n \in Below(graph, 1)
      /\ nodes' \in [DOMAIN graph -> [pkg : Package, depends : Seq(DOMAIN graph)]]
      /\ \A m \in DOMAIN graph : nodes'[m].pkg = nodes[m].pkg
      /\ \A m \in DOMAIN graph : m # n => nodes'[m] = nodes[m]
      /\ nodes'[n].depends = calls[l].trimmed
      /\ Children(nodes', n) = Named(nodes, calls[l])
      /\ \A m \in DOMAIN graph : Children(nodes', m) \subseteq Children(nodes, m)
  BY EndFrames
<1>3. /\ calls'[l].node = n /\ calls'[l].todo = calls[l].todo
      /\ calls'[l].pending = calls[l].pending /\ calls'[l].comp = None
  <2>1. calls[l] \in Frame
    BY <1>1, <1>2, FrameFacts
  <2> QED  BY <1>2, <2>1 DEF Frame
<1>4. \A i \in 1..l : /\ calls'[i].node = calls[i].node /\ calls'[i].todo = calls[i].todo
                      /\ calls'[i].pending = calls[i].pending
                      /\ calls[i].node \in DOMAIN graph
  <2> SUFFICES ASSUME NEW i \in 1..l
               PROVE  /\ calls'[i].node = calls[i].node /\ calls'[i].todo = calls[i].todo
                      /\ calls'[i].pending = calls[i].pending
                      /\ calls[i].node \in DOMAIN graph
    OBVIOUS
  <2>1. calls[i].node \in DOMAIN graph
    BY <1>1, <1>2, FrameFacts
  <2>2. CASE i = l
    BY <1>3, <2>1, <2>2
  <2>3. CASE i # l
    <3>1. calls'[i] = calls[i]
      BY <1>2, <2>3
    <3> QED  BY <2>1, <3>1
  <2> QED  BY <2>2, <2>3
<1>5. TypeOK'
  <2>1. Frame' = Frame
    BY <1>1 DEF Frame, CallType
  <2>2. outcome' = "done" => calls' = <<>>
    BY <1>1
  <2>3. \A m \in DOMAIN graph : nodes'[m].pkg = graph[m].pkg
    BY <1>1, <1>2 DEF TypeOK
  <2> QED  BY <1>1, <1>2, <2>1, <2>2, <2>3 DEF TypeOK
<1>6. PathOK'
  <2>1. calls' # <<>> => calls'[1].node = 1
    <3>1. calls # <<>> /\ 1 \in 1..l
      BY <1>2
    <3> QED  BY <1>1, <1>4, <3>1 DEF PathOK
  <2>2. ASSUME NEW i \in 1..l
        PROVE  /\ calls'[i].node \in Below(graph, 1)
               /\ \A call \in Range(calls'[i].pending) :
                    calls'[i].comp # None /\ call.node \in Children(graph, calls'[i].node)
    <3>1. CASE i = l
      <4>1. calls'[l].pending = <<>>
        BY <1>3 DEF EndComponent, Top, Last
      <4>2. Range(<<>>) = {}
        BY DEF Range
      <4> QED  BY <1>2, <1>3, <3>1, <4>1, <4>2
    <3>2. CASE i # l
      BY <1>1, <1>2, <3>2 DEF PathOK
    <3> QED  BY <3>1, <3>2
  <2>3. ASSUME NEW i \in 1..l, i + 1 \in 1..l
        PROVE  calls'[i].comp # None /\ calls'[i + 1].node \in Children(graph, calls'[i].node)
    <3>1. i # l
      BY <1>2, <2>3
    <3> QED  BY <1>1, <1>2, <1>4, <2>3, <3>1 DEF PathOK
  <2>4. \A i, j \in 1..l : calls'[i].node = calls'[j].node => i = j
    BY <1>1, <1>2, <1>4 DEF PathOK
  <2> QED  BY <1>1, <1>2, <2>1, <2>2, <2>3, <2>4 DEF PathOK
<1>7. \A m : Selected(m)' = Selected(m) /\ Existing(m)' = Existing(m)
  BY <1>1 DEF Selected, Existing
<1>8. SelectionOK'
  BY <1>1, <1>7 DEF SelectionOK
<1>9. \A i \in 1..l : i # l => calls[i].node # n
  BY <1>1, <1>2 DEF PathOK
<1>10. TrimOK'
  <2>1. ASSUME NEW i \in 1..l
        PROVE  /\ calls'[i].todo \subseteq Selected(calls[i].node)
               /\ calls'[i].comp # None => /\ calls'[i].comp \in Selected(calls[i].node)
                                           /\ Range(calls'[i].trimmed) = Named(nodes', calls'[i])
    <3>1. CASE i = l
      BY <1>1, <1>2, <1>3, <3>1 DEF TrimOK
    <3>2. CASE i # l
      <4> PICK m \in DOMAIN graph : m = calls[i].node
        BY <1>4
      <4>1. nodes'[m] = nodes[m] /\ \A k \in Children(nodes, m) : nodes'[k].pkg = nodes[k].pkg
        <5>1. Children(nodes, m) \subseteq DOMAIN graph
          BY <1>1, NodeFacts
        <5> QED  BY <1>2, <1>9, <3>2, <5>1
      <4>2. Children(nodes', m) = Children(nodes, m)
        BY <4>1 DEF Children
      <4>3. Named(nodes', calls[i]) = Named(nodes, calls[i])
        BY <4>1, <4>2 DEF Named
      <4> QED  BY <1>1, <1>2, <3>2, <4>3 DEF TrimOK
    <3> QED  BY <3>1, <3>2
  <2>2. \A i \in 1..l : Selected(calls[i].node)' = Selected(calls[i].node)
    BY <1>1, <1>4 DEF Selected
  <2>3. \A m \in DOMAIN graph : Children(nodes', m) \subseteq Children(graph, m)
    BY <1>1, <1>2 DEF TrimOK
  <2> QED  BY <1>1, <1>2, <2>1, <2>2, <2>3 DEF TrimOK
<1>11. \A m : Distinct(m)' = Distinct(m)
  BY <1>1, <1>7 DEF Distinct
<1>12. InjectiveOK'
  <2>1. ASSUME NEW i \in 1..l, calls'[i].comp # None, Distinct(calls[i].node)'
        PROVE  IsInjective(calls'[i].trimmed)
    <3> PICK m : m = calls[i].node /\ m = calls'[i].node
      BY <1>4
    <3>1. Distinct(m)
      BY <1>1, <2>1 DEF Distinct, Selected
    <3>2. i # l
      BY <1>3, <2>1
    <3> QED  BY <1>1, <1>2, <2>1, <3>1, <3>2 DEF InjectiveOK
  <2>2. ASSUME NEW m \in Below(graph, 1), Distinct(m)  PROVE IsInjective(nodes'[m].depends)
    <3>1. m \in DOMAIN graph
      BY <1>1, BelowClosed DEF TypeOK
    <3>2. CASE m = n
      BY <1>1, <1>2, <2>2, <3>2 DEF InjectiveOK
    <3>3. CASE m # n
      BY <1>1, <1>2, <2>2, <3>1, <3>3 DEF InjectiveOK
    <3> QED  BY <3>2, <3>3
  <2> QED  BY <1>1, <1>2, <1>11, <2>1, <2>2 DEF InjectiveOK
<1>13. KeptOK'
  <2>1. ASSUME NEW m \in DOMAIN graph, Selected(m) # {}
        PROVE  \/ \E c \in Selected(m) : Children(nodes', m) \subseteq Wants(m, c)
               \/ \E i \in DOMAIN calls' :
                    calls'[i].node = m /\ (calls'[i].comp # None \/ calls'[i].todo # {})
    <3>1. CASE m = n
      <4> DEFINE c == calls[l].comp
      <4>1. c \in Selected(n)
        BY <1>1, <1>2 DEF TrimOK
      <4>2. Children(nodes', n) \subseteq Wants(n, c)
        <5>1. ASSUME NEW k \in Children(nodes', n)  PROVE k \in Wants(n, c)
          <6>1. /\ k \in Children(nodes, n)
                /\ nodes[k].pkg.name \in NamedBy(nodes[n].pkg, c)
            BY <1>2 DEF Named
          <6>2. k \in Children(graph, n) /\ k \in DOMAIN graph
            BY <1>1, <1>2, <6>1, NodeFacts DEF TrimOK
          <6> QED  BY <1>1, <1>2, <6>1, <6>2 DEF Wants, WantsIn, TypeOK
        <5> QED  BY <5>1
      <4> QED  BY <3>1, <4>1, <4>2
    <3>2. CASE m # n
      <4>1. Children(nodes', m) = Children(nodes, m)
        BY <1>2, <3>2 DEF Children
      <4>2. CASE \E i \in 1..l :
                   calls[i].node = m /\ (calls[i].comp # None \/ calls[i].todo # {})
        <5>1. PICK i \in 1..l :
                 calls[i].node = m /\ (calls[i].comp # None \/ calls[i].todo # {})
          BY <4>2
        <5>2. i # l
          BY <3>2, <5>1
        <5> QED  BY <1>2, <5>1, <5>2
      <4>3. CASE Trimmed(m)
        BY <4>1, <4>3 DEF Trimmed
      <4>4. \/ Trimmed(m)
            \/ \E i \in 1..l :
                 calls[i].node = m /\ (calls[i].comp # None \/ calls[i].todo # {})
        <5>1. KeptOK /\ DOMAIN calls = 1..l
          BY <1>1, <1>2
        <5> QED  BY <2>1, <5>1 DEF KeptOK
      <4> QED  BY <4>2, <4>3, <4>4
    <3> QED  BY <3>1, <3>2
  <2>2. \A m, c : Wants(m, c)' = Wants(m, c)
    BY <1>1 DEF Wants
  <2> QED  BY <1>1, <1>7, <2>1, <2>2 DEF KeptOK, Trimmed
<1> QED  BY <1>5, <1>6, <1>8, <1>10, <1>12, <1>13 DEF SInv

-----------------------------------------------------------------------------
(* A call returns; a call throws.                                           *)
LEMMA ReturnKept ==
  ASSUME SInv, Return
  PROVE  SInv'
<1> PICK l : l = Len(calls)
  OBVIOUS
<1>1. /\ graph' = graph /\ request' = request /\ nodes' = nodes /\ selected' = selected
      /\ outcome' = (IF Len(calls) = 1 THEN "done" ELSE outcome) /\ outcome = "running"
      /\ TypeOK /\ PathOK /\ SelectionOK /\ TrimOK /\ InjectiveOK /\ KeptOK
  BY DEF Return, InLoop, Running, SInv
<1>2. /\ calls # <<>> /\ calls' \in Seq(Frame) /\ Len(calls') = l - 1 /\ l \in Nat
      /\ l \in DOMAIN calls /\ DOMAIN calls = 1..l
      /\ calls[l].comp = None /\ calls[l].todo = {}
      /\ DOMAIN calls' = 1..(l - 1)
      /\ \A i \in 1..(l - 1) : i \in 1..l /\ calls'[i] = calls[i]
  BY <1>1, ReturnFrames
<1>3. TypeOK'
  <2>1. Frame' = Frame
    BY <1>1 DEF Frame, CallType
  <2>2. outcome' = "done" => calls' = <<>>
    <3>1. l = 1 => calls' = <<>>
      BY <1>2, EmptySeq
    <3> QED  BY <1>1, <3>1
  <2>3. outcome' \in {"running", "done", "terminated"}
    BY <1>1
  <2> QED  BY <1>1, <1>2, <2>1, <2>2, <2>3 DEF TypeOK
<1>4. PathOK'
  <2>1. calls' # <<>> => calls'[1].node = 1
    <3>1. calls' # <<>> => 1 \in 1..(l - 1)
      BY <1>2, EmptySeq
    <3> QED  BY <1>1, <1>2, <3>1 DEF PathOK
  <2>2. \A i \in 1..(l - 1) :
          /\ calls'[i].node \in Below(graph, 1)
          /\ \A call \in Range(calls'[i].pending) :
               calls'[i].comp # None /\ call.node \in Children(graph, calls'[i].node)
    BY <1>1, <1>2 DEF PathOK
  <2>3. \A i \in 1..(l - 1) : i + 1 \in 1..(l - 1) =>
          calls'[i].comp # None /\ calls'[i + 1].node \in Children(graph, calls'[i].node)
    BY <1>1, <1>2 DEF PathOK
  <2>4. ASSUME NEW i \in 1..(l - 1), NEW j \in 1..(l - 1), calls'[i].node = calls'[j].node
        PROVE  i = j
    <3>1. i \in DOMAIN calls /\ j \in DOMAIN calls /\ calls[i].node = calls[j].node
      BY <1>2, <2>4
    <3> QED  BY <1>1, <3>1 DEF PathOK
  <2> QED  BY <1>1, <1>2, <2>1, <2>2, <2>3, <2>4 DEF PathOK
<1>5. \A m : Selected(m)' = Selected(m) /\ Existing(m)' = Existing(m)
  BY <1>1 DEF Selected, Existing
<1>6. SelectionOK'
  BY <1>1, <1>5 DEF SelectionOK
<1>7. TrimOK'
  <2>1. \A i \in 1..(l - 1) :
          /\ calls'[i].todo \subseteq Selected(calls[i].node)
          /\ calls'[i].comp # None => /\ calls'[i].comp \in Selected(calls[i].node)
                                      /\ Range(calls'[i].trimmed) = Named(nodes, calls'[i])
    BY <1>1, <1>2 DEF TrimOK
  <2>2. \A i \in 1..(l - 1) : Selected(calls[i].node)' = Selected(calls[i].node)
    BY <1>1, <1>2 DEF Selected
  <2>3. \A m \in DOMAIN graph : Children(nodes, m) \subseteq Children(graph, m)
    BY <1>1 DEF TrimOK
  <2> QED  BY <1>1, <1>2, <2>1, <2>2, <2>3 DEF TrimOK
<1>8. \A m : Distinct(m)' = Distinct(m)
  BY <1>1, <1>5 DEF Distinct
<1>9. InjectiveOK'
  <2>1. ASSUME NEW i \in 1..(l - 1), calls'[i].comp # None, Distinct(calls[i].node)'
        PROVE  IsInjective(calls'[i].trimmed)
    <3> PICK m : m = calls[i].node /\ m = calls'[i].node
      BY <1>2
    <3>1. Distinct(m)
      BY <1>1, <2>1 DEF Distinct, Selected
    <3> QED  BY <1>1, <1>2, <2>1, <3>1 DEF InjectiveOK
  <2>2. \A m \in Below(graph, 1) : Distinct(m)' => IsInjective(nodes[m].depends)
    BY <1>1, <1>8 DEF InjectiveOK
  <2> QED  BY <1>1, <1>2, <2>1, <2>2 DEF InjectiveOK
<1>10. KeptOK'
  <2>1. ASSUME NEW m \in DOMAIN graph, Selected(m) # {}
        PROVE  \/ Trimmed(m)
               \/ \E i \in DOMAIN calls' :
                    calls'[i].node = m /\ (calls'[i].comp # None \/ calls'[i].todo # {})
    <3>1. CASE \E i \in 1..l :
                 calls[i].node = m /\ (calls[i].comp # None \/ calls[i].todo # {})
      <4>1. PICK i \in 1..l :
               calls[i].node = m /\ (calls[i].comp # None \/ calls[i].todo # {})
        BY <3>1
      <4>2. i \in 1..(l - 1)
        <5>1. i # l
          BY <1>2, <4>1
        <5> QED  BY <1>2, <5>1
      <4> QED  BY <1>2, <4>1, <4>2
    <3>2. CASE Trimmed(m)
      BY <3>2
    <3> QED  BY <1>1, <1>2, <2>1, <3>1, <3>2 DEF KeptOK
  <2>2. \A m : Trimmed(m)' = Trimmed(m)
    BY <1>1, <1>5 DEF Trimmed, Wants
  <2> QED  BY <1>1, <1>5, <2>1, <2>2 DEF KeptOK
<1> QED  BY <1>3, <1>4, <1>6, <1>7, <1>9, <1>10 DEF SInv

(* Nothing but the outcome changes.                                         *)
LEMMA StillKept ==
  ASSUME SInv, UNCHANGED <<graph, request, nodes, selected, calls>>,
         outcome' \in {outcome, "terminated"}
  PROVE  SInv'
<1>1. TypeOK'
  <2>1. Frame' = Frame
    BY DEF Frame, CallType
  <2> QED  BY <2>1 DEF SInv, TypeOK
<1>2. \A m : /\ Selected(m)' = Selected(m) /\ Existing(m)' = Existing(m)
             /\ Distinct(m)' = Distinct(m) /\ Trimmed(m)' = Trimmed(m)
  BY DEF Selected, Existing, Distinct, Trimmed, Wants
<1>3. PathOK' /\ SelectionOK' /\ TrimOK' /\ InjectiveOK' /\ KeptOK'
  BY DEF SInv, PathOK, SelectionOK, TrimOK, InjectiveOK, KeptOK, Selected, Existing,
         Distinct, Trimmed, Wants
<1> QED  BY <1>1, <1>3 DEF SInv

LEMMA InitSInv == Init => SInv
<1> SUFFICES ASSUME Init  PROVE SInv
  OBVIOUS
<1>1. /\ graph \in Graphs /\ nodes = graph /\ calls = <<>> /\ outcome = "running"
      /\ selected = [n \in DOMAIN graph |-> Nothing]
      /\ request \subseteq Keys(graph[1].pkg.components)
  BY DEF Init
<1>2. graph \in [DOMAIN graph -> [pkg : Package, depends : Seq(DOMAIN graph)]]
  <2> DEFINE X == [pkg : Package, depends : Seq(DOMAIN graph)]
  <2>1. graph \in Seq(X)
    BY <1>1, GraphFacts
  <2> HIDE DEF X
  <2>2. graph \in [DOMAIN graph -> X]
    BY <2>1
  <2> QED  BY <2>2 DEF X
<1>3. Nothing \in [Comps -> BOOLEAN \cup {None}]
  BY DEF Nothing
<1>4. calls \in Seq(Frame) /\ DOMAIN calls = {}
  BY <1>1
<1>5. TypeOK
  BY <1>1, <1>2, <1>3, <1>4 DEF TypeOK
<1>6. \A n \in DOMAIN graph : Selected(n) = {}
  BY <1>1 DEF Selected, Keys, Nothing
<1>7. PathOK /\ SelectionOK
  BY <1>1, <1>4, <1>6 DEF PathOK, SelectionOK
<1>8. TrimOK /\ KeptOK
  BY <1>1, <1>4, <1>6 DEF TrimOK, KeptOK
<1>9. InjectiveOK
  BY <1>1, <1>4, ChildrenOnce DEF InjectiveOK
<1> QED  BY <1>5, <1>7, <1>8, <1>9 DEF SInv

LEMMA NextSInv == SInv /\ [Next]_vars => SInv'
<1> SUFFICES ASSUME SInv, [Next]_vars  PROVE SInv'
  OBVIOUS
<1>1. CASE Enter
  BY <1>1, EnterPath, EnterKept DEF SInv
<1>2. CASE \E c \in Comps : BeginComponent(c)
  BY <1>2, BeginKept
<1>3. CASE EndComponent
  BY <1>3, EndKept
<1>4. CASE Return
  BY <1>4, ReturnKept
<1>5. CASE Throw
  BY <1>5, StillKept DEF Throw
<1>6. CASE UNCHANGED vars
  BY <1>6, StillKept DEF vars
<1> QED  BY <1>1, <1>2, <1>3, <1>4, <1>5, <1>6 DEF Next

(* The invariant behind what follows: the calls are a path down the tree    *)
(* without a node twice, a selection is closed, and a node with components   *)
(* has only children that one of them asks for, or is being visited.        *)
THEOREM SelectionHolds == Spec => []SInv
BY InitSInv, NextSInv, PTL DEF Spec

(* At every point the components selected of a node exist in its package     *)
(* and are closed under what they require of their own package: the loop in  *)
(* find_package always finds the component it looks up.                     *)
THEOREM ClosedSelection == Spec => []SelectionClosed
<1>1. SInv => SelectionClosed
  <2> SUFFICES ASSUME SInv, NEW n \in DOMAIN graph
               PROVE  /\ Selected(n) \subseteq Existing(n)
                      /\ SelfClosure(graph[n].pkg, Selected(n)) = Selected(n)
    BY DEF SelectionClosed
  <2>1. TypeOK /\ SelectionOK
    BY DEF SInv
  <2>2. graph[n].pkg \in Package /\ Selected(n) \subseteq Comps
    BY <2>1, NodeFacts
  <2>3. \A c \in Selected(n) :
          c \in Existing(n) /\ SelfRequires(graph[n].pkg, c) \subseteq Selected(n)
    BY <2>1 DEF SelectionOK
  <2> DEFINE S == Selected(n)
             p == graph[n].pkg
  <2> HIDE DEF S, p
  <2>4. /\ S \subseteq SelfClosure(p, S)
        /\ \A G : S \subseteq G /\ (\A c \in G \cap Comps : SelfRequires(p, c) \subseteq G)
                    => SelfClosure(p, S) \subseteq G
    BY <2>2, SelfClosureLeast DEF S, p
  <2>5. SelfClosure(p, S) = S
    BY <2>3, <2>4 DEF S, p
  <2> QED  BY <2>3, <2>5 DEF S, p
<1> QED  BY <1>1, SelectionHolds, PTL

(* When the root's call has returned, every child left to a node that has    *)
(* components is there because one of them asks for it, and is there once    *)
(* unless a component asks for it both to compile and to link.              *)
THEOREM KeptForReasons == Spec => []KeptForAReason
<1>1. SInv => KeptForAReason
  <2> SUFFICES ASSUME SInv, Done, NEW n \in DOMAIN graph, Selected(n) # {}
               PROVE  /\ \A k \in Children(nodes, n) : \E c \in Selected(n) : k \in Wants(n, c)
                      /\ Distinct(n) => IsInjective(nodes[n].depends)
    BY DEF KeptForAReason, Distinct
  <2>1. DOMAIN calls = {}
    BY DEF Done, SInv, TypeOK
  <2>2. Trimmed(n)
    BY <2>1 DEF SInv, KeptOK
  <2>3. n \in Below(graph, 1)
    BY DEF SInv, SelectionOK
  <2> QED  BY <2>2, <2>3 DEF Trimmed, SInv, InjectiveOK
<1> QED  BY <1>1, SelectionHolds, PTL

(* No step gives a node a child it did not have, takes a component out of    *)
(* the selection, or unmarks one that is marked as linked only.             *)
THEOREM TrimsOnly == Spec => OnlyTrims
<1>1. SInv /\ [Next]_vars =>
        [\A n \in DOMAIN graph :
           /\ Children(nodes', n) \subseteq Children(nodes, n)
           /\ Selected(n) \subseteq Keys(selected'[n])
           /\ \A c \in Selected(n) : selected[n][c] = TRUE => selected'[n][c] = TRUE]_vars
  <2> SUFFICES ASSUME SInv, Next, NEW n \in DOMAIN graph
               PROVE  /\ Children(nodes', n) \subseteq Children(nodes, n)
                      /\ Selected(n) \subseteq Keys(selected'[n])
                      /\ \A c \in Selected(n) : selected[n][c] = TRUE => selected'[n][c] = TRUE
    OBVIOUS
  <2>1. CASE Enter
    <3>1. nodes' = nodes /\ TypeOK /\ PathOK
      BY <2>1 DEF Enter, SInv
    <3> PICK m : m = NextCall.node
      OBVIOUS
    <3>2. /\ \A k \in DOMAIN graph : k # m => selected'[k] = selected[k]
          /\ \A c \in Comps \ Touched(NextCall) : selected'[m][c] = selected[m][c]
          /\ \A c \in Touched(NextCall) :
               Joined(selected[m][c], selected'[m][c], NextCall.link_only)
          /\ Keys(selected'[m]) = Selected(m) \cup Touched(NextCall)
      BY <2>1, <3>1, EnterSelects
    <3>3. CASE n = m
      <4>1. ASSUME NEW c \in Selected(n), selected[n][c] = TRUE
            PROVE  selected'[n][c] = TRUE
        <5>1. c \in Comps
          BY <3>1, NodeFacts
        <5>2. CASE c \in Touched(NextCall)
          <6>1. Joined(selected[n][c], selected'[n][c], NextCall.link_only)
            BY <3>2, <3>3, <5>2
          <6>2. selected[n][c] # None
            BY <4>1, GraphsAssumption
          <6>3. selected'[n][c] = (selected[n][c] \/ NextCall.link_only)
            BY <6>1, <6>2 DEF Joined
          <6> QED  BY <4>1, <6>3
        <5>3. CASE c \notin Touched(NextCall)
          BY <3>2, <3>3, <4>1, <5>1, <5>3
        <5> QED  BY <5>2, <5>3
      <4> QED  BY <3>1, <3>2, <3>3, <4>1
    <3>4. CASE n # m
      BY <3>1, <3>2, <3>4 DEF Selected
    <3> QED  BY <3>3, <3>4
  <2>2. CASE EndComponent
    <3>1. Children(nodes', n) \subseteq Children(nodes, n)
      BY <2>2, EndFrames
    <3>2. selected' = selected
      BY <2>2 DEF EndComponent
    <3> QED  BY <3>1, <3>2 DEF Selected
  <2>3. CASE Throw \/ Return \/ \E c \in Comps : BeginComponent(c)
    <3>1. nodes' = nodes /\ selected' = selected
      BY <2>3 DEF Throw, Return, BeginComponent
    <3> QED  BY <3>1 DEF Selected
  <2> QED  BY <2>1, <2>2, <2>3 DEF Next
<1> QED  BY <1>1, SelectionHolds, PTL DEF OnlyTrims, Spec

-----------------------------------------------------------------------------
(* What is needed: the least set of uses that has those of the request and   *)
(* is closed under NeededBy.                                               *)
AllUses(g) == (DOMAIN g) \X Comps \X BOOLEAN

(* It is so for any finite graph of packages.                               *)
FiniteGraph(g) ==
  /\ IsFiniteSet(DOMAIN g)
  /\ \A n \in DOMAIN g : g[n].pkg \in Package /\ Children(g, n) \subseteq DOMAIN g

LEMMA AllUsesFinite ==
  ASSUME NEW g, FiniteGraph(g)
  PROVE  LET m == 2 * Cardinality(DOMAIN g) * Cardinality(Comps)
         IN  /\ m \in Nat /\ IsFiniteSet(AllUses(g)) /\ Cardinality(AllUses(g)) <= m
<1> DEFINE A == DOMAIN g
           B == Comps
           P == (A \X B) \X BOOLEAN
           T == AllUses(g)
<1>1. IsFiniteSet(A) /\ IsFiniteSet(B)
  BY GraphsAssumption DEF FiniteGraph
<1>2. Cardinality(A) \in Nat /\ Cardinality(B) \in Nat
  BY <1>1, FS_CardinalityType
<1>3. IsFiniteSet(BOOLEAN) /\ Cardinality(BOOLEAN) = 2
  <2> DEFINE yes == TRUE
             no  == FALSE
  <2>1. BOOLEAN = {yes} \cup {no}
    OBVIOUS
  <2>2. no # yes
    OBVIOUS
  <2> HIDE DEF yes, no
  <2>3. IsFiniteSet({yes}) /\ Cardinality({yes}) = 1 /\ no \notin {yes}
    BY <2>2, FS_Singleton
  <2>4. IsFiniteSet({yes} \cup {no}) /\ Cardinality({yes} \cup {no}) = 1 + 1
    BY <2>3, FS_AddElement
  <2> QED  BY <2>1, <2>4
<1>4. IsFiniteSet(A \X B) /\ Cardinality(A \X B) = Cardinality(A) * Cardinality(B)
  <2> HIDE DEF A, B
  <2> QED  BY <1>1, FS_Product
<1>5. IsFiniteSet(P) /\ Cardinality(P) = Cardinality(A \X B) * Cardinality(BOOLEAN)
  <2> DEFINE Q == A \X B
             C == BOOLEAN
  <2>1. IsFiniteSet(Q) /\ IsFiniteSet(C)
    BY <1>3, <1>4
  <2> HIDE DEF Q, C
  <2>2. IsFiniteSet(Q \X C) /\ Cardinality(Q \X C) = Cardinality(Q) * Cardinality(C)
    BY <2>1, FS_Product
  <2> QED  BY <2>2 DEF Q, C
<1> DEFINE f == [u \in T |-> <<<<u[1], u[2]>>, u[3]>>]
<1>6. f \in Injection(T, P)
  <2>1. \A u \in T : /\ u = <<u[1], u[2], u[3]>> /\ u[1] \in A /\ u[2] \in B /\ u[3] \in BOOLEAN
    BY DEF AllUses
  <2>2. f \in [T -> P]
    BY <2>1
  <2>3. ASSUME NEW u \in T, NEW w \in T, f[u] = f[w]  PROVE u = w
    <3>1. <<<<u[1], u[2]>>, u[3]>> = <<<<w[1], w[2]>>, w[3]>>
      BY <2>3
    <3>2. u[1] = w[1] /\ u[2] = w[2] /\ u[3] = w[3]
      BY <3>1
    <3> QED  BY <2>1, <3>2
  <2> HIDE DEF f, T, P
  <2> QED  BY <2>2, <2>3 DEF Injection, IsInjective
<1>7. IsFiniteSet(T) /\ Cardinality(T) <= Cardinality(P)
  <2> HIDE DEF f, T, P
  <2> QED  BY <1>5, <1>6, FS_Injection
<1>8. \A a, b \in Nat : (a * b) * 2 = 2 * a * b /\ 2 * a * b \in Nat
  OBVIOUS
<1>9. Cardinality(P) = 2 * Cardinality(A) * Cardinality(B) /\ Cardinality(P) \in Nat
  <2>1. Cardinality(P) = (Cardinality(A) * Cardinality(B)) * 2
    BY <1>3, <1>4, <1>5
  <2> HIDE DEF A, B, P
  <2> QED  BY <1>2, <1>8, <2>1
<1> QED  BY <1>7, <1>9

LEMMA NeededOfType ==
  ASSUME NEW g, FiniteGraph(g), NEW n \in DOMAIN g, NEW required, NEW link \in BOOLEAN,
         \A m \in DOMAIN required : /\ required[m].components \in SUBSET Comps
                                    /\ required[m].defaults \in BOOLEAN
  PROVE  NeededOf(g, n, required, link) \subseteq AllUses(g)
<1>1. ASSUME NEW k \in Children(g, n), g[k].pkg.name \in DOMAIN required,
             NEW c \in required[g[k].pkg.name].components
                         \cup Defaults(g[k].pkg, required[g[k].pkg.name].defaults)
      PROVE  <<k, c, link>> \in AllUses(g)
  <2>1. k \in DOMAIN g
    BY DEF FiniteGraph
  <2>2. Defaults(g[k].pkg, required[g[k].pkg.name].defaults) \subseteq Comps
    <3>1. g[k].pkg \in Package
      BY <2>1 DEF FiniteGraph
    <3> QED  BY <3>1 DEF Defaults, Package
  <2>3. c \in Comps
    BY <1>1, <2>2
  <2> QED  BY <2>1, <2>3 DEF AllUses
<1> QED  BY <1>1 DEF NeededOf

LEMMA NeededByType ==
  ASSUME NEW g, FiniteGraph(g), NEW n \in DOMAIN g, NEW c, NEW link \in BOOLEAN
  PROVE  NeededBy(g, n, c, link) \subseteq AllUses(g)
<1> DEFINE p == g[n].pkg
<1>1. p \in Package
  BY DEF FiniteGraph
<1>2. CASE c \notin Keys(p.components)
  BY <1>2 DEF NeededBy
<1>3. CASE c \in Keys(p.components)
  <2> DEFINE yes == TRUE
  <2>1. NeededBy(g, n, c, link) =
          {<<n, s, link>> : s \in SelfRequires(p, c)}
            \cup NeededOf(g, n, Require(p, c), link)
            \cup NeededOf(g, n, LinkRequire(p, c), yes)
    BY <1>3 DEF NeededBy
  <2>2. yes \in BOOLEAN
    OBVIOUS
  <2> HIDE DEF p, yes
  <2>3. \A r \in {Require(p, c), LinkRequire(p, c)} : \A m \in DOMAIN r :
          r[m].components \in SUBSET Comps /\ r[m].defaults \in BOOLEAN
    BY <1>1, <1>3, RequireTypes
  <2>4. NeededOf(g, n, Require(p, c), link) \subseteq AllUses(g)
    BY <2>3, NeededOfType
  <2>5. NeededOf(g, n, LinkRequire(p, c), yes) \subseteq AllUses(g)
    BY <2>2, <2>3, NeededOfType
  <2>6. {<<n, s, link>> : s \in SelfRequires(p, c)} \subseteq AllUses(g)
    <3>1. SelfRequires(p, c) \subseteq Comps
      BY <1>1, SelfRequiresComps
    <3> QED  BY <3>1 DEF AllUses
  <2> QED  BY <2>1, <2>4, <2>5, <2>6
<1> QED  BY <1>2, <1>3

FirstUses(g, r, components) ==
  {<<r, c, FALSE>> : c \in components \cup Defaults(g[r].pkg, components = {})}

(* UsesFrom is a recursive function of the graph and the request.           *)
UsesBody(g, r, components, w) ==
  [k \in 0..(2 * Cardinality(DOMAIN g) * Cardinality(Comps)) |->
     IF k = 0 THEN FirstUses(g, r, components)
     ELSE LET before == w[k - 1]
          IN  before \cup UNION {NeededBy(g, u[1], u[2], u[3]) : u \in before}]

LEMMA UsesLeast ==
  ASSUME NEW g, FiniteGraph(g), NEW r \in DOMAIN g, NEW components \in SUBSET Comps
  PROVE  LET all == UsesFrom(g, r, components)
         IN  /\ all \subseteq AllUses(g)
             /\ FirstUses(g, r, components) \subseteq all
             /\ \A u \in all : NeededBy(g, u[1], u[2], u[3]) \subseteq all
             /\ \A G : /\ FirstUses(g, r, components) \subseteq G
                       /\ \A u \in G \cap AllUses(g) : NeededBy(g, u[1], u[2], u[3]) \subseteq G
                       => all \subseteq G
<1> DEFINE U == AllUses(g)
           first == FirstUses(g, r, components)
           succ == [u \in U |-> NeededBy(g, u[1], u[2], u[3])]
           m == 2 * Cardinality(DOMAIN g) * Cardinality(Comps)
           v == CHOOSE w : w = UsesBody(g, r, components, w)
           all == UsesFrom(g, r, components)
<1>1. m \in Nat /\ IsFiniteSet(U) /\ Cardinality(U) <= m
  BY AllUsesFinite
<1>2. first \subseteq U
  <2>1. g[r].pkg \in Package
    BY DEF FiniteGraph
  <2>2. Defaults(g[r].pkg, components = {}) \subseteq Comps
    BY <2>1 DEF Defaults, Package
  <2>3. ASSUME NEW c \in Comps  PROVE <<r, c, FALSE>> \in U
    BY <2>1 DEF AllUses
  <2>4. components \cup Defaults(g[r].pkg, components = {}) \subseteq Comps
    BY <2>2
  <2> HIDE DEF U
  <2> QED  BY <2>3, <2>4 DEF FirstUses
<1>3. succ \in [U -> SUBSET U] /\ \A u \in U : succ[u] = NeededBy(g, u[1], u[2], u[3])
  <2>1. \A u \in U : NeededBy(g, u[1], u[2], u[3]) \subseteq U
    <3> TAKE u \in U
    <3>1. u[1] \in DOMAIN g /\ u[3] \in BOOLEAN
      BY DEF AllUses
    <3> QED  BY <3>1, NeededByType
  <2> QED  BY <2>1
<1>4. all = v[m]
  BY DEF UsesFrom, UsesBody, FirstUses
<1> HIDE DEF succ, m, U, first, v, all
<1>5. PICK w : Grown(first, succ, m, w)
  BY <1>1, GrownExists
<1>6. /\ \A k \in 0..m : w[k] \subseteq U
      /\ first \subseteq w[m]
      /\ \A u \in w[m] : succ[u] \subseteq w[m]
      /\ \A G : first \subseteq G /\ (\A u \in G \cap U : succ[u] \subseteq G) => w[m] \subseteq G
  <2>1. Saturated(U, succ, first, m, w)
    BY <1>1, <1>2, <1>3, <1>5, GrownLeast
  <2> QED  BY <2>1 DEF Saturated
<1>7. w = UsesBody(g, r, components, w)
  <2>1. \A k \in 0..m : k # 0 =>
          UNION {succ[u] : u \in w[k - 1]} =
            UNION {NeededBy(g, u[1], u[2], u[3]) : u \in w[k - 1]}
    <3> TAKE k \in 0..m
    <3>1. k # 0 => w[k - 1] \subseteq U
      BY <1>1, <1>6
    <3> QED  BY <1>3, <3>1
  <2> QED  BY <1>5, <2>1 DEF Grown, UsesBody, m, first
<1>8. v = UsesBody(g, r, components, v)
  BY <1>7 DEF v
<1>9. \A x : x = UsesBody(g, r, components, x) =>
        /\ x[0] = first
        /\ \A k \in 0..(m - 1) :
             x[k + 1] = x[k] \cup UNION {NeededBy(g, u[1], u[2], u[3]) : u \in x[k]}
  <2> SUFFICES ASSUME NEW x, x = UsesBody(g, r, components, x)
               PROVE  /\ x[0] = first
                      /\ \A k \in 0..(m - 1) :
                           x[k + 1] = x[k] \cup UNION {NeededBy(g, u[1], u[2], u[3]) : u \in x[k]}
    OBVIOUS
  <2>1. x = [k \in 0..m |-> IF k = 0 THEN first
                            ELSE x[k - 1] \cup UNION {NeededBy(g, u[1], u[2], u[3]) : u \in x[k - 1]}]
    BY DEF UsesBody, m, first
  <2>2. x[0] = first
    BY <1>1, <2>1
  <2>3. ASSUME NEW k \in 0..(m - 1)
        PROVE  x[k + 1] = x[k] \cup UNION {NeededBy(g, u[1], u[2], u[3]) : u \in x[k]}
    <3>1. k + 1 \in 0..m /\ k + 1 # 0 /\ (k + 1) - 1 = k
      BY <1>1
    <3>2. x[k + 1] = x[(k + 1) - 1]
                       \cup UNION {NeededBy(g, u[1], u[2], u[3]) : u \in x[(k + 1) - 1]}
      BY <2>1, <3>1
    <3> QED  BY <3>1, <3>2
  <2> QED  BY <2>2, <2>3
<1>10. v[m] = w[m]
  <2>1. v[0] = w[0]
    BY <1>7, <1>8, <1>9
  <2>2. ASSUME NEW k \in 0..(m - 1), v[k] = w[k]  PROVE v[k + 1] = w[k + 1]
    <3>1. v[k + 1] = v[k] \cup UNION {NeededBy(g, u[1], u[2], u[3]) : u \in v[k]}
      BY <1>8, <1>9
    <3>2. w[k + 1] = w[k] \cup UNION {NeededBy(g, u[1], u[2], u[3]) : u \in w[k]}
      BY <1>7, <1>9
    <3> QED  BY <2>2, <3>1, <3>2
  <2> QED  BY <1>1, <2>1, <2>2, SameGrowth
<1>11. all \subseteq U /\ first \subseteq all
  BY <1>1, <1>4, <1>6, <1>10
<1>12. \A u \in all : NeededBy(g, u[1], u[2], u[3]) \subseteq all
  BY <1>3, <1>4, <1>6, <1>10, <1>11
<1>13. ASSUME NEW G, first \subseteq G,
              \A u \in G \cap U : NeededBy(g, u[1], u[2], u[3]) \subseteq G
       PROVE  all \subseteq G
  <2>1. \A u \in G \cap U : succ[u] \subseteq G
    BY <1>3, <1>13
  <2> QED  BY <1>4, <1>6, <1>10, <1>13, <2>1
<1> QED  BY <1>11, <1>12, <1>13 DEF U, first, all

-----------------------------------------------------------------------------
LEMMA GraphsFinite == \A g \in Graphs : FiniteGraph(g)
BY GraphFacts DEF FiniteGraph

(* What is needed of the root, and what each use leads to.                  *)
LEMMA UsesFacts ==
  ASSUME TypeOK
  PROVE  /\ Uses \subseteq AllUses(graph)
         /\ \A c \in Listed(RootCall) : Needs(1, c, FALSE)
         /\ \A n, c, link : Needs(n, c, link) => NeededBy(graph, n, c, link) \subseteq Uses
         /\ \A G : /\ \A c \in Listed(RootCall) : <<1, c, FALSE>> \in G
                   /\ \A u \in G \cap AllUses(graph) :
                        NeededBy(graph, u[1], u[2], u[3]) \subseteq G
                   => Uses \subseteq G
<1>1. graph \in Graphs /\ 1 \in DOMAIN graph /\ nodes[1].pkg = graph[1].pkg
  BY GraphFacts, NodeFacts DEF TypeOK
<1>2. request \in SUBSET Comps
  BY <1>1, NodeFacts DEF TypeOK, Existing
<1>3. Uses = UsesFrom(graph, 1, request)
  BY DEF Uses
<1>4. Listed(RootCall) = request \cup Defaults(graph[1].pkg, request = {})
  <2>1. RootCall.components = request /\ RootCall.node = 1 /\ RootCall.defaults = (request = {})
    BY DEF RootCall, Call
  <2> QED  BY <1>1, <2>1 DEF Listed
<1>5. FirstUses(graph, 1, request) = {<<1, c, FALSE>> : c \in Listed(RootCall)}
  BY <1>4 DEF FirstUses
<1>6. /\ Uses \subseteq AllUses(graph)
      /\ FirstUses(graph, 1, request) \subseteq Uses
      /\ \A u \in Uses : NeededBy(graph, u[1], u[2], u[3]) \subseteq Uses
      /\ \A G : /\ FirstUses(graph, 1, request) \subseteq G
                /\ \A u \in G \cap AllUses(graph) : NeededBy(graph, u[1], u[2], u[3]) \subseteq G
                => Uses \subseteq G
  BY <1>1, <1>2, <1>3, GraphsFinite, UsesLeast
<1>7. \A c \in Listed(RootCall) : Needs(1, c, FALSE)
  BY <1>5, <1>6 DEF Needs
<1>8. ASSUME NEW n, NEW c, NEW link, Needs(n, c, link)
      PROVE  NeededBy(graph, n, c, link) \subseteq Uses
  <2> DEFINE u == <<n, c, link>>
  <2>1. u \in Uses /\ u[1] = n /\ u[2] = c /\ u[3] = link
    BY <1>8 DEF Needs
  <2> HIDE DEF u
  <2> QED  BY <1>6, <2>1
<1>9. ASSUME NEW G, \A c \in Listed(RootCall) : <<1, c, FALSE>> \in G,
             \A u \in G \cap AllUses(graph) : NeededBy(graph, u[1], u[2], u[3]) \subseteq G
      PROVE  Uses \subseteq G
  <2>1. FirstUses(graph, 1, request) \subseteq G
    BY <1>5, <1>9
  <2> QED  BY <1>6, <1>9, <2>1
<1> QED  BY <1>6, <1>7, <1>8, <1>9

LEMMA NeedsType ==
  ASSUME TypeOK, NEW n, NEW c, NEW link, Needs(n, c, link)
  PROVE  n \in DOMAIN graph /\ c \in Comps /\ link \in BOOLEAN /\ c \in Needed[n]
<1>1. <<n, c, link>> \in Uses /\ Uses \subseteq AllUses(graph)
  BY UsesFacts DEF Needs
<1>2. n \in DOMAIN graph /\ c \in Comps /\ link \in BOOLEAN
  BY <1>1 DEF AllUses
<1>3. Needed[n] = {u[2] : u \in {v \in Uses : v[1] = n}}
  BY <1>2 DEF Needed, NeededIn
<1> QED  BY <1>1, <1>2, <1>3

(* What a call selects is there already, or needed like what it lists.      *)
LEMMA ClosureNeeded ==
  ASSUME SInv, NEW call \in CallType, CallOK(call)
  PROVE  \A c \in Closure(call) :
           c \in Selected(call.node) \/ Needs(call.node, c, call.link_only)
<1> DEFINE n == call.node
           link == call.link_only
           G == Selected(n) \cup {c \in Comps : Needs(n, c, link)}
<1>1. TypeOK /\ SelectionOK /\ n \in DOMAIN graph
  BY DEF SInv, CallType
<1>2. Selected(n) \cup Listed(call) \subseteq G
  <2>1. Listed(call) \subseteq Comps
    <3>1. Listed(call) \subseteq Touched(call) /\ Touched(call) \subseteq Closure(call)
          /\ Closure(call) \subseteq Comps
      BY <1>1, ClosureFacts
    <3> QED  BY <3>1
  <2> QED  BY <2>1 DEF CallOK
<1>3. ASSUME NEW c \in G \cap Comps
      PROVE  SelfRequires(graph[n].pkg, c) \subseteq G
  <2>1. CASE c \in Selected(n)
    BY <1>1, <2>1 DEF SelectionOK
  <2>2. CASE Needs(n, c, link)
    <3>1. NeededBy(graph, n, c, link) \subseteq Uses
      BY <1>1, <2>2, UsesFacts
    <3>2. ASSUME NEW s \in SelfRequires(graph[n].pkg, c)
          PROVE  s \in G
      <4>1. graph[n].pkg \in Package
        BY <1>1, NodeFacts
      <4>2. c \in Keys(graph[n].pkg.components) /\ s \in Comps
        BY <4>1, SelfRequiresComps
      <4>3. <<n, s, link>> \in NeededBy(graph, n, c, link)
        BY <4>2 DEF NeededBy
      <4> QED  BY <3>1, <4>2, <4>3 DEF Needs
    <3> QED  BY <3>2
  <2> QED  BY <1>3, <2>1, <2>2
<1>4. Closure(call) \subseteq G
  <2> HIDE DEF G
  <2> QED  BY <1>1, <1>2, <1>3, ClosureFacts
<1> QED  BY <1>4

-----------------------------------------------------------------------------
(* The calls a component makes, when children are taken away, and whatever   *)
(* its link_only is.                                                       *)
SameArguments(a, b) ==
  a.node = b.node /\ a.components = b.components /\ a.defaults = b.defaults

LEMMA SameMet ==
  ASSUME NEW a, NEW b, SameArguments(a, b)
  PROVE  Listed(a) = Listed(b) /\ (Met(a) <=> Met(b))
BY DEF SameArguments, Met, Listed

LEMMA FewerCalls ==
  ASSUME NEW g, NEW h, NEW n, NEW c, NEW link,
         h[n].pkg = g[n].pkg, Children(h, n) \subseteq Children(g, n),
         \A k \in Children(h, n) : h[k].pkg = g[k].pkg
  PROVE  CallsFor(h, n, c, link) \subseteq CallsFor(g, n, c, link)
<1>1. ASSUME NEW r, NEW l
      PROVE  Asked(h, n, r, l) \subseteq Asked(g, n, r, l)
  <2>1. ASSUME NEW call \in Asked(h, n, r, l)  PROVE call \in Asked(g, n, r, l)
    <3>1. PICK k \in Children(h, n) :
             /\ h[k].pkg.name \in DOMAIN r
             /\ call = Call(k, r[h[k].pkg.name].components, r[h[k].pkg.name].defaults, l)
      BY DEF Asked
    <3>2. k \in Children(g, n) /\ h[k].pkg.name = g[k].pkg.name
      BY <3>1
    <3> QED  BY <3>1, <3>2 DEF Asked
  <2> QED  BY <2>1
<1> QED  BY <1>1 DEF CallsFor

LEMMA OtherLink ==
  ASSUME NEW g, NEW n, NEW c, NEW l, NEW m, NEW call \in CallsFor(g, n, c, l)
  PROVE  \E other \in CallsFor(g, n, c, m) :
           SameArguments(call, other)
<1> DEFINE R == Require(g[n].pkg, c)
           L == LinkRequire(g[n].pkg, c)
<1>1. CASE call \in Asked(g, n, R, l)
  <2>1. PICK k \in Children(g, n) :
           /\ g[k].pkg.name \in DOMAIN R
           /\ call = Call(k, R[g[k].pkg.name].components, R[g[k].pkg.name].defaults, l)
    BY <1>1 DEF Asked
  <2> DEFINE other == Call(k, R[g[k].pkg.name].components, R[g[k].pkg.name].defaults, m)
  <2>2. other \in Asked(g, n, R, m)
    BY <2>1 DEF Asked
  <2>3. SameArguments(call, other)
    BY <2>1 DEF SameArguments, Call
  <2> QED  BY <2>2, <2>3 DEF CallsFor
<1>2. CASE call \in Asked(g, n, L, TRUE)
  BY <1>2 DEF CallsFor, SameArguments
<1> QED  BY <1>1, <1>2 DEF CallsFor

(* What a needed component's calls ask for is needed.                       *)
LEMMA AskedNeeded ==
  ASSUME TypeOK, NEW n \in DOMAIN graph, NEW c \in Existing(n), NEW link, Needs(n, c, link),
         NEW call \in CallsFor(nodes, n, c, link), Children(nodes, n) \subseteq Children(graph, n)
  PROVE  CallOK(call)
<1>1. NeededBy(graph, n, c, link) \subseteq Uses
  BY UsesFacts
<1> DEFINE p == graph[n].pkg
           yes == TRUE
<1>2. NeededBy(graph, n, c, link) =
        {<<n, s, link>> : s \in SelfRequires(p, c)}
          \cup NeededOf(graph, n, Require(p, c), link)
          \cup NeededOf(graph, n, LinkRequire(p, c), yes)
  BY DEF NeededBy, Existing
<1>3. /\ nodes[n].pkg = p
      /\ \A k \in Children(nodes, n) : nodes[k].pkg = graph[k].pkg
  BY NodeFacts DEF TypeOK
<1>4. call \in Asked(nodes, n, Require(p, c), link) \cup Asked(nodes, n, LinkRequire(p, c), yes)
  BY <1>3 DEF CallsFor
<1> HIDE DEF p, yes
<1>5. ASSUME NEW r, NEW l, call \in Asked(nodes, n, r, l),
             NEW s \in Listed(call)
      PROVE  <<call.node, s, call.link_only>> \in NeededOf(graph, n, r, l)
  <2>1. /\ call.node \in Children(nodes, n) /\ nodes[call.node].pkg.name \in DOMAIN r
        /\ call.link_only = l
        /\ call.components = r[nodes[call.node].pkg.name].components
        /\ call.defaults = r[nodes[call.node].pkg.name].defaults
    BY <1>5, AskedNodes
  <2> PICK k : k = call.node
    OBVIOUS
  <2>2. k \in Children(graph, n) /\ nodes[k].pkg = graph[k].pkg
    BY <1>3, <2>1
  <2>3. s \in r[graph[k].pkg.name].components
               \cup Defaults(graph[k].pkg, r[graph[k].pkg.name].defaults)
    BY <2>1, <2>2 DEF Listed
  <2>4. <<k, s, l>> \in NeededOf(graph, n, r, l)
    BY <2>1, <2>2, <2>3 DEF NeededOf
  <2> QED  BY <2>1, <2>4
<1>6. ASSUME NEW s \in Listed(call)
      PROVE  Needs(call.node, s, call.link_only)
  <2>1. CASE call \in Asked(nodes, n, Require(p, c), link)
    BY <1>1, <1>2, <1>5, <2>1 DEF Needs
  <2>2. CASE call \in Asked(nodes, n, LinkRequire(p, c), yes)
    BY <1>1, <1>2, <1>5, <2>2 DEF Needs
  <2> QED  BY <1>4, <2>1, <2>2
<1> QED  BY <1>6 DEF CallOK

LEMMA CalledNodes ==
  ASSUME TypeOK, NEW n \in DOMAIN graph, NEW c, NEW link, NEW call \in CallsFor(nodes, n, c, link)
  PROVE  call.node \in Children(nodes, n) /\ call.node \in DOMAIN graph
<1> DEFINE yes == TRUE
           R == Require(nodes[n].pkg, c)
           L == LinkRequire(nodes[n].pkg, c)
<1>1. call \in Asked(nodes, n, R, link) \cup Asked(nodes, n, L, yes)
  BY DEF CallsFor
<1> HIDE DEF yes, R, L
<1>2. call.node \in Children(nodes, n)
  BY <1>1, AskedNodes
<1>3. Children(nodes, n) \subseteq DOMAIN graph
  BY NodeFacts
<1> QED  BY <1>2, <1>3

(* The next call is for what is needed.                                     *)
LEMMA NextCallOK ==
  ASSUME SInv, NInv, Calling
  PROVE  CallOK(NextCall)
<1>1. TypeOK /\ PathOK /\ NeedOK
  BY DEF SInv, NInv
<1>2. /\ calls = <<>> => NextCall = RootCall /\ NextCall.node = 1
      /\ calls # <<>> => NextCall \in Range(Top.pending)
  BY <1>1, CalledFacts
<1>3. CASE calls = <<>>
  <2>1. RootCall.node = 1 /\ RootCall.link_only = FALSE
    BY DEF RootCall, Call
  <2>2. \A c \in Listed(RootCall) : Needs(1, c, FALSE)
    BY <1>1, UsesFacts
  <2> QED  BY <1>2, <1>3, <2>1, <2>2 DEF CallOK
<1>4. CASE calls # <<>>
  <2>1. Top = calls[Len(calls)] /\ Len(calls) \in DOMAIN calls
    BY <1>1, <1>4, TopFacts
  <2> QED  BY <1>1, <1>2, <1>4, <2>1 DEF NeedOK
<1> QED  BY <1>3, <1>4

-----------------------------------------------------------------------------
(* Each step preserves the invariant for what is needed: a call is made.     *)
LEMMA EnterNeeds ==
  ASSUME SInv, NInv, Enter
  PROVE  NInv'
<1> PICK l : l = Len(calls)
  OBVIOUS
<1> PICK q : q = NextCall
  OBVIOUS
<1> PICK n : n = q.node
  OBVIOUS
<1> DEFINE after(m) == Keys(selected'[m])
<1>1. /\ graph' = graph /\ nodes' = nodes /\ request' = request /\ outcome' = outcome /\ Calling
      /\ TypeOK /\ PathOK /\ SelectionOK /\ TrimOK
      /\ PendingOK /\ ProcessedOK /\ NeedOK /\ UniformOK /\ StartOK
  BY DEF Enter, SInv, NInv
<1>2. /\ l \in Nat /\ DOMAIN calls = 1..l /\ DOMAIN calls' = 1..(l + 1) /\ Len(calls') = l + 1
      /\ calls'[l + 1] = Entered
      /\ \A i \in 1..(l - 1) : calls'[i] = calls[i]
      /\ calls # <<>> => calls'[l] = [Top EXCEPT !.pending = Tail(@)]
      /\ \A i \in 1..l : /\ Alike(calls'[i], calls[i])
                         /\ Range(calls'[i].pending) \subseteq Range(calls[i].pending)
  BY <1>1, EnterFrames
<1>3. /\ q \in CallType /\ n \in DOMAIN graph
      /\ calls = <<>> => q = RootCall /\ n = 1
      /\ calls # <<>> => q \in Range(Top.pending)
      /\ \A i \in 1..l : calls[i].node # n
  BY <1>1, <1>2, CalledFacts
<1>4. /\ \A m \in DOMAIN graph : m # n => selected'[m] = selected[m]
      /\ selected'[n] = UpdatedComponents(q)
      /\ after(n) = Selected(n) \cup Touched(q)
      /\ \A c \in Comps \ Touched(q) : selected'[n][c] = selected[n][c]
      /\ \A c \in Touched(q) : Joined(selected[n][c], selected'[n][c], q.link_only)
  BY <1>1, EnterSelects
<1>5. Listed(q) \subseteq Touched(q) /\ Touched(q) \subseteq Closure(q) /\ Closure(q) \subseteq Comps
  BY <1>1, <1>3, ClosureFacts
<1>6. /\ \A m \in DOMAIN graph : m # n => after(m) = Selected(m)
      /\ \A m : Selected(m)' = after(m)
      /\ \A m \in DOMAIN graph : Selected(m) \subseteq after(m)
  <2>1. \A m \in DOMAIN graph : m # n => after(m) = Selected(m)
    BY <1>4 DEF Selected
  <2>2. \A m : Selected(m)' = after(m)
    BY DEF Selected
  <2> HIDE DEF after
  <2> QED  BY <1>4, <2>1, <2>2
<1>7. /\ Entered.node = n /\ Entered.comp = None /\ Entered.todo = after(n)
      /\ Entered.pending = <<>> /\ Entered.link_only = q.link_only
  BY <1>4 DEF Entered
<1> HIDE DEF after
<1>8. \A i \in 1..l : /\ calls'[i].node = calls[i].node /\ calls'[i].comp = calls[i].comp
                      /\ calls'[i].todo = calls[i].todo
                      /\ calls'[i].link_only = calls[i].link_only
                      /\ calls[i].node \in DOMAIN graph
  <2>1. \A i \in 1..l : calls[i].node \in DOMAIN graph
    BY <1>1, <1>2, FrameFacts
  <2> QED  BY <1>2, <2>1 DEF Alike
<1>9. /\ \A call : Listed(call)' = Listed(call)
      /\ \A call : call.node \in DOMAIN graph /\ Met(call) => Met(call)'
      /\ Met(q)'
  <2>1. \A call : Listed(call)' = Listed(call)
    BY <1>1 DEF Listed
  <2>2. \A call : Met(call)' <=> Listed(call) \subseteq after(call.node)
    BY <1>6, <2>1 DEF Met
  <2>3. Listed(q) \subseteq after(n)
    BY <1>4, <1>5
  <2> QED  BY <1>6, <2>1, <2>2, <2>3 DEF Met
<1>10. CallOK(q)
  BY <1>1, NextCallOK
<1>11. \A c \in Closure(q) : c \in Selected(n) \/ Needs(n, c, q.link_only)
  BY <1>3, <1>10, ClosureNeeded
<1>12. \A i \in 1..(l + 1) : i # l + 1 => i \in 1..l
  BY <1>2
<1>13. PendingOK'
  <2>1. ASSUME NEW i \in 1..(l + 1), calls'[i].comp # None,
               NEW all, all = CallsFor(nodes, calls'[i].node, calls'[i].comp, calls'[i].link_only)
        PROVE  /\ Range(calls'[i].pending) \subseteq all
               /\ \A call \in all : call \in Range(calls'[i].pending) \/ Met(call)'
    <3>1. i \in 1..l
      BY <1>2, <1>7, <1>12, <2>1
    <3>2. all = CallsFor(nodes, calls[i].node, calls[i].comp, calls[i].link_only)
      BY <1>8, <2>1, <3>1
    <3>3. /\ Range(calls[i].pending) \subseteq all
          /\ \A call \in all : call \in Range(calls[i].pending) \/ Met(call)
      BY <1>1, <1>2, <1>8, <2>1, <3>1, <3>2 DEF PendingOK
    <3>4. \A call \in all : call.node \in DOMAIN graph
      BY <1>1, <1>8, <3>1, <3>2, CalledNodes
    <3>5. \A call \in Range(calls[i].pending) : call = q \/ call \in Range(calls'[i].pending)
      <4>1. CASE i = l
        <5>1. calls # <<>>
          BY <1>2, <3>1
        <5>2. Top = calls[l] /\ Top \in Frame
          BY <1>1, <5>1, TopFacts
        <5>3. calls'[l].pending = Tail(calls[l].pending)
          BY <1>2, <5>1, <5>2 DEF Frame
        <5>4. q = Head(calls[l].pending) /\ calls[l].pending # <<>>
          BY <1>1, <5>1, <5>2 DEF NextCall, Calling, InCalls
        <5> DEFINE C == CallType
        <5>5. calls[l].pending \in Seq(C)
          BY <5>2 DEF Frame
        <5> HIDE DEF C
        <5>6. ASSUME NEW s \in Seq(C), s # <<>>, NEW x \in Range(s)
              PROVE  x = Head(s) \/ x \in Range(Tail(s))
          <6>1. PICK k \in DOMAIN s : x = s[k]
            BY DEF Range
          <6>2. CASE k = 1
            BY <6>1, <6>2
          <6>3. CASE k # 1
            <7>1. k - 1 \in DOMAIN Tail(s) /\ Tail(s)[k - 1] = s[k]
              BY <5>6, <6>3
            <7> QED  BY <6>1, <7>1 DEF Range
          <6> QED  BY <6>2, <6>3
        <5> QED  BY <4>1, <5>3, <5>4, <5>5, <5>6
      <4>2. CASE i # l
        <5>1. i \in 1..(l - 1)
          BY <1>2, <3>1, <4>2
        <5> QED  BY <1>2, <5>1
      <4> QED  BY <4>1, <4>2
    <3>6. Range(calls'[i].pending) \subseteq all
      BY <1>2, <3>1, <3>3
    <3> QED  BY <1>9, <3>3, <3>4, <3>5, <3>6
  <2> QED  BY <1>1, <1>2, <2>1 DEF PendingOK
<1>14. \A m \in DOMAIN graph : \A c : Processed(m, c) => Processed(m, c)'
  <2> SUFFICES ASSUME NEW m \in DOMAIN graph, NEW c, Processed(m, c)  PROVE Processed(m, c)'
    OBVIOUS
  <2>1. \A call \in CallsFor(nodes, m, c, FALSE) : Met(call) /\ call.node \in DOMAIN graph
    BY <1>1, CalledNodes DEF Processed
  <2> QED  BY <1>1, <1>9, <2>1 DEF Processed
<1>15. ProcessedOK'
  <2>1. ASSUME NEW m \in DOMAIN graph, NEW c \in after(m)
        PROVE  \/ Processed(m, c)'
               \/ \E i \in DOMAIN calls' :
                    calls'[i].node = m /\ (calls'[i].comp = c \/ c \in calls'[i].todo)
    <3>1. CASE m = n
      <4>1. l + 1 \in DOMAIN calls'
        BY <1>2
      <4> QED  BY <1>2, <1>7, <2>1, <3>1, <4>1
    <3>2. CASE m # n
      <4>1. c \in Selected(m)
        BY <1>6, <2>1, <3>2
      <4>2. CASE \E i \in 1..l : calls[i].node = m /\ (calls[i].comp = c \/ c \in calls[i].todo)
        <5>1. \A i \in 1..l : i \in DOMAIN calls'
          BY <1>2
        <5> QED  BY <1>8, <4>2, <5>1
      <4>3. CASE Processed(m, c)
        BY <1>14, <4>3
      <4> QED  BY <1>1, <1>2, <4>1, <4>2, <4>3 DEF ProcessedOK
    <3> QED  BY <3>1, <3>2
  <2> QED  BY <1>1, <1>6, <2>1 DEF ProcessedOK
<1>16. Uses' = Uses /\ \A m, c, link : Needs(m, c, link)' = Needs(m, c, link)
  <2>1. Uses' = Uses
    BY <1>1 DEF Uses
  <2> QED  BY <2>1 DEF Needs
<1>17. OnlyNeeded'
  <2>1. ASSUME NEW m \in DOMAIN graph, NEW c \in after(m)
        PROVE  \E link \in {FALSE, selected'[m][c]} : <<m, c, link>> \in Uses
    <3>1. CASE m # n
      <4>1. c \in Selected(m) /\ selected'[m] = selected[m]
        BY <1>4, <1>6, <2>1, <3>1
      <4> QED  BY <1>1, <4>1 DEF NeedOK, OnlyNeeded
    <3>2. CASE m = n /\ c \in Selected(n)
      <4>1. PICK link \in {FALSE, selected[n][c]} : <<n, c, link>> \in Uses
        BY <1>1, <1>3, <3>2 DEF NeedOK, OnlyNeeded
      <4>2. CASE link = FALSE
        BY <3>2, <4>1, <4>2
      <4>3. CASE link # FALSE
        <5>1. link = TRUE /\ selected[n][c] = TRUE /\ c \in Comps /\ selected[n][c] # None
          <6>1. Needs(n, c, link)
            BY <4>1 DEF Needs
          <6>2. link \in BOOLEAN /\ c \in Comps
            BY <1>1, <6>1, NeedsType
          <6> QED  BY <4>1, <4>3, <6>2, GraphsAssumption
        <5>2. selected'[n][c] = TRUE
          <6>1. CASE c \in Touched(q)
            <7>1. selected'[n][c] = (selected[n][c] \/ q.link_only)
              BY <1>4, <5>1, <6>1 DEF Joined
            <7> QED  BY <5>1, <7>1
          <6>2. CASE c \notin Touched(q)
            BY <1>4, <5>1, <6>2
          <6> QED  BY <6>1, <6>2
        <5> QED  BY <3>2, <4>1, <5>1, <5>2
      <4> QED  BY <4>2, <4>3
    <3>3. CASE m = n /\ c \notin Selected(n)
      <4>1. c \in Touched(q) /\ c \in Closure(q)
        BY <1>4, <1>5, <2>1, <3>3
      <4>2. Needs(n, c, q.link_only)
        BY <1>11, <3>3, <4>1
      <4>3. selected[n][c] = None
        BY <1>1, <1>3, <1>5, <3>3, <4>1, NodeFacts
      <4>4. selected'[n][c] = q.link_only
        BY <1>4, <4>1, <4>3 DEF Joined
      <4> QED  BY <3>3, <4>2, <4>4 DEF Needs
    <3> QED  BY <3>1, <3>2, <3>3
  <2> QED  BY <1>1, <1>6, <1>16, <2>1 DEF OnlyNeeded
<1>18. ASSUME NEW i \in 1..(l + 1), NEW c \in calls'[i].todo, NEW m, m = calls'[i].node
       PROVE  Processed(m, c)' \/ Needs(m, c, calls'[i].link_only)
  <2>1. CASE i = l + 1
    <3>1. c \in after(n) /\ m = n /\ calls'[i].link_only = q.link_only
      BY <1>2, <1>7, <1>18, <2>1
    <3>2. CASE c \in Selected(n)
      <4>1. Processed(n, c)
        BY <1>1, <1>2, <1>3, <3>2 DEF ProcessedOK
      <4> QED  BY <1>3, <1>14, <3>1, <4>1
    <3>3. CASE c \notin Selected(n)
      BY <1>4, <1>5, <1>11, <3>1, <3>3
    <3> QED  BY <3>2, <3>3
  <2>2. CASE i # l + 1
    <3>1. i \in 1..l
      BY <1>12, <2>2
    <3>2. m \in DOMAIN graph /\ m = calls[i].node
      BY <1>8, <1>18, <3>1
    <3>3. Processed(m, c) \/ Needs(m, c, calls[i].link_only)
      BY <1>1, <1>2, <1>8, <1>18, <3>1, <3>2 DEF NeedOK
    <3> QED  BY <1>8, <1>14, <3>1, <3>2, <3>3
  <2> QED  BY <2>1, <2>2
<1>19. ASSUME NEW i \in 1..(l + 1), NEW call \in Range(calls'[i].pending)
       PROVE  \A c \in Listed(call) :
                Needs(call.node, c, call.link_only) \/ c \in after(call.node)
  <2>1. i \in 1..l
    <3>1. Range(<<>>) = {}
      BY DEF Range
    <3> QED  BY <1>2, <1>7, <1>12, <1>19, <3>1
  <2>2. call \in Range(calls[i].pending)
    BY <1>2, <1>19, <2>1
  <2>3. CallOK(call)
    BY <1>1, <1>2, <2>1, <2>2 DEF NeedOK
  <2>4. call.node \in DOMAIN graph
    <3> DEFINE C == CallType
    <3>1. calls[i].pending \in Seq(C)
      BY <1>1, <1>2, <2>1, FrameFacts
    <3> HIDE DEF C
    <3>2. call \in C
      BY <2>2, <3>1 DEF Range
    <3> QED  BY <3>2 DEF C, CallType
  <2> QED  BY <1>6, <2>3, <2>4 DEF CallOK
<1>20. NeedOK'
  <2>1. \A i \in 1..(l + 1) : \A c \in calls'[i].todo :
          Processed(calls[i].node, c)' \/ Needs(calls'[i].node, c, calls'[i].link_only)
    <3> TAKE i \in 1..(l + 1)
    <3> PICK m : m = calls'[i].node
      OBVIOUS
    <3>1. \A c \in calls'[i].todo : Processed(m, c)' \/ Needs(m, c, calls'[i].link_only)
      BY <1>18
    <3> QED  BY <3>1 DEF Processed
  <2>2. \A i \in 1..(l + 1) : \A call \in Range(calls'[i].pending) : CallOK(call)'
    BY <1>6, <1>9, <1>16, <1>19 DEF CallOK
  <2> QED  BY <1>2, <1>16, <1>17, <2>1, <2>2 DEF NeedOK, Needs
<1>21. UniformOK'
  BY <1>1 DEF UniformOK, Needed, Uses, Wants
<1>22. StartOK'
  <2>1. calls' # <<>>
    BY <1>2
  <2> PICK r : r = RootCall
    OBVIOUS
  <2>2. RootCall' = r
    BY <1>1 DEF RootCall
  <2>3. Met(r)'
    <3>1. CASE calls = <<>>
      BY <1>3, <1>9, <3>1
    <3>2. CASE calls # <<>>
      <4>1. Met(r)
        BY <1>1, <3>2 DEF StartOK
      <4>2. r.node = 1 /\ 1 \in DOMAIN graph
        BY <1>1, GraphFacts DEF RootCall, Call, TypeOK
      <4> QED  BY <1>9, <4>1, <4>2
    <3> QED  BY <3>1, <3>2
  <2>4. Met(RootCall)'
    BY <2>2, <2>3 DEF Met, Listed, Selected
  <2> QED  BY <2>1, <2>4 DEF StartOK
<1> QED  BY <1>13, <1>15, <1>20, <1>21, <1>22 DEF NInv

(* What a component's calls ask for is selected under any link_only, if it   *)
(* is under one.                                                           *)
LEMMA ProcessedMet ==
  ASSUME NEW n, NEW c, NEW link
  PROVE  Processed(n, c) <=> \A call \in CallsFor(nodes, n, c, link) : Met(call)
<1> DEFINE no == FALSE
<1>1. Processed(n, c) <=> \A call \in CallsFor(nodes, n, c, no) : Met(call)
  BY DEF Processed
<1> HIDE DEF no
<1>2. ASSUME NEW l, NEW m, \A call \in CallsFor(nodes, n, c, l) : Met(call),
             NEW call \in CallsFor(nodes, n, c, m)
      PROVE  Met(call)
  <2>1. PICK other \in CallsFor(nodes, n, c, l) : SameArguments(call, other)
    BY OtherLink
  <2> QED  BY <1>2, <2>1, SameMet
<1>3. ASSUME \A call \in CallsFor(nodes, n, c, no) : Met(call)
      PROVE  \A call \in CallsFor(nodes, n, c, link) : Met(call)
  BY <1>2, <1>3
<1>4. ASSUME \A call \in CallsFor(nodes, n, c, link) : Met(call)
      PROVE  \A call \in CallsFor(nodes, n, c, no) : Met(call)
  BY <1>2, <1>4
<1> QED  BY <1>1, <1>3, <1>4

(* A step that selects nothing changes neither what is met nor what is       *)
(* needed.                                                                 *)
LEMMA NothingSelected ==
  ASSUME graph' = graph, request' = request, selected' = selected,
         \A n \in DOMAIN graph : nodes'[n].pkg = nodes[n].pkg
  PROVE  /\ \A call : call.node \in DOMAIN graph =>
              (Met(call)' <=> Met(call)) /\ (CallOK(call)' <=> CallOK(call))
         /\ \A n : Selected(n)' = Selected(n)
         /\ \A n, c, link : Needs(n, c, link)' <=> Needs(n, c, link)
         /\ OnlyNeeded' <=> OnlyNeeded
         /\ RootCall' = RootCall
<1>1. \A call : call.node \in DOMAIN graph => Listed(call)' = Listed(call)
  BY DEF Listed
<1>2. \A n : Selected(n)' = Selected(n)
  BY DEF Selected
<1>3. Uses' = Uses /\ \A n, c, link : Needs(n, c, link)' <=> Needs(n, c, link)
  BY DEF Uses, Needs
<1>4. \A call : call.node \in DOMAIN graph =>
         (Met(call)' <=> Met(call)) /\ (CallOK(call)' <=> CallOK(call))
  BY <1>1, <1>2, <1>3 DEF Met, CallOK
<1>5. OnlyNeeded' <=> OnlyNeeded
  BY <1>2, <1>3 DEF OnlyNeeded
<1>6. RootCall' = RootCall
  BY DEF RootCall
<1> QED  BY <1>2, <1>3, <1>4, <1>5, <1>6

(* The calls of a frame are to nodes of the graph.                          *)
LEMMA PendingNodes ==
  ASSUME TypeOK, NEW i \in DOMAIN calls, NEW call \in Range(calls[i].pending)
  PROVE  call.node \in DOMAIN graph
<1> DEFINE C == CallType
<1>1. calls[i].pending \in Seq(C)
  BY FrameFacts
<1> HIDE DEF C
<1>2. call \in C
  BY <1>1 DEF Range
<1> QED  BY <1>2 DEF C, CallType

-----------------------------------------------------------------------------
(* A component is taken up.                                                 *)
LEMMA BeginNeeds ==
  ASSUME SInv, NInv, NEW c \in Comps, BeginComponent(c)
  PROVE  NInv'
<1> PICK l : l = Len(calls)
  OBVIOUS
<1> PICK n : n = calls[l].node
  OBVIOUS
<1> PICK link : link = calls[l].link_only
  OBVIOUS
<1> PICK cs : cs = ComponentCalls(n, c, link)
  OBVIOUS
<1>1. /\ graph' = graph /\ nodes' = nodes /\ request' = request /\ selected' = selected
      /\ outcome' = outcome /\ calls # <<>>
      /\ TypeOK /\ SelectionOK /\ TrimOK
      /\ PendingOK /\ ProcessedOK /\ NeedOK /\ UniformOK /\ StartOK
  BY DEF BeginComponent, InLoop, SInv, NInv
<1>2. /\ l \in Nat /\ DOMAIN calls = 1..l /\ l \in DOMAIN calls
      /\ calls' \in Seq(Frame) /\ DOMAIN calls' = 1..l
      /\ \A i \in 1..l : i # l => calls'[i] = calls[i]
      /\ calls'[l].node = n /\ calls'[l].link_only = link
      /\ calls'[l].todo = calls[l].todo \ {c} /\ calls'[l].comp = c
      /\ calls'[l].pending = cs
      /\ calls[l].comp = None /\ c \in calls[l].todo
      /\ n \in DOMAIN graph /\ c \in Selected(n) /\ c \in Existing(n) /\ c # None
      /\ Range(cs) = CallsFor(nodes, n, c, link)
  BY BeginFrames
<1>3. /\ \A call : call.node \in DOMAIN graph =>
           (Met(call)' <=> Met(call)) /\ (CallOK(call)' <=> CallOK(call))
      /\ \A m : Selected(m)' = Selected(m)
      /\ \A m, d, x : Needs(m, d, x)' <=> Needs(m, d, x)
      /\ OnlyNeeded' <=> OnlyNeeded
      /\ RootCall' = RootCall
  BY <1>1, NothingSelected
<1>4. \A m \in DOMAIN graph : \A d : Processed(m, d)' <=> Processed(m, d)
  <2> TAKE m \in DOMAIN graph
  <2> TAKE d
  <2>1. \A call \in CallsFor(nodes, m, d, FALSE) : call.node \in DOMAIN graph
    BY <1>1, CalledNodes
  <2> QED  BY <1>1, <1>3, <2>1 DEF Processed
<1>5. \A i \in 1..l : calls[i].node \in DOMAIN graph
  BY <1>1, <1>2, FrameFacts
<1>6. PendingOK'
  <2>1. ASSUME NEW i \in 1..l, calls'[i].comp # None,
               NEW all, all = CallsFor(nodes, calls'[i].node, calls'[i].comp, calls'[i].link_only)
        PROVE  /\ Range(calls'[i].pending) \subseteq all
               /\ \A call \in all : call \in Range(calls'[i].pending) \/ Met(call)'
    <3>1. CASE i = l
      BY <1>2, <2>1, <3>1
    <3>2. CASE i # l
      <4>1. calls'[i] = calls[i]
        BY <1>2, <3>2
      <4>2. \A call \in all : call.node \in DOMAIN graph
        BY <1>1, <1>5, <2>1, <4>1, CalledNodes
      <4>3. /\ Range(calls[i].pending) \subseteq all
            /\ \A call \in all : call \in Range(calls[i].pending) \/ Met(call)
        BY <1>1, <1>2, <2>1, <4>1 DEF PendingOK
      <4> QED  BY <1>3, <4>1, <4>2, <4>3
    <3> QED  BY <3>1, <3>2
  <2> QED  BY <1>1, <1>2, <2>1 DEF PendingOK
<1>7. ProcessedOK'
  <2>1. ASSUME NEW m \in DOMAIN graph, NEW d \in Selected(m)
        PROVE  \/ Processed(m, d)'
               \/ \E i \in DOMAIN calls' :
                    calls'[i].node = m /\ (calls'[i].comp = d \/ d \in calls'[i].todo)
    <3>1. CASE Processed(m, d)
      BY <1>4, <3>1
    <3>2. CASE \E i \in 1..l : calls[i].node = m /\ (calls[i].comp = d \/ d \in calls[i].todo)
      <4>1. PICK i \in 1..l : calls[i].node = m /\ (calls[i].comp = d \/ d \in calls[i].todo)
        BY <3>2
      <4>2. d # None
        BY <1>1, NodeFacts, GraphsAssumption
      <4>3. calls'[i].node = m /\ (calls'[i].comp = d \/ d \in calls'[i].todo)
        BY <1>2, <4>1, <4>2
      <4> QED  BY <1>2, <4>3
    <3> QED  BY <1>1, <1>2, <3>1, <3>2 DEF ProcessedOK
  <2> QED  BY <1>1, <1>3, <2>1 DEF ProcessedOK
<1>8. ASSUME NEW call \in Range(cs)
      PROVE  CallOK(call)
  <2>1. call \in CallsFor(nodes, n, c, link) /\ Children(nodes, n) \subseteq Children(graph, n)
    BY <1>1, <1>2 DEF TrimOK
  <2>2. Processed(n, c) \/ Needs(n, c, link)
    BY <1>1, <1>2 DEF NeedOK
  <2>3. CASE Processed(n, c)
    <3>1. Met(call)
      BY <2>1, <2>3, ProcessedMet
    <3> QED  BY <3>1 DEF Met, CallOK
  <2>4. CASE Needs(n, c, link)
    BY <1>1, <1>2, <2>1, <2>4, AskedNeeded
  <2> QED  BY <2>2, <2>3, <2>4
<1>9. NeedOK'
  <2>1. ASSUME NEW i \in 1..l, NEW m, m = calls'[i].node
        PROVE  /\ \A d \in calls'[i].todo :
                    Processed(m, d)' \/ Needs(m, d, calls'[i].link_only)
               /\ \A call \in Range(calls'[i].pending) : CallOK(call)'
    <3>1. m = calls[i].node /\ m \in DOMAIN graph /\ calls'[i].link_only = calls[i].link_only
          /\ calls'[i].todo \subseteq calls[i].todo
      BY <1>2, <1>5, <2>1
    <3>2. \A d \in calls'[i].todo : Processed(m, d)' \/ Needs(m, d, calls'[i].link_only)
      BY <1>1, <1>2, <1>4, <3>1 DEF NeedOK
    <3>3. ASSUME NEW call \in Range(calls'[i].pending)  PROVE CallOK(call)'
      <4>1. CASE i = l
        <5>1. call \in Range(cs) /\ call.node \in DOMAIN graph
          BY <1>1, <1>2, <3>3, <4>1, CalledNodes
        <5> QED  BY <1>3, <1>8, <5>1
      <4>2. CASE i # l
        <5>1. call \in Range(calls[i].pending) /\ call.node \in DOMAIN graph
          BY <1>1, <1>2, <3>3, <4>2, PendingNodes
        <5> QED  BY <1>1, <1>2, <1>3, <5>1 DEF NeedOK
      <4> QED  BY <4>1, <4>2
    <3> QED  BY <3>2, <3>3
  <2>2. \A i \in 1..l : \A d \in calls'[i].todo :
          Processed(calls[i].node, d)' \/ Needs(calls'[i].node, d, calls'[i].link_only)
    <3> TAKE i \in 1..l
    <3> PICK m : m = calls'[i].node
      OBVIOUS
    <3>1. \A d \in calls'[i].todo : Processed(m, d)' \/ Needs(m, d, calls'[i].link_only)
      BY <2>1
    <3> QED  BY <3>1 DEF Processed
  <2>3. \A i \in 1..l : \A call \in Range(calls'[i].pending) : CallOK(call)'
    BY <2>1
  <2>4. Uses' = Uses
    BY <1>1 DEF Uses
  <2> QED  BY <1>1, <1>2, <1>3, <2>2, <2>3, <2>4 DEF NeedOK, Needs
<1>10. UniformOK'
  BY <1>1 DEF UniformOK, Needed, Uses, Wants
<1>11. StartOK'
  <2> PICK r : r = RootCall
    OBVIOUS
  <2>1. r.node = 1 /\ 1 \in DOMAIN graph
    BY <1>1, GraphFacts DEF RootCall, Call, TypeOK
  <2>2. Met(r)'
    BY <1>1, <1>3, <2>1 DEF StartOK
  <2>3. Met(RootCall)'
    BY <1>3, <2>2 DEF Met, Listed, Selected
  <2>4. calls' # <<>>
    BY <1>2
  <2> QED  BY <2>3, <2>4 DEF StartOK
<1> QED  BY <1>6, <1>7, <1>9, <1>10, <1>11 DEF NInv

-----------------------------------------------------------------------------
(* A component is done with.                                                *)
LEMMA EndNeeds ==
  ASSUME SInv, NInv, EndComponent
  PROVE  NInv'
<1> PICK l : l = Len(calls)
  OBVIOUS
<1> PICK n : n = calls[l].node
  OBVIOUS
<1> PICK c : c = calls[l].comp
  OBVIOUS
<1> PICK link : link = calls[l].link_only
  OBVIOUS
<1>1. /\ graph' = graph /\ request' = request /\ selected' = selected
      /\ outcome' = outcome /\ calls # <<>>
      /\ TypeOK /\ PathOK /\ SelectionOK /\ TrimOK
      /\ PendingOK /\ ProcessedOK /\ NeedOK /\ UniformOK /\ StartOK
  BY DEF EndComponent, InCalls, SInv, NInv
<1>2. /\ l \in Nat /\ DOMAIN calls = 1..l /\ l \in DOMAIN calls
      /\ calls' \in Seq(Frame) /\ DOMAIN calls' = 1..l
      /\ \A i \in 1..l : i # l => calls'[i] = calls[i]
      /\ calls'[l] = [calls[l] EXCEPT !.comp = None]
      /\ c # None /\ calls[l].pending = <<>>
      /\ n \in DOMAIN graph
      /\ \A m \in DOMAIN graph : nodes'[m].pkg = nodes[m].pkg
      /\ \A m \in DOMAIN graph : m # n => nodes'[m] = nodes[m]
      /\ Children(nodes', n) = Named(nodes, calls[l])
      /\ \A m \in DOMAIN graph : Children(nodes', m) \subseteq Children(nodes, m)
  BY EndFrames
<1>3. /\ calls'[l].node = n /\ calls'[l].todo = calls[l].todo
      /\ calls'[l].pending = calls[l].pending /\ calls'[l].comp = None
      /\ calls'[l].link_only = link
  <2>1. calls[l] \in Frame
    BY <1>1, <1>2, FrameFacts
  <2> QED  BY <1>2, <2>1 DEF Frame
<1>4. \A i \in 1..l : /\ calls'[i].node = calls[i].node /\ calls'[i].todo = calls[i].todo
                      /\ calls'[i].pending = calls[i].pending
                      /\ calls'[i].link_only = calls[i].link_only
                      /\ calls[i].node \in DOMAIN graph
  BY <1>1, <1>2, <1>3, FrameFacts
<1>5. /\ \A call : call.node \in DOMAIN graph =>
           (Met(call)' <=> Met(call)) /\ (CallOK(call)' <=> CallOK(call))
      /\ \A m : Selected(m)' = Selected(m)
      /\ \A m, d, x : Needs(m, d, x)' <=> Needs(m, d, x)
      /\ OnlyNeeded' <=> OnlyNeeded
      /\ RootCall' = RootCall
  BY <1>1, <1>2, NothingSelected
<1>6. \A m \in DOMAIN graph : \A d, x : CallsFor(nodes', m, d, x) \subseteq CallsFor(nodes, m, d, x)
  <2> SUFFICES ASSUME NEW m \in DOMAIN graph, NEW d, NEW x
               PROVE  CallsFor(nodes', m, d, x) \subseteq CallsFor(nodes, m, d, x)
    OBVIOUS
  <2>1. \A k \in Children(nodes', m) : nodes'[k].pkg = nodes[k].pkg
    BY <1>1, <1>2, NodeFacts
  <2> QED  BY <1>2, <2>1, FewerCalls
<1>7. \A m \in DOMAIN graph : \A d : Processed(m, d) => Processed(m, d)'
  <2> SUFFICES ASSUME NEW m \in DOMAIN graph, NEW d, Processed(m, d)  PROVE Processed(m, d)'
    OBVIOUS
  <2>1. \A call \in CallsFor(nodes, m, d, FALSE) : Met(call)'
    <3> TAKE call \in CallsFor(nodes, m, d, FALSE)
    <3>1. call.node \in DOMAIN graph
      BY <1>1, CalledNodes
    <3> QED  BY <1>5, <3>1 DEF Processed
  <2> QED  BY <1>6, <2>1 DEF Processed
<1>8. Processed(n, c)
  <2>1. Range(<<>>) = {}
    BY DEF Range
  <2>2. \A call \in CallsFor(nodes, n, c, link) : Met(call)
    BY <1>1, <1>2, <2>1 DEF PendingOK
  <2> QED  BY <2>2, ProcessedMet
<1>9. \A i \in 1..l : i # l => calls[i].node # n
  BY <1>1, <1>2 DEF PathOK
<1>10. PendingOK'
  <2>1. ASSUME NEW i \in 1..l, calls'[i].comp # None,
               NEW all, all = CallsFor(nodes', calls'[i].node, calls'[i].comp, calls'[i].link_only)
        PROVE  /\ Range(calls'[i].pending) \subseteq all
               /\ \A call \in all : call \in Range(calls'[i].pending) \/ Met(call)'
    <3>1. i # l /\ calls'[i] = calls[i]
      BY <1>2, <1>3, <2>1
    <3> PICK m : m = calls[i].node
      OBVIOUS
    <3> PICK d : d = calls[i].comp
      OBVIOUS
    <3> PICK x : x = calls[i].link_only
      OBVIOUS
    <3>2. m \in DOMAIN graph /\ nodes'[m] = nodes[m] /\ Children(nodes', m) = Children(nodes, m)
      BY <1>2, <1>4, <1>9, <3>1 DEF Children
    <3>3. \A k \in Children(nodes, m) : nodes'[k].pkg = nodes[k].pkg
      BY <1>1, <1>2, <3>2, NodeFacts
    <3>4. CallsFor(nodes, m, d, x) \subseteq CallsFor(nodes', m, d, x)
      BY <3>2, <3>3, FewerCalls
    <3>5. all = CallsFor(nodes, m, d, x)
      <4>1. all = CallsFor(nodes', m, d, x)
        BY <2>1, <3>1
      <4>2. CallsFor(nodes', m, d, x) \subseteq CallsFor(nodes, m, d, x)
        BY <1>6, <3>2
      <4> QED  BY <3>4, <4>1, <4>2
    <3>6. \A call \in all : call.node \in DOMAIN graph
      BY <1>1, <3>2, <3>5, CalledNodes
    <3>7. /\ Range(calls[i].pending) \subseteq all
          /\ \A call \in all : call \in Range(calls[i].pending) \/ Met(call)
      BY <1>1, <1>2, <2>1, <3>1, <3>5 DEF PendingOK
    <3> QED  BY <1>5, <3>1, <3>6, <3>7
  <2> QED  BY <1>1, <1>2, <2>1, SMTT(60) DEF PendingOK
<1>11. ProcessedOK'
  <2>1. ASSUME NEW m \in DOMAIN graph, NEW d \in Selected(m)
        PROVE  \/ Processed(m, d)'
               \/ \E i \in DOMAIN calls' :
                    calls'[i].node = m /\ (calls'[i].comp = d \/ d \in calls'[i].todo)
    <3>1. CASE Processed(m, d)
      BY <1>7, <3>1
    <3>2. CASE \E i \in 1..l : calls[i].node = m /\ (calls[i].comp = d \/ d \in calls[i].todo)
      <4>1. PICK i \in 1..l : calls[i].node = m /\ (calls[i].comp = d \/ d \in calls[i].todo)
        BY <3>2
      <4>2. CASE i = l /\ d \notin calls[i].todo
        BY <1>2, <1>7, <1>8, <4>1, <4>2
      <4>3. CASE i # l \/ d \in calls[i].todo
        BY <1>2, <1>4, <4>1, <4>3
      <4> QED  BY <4>2, <4>3
    <3> QED  BY <1>1, <1>2, <3>1, <3>2 DEF ProcessedOK
  <2> QED  BY <1>1, <1>5, <2>1 DEF ProcessedOK
<1>12. NeedOK'
  <2>1. \A i \in 1..l : \A d \in calls'[i].todo :
          Processed(calls[i].node, d)' \/ Needs(calls'[i].node, d, calls'[i].link_only)
    <3> TAKE i \in 1..l
    <3> PICK m : m = calls'[i].node
      OBVIOUS
    <3>1. \A d \in calls'[i].todo : Processed(m, d)' \/ Needs(m, d, calls'[i].link_only)
      BY <1>1, <1>2, <1>4, <1>7 DEF NeedOK
    <3> QED  BY <3>1 DEF Processed
  <2>2. \A i \in 1..l : \A call \in Range(calls'[i].pending) : CallOK(call)'
    <3> TAKE i \in 1..l
    <3> TAKE call \in Range(calls'[i].pending)
    <3>1. call \in Range(calls[i].pending) /\ call.node \in DOMAIN graph
      BY <1>1, <1>2, <1>4, PendingNodes
    <3> QED  BY <1>1, <1>2, <1>5, <3>1 DEF NeedOK
  <2>3. Uses' = Uses
    BY <1>1 DEF Uses
  <2> QED  BY <1>1, <1>2, <1>5, <2>1, <2>2, <2>3 DEF NeedOK, Needs
<1>13. UniformOK'
  <2>1. Needed' = Needed /\ \A m, d : Wants(m, d)' = Wants(m, d)
    BY <1>1 DEF Needed, Uses, Wants
  <2>2. ASSUME Uniform(graph, Needed), NEW m \in DOMAIN graph, NEW d \in Needed[m]
        PROVE  Wants(m, d) \subseteq Children(nodes', m)
    <3>1. Wants(m, d) \subseteq Children(nodes, m)
      BY <1>1, <2>2 DEF UniformOK
    <3>2. CASE m # n
      BY <1>2, <3>1, <3>2 DEF Children
    <3>3. CASE m = n
      <4>1. c \in Selected(n)
        BY <1>1, <1>2 DEF TrimOK
      <4>2. c \in Needed[n]
        <5>1. PICK x : Needs(n, c, x)
          BY <1>1, <1>2, <4>1 DEF NeedOK, OnlyNeeded, Needs
        <5> QED  BY <1>1, <5>1, NeedsType
      <4>3. Wants(m, d) = Wants(n, c)
        BY <2>2, <3>3, <4>2 DEF Uniform, Wants
      <4>4. Wants(n, c) \subseteq Named(nodes, calls[l])
        <5>1. ASSUME NEW k \in Wants(n, c)  PROVE k \in Named(nodes, calls[l])
          <6>1. k \in Children(nodes, n) /\ k \in Children(graph, n)
                /\ graph[k].pkg.name \in NamedBy(graph[n].pkg, c)
            BY <3>1, <3>3, <4>3 DEF Wants, WantsIn
          <6>2. nodes[k].pkg = graph[k].pkg /\ nodes[n].pkg = graph[n].pkg
            BY <1>1, <1>2, <6>1, NodeFacts DEF TypeOK
          <6> QED  BY <6>1, <6>2 DEF Named
        <5> QED  BY <5>1
      <4> QED  BY <1>2, <3>3, <4>3, <4>4
    <3> QED  BY <3>2, <3>3
  <2> QED  BY <1>1, <2>1, <2>2 DEF UniformOK
<1>14. StartOK'
  <2> PICK r : r = RootCall
    OBVIOUS
  <2>1. r.node = 1 /\ 1 \in DOMAIN graph
    BY <1>1, GraphFacts DEF RootCall, Call, TypeOK
  <2>2. Met(r)'
    BY <1>1, <1>5, <2>1 DEF StartOK
  <2>3. Met(RootCall)'
    BY <1>5, <2>2 DEF Met, Listed, Selected
  <2>4. calls' # <<>>
    BY <1>2
  <2> QED  BY <2>3, <2>4 DEF StartOK
<1> QED  BY <1>10, <1>11, <1>12, <1>13, <1>14 DEF NInv

-----------------------------------------------------------------------------
(* A call returns; a call throws.                                           *)
LEMMA ReturnNeeds ==
  ASSUME SInv, NInv, Return
  PROVE  NInv'
<1> PICK l : l = Len(calls)
  OBVIOUS
<1>1. /\ graph' = graph /\ nodes' = nodes /\ request' = request /\ selected' = selected
      /\ outcome' = (IF l = 1 THEN "done" ELSE outcome)
      /\ TypeOK
      /\ PendingOK /\ ProcessedOK /\ NeedOK /\ UniformOK /\ StartOK
  BY DEF Return, SInv, NInv
<1>2. /\ calls # <<>> /\ calls' \in Seq(Frame) /\ Len(calls') = l - 1 /\ l \in Nat
      /\ l \in DOMAIN calls /\ DOMAIN calls = 1..l
      /\ calls[l].comp = None /\ calls[l].todo = {}
      /\ DOMAIN calls' = 1..(l - 1)
      /\ \A i \in 1..(l - 1) : i \in 1..l /\ calls'[i] = calls[i]
  BY <1>1, ReturnFrames
<1>3. /\ \A call : call.node \in DOMAIN graph =>
           (Met(call)' <=> Met(call)) /\ (CallOK(call)' <=> CallOK(call))
      /\ \A m : Selected(m)' = Selected(m)
      /\ \A m, d, x : Needs(m, d, x)' <=> Needs(m, d, x)
      /\ OnlyNeeded' <=> OnlyNeeded
      /\ RootCall' = RootCall
  BY <1>1, NothingSelected
<1>4. \A m \in DOMAIN graph : \A d : Processed(m, d)' <=> Processed(m, d)
  <2> TAKE m \in DOMAIN graph
  <2> TAKE d
  <2>1. \A call \in CallsFor(nodes, m, d, FALSE) : call.node \in DOMAIN graph
    BY <1>1, CalledNodes
  <2> QED  BY <1>1, <1>3, <2>1 DEF Processed
<1>5. \A i \in 1..(l - 1) : calls[i].node \in DOMAIN graph
  BY <1>1, <1>2, FrameFacts
<1>6. PendingOK'
  <2>1. ASSUME NEW i \in 1..(l - 1), calls'[i].comp # None,
               NEW all, all = CallsFor(nodes, calls'[i].node, calls'[i].comp, calls'[i].link_only)
        PROVE  /\ Range(calls'[i].pending) \subseteq all
               /\ \A call \in all : call \in Range(calls'[i].pending) \/ Met(call)'
    <3>1. calls'[i] = calls[i] /\ i \in 1..l
      BY <1>2
    <3>2. \A call \in all : call.node \in DOMAIN graph
      BY <1>1, <1>5, <2>1, <3>1, CalledNodes
    <3>3. /\ Range(calls[i].pending) \subseteq all
          /\ \A call \in all : call \in Range(calls[i].pending) \/ Met(call)
      BY <1>1, <1>2, <2>1, <3>1 DEF PendingOK
    <3> QED  BY <1>3, <3>1, <3>2, <3>3
  <2> QED  BY <1>1, <1>2, <2>1 DEF PendingOK
<1>7. ProcessedOK'
  <2>1. ASSUME NEW m \in DOMAIN graph, NEW d \in Selected(m)
        PROVE  \/ Processed(m, d)'
               \/ \E i \in DOMAIN calls' :
                    calls'[i].node = m /\ (calls'[i].comp = d \/ d \in calls'[i].todo)
    <3>1. CASE Processed(m, d)
      BY <1>4, <3>1
    <3>2. CASE \E i \in 1..l : calls[i].node = m /\ (calls[i].comp = d \/ d \in calls[i].todo)
      <4>1. PICK i \in 1..l : calls[i].node = m /\ (calls[i].comp = d \/ d \in calls[i].todo)
        BY <3>2
      <4>2. d # None
        BY <1>1, NodeFacts, GraphsAssumption
      <4>3. i # l
        BY <1>2, <4>1, <4>2
      <4>4. i \in 1..(l - 1)
        BY <1>2, <4>3
      <4> QED  BY <1>2, <4>1, <4>4
    <3> QED  BY <1>1, <1>2, <3>1, <3>2, SMTT(60) DEF ProcessedOK
  <2> QED  BY <1>1, <1>3, <2>1 DEF ProcessedOK
<1>8. NeedOK'
  <2>1. \A i \in 1..(l - 1) : \A d \in calls'[i].todo :
          Processed(calls[i].node, d)' \/ Needs(calls'[i].node, d, calls'[i].link_only)
    <3> TAKE i \in 1..(l - 1)
    <3> PICK m : m = calls'[i].node
      OBVIOUS
    <3>1. \A d \in calls'[i].todo : Processed(m, d)' \/ Needs(m, d, calls'[i].link_only)
      BY <1>1, <1>2, <1>4, <1>5 DEF NeedOK
    <3> QED  BY <3>1 DEF Processed
  <2>2. \A i \in 1..(l - 1) : \A call \in Range(calls'[i].pending) : CallOK(call)'
    <3> TAKE i \in 1..(l - 1)
    <3> TAKE call \in Range(calls'[i].pending)
    <3>1. call \in Range(calls[i].pending) /\ call.node \in DOMAIN graph
      BY <1>1, <1>2, PendingNodes
    <3> QED  BY <1>1, <1>2, <1>3, <3>1 DEF NeedOK
  <2>3. Uses' = Uses
    BY <1>1 DEF Uses
  <2> QED  BY <1>1, <1>2, <1>3, <2>1, <2>2, <2>3 DEF NeedOK, Needs
<1>9. UniformOK'
  BY <1>1 DEF UniformOK, Needed, Uses, Wants
<1>10. StartOK'
  <2> PICK r : r = RootCall
    OBVIOUS
  <2>1. r.node = 1 /\ 1 \in DOMAIN graph
    BY <1>1, GraphFacts DEF RootCall, Call, TypeOK
  <2>2. Met(r)'
    BY <1>1, <1>2, <1>3, <2>1 DEF StartOK
  <2>3. Met(RootCall)'
    BY <1>3, <2>2 DEF Met, Listed, Selected
  <2>4. calls' = <<>> => outcome' = "done"
    <3>1. calls' = <<>> => l - 1 = 0
      BY <1>2
    <3> QED  BY <1>1, <1>2, <3>1
  <2> QED  BY <2>3, <2>4 DEF StartOK
<1> QED  BY <1>6, <1>7, <1>8, <1>9, <1>10 DEF NInv

(* Nothing but the outcome changes.                                         *)
LEMMA StillNeeds ==
  ASSUME NInv, UNCHANGED <<graph, request, nodes, selected, calls>>,
         outcome' = outcome \/ (outcome = "running" /\ outcome' = "terminated")
  PROVE  NInv'
<1>1. \A call : (Met(call)' <=> Met(call)) /\ (CallOK(call)' <=> CallOK(call))
  BY DEF Met, CallOK, Listed, Selected, Needs, Uses
<1>2. PendingOK'
  BY <1>1 DEF NInv, PendingOK
<1>3. \A m, d : /\ Processed(m, d)' <=> Processed(m, d)
                /\ Selected(m)' = Selected(m)
  BY <1>1 DEF Processed, Selected
<1>4. ProcessedOK'
  BY <1>3 DEF NInv, ProcessedOK
<1>5. NeedOK'
  BY <1>1 DEF NInv, NeedOK, OnlyNeeded, Needs, Uses, Processed, CallOK, Met, Listed, Selected
<1>6. UniformOK'
  BY DEF NInv, UniformOK, Needed, Uses, Wants
<1>7. StartOK'
  BY <1>3 DEF NInv, StartOK, Met, RootCall, Listed, Selected
<1> QED  BY <1>2, <1>4, <1>5, <1>6, <1>7 DEF NInv

LEMMA InitNInv == Init => NInv
<1> SUFFICES ASSUME Init  PROVE NInv
  OBVIOUS
<1>1. /\ graph \in Graphs /\ nodes = graph /\ calls = <<>> /\ outcome = "running"
      /\ DOMAIN calls = {}
  BY DEF Init
<1>2. \A n \in DOMAIN graph : Selected(n) = {}
  BY DEF Init, Selected, Keys, Nothing
<1>3. UniformOK
  BY <1>1 DEF UniformOK, Wants, WantsIn
<1> QED  BY <1>1, <1>2, <1>3 DEF NInv, PendingOK, ProcessedOK, NeedOK, OnlyNeeded, StartOK

LEMMA NextNInv == SInv /\ NInv /\ [Next]_vars => NInv'
<1> SUFFICES ASSUME SInv, NInv, [Next]_vars  PROVE NInv'
  OBVIOUS
<1>1. CASE Enter
  BY <1>1, EnterNeeds
<1>2. CASE \E c \in Comps : BeginComponent(c)
  BY <1>2, BeginNeeds
<1>3. CASE EndComponent
  BY <1>3, EndNeeds
<1>4. CASE Return
  BY <1>4, ReturnNeeds
<1>5. CASE Throw
  <2>1. outcome = "running"
    BY <1>5 DEF Throw, Calling, InCalls, Running
  <2> QED  BY <1>5, <2>1, StillNeeds DEF Throw
<1>6. CASE UNCHANGED vars
  BY <1>6, StillNeeds DEF vars
<1> QED  BY <1>1, <1>2, <1>3, <1>4, <1>5, <1>6 DEF Next

(* The invariant behind what follows: a frame's calls are what its component *)
(* asks for, and are made or still pending; a component that is selected has *)
(* had its calls made, or is in a frame that is to make them; who is called  *)
(* is called for what the request needs; and a child that the needed         *)
(* components of a node all ask for is still there.                         *)
THEOREM NeedHolds == Spec => []NInv
BY InitNInv, NextNInv, SelectionHolds, PTL DEF Spec

(* At every point a selected component is one that the request needs, and    *)
(* one not marked link_only is needed to compile: set_components gives        *)
(* nobody else's flags.                                                     *)
THEOREM OnlyTheNeeded == Spec => []OnlyNeeded
<1>1. NInv => OnlyNeeded
  BY DEF NInv, NeedOK
<1> QED  BY <1>1, NeedHolds, PTL

(* At the end everything needed has been selected.                          *)
LEMMA AllSelected == SInv /\ NInv => NeededSelected
<1> SUFFICES ASSUME SInv, NInv, Done, Uniform(graph, Needed)
             PROVE  \A n \in DOMAIN graph : Selected(n) = Needed[n]
  BY DEF NeededSelected
<1>1. /\ TypeOK /\ SelectionOK /\ TrimOK
      /\ PendingOK /\ ProcessedOK /\ NeedOK /\ UniformOK /\ StartOK
  BY DEF SInv, NInv
<1>2. DOMAIN calls = {} /\ Met(RootCall)
  BY <1>1 DEF Done, TypeOK, StartOK
<1> DEFINE U == AllUses(graph)
           G == {u \in U : u[2] \in Selected(u[1])}
<1>3. \A n \in DOMAIN graph : Selected(n) \subseteq Needed[n]
  <2> SUFFICES ASSUME NEW n \in DOMAIN graph, NEW c \in Selected(n)  PROVE c \in Needed[n]
    OBVIOUS
  <2>1. PICK x : Needs(n, c, x)
    BY <1>1 DEF NeedOK, OnlyNeeded, Needs
  <2> QED  BY <1>1, <2>1, NeedsType
<1>4. \A c \in Listed(RootCall) : <<1, c, FALSE>> \in G
  <2> SUFFICES ASSUME NEW c \in Listed(RootCall)  PROVE <<1, c, FALSE>> \in G
    BY Zenon
  <2>1. c \in Selected(1) /\ 1 \in DOMAIN graph
    BY <1>1, <1>2, GraphFacts DEF Met, RootCall, Call, TypeOK
  <2>2. c \in Comps
    BY <1>1, <2>1, NodeFacts
  <2> QED  BY <2>1, <2>2 DEF AllUses
<1>5. ASSUME NEW n \in DOMAIN graph, NEW c \in Selected(n), NEW link \in BOOLEAN
      PROVE  NeededBy(graph, n, c, link) \subseteq G
  <2> DEFINE p == graph[n].pkg
             yes == TRUE
  <2>1. /\ c \in Existing(n) /\ SelfRequires(p, c) \subseteq Selected(n) /\ c \in Needed[n]
        /\ nodes[n].pkg = p
    BY <1>1, <1>3, <1>5, NodeFacts DEF SelectionOK
  <2>2. NeededBy(graph, n, c, link) =
          {<<n, s, link>> : s \in SelfRequires(p, c)}
            \cup NeededOf(graph, n, Require(p, c), link)
            \cup NeededOf(graph, n, LinkRequire(p, c), yes)
    BY <2>1 DEF NeededBy, Existing
  <2>3. Wants(n, c) \subseteq Children(nodes, n)
    BY <1>1, <2>1 DEF UniformOK
  <2>4. \A call \in CallsFor(nodes, n, c, link) : Met(call)
    <3>1. Processed(n, c)
      BY <1>1, <1>2, <1>5 DEF ProcessedOK
    <3> QED  BY <3>1, ProcessedMet
  <2>5. CallsFor(nodes, n, c, link) =
          Asked(nodes, n, Require(p, c), link) \cup Asked(nodes, n, LinkRequire(p, c), yes)
    BY <2>1 DEF CallsFor
  <2>6. (DOMAIN Require(p, c) \cup DOMAIN LinkRequire(p, c)) \ {Self} = NamedBy(p, c)
    BY <2>1 DEF NamedBy, Existing
  <2> HIDE DEF p, yes
  <2>7. ASSUME NEW r, NEW l, DOMAIN r \ {Self} \subseteq NamedBy(p, c),
               \A call \in Asked(nodes, n, r, l) : Met(call),
               NEW u \in NeededOf(graph, n, r, l)
        PROVE  u[2] \in Selected(u[1])
    <3>1. PICK k, s :
             /\ k \in Children(graph, n)
             /\ graph[k].pkg.name \in DOMAIN r
             /\ s \in r[graph[k].pkg.name].components
                       \cup Defaults(graph[k].pkg, r[graph[k].pkg.name].defaults)
             /\ u = <<k, s, l>>
      BY <2>7 DEF NeededOf
    <3>2. k \in DOMAIN graph
      BY <1>1, <3>1, GraphFacts DEF TypeOK
    <3>3. graph[k].pkg.name # Self /\ nodes[k].pkg = graph[k].pkg
      <4>1. graph[k].pkg \in Package /\ nodes[k].pkg = graph[k].pkg
        BY <1>1, <3>2, NodeFacts
      <4>2. graph[k].pkg.name \in Names
        BY <4>1 DEF Package
      <4> QED  BY <4>1, <4>2, PackagesAssumption
    <3>4. k \in Children(nodes, n)
      BY <2>3, <2>7, <3>1, <3>3 DEF Wants, WantsIn, p
    <3> DEFINE call == Call(k, r[nodes[k].pkg.name].components,
                            r[nodes[k].pkg.name].defaults, l)
    <3>5. call \in Asked(nodes, n, r, l)
      BY <3>1, <3>3, <3>4 DEF Asked
    <3>6. s \in Listed(call) /\ call.node = k
      BY <3>1, <3>3 DEF Call, Listed
    <3> QED  BY <2>7, <3>1, <3>5, <3>6 DEF Met
  <2>8. ASSUME NEW u \in NeededBy(graph, n, c, link)  PROVE u[2] \in Selected(u[1])
    <3>1. CASE u \in {<<n, s, link>> : s \in SelfRequires(p, c)}
      BY <2>1, <3>1
    <3>2. CASE u \in NeededOf(graph, n, Require(p, c), link)
      BY <2>4, <2>5, <2>6, <2>7, <3>2
    <3>3. CASE u \in NeededOf(graph, n, LinkRequire(p, c), yes)
      BY <2>4, <2>5, <2>6, <2>7, <3>3
    <3> QED  BY <2>2, <3>1, <3>2, <3>3
  <2>9. NeededBy(graph, n, c, link) \subseteq U
    BY <1>1, GraphsFinite, NeededByType DEF TypeOK
  <2> QED  BY <2>8, <2>9
<1>6. \A u \in G \cap U : NeededBy(graph, u[1], u[2], u[3]) \subseteq G
  <2> TAKE u \in G \cap U
  <2>1. u[1] \in DOMAIN graph /\ u[2] \in Selected(u[1]) /\ u[3] \in BOOLEAN
    BY DEF AllUses
  <2> HIDE DEF G
  <2> QED  BY <1>5, <2>1
<1>7. Uses \subseteq G
  <2> HIDE DEF G
  <2> QED  BY <1>1, <1>4, <1>6, UsesFacts
<1>8. ASSUME NEW n \in DOMAIN graph, NEW c \in Needed[n]  PROVE c \in Selected(n)
  <2>1. PICK u \in Uses : u[1] = n /\ u[2] = c
    BY <1>8 DEF Needed, NeededIn
  <2> QED  BY <1>7, <2>1
<1> QED  BY <1>3, <1>8

(* When the root's call has returned, and the needed components of a node    *)
(* ask for the same children, what is selected is exactly what the request   *)
(* needs, whatever the order in which components were visited.              *)
THEOREM NeededAll == Spec => []NeededSelected
BY AllSelected, SelectionHolds, NeedHolds, PTL

(* The one half of ThrowsForMissing: nothing throws for another reason.     *)
DiesForMissing ==
  outcome = "terminated" => \E n \in DOMAIN graph : ~(Needed[n] \subseteq Existing(n))

(* The program dies of an unordered_map::at in set_components only for a     *)
(* component that the request needs and its package does not have; and it   *)
(* does not get to the end without one, where the needed components of a    *)
(* node ask for the same children.                                         *)
THEOREM ThrownForMissing == Spec => []ThrowsForMissing
<1> DEFINE Missing == \E n \in DOMAIN graph : ~(Needed[n] \subseteq Existing(n))
<1>1. DiesForMissing <=> (outcome = "terminated" => Missing)
  BY DEF DiesForMissing
<1>2. Init => DiesForMissing
  BY DEF Init, DiesForMissing
<1>3. SInv /\ NInv /\ DiesForMissing /\ [Next]_vars => DiesForMissing'
  <2> SUFFICES ASSUME SInv, NInv, DiesForMissing, [Next]_vars, outcome' = "terminated"
               PROVE  Missing'
    BY SMTT(60) DEF DiesForMissing
  <2>1. graph' = graph /\ request' = request
    BY DEF Next, Enter, Throw, BeginComponent, EndComponent, Return, vars
  <2>2. Needed' = Needed /\ \A n : Existing(n)' = Existing(n)
    BY <2>1 DEF Needed, Uses, Existing
  <2>3. CASE Throw
    <3> PICK q : q = NextCall
      OBVIOUS
    <3> PICK n : n = q.node
      OBVIOUS
    <3>1. TypeOK /\ PathOK /\ SelectionOK /\ Calling /\ AtThrows(q)
      BY <2>3 DEF Throw, SInv
    <3>2. q \in CallType /\ n \in DOMAIN graph
      BY <3>1, CalledFacts
    <3>3. CallOK(q)
      BY <3>1, NextCallOK
    <3>4. PICK c \in Closure(q) : c \notin Existing(n)
      BY <3>1, <3>2, NodeFacts DEF AtThrows, Existing
    <3>5. Needs(n, c, q.link_only)
      BY <3>1, <3>2, <3>3, <3>4, ClosureNeeded DEF SelectionOK
    <3>6. c \in Needed[n]
      BY <3>1, <3>5, NeedsType
    <3> QED  BY <2>1, <2>2, <3>2, <3>4, <3>6
  <2>4. CASE ~Throw
    <3>1. outcome = "terminated"
      BY <2>4 DEF Next, Enter, BeginComponent, EndComponent, Return, vars, Calling, InCalls,
                  InLoop, Running
    <3>2. Missing
      BY <1>1, <3>1
    <3> QED  BY <2>1, <2>2, <3>2, SMTT(60)
  <2> QED  BY <2>3, <2>4
<1>4. ASSUME SInv, NInv, Done, Uniform(graph, Needed), NEW n \in DOMAIN graph
      PROVE  Needed[n] \subseteq Existing(n)
  <2>1. Selected(n) = Needed[n]
    BY <1>4, AllSelected DEF NeededSelected
  <2>2. Selected(n) \subseteq Existing(n)
    BY <1>4 DEF SInv, SelectionOK
  <2> QED  BY <2>1, <2>2
<1>5. SInv /\ NInv /\ DiesForMissing => ThrowsForMissing
  BY <1>4 DEF ThrowsForMissing, DiesForMissing
<1> QED  BY <1>2, <1>3, <1>5, SelectionHolds, NeedHolds, PTL DEF Spec

-----------------------------------------------------------------------------
(* Where no needed component has link_requires, nobody is called to link     *)
(* only, and nothing is marked so.                                         *)
NoneLinks(g, uses) ==
  \A u \in uses : u[2] \in Keys(g[u[1]].pkg.components) =>
                    g[u[1]].pkg.components[u[2]].link_requires = {}

CompileOK ==
  NoneLinks(graph, Uses) =>
    /\ \A n \in DOMAIN graph : \A c \in Comps : selected[n][c] # TRUE
    /\ \A i \in DOMAIN calls :
         calls[i].link_only = FALSE /\ \A call \in Range(calls[i].pending) : call.link_only = FALSE

LEMMA InitCompile == Init => CompileOK
<1> SUFFICES ASSUME Init  PROVE CompileOK
  OBVIOUS
<1>1. DOMAIN calls = {}
  BY DEF Init
<1>2. \A n \in DOMAIN graph : \A c \in Comps : selected[n][c] = None
  BY DEF Init, Nothing
<1>3. None # TRUE
  BY GraphsAssumption
<1> QED  BY <1>1, <1>2, <1>3 DEF CompileOK

LEMMA NextCompile == SInv /\ NInv /\ CompileOK /\ [Next]_vars => CompileOK'
<1>1. SUFFICES ASSUME SInv, NInv, CompileOK, [Next]_vars, NoneLinks(graph', Uses')
               PROVE  /\ \A n \in DOMAIN graph' : \A c \in Comps : selected'[n][c] # TRUE
                      /\ \A i \in DOMAIN calls' :
                           /\ calls'[i].link_only = FALSE
                           /\ \A call \in Range(calls'[i].pending) : call.link_only = FALSE
  BY DEF CompileOK
<1>2. graph' = graph /\ Uses' = Uses
  <2>1. graph' = graph /\ request' = request
    <3>1. CASE Next
      BY <3>1, Zenon DEF Next, Enter, Throw, BeginComponent, EndComponent, Return
    <3>2. CASE UNCHANGED vars
      BY <3>2 DEF vars
    <3> QED  BY <1>1, <3>1, <3>2
  <2> QED  BY <2>1 DEF Uses
<1>3. /\ \A n \in DOMAIN graph : \A c \in Comps : selected[n][c] # TRUE
      /\ \A i \in DOMAIN calls :
           calls[i].link_only = FALSE /\ \A call \in Range(calls[i].pending) : call.link_only = FALSE
  BY <1>1, <1>2 DEF CompileOK
<1>4. TypeOK /\ PathOK /\ OnlyNeeded
  BY <1>1 DEF SInv, NInv, NeedOK
<1> PICK l : l = Len(calls)
  OBVIOUS
<1>5. CASE Enter
  <2> PICK q : q = NextCall
    OBVIOUS
  <2>1. /\ l \in Nat /\ DOMAIN calls = 1..l /\ DOMAIN calls' = 1..(l + 1)
        /\ calls'[l + 1] = Entered
        /\ \A i \in 1..l : /\ Alike(calls'[i], calls[i])
                           /\ Range(calls'[i].pending) \subseteq Range(calls[i].pending)
    BY <1>4, <1>5, EnterFrames
  <2>2. q.link_only = FALSE /\ q.node \in DOMAIN graph
    <3>1. /\ Calling /\ q \in CallType /\ q.node \in DOMAIN graph
          /\ calls = <<>> => q = RootCall
          /\ calls # <<>> => q \in Range(Top.pending)
      BY <1>4, <1>5, CalledFacts DEF Enter
    <3>2. CASE calls = <<>>
      BY <3>1, <3>2 DEF RootCall, Call
    <3>3. CASE calls # <<>>
      <4>1. Top = calls[l] /\ l \in DOMAIN calls
        BY <1>4, <3>3, TopFacts
      <4>2. q.link_only = FALSE
        BY <1>3, <3>1, <3>3, <4>1
      <4>3. q.link_only \in BOOLEAN
        BY <3>1 DEF CallType
      <4> QED  BY <3>1, <4>2, <4>3
    <3> QED  BY <3>2, <3>3
  <2>3. /\ \A m \in DOMAIN graph : m # q.node => selected'[m] = selected[m]
        /\ \A c \in Comps \ Touched(q) : selected'[q.node][c] = selected[q.node][c]
        /\ \A c \in Touched(q) : Joined(selected[q.node][c], selected'[q.node][c], FALSE)
    BY <1>4, <1>5, <2>2, EnterSelects
  <2>4. ASSUME NEW n \in DOMAIN graph, NEW c \in Comps
        PROVE  selected'[n][c] # TRUE
    <3>1. selected[n][c] # TRUE /\ selected[n][c] \in BOOLEAN \cup {None}
      BY <1>3, <1>4, NodeFacts
    <3>2. CASE n = q.node /\ c \in Touched(q)
      <4>1. CASE selected[n][c] = None
        BY <2>3, <3>2, <4>1 DEF Joined
      <4>2. CASE selected[n][c] # None
        <5>1. selected[n][c] = FALSE /\ selected'[n][c] = (selected[n][c] \/ FALSE)
          BY <2>3, <3>1, <3>2, <4>2 DEF Joined
        <5> QED  BY <5>1
      <4> QED  BY <4>1, <4>2
    <3>3. CASE ~(n = q.node /\ c \in Touched(q))
      BY <2>3, <3>1, <3>3
    <3> QED  BY <3>2, <3>3
  <2>5. ASSUME NEW i \in 1..(l + 1)
        PROVE  /\ calls'[i].link_only = FALSE
               /\ \A call \in Range(calls'[i].pending) : call.link_only = FALSE
    <3>1. CASE i = l + 1
      BY <2>1, <2>2, <3>1 DEF Entered, Range
    <3>2. CASE i # l + 1
      <4>1. i \in 1..l
        BY <2>1, <3>2
      <4> QED  BY <1>3, <2>1, <4>1 DEF Alike
    <3> QED  BY <3>1, <3>2
  <2> QED  BY <1>2, <2>1, <2>4, <2>5
<1>6. ASSUME NEW c \in Comps, BeginComponent(c)
      PROVE  \A i \in DOMAIN calls' : /\ calls'[i].link_only = FALSE
                                      /\ \A call \in Range(calls'[i].pending) : call.link_only = FALSE
  <2> PICK n : n = calls[l].node
    OBVIOUS
  <2> PICK link : link = calls[l].link_only
    OBVIOUS
  <2>1. /\ DOMAIN calls = 1..l /\ l \in DOMAIN calls /\ DOMAIN calls' = 1..l
        /\ \A i \in 1..l : i # l => calls'[i] = calls[i]
        /\ calls'[l].link_only = link
        /\ n \in DOMAIN graph /\ c \in Selected(n) /\ c \in Existing(n)
        /\ Range(calls'[l].pending) = CallsFor(nodes, n, c, link)
    BY <1>1, <1>6, BeginFrames
  <2>2. link = FALSE
    BY <1>3, <2>1
  <2>3. LinkRequire(nodes[n].pkg, c) = process_requires({})
    <3>1. PICK x : <<n, c, x>> \in Uses
      BY <1>4, <2>1 DEF OnlyNeeded
    <3>2. graph[n].pkg.components[c].link_requires = {}
      <4> DEFINE u == <<n, c, x>>
      <4>1. u \in Uses /\ u[1] = n /\ u[2] = c
        BY <3>1
      <4> HIDE DEF u
      <4> QED  BY <1>1, <1>2, <2>1, <4>1 DEF NoneLinks, Existing
    <3>3. nodes[n].pkg = graph[n].pkg
      BY <1>4, <2>1, NodeFacts
    <3> QED  BY <3>2, <3>3 DEF LinkRequire
  <2>4. CallsFor(nodes, n, c, link) = Asked(nodes, n, Require(nodes[n].pkg, c), FALSE)
    <3>1. DOMAIN process_requires({}) = {}
      BY DEF process_requires
    <3>2. \A x : Asked(nodes, n, process_requires({}), x) = {}
      BY <3>1 DEF Asked
    <3> PICK r : r = LinkRequire(nodes[n].pkg, c)
      OBVIOUS
    <3>3. \A x : Asked(nodes, n, r, x) = {}
      BY <2>3, <3>2
    <3>4. CallsFor(nodes, n, c, link) = Asked(nodes, n, Require(nodes[n].pkg, c), link)
      BY <3>3, Zenon DEF CallsFor
    <3> QED  BY <2>2, <3>4
  <2>5. \A call \in Range(calls'[l].pending) : call.link_only = FALSE
    <3> PICK r : r = Require(nodes[n].pkg, c)
      OBVIOUS
    <3>1. ASSUME NEW call \in Asked(nodes, n, r, FALSE)  PROVE call.link_only = FALSE
      <4>1. PICK k, a, b : call = Call(k, a, b, FALSE)
        BY DEF Asked
      <4> QED  BY <4>1 DEF Call
    <3>2. Range(calls'[l].pending) = Asked(nodes, n, r, FALSE)
      BY <2>1, <2>4
    <3>3. ASSUME NEW x \in Range(calls'[l].pending)  PROVE x.link_only = FALSE
      <4>1. x \in Asked(nodes, n, r, FALSE)
        BY <3>2, Zenon
      <4> QED  BY <3>1, <4>1, Zenon
    <3> QED  BY <3>3, Zenon
  <2> QED  BY <1>3, <2>1, <2>2, <2>5
<1>7. ASSUME EndComponent
      PROVE  \A i \in DOMAIN calls' : /\ calls'[i].link_only = FALSE
                                      /\ \A call \in Range(calls'[i].pending) : call.link_only = FALSE
  <2>1. /\ DOMAIN calls = 1..l /\ l \in DOMAIN calls /\ DOMAIN calls' = 1..l
        /\ \A i \in 1..l : i # l => calls'[i] = calls[i]
        /\ calls'[l] = [calls[l] EXCEPT !.comp = None]
    BY <1>1, <1>7, EndFrames
  <2>2. calls[l] \in Frame
    BY <1>4, <2>1, FrameFacts
  <2>3. calls'[l].link_only = calls[l].link_only /\ calls'[l].pending = calls[l].pending
    BY <2>1, <2>2 DEF Frame
  <2>4. ASSUME NEW i \in 1..l
        PROVE  /\ calls'[i].link_only = FALSE
               /\ \A call \in Range(calls'[i].pending) : call.link_only = FALSE
    <3>1. CASE i = l
      BY <1>3, <2>1, <2>3, <3>1
    <3>2. CASE i # l
      <4>1. calls'[i] = calls[i]
        BY <2>1, <3>2
      <4> QED  BY <1>3, <2>1, <4>1
    <3> QED  BY <3>1, <3>2
  <2> QED  BY <2>1, <2>4
<1>8. ASSUME Return
      PROVE  \A i \in DOMAIN calls' : /\ calls'[i].link_only = FALSE
                                      /\ \A call \in Range(calls'[i].pending) : call.link_only = FALSE
  BY <1>3, <1>4, <1>8, ReturnFrames
<1>9. CASE Throw \/ UNCHANGED vars
  BY <1>2, <1>3, <1>9 DEF Throw, vars
<1>10. (\E c \in Comps : BeginComponent(c)) \/ EndComponent \/ Return => selected' = selected
  BY Zenon DEF BeginComponent, EndComponent, Return
<1> QED  BY <1>1, <1>2, <1>3, <1>5, <1>6, <1>7, <1>8, <1>9, <1>10 DEF Next

(* A component is marked link_only only where a needed one has link_requires: *)
(* where none has, set_components marks none, whoever calls it.             *)
THEOREM CompileHolds == Spec => []CompileOK
BY InitCompile, NextCompile, SelectionHolds, NeedHolds, PTL DEF Spec

-----------------------------------------------------------------------------
(* From one graph to another: nodes are related when they have the same      *)
(* package, and the children that a need leads to have related ones.  What   *)
(* is needed in the first is then needed of related nodes in the second.     *)
Carried(R, uses, u) == \E m : <<u[1], m>> \in R /\ <<m, u[2], u[3]>> \in uses

LEMMA CarryNeeds ==
  ASSUME NEW g, FiniteGraph(g), NEW h, FiniteGraph(h), NEW R, NEW uses,
         \A v \in uses : NeededBy(h, v[1], v[2], v[3]) \subseteq uses,
         NEW n, NEW m, NEW c, NEW link, <<n, m>> \in R, <<m, c, link>> \in uses,
         \A x, y : <<x, y>> \in R =>
           x \in DOMAIN g /\ y \in DOMAIN h /\ g[x].pkg = h[y].pkg,
         \A k \in WantsIn(g, n, c) : \E j \in Children(h, m) : <<k, j>> \in R,
         NEW u \in NeededBy(g, n, c, link)
  PROVE  Carried(R, uses, u)
<1> DEFINE p == g[n].pkg
           yes == TRUE
<1>1. n \in DOMAIN g /\ m \in DOMAIN h /\ h[m].pkg = p
  OBVIOUS
<1>2. c \in Keys(p.components)
  BY DEF NeededBy
<1>3. NeededBy(g, n, c, link) =
        {<<n, s, link>> : s \in SelfRequires(p, c)}
          \cup NeededOf(g, n, Require(p, c), link)
          \cup NeededOf(g, n, LinkRequire(p, c), yes)
  BY <1>2 DEF NeededBy
<1>4. NeededBy(h, m, c, link) =
        {<<m, s, link>> : s \in SelfRequires(p, c)}
          \cup NeededOf(h, m, Require(p, c), link)
          \cup NeededOf(h, m, LinkRequire(p, c), yes)
  BY <1>1, <1>2 DEF NeededBy
<1>5. NeededBy(h, m, c, link) \subseteq uses
  <2> DEFINE v == <<m, c, link>>
  <2>1. v \in uses /\ v[1] = m /\ v[2] = c /\ v[3] = link
    OBVIOUS
  <2> HIDE DEF v
  <2> QED  BY <2>1
<1>6. (DOMAIN Require(p, c) \cup DOMAIN LinkRequire(p, c)) \ {Self} = NamedBy(p, c)
  BY <1>2 DEF NamedBy
<1> HIDE DEF p, yes
<1>7. ASSUME NEW required, NEW l, DOMAIN required \ {Self} \subseteq NamedBy(p, c),
             NeededOf(h, m, required, l) \subseteq uses, u \in NeededOf(g, n, required, l)
      PROVE  Carried(R, uses, u)
  <2>1. PICK k, s :
          /\ k \in Children(g, n) /\ g[k].pkg.name \in DOMAIN required
          /\ s \in required[g[k].pkg.name].components
                    \cup Defaults(g[k].pkg, required[g[k].pkg.name].defaults)
          /\ u = <<k, s, l>>
    BY <1>7 DEF NeededOf
  <2>2. g[k].pkg.name # Self
    <3>1. g[k].pkg \in Package
      BY <1>1, <2>1 DEF FiniteGraph
    <3> QED  BY <3>1, PackagesAssumption DEF Package
  <2>3. k \in WantsIn(g, n, c)
    BY <1>7, <2>1, <2>2 DEF WantsIn, p
  <2>4. PICK j \in Children(h, m) : <<k, j>> \in R
    BY <2>3
  <2>5. h[j].pkg = g[k].pkg
    BY <2>4
  <2>6. <<j, s, l>> \in NeededOf(h, m, required, l)
    BY <2>1, <2>4, <2>5 DEF NeededOf
  <2> QED
    BY <1>7, <2>1, <2>4, <2>6 DEF Carried
<1>8. CASE u \in {<<n, s, link>> : s \in SelfRequires(p, c)}
  <2>1. PICK s \in SelfRequires(p, c) : u = <<n, s, link>>
    BY <1>8
  <2>2. <<m, s, link>> \in uses
    BY <1>4, <1>5, <2>1
  <2> QED  BY <2>1, <2>2 DEF Carried
<1>9. CASE u \in NeededOf(g, n, Require(p, c), link)
  BY <1>4, <1>5, <1>6, <1>7, <1>9
<1>10. CASE u \in NeededOf(g, n, LinkRequire(p, c), yes)
  BY <1>4, <1>5, <1>6, <1>7, <1>10
<1> QED  BY <1>3, <1>8, <1>9, <1>10

LEMMA UsesCarry ==
  ASSUME NEW g, FiniteGraph(g), NEW h, FiniteGraph(h), NEW a \in DOMAIN g,
         NEW b \in DOMAIN h, NEW components \in SUBSET Comps, NEW R, <<a, b>> \in R,
         \A x, y : <<x, y>> \in R =>
           x \in DOMAIN g /\ y \in DOMAIN h /\ g[x].pkg = h[y].pkg,
         \A n, m, c, link :
           /\ <<n, c, link>> \in UsesFrom(g, a, components) /\ <<n, m>> \in R
           /\ <<m, c, link>> \in UsesFrom(h, b, components)
           => \A k \in WantsIn(g, n, c) : \E j \in Children(h, m) : <<k, j>> \in R
  PROVE  \A u \in UsesFrom(g, a, components) : Carried(R, UsesFrom(h, b, components), u)
<1> DEFINE from == UsesFrom(g, a, components)
           uses == UsesFrom(h, b, components)
           G == {u \in from : Carried(R, uses, u)}
<1>1. /\ from \subseteq AllUses(g)
      /\ FirstUses(g, a, components) \subseteq from
      /\ \A u \in from : NeededBy(g, u[1], u[2], u[3]) \subseteq from
      /\ \A S : /\ FirstUses(g, a, components) \subseteq S
                /\ \A u \in S \cap AllUses(g) : NeededBy(g, u[1], u[2], u[3]) \subseteq S
                => from \subseteq S
  BY UsesLeast
<1>2. /\ FirstUses(h, b, components) \subseteq uses
      /\ \A u \in uses : NeededBy(h, u[1], u[2], u[3]) \subseteq uses
  BY UsesLeast
<1> HIDE DEF from, uses
<1>3. FirstUses(g, a, components) \subseteq G
  <2> SUFFICES ASSUME NEW u \in FirstUses(g, a, components)  PROVE Carried(R, uses, u)
    BY <1>1
  <2>1. g[a].pkg = h[b].pkg
    OBVIOUS
  <2>2. PICK c \in components \cup Defaults(h[b].pkg, components = {}) : u = <<a, c, FALSE>>
    BY <2>1 DEF FirstUses
  <2>3. <<b, c, FALSE>> \in FirstUses(h, b, components)
    BY <2>2 DEF FirstUses
  <2> QED  BY <1>2, <2>2, <2>3 DEF Carried
<1>4. ASSUME NEW u \in G \cap AllUses(g), NEW v \in NeededBy(g, u[1], u[2], u[3])
      PROVE  v \in G
  <2>1. PICK n, c, link : u = <<n, c, link>>
    BY <1>4 DEF AllUses
  <2>2. <<n, c, link>> \in from /\ v \in NeededBy(g, n, c, link)
    BY <1>4, <2>1
  <2>3. PICK m : <<n, m>> \in R /\ <<m, c, link>> \in uses
    BY <1>4, <2>1 DEF Carried
  <2>4. \A k \in WantsIn(g, n, c) : \E j \in Children(h, m) : <<k, j>> \in R
    BY <2>2, <2>3 DEF from, uses
  <2>5. Carried(R, uses, v)
    BY <1>2, <2>2, <2>3, <2>4, CarryNeeds
  <2>6. v \in from
    BY <1>1, <1>4
  <2> QED  BY <2>5, <2>6
<1>5. from \subseteq G
  <2> HIDE DEF G
  <2> QED  BY <1>1, <1>3, <1>4
<1> QED  BY <1>5 DEF from, uses
=============================================================================
