------------------------ MODULE TopologicalSortProofs ------------------------
(***************************************************************************)
(* tsort, for every acyclic graph: it sorts exactly the nodes the root      *)
(* reaches, each of them once, and in front of all it depends on.           *)
(***************************************************************************)
EXTENDS TopologicalSort, TLAPS

(* A node whose call is active is not sorted yet, and has one call only.    *)
CallsAreNew ==
  /\ \A k \in DOMAIN calls : calls[k].node \notin Range(sorted)
  /\ \A j, k \in DOMAIN calls : calls[j].node = calls[k].node => j = k

(* The children a loop has passed are sorted, but for the one whose call is *)
(* active.                                                                 *)
ChildrenMet ==
  \A k \in DOMAIN calls : \A i \in 1..(calls[k].next - 1) :
    \/ depends[calls[k].node][i] \in Range(sorted)
    \/ k < Len(calls) /\ i = calls[k].next - 1

(* dfs is called for the root first, and for nothing the root does not      *)
(* reach.                                                                  *)
VisitsReachable ==
  /\ visited # {} => Root \in visited
  /\ \A S \in SUBSET Node : Within(S) => visited \subseteq S

(* The inductive invariant.                                                *)
IInv ==
  /\ TypeOK /\ CallsArePath /\ CallsAreNew /\ ChildrenMet
  /\ DependsFollow /\ SortedOnce /\ VisitsReachable

Active == {calls[k].node : k \in DOMAIN calls}

-----------------------------------------------------------------------------
(* What the type invariant gives.                                          *)
LEMMA Types ==
  ASSUME TypeOK
  PROVE  /\ depends \in [Node -> Seq(Node)] /\ Acyclic(depends)
         /\ calls \in Seq(Frame) /\ sorted \in Seq(Node)
         /\ visited = Active \cup Range(sorted) /\ visited \subseteq Node
<1>1. depends \in [Node -> Seq(Node)] /\ Acyclic(depends)
  BY SortAssumption DEF TypeOK
<1>2. visited = Active \cup Range(sorted)
  BY DEF TypeOK, Active, Range
<1>3. Active \subseteq Node
  <2>1. ASSUME NEW k \in DOMAIN calls
        PROVE  calls[k].node \in Node
    <3>1. calls[k] \in Frame
      BY DEF TypeOK
    <3> QED
      BY <3>1 DEF Frame
  <2> QED
    BY <2>1 DEF Active
<1>4. Range(sorted) \subseteq Node
  BY DEF TypeOK, Range
<1> QED
  BY <1>1, <1>2, <1>3, <1>4 DEF TypeOK

(* The top of a stack of calls.                                            *)
LEMMA TopType ==
  ASSUME TypeOK, calls # <<>>
  PROVE  /\ Len(calls) \in Nat \ {0} /\ Top = calls[Len(calls)] /\ Top \in Frame
         /\ Top.node \in Node /\ Top.next \in Nat \ {0}
         /\ depends[Top.node] \in Seq(Node)
<1>1. Len(calls) \in Nat \ {0} /\ Top = calls[Len(calls)] /\ Top \in Frame
  BY DEF TypeOK, Top
<1> QED
  BY <1>1, Types DEF Frame

(* Advancing the top of the stack.                                         *)
LEMMA AdvancedType ==
  ASSUME TypeOK, calls # <<>>, NEW l, l = Len(calls)
  PROVE  /\ Advanced \in Seq(Frame) /\ Len(Advanced) = l
         /\ \A k \in 1..(l - 1) : Advanced[k] = calls[k]
         /\ Advanced[l].node = Top.node /\ Advanced[l].next = Top.next + 1
<1>1. l \in Nat \ {0} /\ Top = calls[l] /\ Top \in Frame /\ calls \in Seq(Frame)
  BY TopType, Types
<1>2. PICK f : f = [Top EXCEPT !.next = @ + 1]
  OBVIOUS
<1>3. f \in Frame /\ f.node = Top.node /\ f.next = Top.next + 1
  BY <1>1, <1>2 DEF Frame
<1>4. Advanced = [calls EXCEPT ![l] = f]
  BY <1>1, <1>2 DEF Advanced
<1> QED
  BY <1>1, <1>3, <1>4

(* Putting a node in front.                                                *)
LEMMA PrependType ==
  ASSUME NEW n \in Node, NEW s \in Seq(Node)
  PROVE  LET t == <<n>> \o s
         IN  /\ t \in Seq(Node) /\ Len(t) = Len(s) + 1 /\ t[1] = n
             /\ \A k \in DOMAIN s : k + 1 \in DOMAIN t /\ t[k + 1] = s[k]
             /\ \A k \in DOMAIN t : k # 1 => k - 1 \in DOMAIN s /\ t[k] = s[k - 1]
             /\ Range(t) = Range(s) \cup {n}
<1> DEFINE t == <<n>> \o s
<1>1. /\ t \in Seq(Node) /\ Len(t) = Len(s) + 1 /\ t[1] = n
      /\ \A k \in DOMAIN s : k + 1 \in DOMAIN t /\ t[k + 1] = s[k]
      /\ \A k \in DOMAIN t : k # 1 => k - 1 \in DOMAIN s /\ t[k] = s[k - 1]
  OBVIOUS
<1>2. 1 \in DOMAIN t
  BY <1>1
<1>3. Range(t) = Range(s) \cup {n}
  <2> HIDE DEF t
  <2>1. ASSUME NEW x \in Range(t)
        PROVE  x \in Range(s) \cup {n}
    BY <1>1, <2>1 DEF Range
  <2>2. ASSUME NEW x \in Range(s) \cup {n}
        PROVE  x \in Range(t)
    BY <1>1, <1>2, <2>2 DEF Range
  <2> QED
    BY <2>1, <2>2
<1> QED
  BY <1>1, <1>3

(* A child that was met before is sorted: were its call active, the calls   *)
(* from it to the top would be a set without a node that leaves it.         *)
LEMMA MetIsSorted ==
  ASSUME IInv, InLoop, Child \in visited
  PROVE  Child \in Range(sorted)
<1>1. PICK l : l = Len(calls)
  OBVIOUS
<1>2. /\ calls # <<>> /\ l \in Nat \ {0} /\ Top = calls[l] /\ calls \in Seq(Frame)
      /\ Top.next \in Nat \ {0} /\ Top.next \in DOMAIN depends[Top.node]
      /\ Acyclic(depends) /\ visited = Active \cup Range(sorted)
      /\ depends \in [Node -> Seq(Node)]
  BY <1>1, TopType, Types DEF IInv, InLoop
<1>3. SUFFICES ASSUME NEW j \in DOMAIN calls, Child = calls[j].node
               PROVE  FALSE
  BY <1>2 DEF Active
<1> DEFINE S == {calls[k].node : k \in j..l}
<1>4. S \in SUBSET Node /\ S # {}
  <2>1. \A k \in j..l : k \in DOMAIN calls /\ calls[k].node \in Node
    <3>1. \A k \in j..l : k \in DOMAIN calls /\ calls[k] \in Frame
      BY <1>1, <1>2
    <3> QED
      BY <3>1 DEF Frame
  <2>2. j \in j..l
    BY <1>1, <1>2
  <2> QED
    BY <2>1, <2>2
<1>5. PICK n \in S : Range(depends[n]) \cap S = {}
  <2> HIDE DEF S
  <2> QED
    BY <1>2, <1>4 DEF Acyclic
<1>6. PICK k \in j..l : n = calls[k].node
  OBVIOUS
<1>7. CASE k = l
  <2>1. Child \in Range(depends[n])
    BY <1>2, <1>6, <1>7 DEF Child, Range
  <2>2. Child \in S
    BY <1>1, <1>2, <1>3
  <2> QED
    BY <1>5, <2>1, <2>2
<1>8. CASE k # l
  <2>1. /\ k \in DOMAIN calls /\ k \in 1..(l - 1) /\ k + 1 \in j..l
        /\ calls[k] \in Frame
    BY <1>1, <1>2, <1>8
  <2>2. /\ calls[k].next > 1 /\ calls[k].next <= Len(depends[n]) + 1
        /\ calls[k + 1].node = depends[n][calls[k].next - 1]
    BY <1>1, <1>6, <2>1 DEF IInv, CallsArePath
  <2>3. calls[k].next - 1 \in DOMAIN depends[n]
    <3>1. calls[k].next \in Nat /\ n \in Node
      BY <1>6, <2>1 DEF Frame
    <3> QED
      BY <1>2, <2>2, <3>1
  <2>4. calls[k + 1].node \in Range(depends[n])
    BY <2>2, <2>3 DEF Range
  <2>5. calls[k + 1].node \in S
    BY <2>1
  <2> QED
    BY <1>5, <2>4, <2>5
<1> QED
  BY <1>7, <1>8

-----------------------------------------------------------------------------
(* tsort calls dfs.                                                        *)
LEMMA BeginStep ==
  ASSUME IInv, Begin
  PROVE  IInv'
<1>1. /\ visited = {} /\ calls' = <<[node |-> Root, next |-> 1]>>
      /\ visited' = {Root} /\ UNCHANGED <<depends, sorted>>
  BY DEF Begin
<1>2. /\ depends \in [Node -> Seq(Node)] /\ sorted \in Seq(Node)
      /\ Range(sorted) = {}
  BY <1>1, Types DEF IInv
<1>3. DOMAIN sorted = {}
  BY <1>2 DEF Range
<1>4. [node |-> Root, next |-> 1] \in Frame /\ Root \in Node
  BY SortAssumption DEF Frame
<1>5. /\ calls' \in Seq(Frame) /\ Len(calls') = 1 /\ DOMAIN calls' = {1}
      /\ calls'[1].node = Root /\ calls'[1].next = 1 /\ calls' # <<>>
  BY <1>1, <1>4
<1>6. TypeOK'
  <2>1. Active' = {Root}
    BY <1>5 DEF Active
  <2>2. Range([k \in DOMAIN calls |-> calls[k].node])' = Active'
    BY DEF Range, Active
  <2> QED
    BY <1>1, <1>2, <1>5, <2>1, <2>2 DEF IInv, TypeOK
<1>7. CallsArePath'
  BY <1>1, <1>2, <1>4, <1>5 DEF CallsArePath
<1>8. CallsAreNew' /\ ChildrenMet'
  BY <1>1, <1>2, <1>5 DEF CallsAreNew, ChildrenMet
<1>9. DependsFollow' /\ SortedOnce'
  BY <1>1, <1>3 DEF DependsFollow, SortedOnce, IsInjective
<1>10. VisitsReachable'
  BY <1>1 DEF VisitsReachable, Within
<1> QED
  BY <1>6, <1>7, <1>8, <1>9, <1>10 DEF IInv

(* The loop passes a child that was met before.                            *)
LEMMA SkipStep ==
  ASSUME IInv, Skip
  PROVE  IInv'
<1>1. /\ InLoop /\ calls # <<>> /\ Child \in visited /\ calls' = Advanced
      /\ Top.next <= Len(depends[Top.node]) /\ UNCHANGED <<depends, visited, sorted>>
  BY DEF Skip, InLoop
<1>2. PICK l : l = Len(calls)
  OBVIOUS
<1>3. /\ l \in Nat \ {0} /\ Top = calls[l] /\ calls \in Seq(Frame)
      /\ Top.next \in Nat \ {0} /\ depends[Top.node] \in Seq(Node)
  BY <1>1, <1>2, TopType, Types DEF IInv
<1>4. /\ calls' \in Seq(Frame) /\ Len(calls') = l
      /\ \A k \in 1..(l - 1) : calls'[k] = calls[k]
      /\ calls'[l].node = Top.node /\ calls'[l].next = Top.next + 1
  BY <1>1, <1>2, AdvancedType DEF IInv
<1>5. \A k \in 1..l : calls'[k].node = calls[k].node
  BY <1>3, <1>4
<1>6. DOMAIN calls' = 1..l /\ DOMAIN calls = 1..l
  BY <1>2, <1>3, <1>4
<1>7. TypeOK'
  <2>1. Active' = Active
    BY <1>5, <1>6 DEF Active
  <2>2. Range([k \in DOMAIN calls |-> calls[k].node])' = Active'
    BY DEF Range, Active
  <2> QED
    BY <1>1, <1>4, <2>1, <2>2, Types DEF IInv, TypeOK
<1>8. CallsArePath'
  <2>1. ASSUME NEW k \in 1..l
        PROVE  calls'[k].next <= Len(depends[calls'[k].node]) + 1
    <3>1. CASE k = l
      <4>1. Top.next + 1 <= Len(depends[Top.node]) + 1
        BY <1>1, <1>3
      <4> QED
        BY <1>4, <3>1, <4>1
    <3>2. CASE k # l
      <4>1. calls'[k] = calls[k] /\ k \in DOMAIN calls
        BY <1>3, <1>4, <1>6, <3>2
      <4> QED
        BY <4>1 DEF IInv, CallsArePath
    <3> QED
      BY <3>1, <3>2
  <2>2. \A k \in 1..(l - 1) :
          /\ calls'[k].next > 1
          /\ calls'[k + 1].node = depends[calls'[k].node][calls'[k].next - 1]
    BY <1>2, <1>3, <1>4, <1>5 DEF IInv, CallsArePath
  <2>3. calls'[1].node = Root
    BY <1>1, <1>3, <1>5 DEF IInv, CallsArePath
  <2> QED
    BY <1>1, <1>4, <1>6, <2>1, <2>2, <2>3 DEF CallsArePath
<1>9. CallsAreNew'
  BY <1>1, <1>5, <1>6 DEF IInv, CallsAreNew
<1>10. ChildrenMet'
  <2>1. Child \in Range(sorted) /\ Child = depends[Top.node][Top.next]
    BY <1>1, MetIsSorted DEF Child
  <2>2. ASSUME NEW k \in 1..l, NEW i \in 1..(calls'[k].next - 1)
        PROVE  \/ depends[calls'[k].node][i] \in Range(sorted)
               \/ k < l /\ i = calls'[k].next - 1
    <3>1. CASE k = l
      <4>1. CASE i = Top.next
        BY <1>4, <2>1, <3>1, <4>1
      <4>2. CASE i # Top.next
        BY <1>2, <1>3, <1>4, <1>6, <3>1, <4>2 DEF IInv, ChildrenMet
      <4> QED
        BY <4>1, <4>2
    <3>2. CASE k # l
      BY <1>2, <1>3, <1>4, <1>6, <3>2 DEF IInv, ChildrenMet
    <3> QED
      BY <3>1, <3>2
  <2> QED
    BY <1>1, <1>4, <1>6, <2>2 DEF ChildrenMet
<1>11. DependsFollow' /\ SortedOnce' /\ VisitsReachable'
  BY <1>1 DEF IInv, DependsFollow, SortedOnce, VisitsReachable, Within
<1> QED
  BY <1>7, <1>8, <1>9, <1>10, <1>11 DEF IInv

(* dfs is called for a child that was not met before.                       *)
LEMMA VisitStep ==
  ASSUME IInv, Visit
  PROVE  IInv'
<1>1. PICK g, l : g = [node |-> Child, next |-> 1] /\ l = Len(calls)
  OBVIOUS
<1>2. /\ InLoop /\ calls # <<>> /\ Child \notin visited
      /\ calls' = Append(Advanced, g) /\ visited' = visited \cup {Child}
      /\ Top.next <= Len(depends[Top.node]) /\ UNCHANGED <<depends, sorted>>
  BY <1>1 DEF Visit, InLoop
<1>3. /\ l \in Nat \ {0} /\ Top = calls[l] /\ calls \in Seq(Frame)
      /\ Top.next \in Nat \ {0} /\ depends[Top.node] \in Seq(Node)
      /\ Top.node \in Node /\ depends \in [Node -> Seq(Node)]
      /\ visited = Active \cup Range(sorted)
  BY <1>1, <1>2, TopType, Types DEF IInv
<1>4. /\ Child = depends[Top.node][Top.next] /\ Child \in Node
      /\ Child \in Range(depends[Top.node])
  BY <1>2, <1>3 DEF Child, Range
<1>5. g \in Frame /\ g.node = Child /\ g.next = 1
  BY <1>1, <1>4 DEF Frame
<1>6. /\ calls' \in Seq(Frame) /\ Len(calls') = l + 1 /\ calls' # <<>>
      /\ \A k \in 1..(l - 1) : calls'[k] = calls[k]
      /\ calls'[l].node = Top.node /\ calls'[l].next = Top.next + 1
      /\ calls'[l + 1] = g
  <2>1. PICK t : t = Advanced
    OBVIOUS
  <2>2. /\ t \in Seq(Frame) /\ Len(t) = l
        /\ \A k \in 1..(l - 1) : t[k] = calls[k]
        /\ t[l].node = Top.node /\ t[l].next = Top.next + 1
    BY <1>1, <1>2, <2>1, AdvancedType DEF IInv
  <2>3. calls' = Append(t, g)
    BY <1>2, <2>1
  <2> QED
    BY <1>3, <1>5, <2>2, <2>3
<1>7. /\ \A k \in 1..l : calls'[k].node = calls[k].node
      /\ DOMAIN calls' = 1..(l + 1) /\ DOMAIN calls = 1..l
  BY <1>1, <1>3, <1>6
<1>8. /\ calls'[l].next - 1 = Top.next /\ Top.next + 1 > 1
      /\ Top.next + 1 <= Len(depends[Top.node]) + 1
      /\ calls'[l + 1].node = Child
  <2>1. calls'[l + 1].node = Child
    BY <1>5, <1>6
  <2>2. Len(depends[Top.node]) \in Nat
    BY <1>3
  <2> QED
    BY <1>2, <1>3, <1>6, <2>1, <2>2
<1>9. \A k \in 1..l : calls[k].node # Child
  BY <1>2, <1>3, <1>7 DEF Active
<1>10. TypeOK'
  <2>1. Active' = Active \cup {Child}
    <3>1. 1..(l + 1) = 1..l \cup {l + 1}
      BY <1>3
    <3> QED
      BY <1>5, <1>6, <1>7, <3>1 DEF Active
  <2>2. Range([k \in DOMAIN calls |-> calls[k].node])' = Active'
    BY DEF Range, Active
  <2> QED
    BY <1>2, <1>3, <1>6, <2>1, <2>2 DEF IInv, TypeOK
<1>11. CallsArePath'
  <2>1. ASSUME NEW k \in 1..(l + 1)
        PROVE  calls'[k].next <= Len(depends[calls'[k].node]) + 1
    <3>1. CASE k = l + 1
      BY <1>3, <1>4, <1>5, <1>6, <3>1
    <3>2. CASE k = l
      BY <1>6, <1>8, <3>2
    <3>3. CASE k \in 1..(l - 1)
      <4>1. calls'[k] = calls[k] /\ k \in DOMAIN calls
        BY <1>3, <1>6, <1>7, <3>3
      <4> QED
        BY <4>1 DEF IInv, CallsArePath
    <3> QED
      BY <1>3, <3>1, <3>2, <3>3
  <2>2. ASSUME NEW k \in 1..l
        PROVE  /\ calls'[k].next > 1
               /\ calls'[k + 1].node = depends[calls'[k].node][calls'[k].next - 1]
    <3>1. CASE k = l
      BY <1>4, <1>6, <1>8, <3>1
    <3>2. CASE k # l
      <4>1. /\ calls'[k] = calls[k] /\ k \in 1..(Len(calls) - 1)
            /\ calls'[k + 1].node = calls[k + 1].node
        BY <1>1, <1>3, <1>6, <1>7, <3>2
      <4> QED
        BY <4>1 DEF IInv, CallsArePath
    <3> QED
      BY <3>1, <3>2
  <2>3. calls'[1].node = Root
    <3>1. 1 \in 1..l
      BY <1>3
    <3> QED
      BY <1>2, <1>7, <3>1 DEF IInv, CallsArePath
  <2>4. Len(calls') - 1 = l
    BY <1>3, <1>6
  <2> QED
    BY <1>2, <1>7, <2>1, <2>2, <2>3, <2>4 DEF CallsArePath
<1>12. CallsAreNew'
  <2>1. Child \notin Range(sorted)
    BY <1>2, <1>3
  <2>2. calls'[l + 1].node = Child /\ l + 1 \notin 1..l
    BY <1>3, <1>8
  <2>3. ASSUME NEW k \in 1..(l + 1)
        PROVE  calls'[k].node \notin Range(sorted)
    <3>1. CASE k \in 1..l
      BY <1>7, <3>1 DEF IInv, CallsAreNew
    <3>2. CASE k = l + 1
      BY <2>1, <2>2, <3>2
    <3> QED
      BY <1>3, <3>1, <3>2
  <2>4. ASSUME NEW j \in 1..(l + 1), NEW k \in 1..(l + 1),
               calls'[j].node = calls'[k].node
        PROVE  j = k
    <3>1. CASE j \in 1..l /\ k \in 1..l
      BY <1>7, <2>4, <3>1 DEF IInv, CallsAreNew
    <3>2. CASE j \in 1..l /\ k = l + 1
      BY <1>7, <1>9, <2>2, <2>4, <3>2
    <3>3. CASE j = l + 1 /\ k \in 1..l
      BY <1>7, <1>9, <2>2, <2>4, <3>3
    <3> QED
      BY <1>3, <3>1, <3>2, <3>3
  <2> QED
    BY <1>2, <1>7, <2>3, <2>4 DEF CallsAreNew
<1>13. ChildrenMet'
  <2>1. ASSUME NEW k \in 1..(l + 1), NEW i \in 1..(calls'[k].next - 1)
        PROVE  \/ depends[calls'[k].node][i] \in Range(sorted)
               \/ k < l + 1 /\ i = calls'[k].next - 1
    <3>1. CASE k = l + 1
      BY <1>5, <1>6, <2>1, <3>1
    <3>2. CASE k = l /\ i # Top.next
      <4>1. l \in DOMAIN calls /\ i \in 1..(calls[l].next - 1) /\ ~(l < Len(calls))
        BY <1>1, <1>3, <1>6, <1>7, <3>2
      <4> QED
        BY <1>3, <1>6, <3>2, <4>1 DEF IInv, ChildrenMet
    <3>3. CASE k \in 1..(l - 1)
      <4>1. calls'[k] = calls[k] /\ k \in DOMAIN calls
        BY <1>3, <1>6, <1>7, <3>3
      <4> QED
        BY <1>3, <3>3, <4>1 DEF IInv, ChildrenMet
    <3>4. CASE k = l /\ i = Top.next
      BY <1>3, <1>8, <3>4
    <3> QED
      BY <1>3, <3>1, <3>2, <3>3, <3>4
  <2> QED
    BY <1>2, <1>6, <1>7, <2>1 DEF ChildrenMet
<1>14. VisitsReachable'
  <2>1. Top.node \in visited
    <3>1. l \in DOMAIN calls
      BY <1>3, <1>7
    <3> QED
      BY <1>3, <3>1 DEF Active
  <2>2. ASSUME NEW S \in SUBSET Node, Within(S)
        PROVE  visited' \subseteq S
    BY <1>2, <1>4, <2>1, <2>2 DEF IInv, VisitsReachable, Within
  <2>3. Root \in visited'
    BY <1>2, <2>1 DEF IInv, VisitsReachable
  <2> QED
    BY <1>2, <2>2, <2>3 DEF VisitsReachable, Within
<1>15. DependsFollow' /\ SortedOnce'
  BY <1>2 DEF IInv, DependsFollow, SortedOnce
<1> QED
  BY <1>10, <1>11, <1>12, <1>13, <1>14, <1>15 DEF IInv

(* A node all of whose children are sorted is put in front of them.         *)
LEMMA FinishStep ==
  ASSUME IInv, Finish
  PROVE  IInv'
<1>1. PICK l : l = Len(calls)
  OBVIOUS
<1>2. /\ calls # <<>> /\ ~(Top.next <= Len(depends[Top.node])) /\ calls' = Below
      /\ sorted' = <<Top.node>> \o sorted /\ UNCHANGED <<depends, visited>>
  BY DEF Finish, InLoop
<1>3. /\ l \in Nat \ {0} /\ Top = calls[l] /\ calls \in Seq(Frame)
      /\ Top.next \in Nat \ {0} /\ depends[Top.node] \in Seq(Node)
      /\ Top.node \in Node /\ sorted \in Seq(Node)
      /\ visited = Active \cup Range(sorted) /\ DOMAIN calls = 1..l
  BY <1>1, <1>2, TopType, Types DEF IInv
<1>4. /\ sorted' \in Seq(Node) /\ Len(sorted') = Len(sorted) + 1
      /\ sorted'[1] = Top.node
      /\ \A k \in DOMAIN sorted : k + 1 \in DOMAIN sorted' /\ sorted'[k + 1] = sorted[k]
      /\ \A k \in DOMAIN sorted' :
           k # 1 => k - 1 \in DOMAIN sorted /\ sorted'[k] = sorted[k - 1]
      /\ Range(sorted') = Range(sorted) \cup {Top.node}
  BY <1>2, <1>3, PrependType
<1>5. /\ calls' \in Seq(Frame) /\ Len(calls') = l - 1 /\ DOMAIN calls' = 1..(l - 1)
      /\ \A k \in 1..(l - 1) : calls'[k] = calls[k]
  BY <1>1, <1>2, <1>3 DEF Below
<1>6. /\ Top.node \notin Range(sorted)
      /\ \A k \in 1..(l - 1) : calls[k].node # Top.node
  <2>1. l \in 1..l /\ \A k \in 1..(l - 1) : k \in 1..l /\ k # l
    BY <1>3
  <2> QED
    BY <1>3, <2>1 DEF IInv, CallsAreNew
<1>7. \A i \in DOMAIN depends[Top.node] : depends[Top.node][i] \in Range(sorted)
  <2>1. ASSUME NEW i \in DOMAIN depends[Top.node]
        PROVE  depends[Top.node][i] \in Range(sorted)
    <3>1. l \in DOMAIN calls /\ ~(l < Len(calls)) /\ i \in 1..(calls[l].next - 1)
      <4>1. Len(depends[Top.node]) \in Nat /\ i \in 1..Len(depends[Top.node])
        BY <1>3
      <4> QED
        BY <1>1, <1>2, <1>3, <4>1
    <3> QED
      BY <1>3, <3>1 DEF IInv, ChildrenMet
  <2> QED
    BY <2>1
<1>8. TypeOK'
  <2>1. Active' \cup Range(sorted') = Active \cup Range(sorted)
    <3>1. 1..l = 1..(l - 1) \cup {l}
      BY <1>3
    <3>2. Active = Active' \cup {Top.node}
      BY <1>3, <1>5, <3>1 DEF Active
    <3> QED
      BY <1>4, <3>2
  <2>2. Range([k \in DOMAIN calls |-> calls[k].node])' = Active'
    BY DEF Range, Active
  <2> QED
    BY <1>2, <1>3, <1>4, <1>5, <2>1, <2>2 DEF IInv, TypeOK
<1>9. CallsArePath'
  <2>1. \A k \in 1..(l - 1) : calls'[k].next <= Len(depends[calls'[k].node]) + 1
    <3>1. \A k \in 1..(l - 1) : k \in DOMAIN calls
      BY <1>3
    <3> QED
      BY <1>5, <3>1 DEF IInv, CallsArePath
  <2>2. ASSUME NEW k \in 1..(l - 2)
        PROVE  /\ calls'[k].next > 1
               /\ calls'[k + 1].node = depends[calls'[k].node][calls'[k].next - 1]
    <3>1. /\ calls'[k] = calls[k] /\ calls'[k + 1] = calls[k + 1]
          /\ k \in 1..(Len(calls) - 1)
      BY <1>1, <1>3, <1>5
    <3> QED
      BY <3>1 DEF IInv, CallsArePath
  <2>3. calls' # <<>> => calls'[1].node = Root
    <3>1. calls' # <<>> => 1 \in 1..(l - 1)
      BY <1>3, <1>5
    <3> QED
      BY <1>2, <1>5, <3>1 DEF IInv, CallsArePath
  <2>4. Len(calls') - 1 = l - 2
    BY <1>3, <1>5
  <2> QED
    BY <1>2, <1>5, <2>1, <2>2, <2>3, <2>4 DEF CallsArePath
<1>10. CallsAreNew'
  <2>1. \A k \in 1..(l - 1) : k \in DOMAIN calls
    BY <1>3
  <2> QED
    BY <1>4, <1>5, <1>6, <2>1 DEF IInv, CallsAreNew
<1>11. ChildrenMet'
  <2>1. ASSUME NEW k \in 1..(l - 1), NEW i \in 1..(calls[k].next - 1)
        PROVE  \/ depends[calls[k].node][i] \in Range(sorted')
               \/ k < l - 1 /\ i = calls[k].next - 1
    <3>1. /\ k \in DOMAIN calls
          /\ \/ depends[calls[k].node][i] \in Range(sorted)
             \/ k < l /\ i = calls[k].next - 1
      BY <1>1, <1>3 DEF IInv, ChildrenMet
    <3>2. CASE k = l - 1 /\ i = calls[k].next - 1
      <4>1. calls[k + 1].node = depends[calls[k].node][calls[k].next - 1]
        BY <1>1 DEF IInv, CallsArePath
      <4>2. k + 1 = l
        BY <1>3, <3>2
      <4> QED
        BY <1>3, <1>4, <3>2, <4>1, <4>2
    <3>3. CASE ~(k = l - 1 /\ i = calls[k].next - 1)
      <4>1. k < l /\ k # l - 1 => k < l - 1
        BY <1>3
      <4> QED
        BY <1>4, <3>1, <3>3, <4>1
    <3> QED
      BY <3>2, <3>3
  <2> QED
    BY <1>2, <1>5, <2>1 DEF ChildrenMet
<1>12. DependsFollow'
  <2>1. ASSUME NEW j \in DOMAIN sorted', NEW k \in DOMAIN depends[sorted'[j]]
        PROVE  \E m \in (j + 1)..Len(sorted') : sorted'[m] = depends[sorted'[j]][k]
    <3>1. CASE j = 1
      <4>1. PICK m \in DOMAIN sorted : sorted[m] = depends[sorted'[j]][k]
        <5>1. sorted'[j] = Top.node
          BY <1>4, <3>1
        <5>2. depends[Top.node][k] \in Range(sorted)
          BY <1>2, <1>7, <5>1
        <5> QED
          BY <5>1, <5>2 DEF Range
      <4> QED
        BY <1>3, <1>4, <3>1, <4>1
    <3>2. CASE j # 1
      <4>1. j - 1 \in DOMAIN sorted /\ sorted'[j] = sorted[j - 1]
        BY <1>4, <3>2
      <4>2. PICK m \in ((j - 1) + 1)..Len(sorted) : sorted[m] = depends[sorted'[j]][k]
        BY <4>1 DEF IInv, DependsFollow
      <4>3. m \in DOMAIN sorted /\ m + 1 \in (j + 1)..Len(sorted')
        BY <1>3, <1>4, <4>1
      <4> QED
        BY <1>4, <4>2, <4>3
    <3> QED
      BY <3>1, <3>2
  <2> QED
    BY <1>2, <2>1 DEF DependsFollow
<1>13. SortedOnce'
  <2>1. ASSUME NEW j \in DOMAIN sorted', NEW k \in DOMAIN sorted', sorted'[j] = sorted'[k]
        PROVE  j = k
    <3>1. CASE j = 1 \/ k = 1
      BY <1>4, <1>6, <2>1, <3>1 DEF Range
    <3>2. CASE j # 1 /\ k # 1
      <4>1. /\ j - 1 \in DOMAIN sorted /\ k - 1 \in DOMAIN sorted
            /\ sorted[j - 1] = sorted[k - 1]
        BY <1>4, <2>1, <3>2
      <4>2. j - 1 = k - 1
        BY <4>1 DEF IInv, SortedOnce, IsInjective
      <4>3. j \in Int /\ k \in Int
        BY <1>4
      <4> QED
        BY <4>2, <4>3
    <3> QED
      BY <3>1, <3>2
  <2> QED
    BY <2>1 DEF SortedOnce, IsInjective
<1>14. VisitsReachable'
  BY <1>2 DEF IInv, VisitsReachable, Within
<1> QED
  BY <1>8, <1>9, <1>10, <1>11, <1>12, <1>13, <1>14 DEF IInv

-----------------------------------------------------------------------------
(* The invariant holds before tsort begins.                                *)
LEMMA InitIInv == Init => IInv
<1> SUFFICES ASSUME Init
             PROVE  IInv
  OBVIOUS
<1>1. depends \in Graphs /\ calls = <<>> /\ visited = {} /\ sorted = <<>>
  BY DEF Init
<1>2. TypeOK
  <2>1. Range([k \in DOMAIN calls |-> calls[k].node]) = {} /\ Range(sorted) = {}
    BY <1>1 DEF Range
  <2> QED
    BY <1>1, <2>1 DEF TypeOK
<1>3. CallsArePath /\ CallsAreNew /\ ChildrenMet
  BY <1>1 DEF CallsArePath, CallsAreNew, ChildrenMet
<1>4. DependsFollow /\ SortedOnce /\ VisitsReachable
  BY <1>1 DEF DependsFollow, SortedOnce, IsInjective, VisitsReachable
<1> QED
  BY <1>2, <1>3, <1>4 DEF IInv

(* Every step preserves it.                                                *)
LEMMA NextIInv == IInv /\ [Next]_vars => IInv'
<1> SUFFICES ASSUME IInv, [Next]_vars
             PROVE  IInv'
  OBVIOUS
<1>1. CASE Begin
  BY <1>1, BeginStep
<1>2. CASE Visit
  BY <1>2, VisitStep
<1>3. CASE Skip
  BY <1>3, SkipStep
<1>4. CASE Finish
  BY <1>4, FinishStep
<1>5. CASE UNCHANGED vars
  <2>1. UNCHANGED <<depends, calls, visited, sorted>>
    BY <1>5 DEF vars
  <2>2. TypeOK' /\ CallsArePath' /\ CallsAreNew' /\ ChildrenMet'
    BY <2>1 DEF IInv, TypeOK, CallsArePath, CallsAreNew, ChildrenMet
  <2>3. DependsFollow' /\ SortedOnce' /\ VisitsReachable'
    BY <2>1 DEF IInv, DependsFollow, SortedOnce, VisitsReachable, Within
  <2> QED
    BY <2>2, <2>3 DEF IInv
<1> QED
  BY <1>1, <1>2, <1>3, <1>4, <1>5 DEF Next

(* The inductive invariant holds of every behaviour.                        *)
THEOREM InvariantHolds == Spec => []IInv
BY InitIInv, NextIInv, PTL DEF Spec

(* The state has its shape, and dfs is called for no node behind the back   *)
(* of the set visited.                                                     *)
THEOREM TypeCorrect == Spec => []TypeOK
<1>1. IInv => TypeOK
  BY DEF IInv
<1> QED
  BY <1>1, InvariantHolds, PTL

(* The active dfs calls are a path of the graph from the root.              *)
THEOREM PathHolds == Spec => []CallsArePath
<1>1. IInv => CallsArePath
  BY DEF IInv
<1> QED
  BY <1>1, InvariantHolds, PTL

(* tsort returns a topological order, in every acyclic graph: what a node    *)
(* depends on comes after it, as the linker needs it.                       *)
THEOREM OrderIsTopological == Spec => []DependsFollow
<1>1. IInv => DependsFollow
  BY DEF IInv
<1> QED
  BY <1>1, InvariantHolds, PTL

(* No node is sorted twice, through however many parents it is reached.     *)
THEOREM NoneTwice == Spec => []SortedOnce
<1>1. IInv => SortedOnce
  BY DEF IInv
<1> QED
  BY <1>1, InvariantHolds, PTL

(* When tsort returns, it has sorted the nodes the root reaches, no more     *)
(* and no fewer.                                                           *)
THEOREM AllReachable == Spec => []SortsReachable
<1>1. IInv => SortsReachable
  <2> SUFFICES ASSUME IInv, Done
               PROVE  /\ Within(Range(sorted))
                      /\ \A S \in SUBSET Node : Within(S) => Range(sorted) \subseteq S
    BY DEF SortsReachable
  <2>1. visited = Range(sorted) /\ visited # {}
    <3>1. Active = {}
      BY DEF Done, Active
    <3> QED
      BY <3>1, Types DEF IInv, Done
  <2>2. ASSUME NEW n \in Range(sorted), NEW c \in Range(depends[n])
        PROVE  c \in Range(sorted)
    <3>1. PICK j \in DOMAIN sorted : n = sorted[j]
      BY DEF Range
    <3>2. PICK k \in DOMAIN depends[n] : c = depends[n][k]
      BY DEF Range
    <3>3. PICK m \in (j + 1)..Len(sorted) : sorted[m] = c
      BY <3>1, <3>2 DEF IInv, DependsFollow
    <3>4. m \in DOMAIN sorted
      BY <3>1, Types DEF IInv
    <3> QED
      BY <3>3, <3>4 DEF Range
  <2> QED
    BY <2>1, <2>2 DEF IInv, VisitsReachable, Within
<1> QED
  BY <1>1, InvariantHolds, PTL
=============================================================================
