--------------------------- MODULE BuildGraphProofs ---------------------------
(***************************************************************************)
(* The search for a package, for every set of names, versions, files and    *)
(* every stack size: its type invariant, the invariant that the active      *)
(* calls are a chain of demands, and that it implements module Resolution.  *)
(***************************************************************************)
EXTENDS BuildGraph, WellFoundedInduction, TLAPS

(* Every active call is for a demand the request leads to.                  *)
DemandsReached ==
  \A k \in DOMAIN stack : Reached(disk, request, DemandAt(k))

(* The inductive invariant.                                                *)
IInv ==
  TypeOK /\ StackIsChain /\ DemandsReached /\ CacheHoldsChosen /\ FramesOK

-----------------------------------------------------------------------------
(* The graph of demands: which file a name resolves to, and how "can be     *)
(* resolved" passes between a demand and its successors.                    *)
DiskType == [Names -> Seq(File)]

(* At most one file of a name opens.                                        *)
LEMMA OpensOnce ==
  ASSUME NEW files \in Seq(File), NEW j, NEW k,
         Opens(files, j), Opens(files, k)
  PROVE  j = k
<1>1. j \in 1..Len(files) /\ k \in 1..Len(files)
  BY DEF Opens
<1> QED
  BY <1>1 DEF Opens

(* The file a name resolves to is the one that opens.                      *)
LEMMA ChosenOpens ==
  ASSUME NEW dir \in DiskType, NEW name \in Names,
         NEW k, Opens(dir[name], k)
  PROVE  HasChosen(dir, name) /\ Chosen(dir, name) = dir[name][k]
<1> DEFINE files == dir[name]
           chosen == CHOOSE j \in DOMAIN files : Opens(files, j)
<1>1. files \in Seq(File)
  BY DEF DiskType
<1>2. k \in DOMAIN files
  BY DEF Opens
<1>3. Opens(files, chosen)
  BY <1>2
<1>4. chosen = k
  BY <1>1, <1>3, OpensOnce
<1> QED
  BY <1>2, <1>4 DEF HasChosen, Chosen

(* The file a name resolves to did load, or threw.                         *)
LEMMA ChosenType ==
  ASSUME NEW dir \in DiskType, NEW name \in Names, HasChosen(dir, name)
  PROVE  /\ Chosen(dir, name) \in File \ {LoadError}
         /\ Chosen(dir, name) # LoadThrow => Chosen(dir, name) \in PackagesOn(dir)
<1>1. PICK k \in DOMAIN dir[name] : Opens(dir[name], k)
  BY DEF HasChosen
<1>2. Chosen(dir, name) = dir[name][k]
  BY <1>1, ChosenOpens
<1>3. dir[name] \in Seq(File)
  BY DEF DiskType
<1>4. dir[name][k] \in File /\ dir[name][k] # LoadError
  BY <1>1, <1>3 DEF Opens
<1> QED
  BY <1>2, <1>4 DEF PackagesOn

(* An acceptable demand resolves to a package on the disk.                 *)
LEMMA AcceptableType ==
  ASSUME NEW dir \in DiskType, NEW d \in Demand, Acceptable(dir, d)
  PROVE  Chosen(dir, d.name) \in Package /\ Chosen(dir, d.name) \in PackagesOn(dir)
<1>1. d.name \in Names
  BY DEF Demand
<1> QED
  BY <1>1, ChosenType DEF Acceptable, File

(* The entries of "requires" have names and requirements.                  *)
LEMMA RequireType ==
  ASSUME NEW p \in Package, NEW n \in Keys(p.require)
  PROVE  n \in Names /\ p.require[n] \in Requirement
<1>1. p.require \in [Names -> Requirement \cup {None}]
  BY DEF Package, Map, Optional
<1> QED
  BY <1>1 DEF Keys

(* A successor is a demand, and one of those on the disk.                  *)
LEMMA SuccessorType ==
  ASSUME NEW dir \in DiskType, NEW d \in Demand, NEW e \in Successors(dir, d)
  PROVE  e \in Demand /\ \A top : e \in AllDemands(dir, top)
<1>1. Acceptable(dir, d) /\ e \in DemandsOf(Chosen(dir, d.name))
  BY DEF Successors
<1>2. Chosen(dir, d.name) \in Package /\ Chosen(dir, d.name) \in PackagesOn(dir)
  BY <1>1, AcceptableType
<1>3. e \in Demand
  BY <1>1, <1>2, RequireType DEF DemandsOf, Demand
<1>4. \A top : e \in AllDemands(dir, top)
  BY <1>1, <1>2 DEF AllDemands
<1> QED
  BY <1>3, <1>4

(* The demands on the disk are demands.                                    *)
LEMMA AllDemandsType ==
  ASSUME NEW dir \in DiskType, NEW top \in Demand, NEW e \in AllDemands(dir, top)
  PROVE  e \in Demand
<1>1. CASE e = top
  BY <1>1
<1>2. CASE e # top
  <2>1. PICK p \in PackagesOn(dir) : e \in DemandsOf(p)
    BY <1>2 DEF AllDemands
  <2>2. p \in Package
    <3>1. PICK n \in Names : \E k \in DOMAIN dir[n] : p = dir[n][k]
      BY <2>1 DEF PackagesOn
    <3>2. dir[n] \in Seq(File)
      BY DEF DiskType
    <3>3. p \in File
      BY <3>1, <3>2
    <3> QED
      BY <2>1, <3>3 DEF File, PackagesOn
  <2> QED
    BY <2>1, <2>2, RequireType DEF DemandsOf, Demand
<1> QED
  BY <1>1, <1>2

-----------------------------------------------------------------------------
(* If a demand can be resolved, so can each of its successors: a closed set *)
(* stays closed when it is cut down to the demands of another root.         *)
LEMMA ResolvableStep ==
  ASSUME NEW dir \in DiskType, NEW d \in Demand, Resolvable(dir, d)
  PROVE  Acceptable(dir, d) /\ \A e \in Successors(dir, d) : Resolvable(dir, e)
<1>1. PICK S \in SUBSET AllDemands(dir, d) :
        d \in S /\ Closed(dir, S) /\ \A c \in S : Acceptable(dir, c)
  BY DEF Resolvable
<1>2. ASSUME NEW e \in Successors(dir, d)
      PROVE  Resolvable(dir, e)
  <2> DEFINE T == S \cap AllDemands(dir, e)
  <2>1. e \in T
    BY <1>1, SuccessorType DEF Closed
  <2>2. ASSUME NEW c \in T, NEW s \in Successors(dir, c)
        PROVE  s \in T
    <3>1. s \in S
      BY <1>1, <2>2 DEF Closed
    <3>2. s \in AllDemands(dir, e)
      BY <2>2, AllDemandsType, SuccessorType
    <3> QED
      BY <3>1, <3>2
  <2>3. T \in SUBSET AllDemands(dir, e) /\ \A c \in T : Acceptable(dir, c)
    BY <1>1
  <2>4. Closed(dir, T)
    BY <2>2 DEF Closed
  <2> HIDE DEF T
  <2> QED
    BY <2>1, <2>3, <2>4 DEF Resolvable
<1> QED
  BY <1>1, <1>2

(* An acceptable demand whose successors can all be resolved can be, too.   *)
LEMMA ResolvableIntro ==
  ASSUME NEW dir \in DiskType, NEW d \in Demand, Acceptable(dir, d),
         \A e \in Successors(dir, d) : Resolvable(dir, e)
  PROVE  Resolvable(dir, d)
<1> DEFINE S == {d} \cup {e \in AllDemands(dir, d) : Resolvable(dir, e)}
<1>1. S \in SUBSET AllDemands(dir, d)
  BY DEF AllDemands
<1>2. \A c \in S : c \in Demand
  BY AllDemandsType
<1>3. \A c \in S : Acceptable(dir, c)
  BY <1>2, ResolvableStep
<1>4. ASSUME NEW c \in S, NEW s \in Successors(dir, c)
      PROVE  s \in S
  <2>1. s \in AllDemands(dir, d)
    BY <1>2, SuccessorType
  <2>2. Resolvable(dir, s)
    BY <1>2, ResolvableStep
  <2> QED
    BY <2>1, <2>2
<1>5. Closed(dir, S)
  BY <1>4 DEF Closed
<1> QED
  BY <1>1, <1>3, <1>5 DEF Resolvable

(* A name without a candidate that loads cannot be resolved.                *)
LEMMA NothingOpens ==
  ASSUME NEW dir \in DiskType, NEW d \in Demand,
         \A j \in DOMAIN dir[d.name] : dir[d.name][j] = LoadError
  PROVE  ~Resolvable(dir, d)
BY ResolvableStep DEF Acceptable, HasChosen, Opens

(* The request is reached, and what is reached passes it on.                *)
LEMMA ReachedRoot ==
  ASSUME NEW dir, NEW top
  PROVE  Reached(dir, top, top)
BY DEF Reached

(* A successor of what is reached is reached.                              *)
LEMMA ReachedStep ==
  ASSUME NEW dir, NEW top, NEW d, Reached(dir, top, d),
         NEW e \in Successors(dir, d)
  PROVE  Reached(dir, top, e)
BY DEF Reached, Closed

(* What is reached is on the disk, or is the request.                      *)
LEMMA ReachedType ==
  ASSUME NEW dir \in DiskType, NEW top \in Demand, NEW d, Reached(dir, top, d)
  PROVE  d \in AllDemands(dir, top)
<1>1. top \in AllDemands(dir, top)
  BY DEF AllDemands
<1>2. Closed(dir, AllDemands(dir, top))
  BY AllDemandsType, SuccessorType DEF Closed
<1> QED
  BY <1>1, <1>2 DEF Reached

-----------------------------------------------------------------------------
(* Replacing the top of the stack.                                         *)
LEMMA SetTopStack ==
  ASSUME NEW s \in Seq(Frame), s # <<>>, NEW f \in Frame
  PROVE  LET t == [s EXCEPT ![Len(s)] = f]
         IN  /\ t \in Seq(Frame) /\ Len(t) = Len(s) /\ t # <<>>
             /\ t[Len(s)] = f
             /\ \A k \in 1..(Len(s) - 1) : t[k] = s[k]
OBVIOUS

(* Pushing a frame.                                                        *)
LEMMA PushStack ==
  ASSUME NEW s \in Seq(Frame), NEW f \in Frame
  PROVE  LET t == Append(s, f)
         IN  /\ t \in Seq(Frame) /\ Len(t) = Len(s) + 1 /\ t # <<>>
             /\ t[Len(t)] = f
             /\ \A k \in 1..Len(s) : t[k] = s[k]
OBVIOUS

(* Popping the top frame and replacing the one below it.                   *)
LEMMA PopStack ==
  ASSUME NEW s \in Seq(Frame), Len(s) > 1, NEW f \in Frame, NEW t,
         t = [SubSeq(s, 1, Len(s) - 1) EXCEPT
                ![Len(SubSeq(s, 1, Len(s) - 1))] = f]
  PROVE  /\ t \in Seq(Frame) /\ Len(t) = Len(s) - 1 /\ t # <<>>
         /\ t[Len(s) - 1] = f
         /\ \A k \in 1..(Len(s) - 2) : t[k] = s[k]
<1> DEFINE r == SubSeq(s, 1, Len(s) - 1)
<1>1. /\ r \in Seq(Frame) /\ Len(r) = Len(s) - 1
      /\ \A k \in 1..(Len(s) - 1) : r[k] = s[k]
  OBVIOUS
<1>2. r # <<>>
  <2> HIDE DEF r
  <2> QED
    BY <1>1
<1>3. t = [r EXCEPT ![Len(r)] = f]
  OBVIOUS
<1> HIDE DEF r
<1>4. /\ t \in Seq(Frame) /\ Len(t) = Len(r) /\ t # <<>>
      /\ t[Len(r)] = f
      /\ \A k \in 1..(Len(r) - 1) : t[k] = r[k]
  BY <1>1, <1>2, <1>3, SetTopStack, SMTT(60)
<1> QED
  BY <1>1, <1>4

-----------------------------------------------------------------------------
(* Nodes are added, and linked, but keep the package they were made from.   *)
Grows ==
  /\ nodes' \in Seq(Node)
  /\ \A k \in DOMAIN nodes : k \in DOMAIN nodes' /\ nodes'[k].pkg = nodes[k].pkg

(* What the type invariant gives while the search runs.                    *)
LEMMA RunningFacts ==
  ASSUME TypeOK, Running
  PROVE  /\ disk \in DiskType /\ request \in Demand
         /\ stack \in Seq(Frame) /\ stack # <<>>
         /\ Len(stack) \in 1..StackLimit
         /\ Top \in Frame /\ Top = stack[Len(stack)]
         /\ disk[Top.name] \in Seq(File)
         /\ root = 0
<1>1. disk \in DiskType /\ request \in Demand
  BY DemandsAssumption DEF TypeOK, DiskType, RootDemand
<1>2. stack \in Seq(Frame) /\ stack # <<>> /\ root = 0
  BY DEF TypeOK, Running
<1>3. Len(stack) \in 1..StackLimit
  BY <1>2, DemandsAssumption DEF TypeOK
<1>4. Top \in Frame
  BY <1>2, <1>3 DEF Top
<1>5. disk[Top.name] \in Seq(File)
  BY <1>1, <1>4 DEF DiskType, Frame
<1> QED
  BY <1>1, <1>2, <1>3, <1>4, <1>5 DEF Top

(* The demand of a call is a demand.                                       *)
LEMMA DemandType ==
  ASSUME TypeOK, NEW k \in DOMAIN stack
  PROVE  DemandAt(k) \in Demand
<1>1. stack[k] \in Frame
  BY DEF TypeOK
<1> QED
  BY <1>1 DEF DemandAt, Demand, Frame

(* A frame that is neither the top nor its caller is not disturbed.         *)
LEMMA KeepFrame ==
  ASSUME Grows, disk' = disk, NEW k \in DOMAIN stack, FrameOK(k),
         stack'[k] = stack[k], k < Len(stack), k < Len(stack'),
         stack'[k + 1].name = stack[k + 1].name
  PROVE  FrameOK(k)'
BY DEF Grows, FrameOK, DemandAt

(* A cache stays right while the heap grows.                               *)
LEMMA KeepCache ==
  ASSUME Grows, disk' = disk, NEW cache, CacheOK(cache)
  PROVE  \A n \in Names : cache[n] # 0 =>
           /\ HasChosen(disk', n)
           /\ cache[n] \in DOMAIN nodes'
           /\ nodes'[cache[n]].pkg = Chosen(disk', n)
BY DEF Grows, CacheOK

(* FrameOK of a frame that is the top of the stack.                         *)
TopOK(f) ==
  LET d == [name |-> f.name, req |-> f.req]
      p == Chosen(disk, f.name)
  IN  /\ f.cache[f.name] = 0 =>
           f.node = 0 /\ \A j \in 1..(f.cand - 1) : disk[f.name][j] = LoadError
      /\ f.node = 0 /\ f.cand > 1 /\ f.cache[f.name] # 0 =>
           ~Resolvable(disk, d)
      /\ f.node # 0 =>
           /\ f.node \in DOMAIN nodes
           /\ nodes[f.node].pkg = p
           /\ Acceptable(disk, d)
           /\ f.todo \subseteq Keys(p.require)
           /\ \A m \in Keys(p.require) \ f.todo :
                Resolvable(disk, [name |-> m, req |-> p.require[m]])

(* What the invariant says of the top of the stack.                        *)
LEMMA TopIsOK ==
  ASSUME IInv, Running
  PROVE  TopOK(Top) /\ CacheOK(Top.cache)
<1>1. Len(stack) \in DOMAIN stack /\ Top = stack[Len(stack)] /\ ~(Len(stack) < Len(stack))
  BY RunningFacts DEF IInv
<1>2. FrameOK(Len(stack)) /\ CacheOK(stack[Len(stack)].cache)
  BY <1>1 DEF IInv, FramesOK, CacheHoldsChosen
<1> QED
  BY <1>1, <1>2 DEF FrameOK, TopOK, DemandAt

(* TopOK is FrameOK when no call was made from the frame.                  *)
LEMMA TopToFrame ==
  ASSUME NEW n, n = Len(stack'), n \in Nat, NEW f, stack'[n] = f, TopOK(f)'
  PROVE  FrameOK(n)'
BY DEF FrameOK, TopOK, DemandAt

(* A step that replaces the top frame by one for the same demand.           *)
LEMMA TopStep ==
  ASSUME IInv, Running, NEW n \in Nat, n = Len(stack), NEW f \in Frame, f.name = Top.name, f.req = Top.req,
         stack' = SetTop(f), Grows, UNCHANGED <<disk, request, outcome, root>>,
         CacheOK(f.cache)', TopOK(f)'
  PROVE  IInv'
<1>1. /\ stack \in Seq(Frame) /\ stack # <<>> /\ n \in 1..StackLimit
      /\ Top = stack[n] /\ root = 0
  BY RunningFacts DEF IInv
<1>2. /\ stack' \in Seq(Frame) /\ Len(stack') = n /\ stack' # <<>>
      /\ stack'[n] = f
      /\ \A k \in 1..(n - 1) : stack'[k] = stack[k]
  BY <1>1, SetTopStack DEF SetTop
<1>3. TypeOK'
  BY <1>1, <1>2 DEF IInv, TypeOK, Grows, Running
<1>4. \A k \in 1..n : DemandAt(k)' = DemandAt(k)
  BY <1>1, <1>2 DEF DemandAt
<1>5. StackIsChain'
  BY <1>1, <1>2, <1>4 DEF IInv, StackIsChain
<1>6. DemandsReached'
  BY <1>1, <1>2, <1>4 DEF IInv, DemandsReached
<1>7. CacheHoldsChosen'
  <2>1. ASSUME NEW k \in 1..(n - 1)
        PROVE  CacheOK(stack[k].cache)'
    <3>1. CacheOK(stack[k].cache)
      BY <1>1 DEF IInv, CacheHoldsChosen
    <3>2. stack'[k].cache = stack[k].cache
      BY <1>2
    <3>3. \A m \in Names : stack[k].cache[m] # 0 =>
            /\ HasChosen(disk', m)
            /\ stack[k].cache[m] \in DOMAIN nodes'
            /\ nodes'[stack[k].cache[m]].pkg = Chosen(disk', m)
      BY <3>1, KeepCache
    <3> QED
      BY <3>2, <3>3 DEF CacheOK
  <2> QED
    BY <1>1, <1>2, <2>1 DEF CacheHoldsChosen
<1>8. FramesOK'
  <2>1. ASSUME NEW k \in 1..(n - 1)
        PROVE  FrameOK(k)'
    <3>1. FrameOK(k)
      BY <1>1 DEF IInv, FramesOK
    <3>2. stack'[k + 1].name = stack[k + 1].name
      BY <1>1, <1>2
    <3> QED
      BY <3>1, <3>2, <1>1, <1>2, KeepFrame, SMTT(60)
  <2>2. FrameOK(n)'
    BY <1>1, <1>2, TopToFrame
  <2> QED
    BY <1>1, <1>2, <2>1, <2>2 DEF FramesOK
<1> QED
  BY <1>3, <1>5, <1>7, <1>8, <1>6 DEF IInv

(* A return: the top frame goes, its caller's is replaced.                  *)
LEMMA PopStep ==
  ASSUME IInv, Running, NEW n \in Nat \ {0}, Len(stack) = n + 1,
         NEW f \in Frame, f.name = Parent.name, f.req = Parent.req,
         stack' = PopInto(f), Grows, UNCHANGED <<disk, request, outcome, root>>,
         CacheOK(f.cache)', TopOK(f)'
  PROVE  IInv'
<1>1. /\ stack \in Seq(Frame) /\ n \in 1..StackLimit
      /\ Parent = stack[n] /\ root = 0
  <2>1. /\ stack \in Seq(Frame) /\ Len(stack) \in 1..StackLimit /\ root = 0
    BY RunningFacts DEF IInv
  <2> QED
    BY <2>1, DemandsAssumption DEF Parent
<1>2. /\ stack' \in Seq(Frame) /\ Len(stack') = n /\ stack' # <<>>
      /\ stack'[n] = f
      /\ \A k \in 1..(n - 1) : stack'[k] = stack[k]
  <2>1. stack' = [SubSeq(stack, 1, Len(stack) - 1) EXCEPT
                    ![Len(SubSeq(stack, 1, Len(stack) - 1))] = f]
    BY DEF PopInto, Rest
  <2>2. Len(stack) > 1 /\ Len(stack) - 1 = n /\ Len(stack) - 2 = n - 1
    BY <1>1
  <2>3. /\ stack' \in Seq(Frame) /\ Len(stack') = Len(stack) - 1 /\ stack' # <<>>
        /\ stack'[Len(stack) - 1] = f
        /\ \A k \in 1..(Len(stack) - 2) : stack'[k] = stack[k]
    <3> DEFINE r == SubSeq(stack, 1, Len(stack) - 1)
               P(t) == /\ t \in Seq(Frame) /\ Len(t) = Len(stack) - 1 /\ t # <<>>
                       /\ t[Len(stack) - 1] = f
                       /\ \A k \in 1..(Len(stack) - 2) : t[k] = stack[k]
    <3>1. \A t : t = [r EXCEPT ![Len(r)] = f] => P(t)
      BY <1>1, <2>2, PopStack
    <3>2. stack' = [r EXCEPT ![Len(r)] = f]
      BY <2>1
    <3> HIDE DEF r, P
    <3>3. P(stack')
      BY <3>1, <3>2
    <3> QED
      BY <3>3 DEF P
  <2> QED
    BY <2>2, <2>3
<1>3. TypeOK'
  BY <1>1, <1>2, DemandsAssumption DEF IInv, TypeOK, Grows, Running
<1>4. \A k \in 1..n : DemandAt(k)' = DemandAt(k)
  BY <1>1, <1>2 DEF DemandAt
<1>5. StackIsChain'
  BY <1>1, <1>2, <1>4 DEF IInv, StackIsChain
<1>6. DemandsReached'
  BY <1>1, <1>2, <1>4 DEF IInv, DemandsReached
<1>7. CacheHoldsChosen'
  <2>1. ASSUME NEW k \in 1..(n - 1)
        PROVE  CacheOK(stack[k].cache)'
    <3>1. CacheOK(stack[k].cache)
      BY <1>1 DEF IInv, CacheHoldsChosen
    <3> QED
      BY <3>1, <1>2, KeepCache DEF CacheOK
  <2> QED
    BY <1>1, <1>2, <2>1 DEF CacheHoldsChosen
<1>8. FramesOK'
  <2>1. ASSUME NEW k \in 1..(n - 1)
        PROVE  FrameOK(k)'
    <3>1. FrameOK(k)
      BY <1>1 DEF IInv, FramesOK
    <3>2. stack'[k + 1].name = stack[k + 1].name /\ stack'[k] = stack[k]
      BY <1>1, <1>2
    <3>3. k < Len(stack) /\ k < Len(stack') /\ k \in DOMAIN stack
      BY <1>1, <1>2
    <3> QED
      BY <3>1, <3>2, <3>3, KeepFrame
  <2>2. FrameOK(n)'
    BY <1>1, <1>2, TopToFrame
  <2> QED
    BY <1>1, <1>2, <2>1, <2>2 DEF FramesOK
<1> QED
  BY <1>3, <1>5, <1>7, <1>8, <1>6 DEF IInv

-----------------------------------------------------------------------------
(* What get returns: the file the name resolves to, in the heap and cached. *)
LEMMA GetFacts ==
  ASSUME IInv, Trying, Loads
  PROVE  /\ Heap \in Seq(Node) /\ Got \in DOMAIN Heap /\ Got # 0
         /\ \A k \in DOMAIN nodes : k \in DOMAIN Heap /\ Heap[k].pkg = nodes[k].pkg
         /\ HasChosen(disk, Top.name) /\ GotPackage = Chosen(disk, Top.name)
         /\ GotPackage \in Package
         /\ Cache \in [Names -> Nat] /\ Cache[Top.name] = Got
         /\ \A m \in Names \ {Top.name} : Cache[m] = Top.cache[m]
<1>1. /\ stack \in Seq(Frame) /\ Len(stack) \in 1..StackLimit
      /\ Top \in Frame /\ Top = stack[Len(stack)]
      /\ disk \in DiskType /\ disk[Top.name] \in Seq(File)
  BY RunningFacts DEF IInv, Trying
<1>2. /\ Top.cache \in [Names -> Nat] /\ Top.name \in Names /\ nodes \in Seq(Node)
      /\ Top.cand \in DOMAIN disk[Top.name]
  BY <1>1, SMTT(60) DEF IInv, TypeOK, Frame, Trying
<1>3. CASE Hit
  <2>1. CacheOK(Top.cache)
    BY <1>1 DEF IInv, CacheHoldsChosen
  <2>2. /\ HasChosen(disk, Top.name) /\ Got \in DOMAIN nodes /\ Got # 0
        /\ nodes[Got].pkg = Chosen(disk, Top.name)
    BY <1>2, <1>3, <2>1 DEF CacheOK, Hit, Got
  <2>3. nodes[Got].pkg \in Package
    <3>1. nodes[Got] \in Node
      BY <1>2, <2>2
    <3> QED
      BY <3>1 DEF Node
  <2> QED
    BY <1>2, <1>3, <2>2, <2>3 DEF Heap, Cache, GotPackage, Got
<1>4. CASE ~Hit
  <2>1. FrameOK(Len(stack))
    BY <1>1 DEF IInv, FramesOK
  <2>2. \A j \in 1..(Top.cand - 1) : disk[Top.name][j] = LoadError
    BY <1>1, <1>4, <2>1 DEF FrameOK, Hit
  <2>3. FileAtPath = disk[Top.name][Top.cand] /\ FileAtPath \in Package
        /\ FileAtPath # LoadError
    BY <1>1, <1>2, <1>4 DEF Loads, FileAtPath, File
  <2>4. Opens(disk[Top.name], Top.cand)
    BY <1>2, <2>2, <2>3 DEF Opens
  <2>5. HasChosen(disk, Top.name) /\ Chosen(disk, Top.name) = FileAtPath
    BY <1>1, <1>2, <2>3, <2>4, ChosenOpens
  <2>6. /\ Heap = Append(nodes, [pkg |-> FileAtPath, depends |-> <<>>])
        /\ Got = Len(nodes) + 1
        /\ Cache = [Top.cache EXCEPT ![Top.name] = Got]
    BY <1>4 DEF Heap, Got, Cache
  <2>7. [pkg |-> FileAtPath, depends |-> <<>>] \in Node
    BY <2>3 DEF Node
  <2>8. Heap \in Seq(Node) /\ Got \in DOMAIN Heap /\ Heap[Got].pkg = FileAtPath
    BY <1>2, <2>6, <2>7
  <2>9. \A k \in DOMAIN nodes : k \in DOMAIN Heap /\ Heap[k] = nodes[k]
    BY <1>2, <2>6, <2>7
  <2>10. Cache \in [Names -> Nat] /\ Cache[Top.name] = Got /\ Got # 0
        /\ \A m \in Names \ {Top.name} : Cache[m] = Top.cache[m]
    BY <1>2, <2>6
  <2> QED
    BY <2>3, <2>5, <2>8, <2>9, <2>10 DEF GotPackage
<1> QED
  BY <1>3, <1>4

-----------------------------------------------------------------------------
(* Going on to the next path.                                              *)
LEMMA NextPathType ==
  ASSUME NEW f \in Frame
  PROVE  LET g == NextPath(f)
         IN  /\ g \in Frame /\ g.name = f.name /\ g.req = f.req /\ g.node = 0
             /\ g.cache = f.cache /\ g.cand = f.cand + 1
<1>1. f.cand + 1 \in Nat \ {0} /\ <<>> \in Seq(Nat \ {0}) /\ {} \in SUBSET Names
  BY DEF Frame
<1> QED
  BY <1>1 DEF NextPath, Frame

(* One lemma per action that leaves the search running.                     *)
LEMMA LoadFailsStep ==
  ASSUME IInv, LoadFails
  PROVE  IInv'
<1> PICK f : f = NextPath(Top)
  OBVIOUS
<1>1. /\ Running /\ Top.node = 0 /\ ~Hit /\ FileAtPath = LoadError
      /\ stack' = SetTop(f) /\ UNCHANGED <<disk, request, nodes, outcome, root>>
  BY DEF LoadFails, Trying
<1>2. /\ Top \in Frame /\ Len(stack) \in Nat /\ disk[Top.name] \in Seq(File)
  BY <1>1, RunningFacts DEF IInv
<1>3. /\ f \in Frame /\ f.name = Top.name /\ f.req = Top.req /\ f.node = 0
      /\ f.cache = Top.cache /\ f.cand = Top.cand + 1
  BY <1>2, NextPathType
<1>4. Grows
  BY <1>1 DEF Grows, IInv, TypeOK
<1>5. TopOK(Top) /\ CacheOK(Top.cache)
  BY <1>1, TopIsOK
<1>6. CacheOK(f.cache)'
  BY <1>1, <1>3, <1>5 DEF CacheOK
<1>7. \A j \in 1..(f.cand - 1) : disk[f.name][j] = LoadError
  <2>1. Top.cand \in Nat \ {0} /\ disk[Top.name][Top.cand] = LoadError
    BY <1>1, <1>2 DEF Frame, FileAtPath
  <2>2. \A j \in 1..(Top.cand - 1) : disk[Top.name][j] = LoadError
    BY <1>1, <1>5 DEF TopOK, Hit
  <2> QED
    BY <1>3, <2>1, <2>2
<1>8. TopOK(f)'
  BY <1>1, <1>3, <1>7 DEF TopOK, Hit
<1> QED
  BY <1>1, <1>2, <1>3, <1>4, <1>6, <1>8, TopStep

(* The heap and the cache are right after a get.                           *)
LEMMA GotCache ==
  ASSUME IInv, Trying, Loads, nodes' = Heap, disk' = disk, NEW c, c = Cache
  PROVE  Grows /\ CacheOK(c)'
<1>1. Grows
  BY GetFacts DEF Grows
<1>2. CacheOK(Top.cache)
  BY TopIsOK DEF Trying
<1>3. ASSUME NEW m \in Names, c[m] # 0
      PROVE  /\ HasChosen(disk', m) /\ c[m] \in DOMAIN nodes'
             /\ nodes'[c[m]].pkg = Chosen(disk', m)
  <2>1. CASE m = Top.name
    BY <2>1, GetFacts DEF GotPackage
  <2>2. CASE m # Top.name
    <3>1. Top.cache[m] = c[m]
      BY <2>2, GetFacts
    <3>2. HasChosen(disk, m) /\ c[m] \in DOMAIN nodes /\ nodes[c[m]].pkg = Chosen(disk, m)
      BY <1>2, <1>3, <3>1 DEF CacheOK
    <3> QED
      BY <1>1, <3>2 DEF Grows
  <2> QED
    BY <2>1, <2>2
<1> QED
  BY <1>1, <1>3 DEF CacheOK

(* A rejected candidate shows that its demand cannot be resolved.          *)
LEMMA RejectStep ==
  ASSUME IInv, Reject
  PROVE  IInv'
<1> PICK f : f = [NextPath(Top) EXCEPT !.cache = Cache]
  OBVIOUS
<1>1. /\ Running /\ Trying /\ Loads /\ ~Meets(GotPackage, Top.req) /\ nodes' = Heap
      /\ stack' = SetTop(f) /\ UNCHANGED <<disk, request, outcome, root>>
  BY DEF Reject, Trying
<1>2. Top \in Frame /\ Len(stack) \in Nat /\ disk \in DiskType
  BY <1>1, RunningFacts DEF IInv
<1>3. /\ GotPackage = Chosen(disk, Top.name) /\ Cache \in [Names -> Nat]
      /\ Cache[Top.name] = Got /\ Got # 0
  BY <1>1, GetFacts
<1>4. /\ f \in Frame /\ f.name = Top.name /\ f.req = Top.req /\ f.node = 0
      /\ f.cache = Cache
  BY <1>2, <1>3, NextPathType DEF Frame
<1>5. Grows /\ CacheOK(f.cache)'
  BY <1>1, <1>4, GotCache
<1>6. ~Resolvable(disk, [name |-> f.name, req |-> f.req])
  <2> DEFINE d == [name |-> f.name, req |-> f.req]
  <2>1. d \in Demand
    BY <1>4 DEF Frame, Demand
  <2>2. ~Acceptable(disk, d)
    BY <1>1, <1>3, <1>4 DEF Acceptable
  <2> QED
    BY <1>2, <2>1, <2>2, ResolvableStep
<1>7. TopOK(f)'
  BY <1>1, <1>3, <1>4, <1>6 DEF TopOK
<1> QED
  BY <1>1, <1>2, <1>4, <1>5, <1>7, TopStep

(* An accepted candidate leaves all its requirements to do.                *)
LEMMA AcceptStep ==
  ASSUME IInv, Accept
  PROVE  IInv'
<1> PICK f : f = [Top EXCEPT !.cache = Cache, !.node = Got,
                             !.todo = Keys(GotPackage.require)]
  OBVIOUS
<1>1. /\ Running /\ Trying /\ Loads /\ Meets(GotPackage, Top.req) /\ nodes' = Heap
      /\ stack' = SetTop(f) /\ UNCHANGED <<disk, request, outcome, root>>
  BY DEF Accept, Trying
<1>2. Top \in Frame /\ Len(stack) \in Nat /\ disk \in DiskType
  BY <1>1, RunningFacts DEF IInv
<1>3. /\ GotPackage = Chosen(disk, Top.name) /\ Cache \in [Names -> Nat]
      /\ GotPackage \in Package /\ HasChosen(disk, Top.name)
      /\ Cache[Top.name] = Got /\ Got # 0 /\ Got \in DOMAIN Heap /\ Heap \in Seq(Node)
  BY <1>1, GetFacts
<1>4. Keys(GotPackage.require) \subseteq Names
  BY <1>3, RequireType
<1>5. /\ f \in Frame /\ f.name = Top.name /\ f.req = Top.req /\ f.node = Got
      /\ f.cache = Cache /\ f.todo = Keys(GotPackage.require)
  BY <1>2, <1>3, <1>4 DEF Frame
<1>6. Grows /\ CacheOK(f.cache)'
  BY <1>1, <1>5, GotCache
<1>7. Acceptable(disk, [name |-> f.name, req |-> f.req])
  <2>1. GotPackage # LoadThrow
    BY <1>1, <1>3, PackagesAssumption DEF Package
  <2> QED
    BY <1>1, <1>3, <1>5, <2>1 DEF Acceptable
<1>8. TopOK(f)'
  BY <1>1, <1>3, <1>5, <1>7 DEF TopOK, GotPackage
<1> QED
  BY <1>1, <1>2, <1>5, <1>6, <1>8, TopStep

(* A call is pushed for a requirement of the accepted package.              *)
LEMMA DescendStep ==
  ASSUME IInv, NEW n \in Names, Descend(n)
  PROVE  IInv'
<1>0. PICK f, g, l :
      /\ f = [Top EXCEPT !.todo = @ \ {n}]
      /\ g = Call(n, nodes[Top.node].pkg.require[n], Top.cache)
      /\ l = Len(stack)
  OBVIOUS
<1>1. /\ Running /\ Top.node # 0 /\ n \in Top.todo /\ l < StackLimit
      /\ stack' = Append(SetTop(f), g)
      /\ UNCHANGED <<disk, request, nodes, outcome, root>>
  BY <1>0 DEF Descend, Expanding
<1>2. /\ stack \in Seq(Frame) /\ stack # <<>> /\ l \in 1..StackLimit
      /\ Top \in Frame /\ Top = stack[l] /\ disk \in DiskType /\ root = 0
      /\ StackLimit \in Nat /\ l = Len(stack)
  BY <1>0, <1>1, RunningFacts, DemandsAssumption DEF IInv
<1>3. TopOK(Top) /\ CacheOK(Top.cache)
  BY <1>1, TopIsOK
<1> DEFINE p == Chosen(disk, Top.name)
           d == [name |-> Top.name, req |-> Top.req]
<1>4. /\ Top.node \in DOMAIN nodes /\ nodes[Top.node].pkg = p
      /\ Acceptable(disk, d) /\ Top.todo \subseteq Keys(p.require)
      /\ \A m \in Keys(p.require) \ Top.todo :
           Resolvable(disk, [name |-> m, req |-> p.require[m]])
  BY <1>1, <1>3 DEF TopOK
<1>5. p.require[n] \in Requirement /\ n \in Keys(p.require)
  <2>1. d \in Demand
    BY <1>2 DEF Demand, Frame
  <2>2. p \in Package
    BY <1>2, <1>4, <2>1, AcceptableType
  <2> QED
    BY <1>1, <1>4, <2>2, RequireType
<1>6. /\ g \in Frame /\ g.name = n /\ g.req = p.require[n] /\ g.cand = 1
      /\ g.cache = Top.cache /\ g.node = 0
  BY <1>0, <1>2, <1>4, <1>5 DEF Call, Frame
<1>7. /\ f \in Frame /\ f.name = Top.name /\ f.req = Top.req /\ f.node = Top.node
      /\ f.cache = Top.cache /\ f.todo = Top.todo \ {n}
  BY <1>0, <1>2 DEF Frame
<1>8. /\ stack' \in Seq(Frame) /\ Len(stack') = l + 1 /\ stack' # <<>>
      /\ stack'[l + 1] = g /\ stack'[l] = f
      /\ \A k \in 1..(l - 1) : stack'[k] = stack[k]
  <2>0. PICK t : t = [stack EXCEPT ![l] = f]
    OBVIOUS
  <2>1. /\ t \in Seq(Frame) /\ Len(t) = l /\ t[l] = f
        /\ \A k \in 1..(l - 1) : t[k] = stack[k]
    BY <1>2, <1>7, <2>0, SetTopStack
  <2>2. stack' = Append(t, g)
    BY <1>1, <1>2, <2>0 DEF SetTop
  <2>3. LET s == Append(t, g)
        IN  /\ s \in Seq(Frame) /\ Len(s) = Len(t) + 1 /\ s # <<>>
            /\ s[Len(s)] = g /\ \A k \in 1..Len(t) : s[k] = t[k]
    BY <2>1, <1>6, PushStack
  <2>4. /\ stack' \in Seq(Frame) /\ Len(stack') = l + 1 /\ stack' # <<>>
        /\ stack'[l + 1] = g /\ \A k \in 1..l : stack'[k] = t[k]
    BY <2>1, <2>2, <2>3
  <2> QED
    BY <1>2, <2>1, <2>4
<1>9. Grows /\ TypeOK'
  BY <1>1, <1>2, <1>8 DEF IInv, TypeOK, Grows, Running
<1>10. \A k \in 1..l : DemandAt(k)' = DemandAt(k)
  BY <1>2, <1>7, <1>8, SMTT(60) DEF DemandAt
<1>11. DemandAt(l + 1)' \in Successors(disk, DemandAt(l))
  BY <1>2, <1>4, <1>5, <1>6, <1>8 DEF DemandAt, Successors, DemandsOf
<1>12. StackIsChain'
  <2>1. DemandAt(1)' = request'
    BY <1>1, <1>2, <1>10 DEF IInv, StackIsChain
  <2>2. ASSUME NEW k \in 1..l
        PROVE  DemandAt(k + 1)' \in Successors(disk', DemandAt(k)')
    <3>1. CASE k = l
      BY <1>1, <1>2, <1>10, <1>11, <3>1
    <3>2. CASE k # l
      <4>1. DemandAt(k + 1) \in Successors(disk, DemandAt(k))
        BY <1>2, <3>2 DEF IInv, StackIsChain
      <4>2. DemandAt(k + 1)' = DemandAt(k + 1) /\ DemandAt(k)' = DemandAt(k)
        BY <1>2, <1>10, <3>2
      <4> QED
        BY <1>1, <4>1, <4>2
    <3> QED
      BY <3>1, <3>2
  <2>3. Len(stack') - 1 = l
    BY <1>2, <1>8
  <2> QED
    BY <2>1, <2>2, <2>3 DEF StackIsChain
<1>13. DemandsReached'
  <2>1. \A k \in 1..l : Reached(disk, request, DemandAt(k))
    BY <1>2 DEF IInv, DemandsReached
  <2>2. Reached(disk, request, DemandAt(l + 1)')
    BY <1>2, <1>11, <2>1, ReachedStep
  <2> QED
    BY <1>1, <1>2, <1>8, <1>10, <2>1, <2>2 DEF DemandsReached
<1>14. CacheHoldsChosen'
  <2>1. ASSUME NEW k \in 1..(l - 1)
        PROVE  CacheOK(stack[k].cache)'
    <3>1. CacheOK(stack[k].cache)
      BY <1>2 DEF IInv, CacheHoldsChosen
    <3> QED
      BY <1>1, <1>8, <1>9, <3>1 DEF CacheOK
  <2>2. CacheOK(f.cache)' /\ CacheOK(g.cache)'
    BY <1>1, <1>3, <1>6, <1>7 DEF CacheOK
  <2> QED
    BY <1>2, <1>8, <2>1, <2>2 DEF CacheHoldsChosen
<1>15. FramesOK'
  <2>1. ASSUME NEW k \in 1..(l - 1)
        PROVE  FrameOK(k)'
    <3>1. FrameOK(k)
      BY <1>2 DEF IInv, FramesOK
    <3>2. stack'[k + 1].name = stack[k + 1].name /\ stack'[k] = stack[k]
      BY <1>2, <1>7, <1>8
    <3>3. k < Len(stack) /\ k < Len(stack') /\ k \in DOMAIN stack
      BY <1>2, <1>8
    <3> QED
      BY <1>1, <1>9, <3>1, <3>2, <3>3, KeepFrame
  <2>2. FrameOK(l)'
    <3>1. \A m \in Keys(p.require) \ f.todo :
            \/ l < Len(stack') /\ stack'[l + 1].name = m
            \/ Resolvable(disk, [name |-> m, req |-> p.require[m]])
      BY <1>2, <1>4, <1>6, <1>7, <1>8
    <3>2. f.cache[f.name] # 0
      BY <1>1, <1>3, <1>7 DEF TopOK
    <3> QED
      BY <1>1, <1>4, <1>7, <1>8, <3>1, <3>2 DEF FrameOK, DemandAt
  <2>3. FrameOK(l + 1)'
    <3>1. TopOK(g)'
      BY <1>6 DEF TopOK
    <3> QED
      BY <1>2, <1>8, <3>1, TopToFrame
  <2> QED
    BY <1>2, <1>8, <2>1, <2>2, <2>3 DEF FramesOK
<1> QED
  BY <1>9, <1>12, <1>14, <1>15, <1>13 DEF IInv

(* The demand of a call is a successor of its caller's.                     *)
LEMMA ParentFacts ==
  ASSUME IInv, Running, NEW n \in Nat \ {0}, Len(stack) = n + 1
  PROVE  /\ Parent \in Frame /\ Parent.node # 0 /\ CacheOK(Parent.cache)
         /\ Parent.cache[Parent.name] # 0
         /\ [name |-> Top.name, req |-> Top.req]
              \in Successors(disk, [name |-> Parent.name, req |-> Parent.req])
         /\ \A m \in Keys(Chosen(disk, Parent.name).require) \ Parent.todo :
              \/ Top.name = m
              \/ Resolvable(disk, [name |-> m, req |-> Chosen(disk, Parent.name).require[m]])
         /\ Parent.node \in DOMAIN nodes
         /\ nodes[Parent.node].pkg = Chosen(disk, Parent.name)
         /\ Acceptable(disk, [name |-> Parent.name, req |-> Parent.req])
         /\ Parent.todo \subseteq Keys(Chosen(disk, Parent.name).require)
<1>1. /\ stack \in Seq(Frame) /\ n \in DOMAIN stack /\ n < Len(stack)
      /\ Parent = stack[n] /\ Top = stack[n + 1]
  BY RunningFacts DEF IInv, Parent
<1>2. FrameOK(n) /\ CacheOK(stack[n].cache)
  BY <1>1 DEF IInv, FramesOK, CacheHoldsChosen
<1>3. DemandAt(n + 1) \in Successors(disk, DemandAt(n))
  BY <1>1 DEF IInv, StackIsChain
<1> QED
  BY <1>1, <1>2, <1>3 DEF FrameOK, DemandAt

(* The whole demand of a call that returns a node is resolved.              *)
LEMMA ReturnsResolved ==
  ASSUME IInv, Expanding, Top.todo = {}
  PROVE  Resolvable(disk, [name |-> Top.name, req |-> Top.req])
<1> DEFINE p == Chosen(disk, Top.name)
           d == [name |-> Top.name, req |-> Top.req]
<1>1. Running /\ Top.node # 0 /\ TopOK(Top)
  BY TopIsOK DEF Expanding
<1>2. disk \in DiskType /\ d \in Demand
  BY <1>1, RunningFacts DEF IInv, Demand, Frame
<1>3. /\ Acceptable(disk, d)
      /\ \A m \in Keys(p.require) : Resolvable(disk, [name |-> m, req |-> p.require[m]])
  BY <1>1 DEF TopOK
<1>4. \A e \in Successors(disk, d) : Resolvable(disk, e)
  BY <1>3 DEF Successors, DemandsOf
<1> QED
  BY <1>2, <1>3, <1>4, ResolvableIntro

(* The demand of a call that has run out of paths cannot be.                *)
LEMMA ReturnsHopeless ==
  ASSUME IInv, Exhausted
  PROVE  ~Resolvable(disk, [name |-> Top.name, req |-> Top.req])
<1> DEFINE d == [name |-> Top.name, req |-> Top.req]
<1>1. /\ Running /\ Top.node = 0 /\ Top.cand > Len(disk[Top.name]) /\ TopOK(Top)
  BY TopIsOK DEF Exhausted
<1>2. /\ disk \in DiskType /\ d \in Demand /\ disk[Top.name] \in Seq(File)
      /\ Top.cand \in Nat \ {0}
  BY <1>1, RunningFacts DEF IInv, Demand, Frame
<1>3. CASE Top.cache[Top.name] # 0 /\ Top.cand > 1
  BY <1>1, <1>3 DEF TopOK
<1>4. CASE Top.cache[Top.name] = 0 \/ Top.cand = 1
  <2>1. \A j \in DOMAIN disk[Top.name] : disk[Top.name][j] = LoadError
    <3>1. CASE Top.cand = 1
      BY <1>1, <1>2, <3>1
    <3>2. CASE Top.cache[Top.name] = 0
      BY <1>1, <1>2, <3>2 DEF TopOK
    <3> QED
      BY <1>4, <3>1, <3>2
  <2> QED
    BY <1>2, <2>1, NothingOpens
<1> QED
  BY <1>2, <1>3, <1>4

(* The answer at the bottom of the stack leaves an empty stack.             *)
LEMMA AnswerStep ==
  ASSUME IInv, stack' = <<>>, UNCHANGED <<disk, request>>, Grows,
         outcome' \in {"found", "error"},
         root' \in 0..Len(nodes'), root' # 0 <=> outcome' = "found"
  PROVE  IInv'
<1>1. TypeOK'
  BY DemandsAssumption DEF IInv, TypeOK, Grows, Outcomes
<1>2. StackIsChain' /\ DemandsReached' /\ CacheHoldsChosen' /\ FramesOK'
  BY DEF StackIsChain, DemandsReached, CacheHoldsChosen, FramesOK
<1> QED
  BY <1>1, <1>2 DEF IInv

(* A node is returned to its caller, or to find_package.                    *)
LEMMA ReturnNodeStep ==
  ASSUME IInv, ReturnNode
  PROVE  IInv'
<1>1. /\ Running /\ Expanding /\ Top.node # 0 /\ Top.todo = {}
      /\ nodes' = [nodes EXCEPT ![Top.node].depends = @ \o Top.found]
      /\ UNCHANGED <<disk, request>>
  BY DEF ReturnNode, Expanding
<1>2. /\ Top \in Frame /\ Len(stack) \in 1..StackLimit /\ StackLimit \in Nat
      /\ disk \in DiskType
  BY <1>1, RunningFacts, DemandsAssumption DEF IInv
<1>3. Top.node \in DOMAIN nodes /\ TopOK(Top)
  BY <1>1, TopIsOK DEF TopOK
<1>4. Grows
  <2>1. nodes \in Seq(Node) /\ nodes[Top.node] \in Node
    BY <1>3 DEF IInv, TypeOK
  <2>2. nodes[Top.node].depends \o Top.found \in Seq(Nat \ {0})
    BY <1>2, <2>1 DEF Node, Frame
  <2>3. [nodes[Top.node] EXCEPT !.depends = @ \o Top.found] \in Node
    BY <2>1, <2>2 DEF Node
  <2>4. PICK x : x = [nodes[Top.node] EXCEPT !.depends = @ \o Top.found]
    OBVIOUS
  <2>5. nodes' = [nodes EXCEPT ![Top.node] = x] /\ x \in Node
    BY <1>1, <2>3, <2>4
  <2>6. x.pkg = nodes[Top.node].pkg
    BY <2>1, <2>4 DEF Node
  <2> QED
    BY <1>3, <2>1, <2>5, <2>6 DEF Grows
<1>5. CASE Len(stack) = 1
  <2>1. stack' = <<>> /\ outcome' = "found" /\ root' = Top.node
    BY <1>5 DEF ReturnNode
  <2>2. root' \in 0..Len(nodes')
    BY <1>1, <1>3, <1>4, <2>1 DEF Grows, IInv, TypeOK
  <2> QED
    BY <1>1, <1>4, <2>1, <2>2, AnswerStep
<1>6. CASE Len(stack) # 1
  <2>1. PICK n \in Nat \ {0} : Len(stack) = n + 1
    <3>1. Len(stack) - 1 \in Nat \ {0} /\ Len(stack) = (Len(stack) - 1) + 1
      BY <1>2, <1>6
    <3> QED
      BY <3>1
  <2>2. PICK f : f = [Parent EXCEPT !.found = Append(@, Top.node),
                                    !.cache = Parent.cache]
    OBVIOUS
  <2>3. stack' = PopInto(f) /\ UNCHANGED <<outcome, root>>
    BY <1>6, <2>2 DEF ReturnNode, CacheAfterReturn
  <2>4. /\ f \in Frame /\ f.name = Parent.name /\ f.req = Parent.req
        /\ f.node = Parent.node /\ f.todo = Parent.todo /\ f.cache = Parent.cache
    <3>1. Parent \in Frame
      BY <1>1, <2>1, ParentFacts
    <3>2. Append(Parent.found, Top.node) \in Seq(Nat \ {0})
      BY <1>1, <1>2, <3>1 DEF Frame
    <3> QED
      BY <2>2, <3>1, <3>2 DEF Frame
  <2>5. Resolvable(disk, [name |-> Top.name, req |-> Top.req])
    BY <1>1, ReturnsResolved
  <2>6. \A m \in Keys(Chosen(disk, Parent.name).require) \ Parent.todo :
          Resolvable(disk, [name |-> m, req |-> Chosen(disk, Parent.name).require[m]])
    BY <1>1, <2>1, <2>5, ParentFacts DEF Successors, DemandsOf
  <2>7. CacheOK(f.cache)'
    BY <1>1, <1>4, <2>1, <2>4, ParentFacts, KeepCache DEF CacheOK
  <2>8. TopOK(f)'
    BY <1>1, <1>4, <2>1, <2>4, <2>6, ParentFacts DEF TopOK, Grows
  <2>9. Running /\ Grows /\ UNCHANGED <<disk, request, outcome, root>>
    BY <1>1, <1>4, <2>3
  <2> QED
    BY <2>1, <2>3, <2>4, <2>7, <2>8, <2>9, PopStep, SMTT(60)
<1> QED
  BY <1>5, <1>6

(* A call gives up, and with it its caller's candidate.                     *)
LEMMA ReturnErrorStep ==
  ASSUME IInv, ReturnError
  PROVE  IInv'
<1>1. Running /\ Exhausted /\ UNCHANGED <<disk, request, nodes, root>>
  BY DEF ReturnError, Exhausted
<1>2. /\ Top \in Frame /\ Len(stack) \in 1..StackLimit /\ StackLimit \in Nat
      /\ disk \in DiskType /\ root = 0
  BY <1>1, RunningFacts, DemandsAssumption DEF IInv
<1>3. Grows
  BY <1>1 DEF Grows, IInv, TypeOK
<1>4. CASE Len(stack) = 1
  <2>1. stack' = <<>> /\ outcome' = "error"
    BY <1>4 DEF ReturnError
  <2>2. root' \in 0..Len(nodes')
    BY <1>1 DEF IInv, TypeOK
  <2> QED
    BY <1>1, <1>2, <1>3, <2>1, <2>2, AnswerStep
<1>5. CASE Len(stack) # 1
  <2>1. PICK n \in Nat \ {0} : Len(stack) = n + 1
    <3>1. Len(stack) - 1 \in Nat \ {0} /\ Len(stack) = (Len(stack) - 1) + 1
      BY <1>2, <1>5
    <3> QED
      BY <3>1
  <2>2. PICK f : f = [NextPath(Parent) EXCEPT !.cache = Parent.cache]
    OBVIOUS
  <2>3. stack' = PopInto(f) /\ UNCHANGED <<outcome, root>>
    BY <1>1, <1>5, <2>2 DEF ReturnError, CacheAfterReturn
  <2>4. /\ f \in Frame /\ f.name = Parent.name /\ f.req = Parent.req
        /\ f.node = 0 /\ f.cache = Parent.cache
    <3>1. Parent \in Frame
      BY <1>1, <2>1, ParentFacts
    <3>2. NextPath(Parent) \in Frame
      BY <3>1, NextPathType
    <3> QED
      BY <2>2, <3>1, <3>2, NextPathType DEF Frame
  <2>5. ~Resolvable(disk, [name |-> f.name, req |-> f.req])
    <3>1. [name |-> Parent.name, req |-> Parent.req] \in Demand
      BY <1>1, <2>1, ParentFacts DEF Demand, Frame
    <3>2. ~Resolvable(disk, [name |-> Top.name, req |-> Top.req])
      BY <1>1, ReturnsHopeless
    <3> QED
      BY <1>1, <1>2, <2>1, <2>4, <3>1, <3>2, ParentFacts, ResolvableStep
  <2>6. CacheOK(f.cache)'
    BY <1>1, <1>3, <2>1, <2>4, ParentFacts, KeepCache DEF CacheOK
  <2>7. TopOK(f)'
    BY <1>1, <2>1, <2>4, <2>5, ParentFacts DEF TopOK
  <2> QED
    BY <1>1, <1>3, <2>1, <2>3, <2>4, <2>6, <2>7, PopStep
<1> QED
  BY <1>4, <1>5

(* The actions that end the program leave everything else as it is.         *)
LEMMA DeathStep ==
  ASSUME IInv, Running, outcome' \in {"terminated", "overflow"},
         UNCHANGED <<disk, request, nodes, stack, root>>
  PROVE  IInv'
<1>1. TypeOK'
  BY DEF IInv, TypeOK, Running, Outcomes
<1>2. StackIsChain' /\ DemandsReached'
  BY DEF IInv, StackIsChain, DemandsReached, DemandAt
<1>3. CacheHoldsChosen'
  BY DEF IInv, CacheHoldsChosen, CacheOK
<1>4. FramesOK'
  BY ZenonT(60) DEF IInv, FramesOK, FrameOK, DemandAt
<1> QED
  BY <1>1, <1>2, <1>3, <1>4 DEF IInv

-----------------------------------------------------------------------------
(* The invariant holds initially: the one call has tried nothing.           *)
LEMMA InitIInv == Init => IInv
<1> SUFFICES ASSUME Init
             PROVE  IInv
  OBVIOUS
<1> PICK f : f = Call(request.name, request.req, EmptyCache)
  OBVIOUS
<1>1. /\ disk \in DiskType /\ request \in RootDemand /\ request \in Demand
      /\ StackLimit \in Nat \ {0} /\ request \in Requests
  BY DemandsAssumption DEF Init, Start, DiskType, RootDemand
<1>2. /\ f \in Frame /\ f.name = request.name /\ f.req = request.req
      /\ f.cand = 1 /\ f.node = 0 /\ f.cache = [n \in Names |-> 0]
  BY <1>1 DEF Call, Frame, EmptyCache, Demand
<1>3. /\ stack = <<f>> /\ nodes = <<>> /\ outcome = "running" /\ root = 0
  BY DEF Init, Start
<1>4. stack \in Seq(Frame) /\ Len(stack) = 1 /\ stack # <<>> /\ stack[1] = f
  BY <1>2, <1>3
<1>5. TypeOK
  <2>1. disk \in [Names -> Seq(File)] /\ nodes \in Seq(Node)
    BY <1>1, <1>3 DEF DiskType
  <2>2. outcome \in Outcomes /\ root \in 0..Len(nodes) /\ (root # 0 <=> outcome = "found")
    BY <1>3 DEF Outcomes
  <2> QED
    BY <1>1, <1>3, <1>4, <2>1, <2>2 DEF TypeOK
<1>6. StackIsChain
  BY <1>1, <1>2, <1>4 DEF StackIsChain, DemandAt, Demand
<1>7. DemandsReached
  <2>1. DemandAt(1) = request /\ DOMAIN stack = {1}
    BY <1>1, <1>2, <1>4 DEF DemandAt, Demand
  <2> QED
    BY <2>1, ReachedRoot DEF DemandsReached
<1>8. CacheHoldsChosen
  BY <1>2, <1>4 DEF CacheHoldsChosen, CacheOK
<1>9. FramesOK
  <2>1. f.name \in Names
    BY <1>2 DEF Frame
  <2>2. FrameOK(1)
    BY <1>2, <1>4, <2>1 DEF FrameOK, DemandAt
  <2> QED
    BY <1>4, <2>2 DEF FramesOK
<1> QED
  BY <1>5, <1>6, <1>8, <1>9, <1>7 DEF IInv

(* Every step preserves it.                                                *)
LEMMA NextIInv == IInv /\ [Next]_vars => IInv'
<1> SUFFICES ASSUME IInv, [Next]_vars
             PROVE  IInv'
  OBVIOUS
<1>1. CASE LoadFails
  BY <1>1, LoadFailsStep
<1>2. CASE LoadThrows
  BY <1>2, DeathStep DEF LoadThrows, Trying
<1>3. CASE ComparisonThrows
  BY <1>3, DeathStep DEF ComparisonThrows, Trying
<1>4. CASE Reject
  BY <1>4, RejectStep
<1>5. CASE Accept
  BY <1>5, AcceptStep
<1>6. CASE \E n \in Names : Descend(n)
  BY <1>6, DescendStep
<1>7. CASE StackOverflow
  BY <1>7, DeathStep DEF StackOverflow, Expanding
<1>8. CASE ReturnNode
  BY <1>8, ReturnNodeStep
<1>9. CASE ReturnError
  BY <1>9, ReturnErrorStep
<1>10. CASE UNCHANGED vars
  <2>1. UNCHANGED <<disk, request, nodes, stack, outcome, root>>
    BY <1>10 DEF vars
  <2>2. TypeOK'
    BY <2>1 DEF IInv, TypeOK
  <2>3. StackIsChain' /\ DemandsReached' /\ CacheHoldsChosen' /\ FramesOK'
    BY <2>1 DEF IInv, StackIsChain, DemandsReached, DemandAt, CacheHoldsChosen, CacheOK,
                FramesOK, FrameOK
  <2> QED
    BY <2>2, <2>3 DEF IInv
<1> QED
  BY <1>1, <1>2, <1>3, <1>4, <1>5, <1>6, <1>7, <1>8, <1>9, <1>10 DEF Next

(* The inductive invariant holds of every behaviour.                        *)
THEOREM InvariantHolds == Spec => []IInv
BY InitIInv, NextIInv, PTL DEF Spec

(* The state has its shape: the stack of calls is empty exactly when the    *)
(* search has answered, and a root is returned exactly when it found one.   *)
THEOREM TypeCorrect == Spec => []TypeOK
<1>1. IInv => TypeOK
  BY DEF IInv
<1> QED
  BY <1>1, InvariantHolds, PTL

(* Each active build_node call was made for a requirement of the package    *)
(* its caller has accepted, back to the request of find_package.            *)
THEOREM ChainHolds == Spec => []StackIsChain
<1>1. IInv => StackIsChain
  BY DEF IInv
<1> QED
  BY <1>1, InvariantHolds, PTL

(* NodeFactory's cache answers a name with the first of its files that      *)
(* loads, whichever candidate it was asked for, in every active call.       *)
THEOREM CacheHolds == Spec => []CacheHoldsChosen
<1>1. IInv => CacheHoldsChosen
  BY DEF IInv
<1> QED
  BY <1>1, InvariantHolds, PTL

-----------------------------------------------------------------------------
(* build_node implements module Resolution: every step of the search is a   *)
(* step of the abstract one, or a stutter.                                 *)

(* The operators of Demands read through the abstract specification are     *)
(* those of Demands: both are defined from the same constants.              *)
LEMMA SameMeets ==
  ASSUME NEW p, NEW req
  PROVE  /\ Abstract!Meets(p, req) <=> Meets(p, req)
         /\ Abstract!VersionThrows(p, req) <=> VersionThrows(p, req)
<1>1. /\ Abstract!HasVersion(p) <=> HasVersion(p)
      /\ Abstract!ProvidedVersion(p) = ProvidedVersion(p)
  BY DEF Abstract!HasVersion, HasVersion, Abstract!ProvidedVersion, ProvidedVersion
<1>2. \A a, b : Abstract!Longest(a, b) = Longest(a, b)
  BY DEF Abstract!Longest, Longest
<1>3. \A a, b : Abstract!At(a, b) = At(a, b)
  BY DEF Abstract!At, At
<1>4. \A o, a, b : Abstract!Settles(o, a, b) <=> Settles(o, a, b)
  BY DEF Abstract!Settles, Settles
<1>5. \A a, o, b : Abstract!compare_numbers(a, o, b) = compare_numbers(a, o, b)
  BY <1>2, <1>3, <1>4 DEF Abstract!compare_numbers, compare_numbers,
     Abstract!IsNumeric, IsNumeric, Abstract!Verdict, Verdict,
     Abstract!NonStrict, NonStrict, Abstract!Invalid, Invalid
<1>6. \A a, o, b : Abstract!compare_rest(a, o, b) = compare_rest(a, o, b)
  BY <1>4, <1>5 DEF Abstract!compare_rest, compare_rest,
     Abstract!compare_value, compare_value, Abstract!Verdict, Verdict,
     Abstract!NonStrict, NonStrict
<1>7. \A a, o, b : Abstract!simple_compare(a, o, b) = simple_compare(a, o, b)
  BY <1>5, <1>6 DEF Abstract!simple_compare, simple_compare,
     Abstract!IsSplit, IsSplit, Abstract!Settled, Settled,
     Abstract!NonStrict, NonStrict
<1>8. Abstract!VersionMeets(p, req) <=> VersionMeets(p, req)
  BY <1>1, <1>7 DEF Abstract!VersionMeets, VersionMeets, Abstract!compare, compare
<1>9. Abstract!VersionThrows(p, req) <=> VersionThrows(p, req)
  BY <1>1 DEF Abstract!VersionThrows, VersionThrows
<1>10. Abstract!HasComponents(p, req) <=> HasComponents(p, req)
  BY DEF Abstract!HasComponents, HasComponents, Abstract!Keys, Keys
<1> QED
  BY <1>8, <1>9, <1>10 DEF Abstract!Meets, Meets

(* The same for the file a name resolves to.                                *)
LEMMA SameChosen ==
  ASSUME NEW files, NEW name
  PROVE  /\ Abstract!HasChosen(files, name) <=> HasChosen(files, name)
         /\ Abstract!Chosen(files, name) = Chosen(files, name)
BY DEF Abstract!HasChosen, HasChosen, Abstract!Chosen, Chosen, Abstract!Opens, Opens

(* The same for what is asked of a demand.                                  *)
LEMMA SameDemands ==
  ASSUME NEW files
  PROVE  /\ \A d : Abstract!Acceptable(files, d) <=> Acceptable(files, d)
         /\ \A d : Abstract!Throws(files, d) <=> Throws(files, d)
         /\ \A d : Abstract!Successors(files, d) = Successors(files, d)
         /\ \A d : Abstract!AllDemands(files, d) = AllDemands(files, d)
<1>1. \A d : Abstract!Acceptable(files, d) <=> Acceptable(files, d)
  BY SameMeets, SameChosen DEF Abstract!Acceptable, Acceptable
<1>2. \A d : Abstract!Throws(files, d) <=> Throws(files, d)
  BY SameMeets, SameChosen DEF Abstract!Throws, Throws
<1>3. \A p : Abstract!DemandsOf(p) = DemandsOf(p)
  BY DEF Abstract!DemandsOf, DemandsOf, Abstract!Keys, Keys
<1>4. \A d : Abstract!Successors(files, d) = Successors(files, d)
  BY <1>1, <1>3, SameChosen DEF Abstract!Successors, Successors
<1>5. Abstract!PackagesOn(files) = PackagesOn(files)
  BY DEF Abstract!PackagesOn, PackagesOn
<1>6. \A d : Abstract!AllDemands(files, d) = AllDemands(files, d)
  BY <1>3, <1>5 DEF Abstract!AllDemands, AllDemands
<1> QED
  BY <1>1, <1>2, <1>4, <1>6

(* The same for the three facts the abstract steps are guarded by.          *)
LEMMA SameGuards ==
  ASSUME NEW files, NEW d
  PROVE  /\ Abstract!Resolvable(files, d) <=> Resolvable(files, d)
         /\ \A e : Abstract!Reached(files, d, e) <=> Reached(files, d, e)
         /\ \A k : Abstract!HasChain(files, d, k) <=> HasChain(files, d, k)
<1>1. \A S : Abstract!Closed(files, S) <=> Closed(files, S)
  BY SameDemands DEF Abstract!Closed, Closed
<1>2. Abstract!Resolvable(files, d) <=> Resolvable(files, d)
  BY <1>1, SameDemands DEF Abstract!Resolvable, Resolvable
<1>3. \A e : Abstract!Reached(files, d, e) <=> Reached(files, d, e)
  BY <1>1, SameDemands DEF Abstract!Reached, Reached
<1>4. \A k, c : Abstract!IsChain(files, d, k, c) <=> IsChain(files, d, k, c)
  BY SameDemands DEF Abstract!IsChain, IsChain
<1>5. \A k : Abstract!HasChain(files, d, k) <=> HasChain(files, d, k)
  BY <1>4, SameDemands DEF Abstract!HasChain, HasChain
<1> QED
  BY <1>2, <1>3, <1>5

-----------------------------------------------------------------------------
(* The demand of the top of the stack is one the request leads to.          *)
LEMMA TopReached ==
  ASSUME IInv, Running
  PROVE  LET d == [name |-> Top.name, req |-> Top.req]
         IN  Reached(disk, request, d) /\ d \in AllDemands(disk, request)
<1>1. Len(stack) \in DOMAIN stack /\ disk \in DiskType /\ request \in Demand
  BY RunningFacts DEF IInv
<1>2. Reached(disk, request, DemandAt(Len(stack)))
  BY <1>1 DEF IInv, DemandsReached
<1>3. Reached(disk, request, [name |-> Top.name, req |-> Top.req])
  BY <1>2 DEF DemandAt, Top
<1> QED
  BY <1>1, <1>3, ReachedType

(* The bottom of the stack is the request.                                 *)
LEMMA BottomIsRequest ==
  ASSUME IInv, Running, Len(stack) = 1
  PROVE  [name |-> Top.name, req |-> Top.req] = request
<1>1. stack # <<>>
  BY RunningFacts DEF IInv
<1> QED
  BY <1>1 DEF IInv, StackIsChain, DemandAt, Top

(* Running out of stack: the active calls and the next one are a chain.     *)
LEMMA OverflowIsChain ==
  ASSUME IInv, StackOverflow
  PROVE  HasChain(disk, request, StackLimit + 1)
<1>1. /\ Running /\ Top.node # 0 /\ Top.todo # {} /\ Len(stack) = StackLimit
  BY DEF StackOverflow, Expanding
<1>2. /\ stack \in Seq(Frame) /\ stack # <<>> /\ Len(stack) \in Nat \ {0}
      /\ disk \in DiskType /\ request \in Demand /\ TopOK(Top)
  BY <1>1, RunningFacts, TopIsOK DEF IInv
<1> DEFINE d == [name |-> Top.name, req |-> Top.req]
           p == Chosen(disk, Top.name)
<1>3. PICK m \in Keys(p.require) : m \in Top.todo
  BY <1>1, <1>2 DEF TopOK
<1>4. PICK e : e = [name |-> m, req |-> p.require[m]]
  OBVIOUS
<1>5. Acceptable(disk, d)
  BY <1>1, <1>2 DEF TopOK
<1>6. e \in Successors(disk, d)
  BY <1>3, <1>4, <1>5 DEF Successors, DemandsOf
<1>7. d = DemandAt(StackLimit)
  BY <1>1 DEF Top, DemandAt
<1>8. \A k \in 1..StackLimit : DemandAt(k) \in AllDemands(disk, request)
  BY <1>1, <1>2, ReachedType DEF IInv, DemandsReached
<1>9. e \in AllDemands(disk, request)
  <2>1. d \in Demand
    BY <1>1, <1>2, <1>7, DemandType DEF IInv
  <2> QED
    BY <1>2, <1>6, <2>1, SuccessorType
<1> DEFINE c == [k \in 1..(StackLimit + 1) |->
                   IF k = StackLimit + 1 THEN e ELSE DemandAt(k)]
<1>10. c \in [1..(StackLimit + 1) -> AllDemands(disk, request)]
  BY <1>1, <1>2, <1>8, <1>9
<1>11. IsChain(disk, request, StackLimit + 1, c)
  <2>1. c[1] = request
    BY <1>1, <1>2 DEF IInv, StackIsChain
  <2>2. ASSUME NEW j \in 1..StackLimit
        PROVE  c[j + 1] \in Successors(disk, c[j])
    <3>1. CASE j = StackLimit
      BY <1>1, <1>2, <1>6, <1>7, <3>1
    <3>2. CASE j # StackLimit
      <4>1. DemandAt(j + 1) \in Successors(disk, DemandAt(j))
        BY <1>1, <1>2, <3>2 DEF IInv, StackIsChain
      <4> QED
        BY <1>1, <1>2, <3>2, <4>1
    <3> QED
      BY <3>1, <3>2
  <2>3. (StackLimit + 1) - 1 = StackLimit
    BY <1>1, <1>2
  <2> HIDE DEF c
  <2> QED
    BY <2>1, <2>2, <2>3 DEF IsChain
<1> HIDE DEF c
<1> QED
  BY <1>10, <1>11 DEF HasChain

(* The file that throws, or whose version cannot be compared, is the one    *)
(* the name resolves to.                                                   *)
LEMMA DeathIsThrow ==
  ASSUME IInv, LoadThrows \/ ComparisonThrows
  PROVE  Throws(disk, [name |-> Top.name, req |-> Top.req])
<1>1. Running /\ Trying
  BY DEF LoadThrows, ComparisonThrows, Trying
<1>2. CASE ComparisonThrows
  BY <1>1, <1>2, GetFacts DEF ComparisonThrows, Throws
<1>3. CASE LoadThrows
  <2>1. ~Hit /\ disk[Top.name][Top.cand] = LoadThrow
    BY <1>3 DEF LoadThrows, FileAtPath
  <2>2. /\ Top \in Frame /\ disk \in DiskType /\ TopOK(Top)
        /\ disk[Top.name] \in Seq(File)
    BY <1>1, RunningFacts, TopIsOK DEF IInv
  <2>3. /\ Top.cand \in DOMAIN disk[Top.name] /\ Top.name \in Names
    BY <1>1, <2>2 DEF Trying, Frame
  <2>4. Opens(disk[Top.name], Top.cand)
    BY <2>1, <2>2, <2>3, PackagesAssumption DEF Opens, TopOK, Hit
  <2> QED
    BY <2>1, <2>2, <2>3, <2>4, ChosenOpens DEF Throws
<1> QED
  BY <1>2, <1>3

-----------------------------------------------------------------------------
(* A step of the search is a step of the abstract specification.           *)
LEMMA StepRefines ==
  ASSUME IInv, [Next]_vars
  PROVE  [Abstract!Next]_(Abstract!vars)
<1>1. CASE LoadFails \/ Reject \/ Accept \/ (\E n \in Names : Descend(n)) \/ UNCHANGED vars
  BY <1>1 DEF LoadFails, Reject, Accept, Descend, vars, Abstract!vars
<1>2. CASE LoadThrows \/ ComparisonThrows
  <2>1. /\ Running /\ outcome' = "terminated" /\ UNCHANGED <<disk, request>>
    BY <1>2 DEF LoadThrows, ComparisonThrows, Trying
  <2>2. Abstract!Terminate
    BY <1>2, <2>1, TopReached, DeathIsThrow, SameDemands, SameGuards
       DEF Abstract!Terminate
  <2> QED
    BY <2>1, <2>2 DEF Abstract!Next, Running
<1>3. CASE StackOverflow
  <2>1. /\ Running /\ outcome' = "overflow" /\ UNCHANGED <<disk, request>>
    BY <1>3 DEF StackOverflow, Expanding
  <2>2. Abstract!Overflow
    BY <1>3, <2>1, OverflowIsChain, SameGuards DEF Abstract!Overflow
  <2> QED
    BY <2>1, <2>2 DEF Abstract!Next, Running
<1>4. CASE ReturnNode
  <2>1. Running /\ Expanding /\ Top.todo = {} /\ UNCHANGED <<disk, request>>
    BY <1>4 DEF ReturnNode, Expanding
  <2>2. CASE Len(stack) = 1
    <3>1. outcome' = "found"
      BY <1>4, <2>2 DEF ReturnNode
    <3>2. Resolvable(disk, request)
      BY <2>1, <2>2, BottomIsRequest, ReturnsResolved
    <3> QED
      BY <2>1, <3>1, <3>2, SameGuards DEF Abstract!Next, Abstract!Find, Running
  <2>3. CASE Len(stack) # 1
    BY <1>4, <2>1, <2>3 DEF ReturnNode, Abstract!vars
  <2> QED
    BY <2>2, <2>3
<1>5. CASE ReturnError
  <2>1. Running /\ Exhausted /\ UNCHANGED <<disk, request>>
    BY <1>5 DEF ReturnError, Exhausted
  <2>2. CASE Len(stack) = 1
    <3>1. outcome' = "error"
      BY <1>5, <2>2 DEF ReturnError
    <3>2. ~Resolvable(disk, request)
      BY <2>1, <2>2, BottomIsRequest, ReturnsHopeless
    <3> QED
      BY <2>1, <3>1, <3>2, SameGuards DEF Abstract!Next, Abstract!Fail, Running
  <2>3. CASE Len(stack) # 1
    BY <1>5, <2>1, <2>3 DEF ReturnError, Abstract!vars
  <2> QED
    BY <2>2, <2>3
<1> QED
  BY <1>1, <1>2, <1>3, <1>4, <1>5 DEF Next

(* The search implements the abstract specification: for every file system, *)
(* however the requirements nest, build_node finds the package only when    *)
(* everything it requires in turn resolves, reports an error only when it   *)
(* does not, and dies only for a file it had to read or for a chain of      *)
(* requirements that is longer than the stack.                             *)
THEOREM SearchImplementsResolution == Spec => ImplementsResolution
<1>1. Init => Abstract!Init
  BY DEF Init, Start, Abstract!Init
<1>2. IInv /\ [Next]_vars => [Abstract!Next]_(Abstract!vars)
  BY StepRefines
<1> QED
  BY <1>1, <1>2, InvariantHolds, PTL DEF Spec, ImplementsResolution, Abstract!Spec

-----------------------------------------------------------------------------
(***************************************************************************)
(* What the search hands to set_components, for every set of packages and   *)
(* every stack size: a tree of nodes, each linked once, that has exactly    *)
(* one child for each requirement, and a child that meets it.               *)
(***************************************************************************)
(* A set that has every acceptable demand whose successors it has.          *)
Inductive(files, top, S) ==
  \A d \in AllDemands(files, top) :
    Acceptable(files, d) /\ Successors(files, d) \subseteq S => d \in S

(* A demand whose resolution ends: it does not come back to itself.         *)
Grounded(files, top, d) ==
  \A S \in SUBSET AllDemands(files, top) : Inductive(files, top, S) => d \in S

(* Node k is made from the file of name m that is chosen for everybody.      *)
FromFile(ns, files, m, k) == HasChosen(files, m) /\ ns[k].pkg = Chosen(files, m)

Fits(ns, files, require, m, k) ==
  Meets(ns[k].pkg, require[m]) /\ FromFile(ns, files, m, k)

(* Children are there for the entries in done, one for each.                *)
FoundFor(ns, files, kids, require, done) ==
  \E entry \in Bijection(DOMAIN kids, done) :
    \A i \in DOMAIN kids : Fits(ns, files, require, entry[i], kids[i])

(* A node has its children.                                                *)
HasKids(ns, files, n) ==
  FoundFor(ns, files, ns[n].depends, ns[n].pkg.require, Keys(ns[n].pkg.require))

(* What a call has found so far.  called is the entry it waits for, if any. *)
Built(ns, files, top, f, called) ==
  LET require == Chosen(files, f.name).require
      done    == Keys(require) \ (f.todo \cup called)
  IN  /\ f.todo \cap called = {}
      /\ f.node = 0 => f.found = <<>>
      /\ f.node # 0 =>
           /\ f.cache[f.name] = f.node
           /\ \A m \in done : Grounded(files, top, [name |-> m, req |-> require[m]])
           /\ FoundFor(ns, files, f.found, require, done)

Called(k) == IF k < Len(stack) THEN {stack[k + 1].name} ELSE {}

FramesBuilt ==
  \A k \in DOMAIN stack : Built(nodes, disk, request, stack[k], Called(k))

(* A cache holds the nodes of the active calls, and the candidate the call  *)
(* itself did not get through with.                                        *)
CacheFromStack(k) ==
  LET f == stack[k]
  IN  /\ \A m \in Names : f.cache[m] # 0 =>
           \/ m = f.name /\ f.node = 0
           \/ \E j \in 1..k : stack[j].node = f.cache[m]
      /\ \A m, o \in Names : f.cache[m] # 0 /\ f.cache[m] = f.cache[o] => m = o

CachesFromStack == \A k \in DOMAIN stack : CacheFromStack(k)

InUse(c) ==
  \E k \in DOMAIN stack :
    c = stack[k].node \/ \E m \in Names : c = stack[k].cache[m]

InDepends(c) == \E n \in DOMAIN nodes : \E i \in DOMAIN nodes[n].depends :
                  c = nodes[n].depends[i]
InFound(c)   == \E k \in DOMAIN stack : \E i \in DOMAIN stack[k].found :
                  c = stack[k].found[i]
Linked(c)    == InDepends(c) \/ InFound(c)

(* A node a call may still return has no children and no parent.            *)
UseUnlinked ==
  \A c \in DOMAIN nodes : InUse(c) => nodes[c].depends = <<>> /\ ~Linked(c)

LinkedInHeap ==
  /\ \A n \in DOMAIN nodes : \A i \in DOMAIN nodes[n].depends :
       nodes[n].depends[i] \in DOMAIN nodes
  /\ \A k \in DOMAIN stack : \A i \in DOMAIN stack[k].found :
       stack[k].found[i] \in DOMAIN nodes

LinkedComplete == \A c \in DOMAIN nodes : Linked(c) => HasKids(nodes, disk, c)

(* No node is linked from two places.                                      *)
LinkedApart ==
  /\ \A m, n \in DOMAIN nodes :
       \A i \in DOMAIN nodes[m].depends, j \in DOMAIN nodes[n].depends :
         nodes[m].depends[i] = nodes[n].depends[j] => m = n /\ i = j
  /\ \A k, l \in DOMAIN stack :
       \A i \in DOMAIN stack[k].found, j \in DOMAIN stack[l].found :
         stack[k].found[i] = stack[l].found[j] => k = l /\ i = j
  /\ \A n \in DOMAIN nodes, k \in DOMAIN stack :
       \A i \in DOMAIN nodes[n].depends, j \in DOMAIN stack[k].found :
         nodes[n].depends[i] # stack[k].found[j]

RootBuilt == root # 0 => ~Linked(root) /\ HasKids(nodes, disk, root)

LinksOK == UseUnlinked /\ LinkedInHeap /\ LinkedComplete /\ LinkedApart

(* The inductive invariant, on top of IInv.                                 *)
GInv == FramesBuilt /\ CachesFromStack /\ LinksOK /\ RootBuilt

-----------------------------------------------------------------------------
(* A demand is grounded when it is acceptable and its successors are.       *)
LEMMA GroundedIntro ==
  ASSUME NEW files, NEW top, NEW d \in AllDemands(files, top), Acceptable(files, d),
         \A e \in Successors(files, d) : Grounded(files, top, e)
  PROVE  Grounded(files, top, d)
<1> SUFFICES ASSUME NEW S \in SUBSET AllDemands(files, top), Inductive(files, top, S)
             PROVE  d \in S
  BY DEF Grounded
<1>1. Successors(files, d) \subseteq S
  BY DEF Grounded
<1> QED
  BY <1>1 DEF Inductive

(* A demand in a chain that comes back to its first demand is not.          *)
LEMMA CycleNotGrounded ==
  ASSUME NEW files, NEW top, NEW a \in Nat, NEW b \in Nat, a <= b, NEW c,
         \A j \in a..(b - 1) : c[j + 1] \in Successors(files, c[j]),
         c[a] \in Successors(files, c[b])
  PROVE  ~Grounded(files, top, c[a])
<1> DEFINE D == AllDemands(files, top)
           S == D \ {c[j] : j \in a..b}
<1>1. ASSUME NEW j \in a..b
      PROVE  \E e \in Successors(files, c[j]) : e \notin S
  <2>1. CASE j = b
    BY <2>1
  <2>2. CASE j # b
    <3>1. j \in a..(b - 1) /\ j + 1 \in a..b
      BY <2>2
    <3> QED
      BY <3>1
  <2> QED
    BY <2>1, <2>2
<1>2. Inductive(files, top, S)
  BY <1>1 DEF Inductive
<1>3. c[a] \notin S
  OBVIOUS
<1>4. S \in SUBSET D
  OBVIOUS
<1> HIDE DEF S
<1> QED
  BY <1>2, <1>3, <1>4 DEF Grounded

-----------------------------------------------------------------------------
(* Children are found for no entry, for one more, and still in a heap that  *)
(* has grown.                                                              *)
LEMMA FoundNothing ==
  ASSUME NEW ns, NEW files, NEW require
  PROVE  FoundFor(ns, files, <<>>, require, {})
<1> DEFINE entry == [i \in {} |-> i]
<1>1. entry \in Bijection({}, {})
  BY DEF Bijection, Injection, Surjection, IsInjective
<1>2. DOMAIN <<>> = {}
  OBVIOUS
<1> QED
  BY <1>1, <1>2 DEF FoundFor

LEMMA FoundMore ==
  ASSUME NEW ns, NEW files, NEW kids \in Seq(Nat \ {0}), NEW require, NEW done, NEW c, NEW m,
         FoundFor(ns, files, kids, require, done), m \notin done,
         Fits(ns, files, require, m, c)
  PROVE  FoundFor(ns, files, Append(kids, c), require, done \cup {m})
<1>1. PICK entry \in Bijection(DOMAIN kids, done) :
        \A i \in DOMAIN kids : Fits(ns, files, require, entry[i], kids[i])
  BY DEF FoundFor
<1>2. PICK l \in Nat : l = Len(kids) /\ DOMAIN kids = 1..l
  OBVIOUS
<1> DEFINE more == [i \in 1..(l + 1) |-> IF i = l + 1 THEN m ELSE entry[i]]
           new  == Append(kids, c)
<1>3. /\ DOMAIN new = 1..(l + 1) /\ new[l + 1] = c
      /\ \A i \in 1..l : new[i] = kids[i]
  BY <1>2
<1>4. /\ entry \in [1..l -> done]
      /\ \A i, j \in 1..l : entry[i] = entry[j] => i = j
      /\ \A e \in done : \E i \in 1..l : entry[i] = e
  BY <1>1, <1>2 DEF Bijection, Injection, Surjection, IsInjective
<1>5. more \in [1..(l + 1) -> done \cup {m}]
  BY <1>4
<1>6. \A i, j \in 1..(l + 1) : more[i] = more[j] => i = j
  <2> SUFFICES ASSUME NEW i \in 1..(l + 1), NEW j \in 1..(l + 1), more[i] = more[j]
               PROVE  i = j
    OBVIOUS
  <2>1. CASE i = l + 1 /\ j # l + 1
    BY <1>4, <2>1
  <2>2. CASE i # l + 1 /\ j = l + 1
    BY <1>4, <2>2
  <2>3. CASE i # l + 1 /\ j # l + 1
    BY <1>4, <2>3
  <2> QED
    BY <2>1, <2>2, <2>3
<1>7. \A e \in done \cup {m} : \E i \in 1..(l + 1) : more[i] = e
  BY <1>4
<1>8. more \in Bijection(1..(l + 1), done \cup {m})
  <2>1. DOMAIN more = 1..(l + 1)
    OBVIOUS
  <2> HIDE DEF more
  <2> QED
    BY <1>5, <1>6, <1>7, <2>1 DEF Bijection, Injection, Surjection, IsInjective
<1>9. \A i \in 1..(l + 1) : Fits(ns, files, require, more[i], new[i])
  BY <1>1, <1>2, <1>3
<1> HIDE DEF more, new
<1> QED
  BY <1>3, <1>8, <1>9 DEF FoundFor, new

LEMMA FoundKept ==
  ASSUME NEW ns, NEW other, NEW files, NEW kids, NEW require, NEW done,
         FoundFor(ns, files, kids, require, done),
         \A i \in DOMAIN kids : other[kids[i]].pkg = ns[kids[i]].pkg
  PROVE  FoundFor(other, files, kids, require, done)
BY DEF FoundFor, Fits, FromFile

(* What a call has found stays found while the heap grows.                  *)
LEMMA BuiltKept ==
  ASSUME NEW ns, NEW other, NEW files, NEW top, NEW f, NEW called,
         Built(ns, files, top, f, called),
         \A i \in DOMAIN f.found : other[f.found[i]].pkg = ns[f.found[i]].pkg
  PROVE  Built(other, files, top, f, called)
BY FoundKept DEF Built

LEMMA KidsMeetRequires ==
  ASSUME NEW ns, NEW files, NEW n, HasKids(ns, files, n)
  PROVE  MeetsRequires(ns, n)
BY DEF MeetsRequires, HasKids, FoundFor, Fits

-----------------------------------------------------------------------------
(* Every step but ReturnNode leaves the nodes as they are, adds only nodes  *)
(* without children, and drops children found or keeps them.                *)
LinksKept ==
  /\ disk' = disk
  /\ \A n \in DOMAIN nodes : n \in DOMAIN nodes' /\ nodes'[n] = nodes[n]
  /\ \A n \in DOMAIN nodes' \ DOMAIN nodes : nodes'[n].depends = <<>>
  /\ \A k \in DOMAIN stack' :
       \/ stack'[k].found = <<>>
       \/ k \in DOMAIN stack /\ stack'[k].found = stack[k].found
  /\ \A c \in DOMAIN nodes : InUse(c)' => InUse(c)

LEMMA KeepLinks ==
  ASSUME GInv, LinksKept
  PROVE  LinksOK'
<1>1. \A n \in DOMAIN nodes' : \A i \in DOMAIN nodes'[n].depends :
        n \in DOMAIN nodes /\ nodes'[n].depends = nodes[n].depends
  <2> SUFFICES ASSUME NEW n \in DOMAIN nodes', NEW i \in DOMAIN nodes'[n].depends
               PROVE  n \in DOMAIN nodes /\ nodes'[n].depends = nodes[n].depends
    OBVIOUS
  <2>1. nodes'[n].depends # <<>>
    OBVIOUS
  <2> QED
    BY <2>1 DEF LinksKept
<1>2. \A k \in DOMAIN stack' : \A i \in DOMAIN stack'[k].found :
        k \in DOMAIN stack /\ stack'[k].found = stack[k].found
  <2> SUFFICES ASSUME NEW k \in DOMAIN stack', NEW i \in DOMAIN stack'[k].found
               PROVE  k \in DOMAIN stack /\ stack'[k].found = stack[k].found
    OBVIOUS
  <2>1. stack'[k].found # <<>>
    OBVIOUS
  <2> QED
    BY <2>1 DEF LinksKept
<1>3. \A c : Linked(c)' => Linked(c)
  BY <1>1, <1>2 DEF Linked, InDepends, InFound
<1>4. \A c : Linked(c) => c \in DOMAIN nodes
  BY DEF GInv, LinksOK, LinkedInHeap, Linked, InDepends, InFound
<1>5. UseUnlinked'
  <2> SUFFICES ASSUME NEW c \in DOMAIN nodes', InUse(c)'
               PROVE  nodes'[c].depends = <<>> /\ ~Linked(c)'
    BY DEF UseUnlinked
  <2>1. CASE c \in DOMAIN nodes
    BY <1>3, <2>1 DEF LinksKept, GInv, LinksOK, UseUnlinked
  <2>2. CASE c \notin DOMAIN nodes
    BY <1>3, <1>4, <2>2 DEF LinksKept
  <2> QED
    BY <2>1, <2>2
<1>6. LinkedInHeap'
  BY <1>1, <1>2 DEF LinksKept, GInv, LinksOK, LinkedInHeap
<1>7. LinkedComplete'
  <2> SUFFICES ASSUME NEW c \in DOMAIN nodes', Linked(c)'
               PROVE  HasKids(nodes', disk, c)
    BY DEF LinkedComplete, LinksKept
  <2>1. c \in DOMAIN nodes /\ HasKids(nodes, disk, c) /\ nodes'[c] = nodes[c]
    BY <1>3, <1>4 DEF LinksKept, GInv, LinksOK, LinkedComplete
  <2>2. \A i \in DOMAIN nodes[c].depends :
          nodes'[nodes[c].depends[i]].pkg = nodes[nodes[c].depends[i]].pkg
    BY <2>1 DEF LinksKept, GInv, LinksOK, LinkedInHeap
  <2> QED
    BY <2>1, <2>2, FoundKept DEF HasKids
<1>8. LinkedApart'
  BY <1>1, <1>2 DEF GInv, LinksOK, LinkedApart
<1> QED
  BY <1>5, <1>6, <1>7, <1>8 DEF LinksOK

-----------------------------------------------------------------------------
(* A frame that is neither the top nor its caller is not disturbed.         *)
LEMMA KeepBuilt ==
  ASSUME GInv, Grows, UNCHANGED <<disk, request>>,
         NEW k \in DOMAIN stack, stack'[k] = stack[k], k < Len(stack), k < Len(stack'),
         stack'[k + 1].name = stack[k + 1].name
  PROVE  Built(nodes', disk', request', stack'[k], Called(k)')
<1>1. Called(k)' = Called(k)
  BY DEF Called
<1>2. Built(nodes, disk, request, stack[k], Called(k))
  BY DEF GInv, FramesBuilt
<1>3. \A i \in DOMAIN stack[k].found : stack[k].found[i] \in DOMAIN nodes
  BY DEF GInv, LinksOK, LinkedInHeap
<1>4. \A i \in DOMAIN stack[k].found :
        nodes'[stack[k].found[i]].pkg = nodes[stack[k].found[i]].pkg
  BY <1>3 DEF Grows
<1> QED
  BY <1>1, <1>2, <1>4, BuiltKept

LEMMA KeepCacheFromStack ==
  ASSUME GInv, NEW k \in Nat \ {0}, k \in DOMAIN stack, \A j \in 1..k : stack'[j] = stack[j]
  PROVE  CacheFromStack(k)'
<1>1. CacheFromStack(k) /\ k \in 1..k
  BY DEF GInv, CachesFromStack
<1> QED
  BY <1>1 DEF CacheFromStack

(* The cache of a call that has not accepted a candidate, or has accepted   *)
(* the one it cached, where the stack below it is the one it was.           *)
LEMMA TopCacheFromStack ==
  ASSUME NEW n \in Nat \ {0}, NEW f, stack'[n] = f,
         f.node \in {0, f.cache[f.name]}, f.name \in Names,
         \A m \in Names \ {f.name} : f.cache[m] # 0 =>
           \E j \in 1..(n - 1) : stack'[j].node = f.cache[m],
         \A m, o \in Names : f.cache[m] # 0 /\ f.cache[m] = f.cache[o] => m = o
  PROVE  CacheFromStack(n)'
<1>1. n \in 1..n /\ \A j \in 1..(n - 1) : j \in 1..n
  OBVIOUS
<1> QED
  BY <1>1 DEF CacheFromStack

(* A step that replaces the top frame before a candidate is accepted, by    *)
(* one for the same demand.                                                *)
LEMMA TopBuilt ==
  ASSUME IInv, GInv, Running, NEW n \in Nat, n = Len(stack),
         NEW f \in Frame, f.name = Top.name, stack' = SetTop(f),
         Grows, UNCHANGED <<disk, request, outcome, root>>,
         \A k \in DOMAIN nodes : nodes'[k] = nodes[k],
         \A k \in DOMAIN nodes' \ DOMAIN nodes : nodes'[k].depends = <<>>,
         Top.node = 0, f.found = <<>>, f.node \in {0, f.cache[f.name]},
         \A m \in Names \ {f.name} : f.cache[m] = Top.cache[m],
         f.cache[f.name] \in DOMAIN nodes => f.cache[f.name] = Top.cache[f.name],
         Built(nodes', disk, request, f, {})
  PROVE  GInv'
<1>1. /\ stack \in Seq(Frame) /\ stack # <<>> /\ n \in 1..StackLimit
      /\ Top = stack[n] /\ root = 0
  BY RunningFacts DEF IInv
<1>2. /\ stack' \in Seq(Frame) /\ Len(stack') = n /\ stack'[n] = f
      /\ \A k \in 1..(n - 1) : stack'[k] = stack[k]
  BY <1>1, SetTopStack DEF SetTop
<1>3. /\ CacheOK(Top.cache) /\ CacheFromStack(n)
      /\ f.name \in Names /\ f.cache \in [Names -> Nat]
  <2>1. n \in DOMAIN stack
    BY <1>1
  <2>2. CacheFromStack(n)
    BY <2>1 DEF GInv, CachesFromStack
  <2>3. CacheOK(Top.cache)
    BY TopIsOK
  <2> QED
    BY <2>2, <2>3 DEF Frame
<1>4. LinksKept
  <2>1. ASSUME NEW k \in DOMAIN stack'
        PROVE  \/ stack'[k].found = <<>>
               \/ k \in DOMAIN stack /\ stack'[k].found = stack[k].found
    BY <1>1, <1>2
  <2>2. ASSUME NEW c \in DOMAIN nodes, NEW k \in DOMAIN stack',
               c = stack'[k].node \/ \E m \in Names : c = stack'[k].cache[m]
        PROVE  InUse(c)
    <3>1. CASE k # n
      BY <1>1, <1>2, <2>2, <3>1, SMTT(60) DEF InUse
    <3>2. CASE k = n
      <4>1. c # 0
        BY DEF IInv, TypeOK
      <4>2. PICK m \in Names : c = f.cache[m]
        BY <1>2, <1>3, <2>2, <3>2, <4>1
      <4>3. c = Top.cache[m]
        BY <4>2
      <4> QED
        BY <1>1, <4>3 DEF InUse
    <3> QED
      BY <3>1, <3>2
  <2> QED
    BY <2>1, <2>2 DEF LinksKept, Grows, InUse
<1>5. FramesBuilt'
  <2>1. ASSUME NEW k \in 1..(n - 1)
        PROVE  Built(nodes', disk', request', stack'[k], Called(k)')
    <3>1. stack'[k + 1].name = stack[k + 1].name
      BY <1>1, <1>2
    <3> QED
      BY <1>1, <1>2, <3>1, KeepBuilt, SMTT(60)
  <2>2. Called(n)' = {}
    BY <1>2 DEF Called
  <2>3. Built(nodes', disk', request', stack'[n], Called(n)')
    BY <1>2, <2>2
  <2>4. \A k \in DOMAIN stack' : k \in 1..(n - 1) \/ k = n
    BY <1>1, <1>2
  <2> QED
    BY <2>1, <2>3, <2>4 DEF FramesBuilt
<1>6. CachesFromStack'
  <2>1. ASSUME NEW k \in 1..(n - 1)
        PROVE  CacheFromStack(k)'
    BY <1>1, <1>2, KeepCacheFromStack
  <2>2. CacheFromStack(n)'
    <3>1. ASSUME NEW m \in Names \ {f.name}, f.cache[m] # 0
          PROVE  \E j \in 1..(n - 1) : stack'[j].node = f.cache[m]
      <4>1. PICK j \in 1..n : stack[j].node = f.cache[m]
        BY <1>1, <1>3, <3>1 DEF CacheFromStack
      <4>2. j # n
        BY <1>1, <3>1, <4>1
      <4> QED
        BY <1>2, <4>1, <4>2
    <3>2. ASSUME NEW m \in Names, NEW o \in Names, f.cache[m] # 0, f.cache[m] = f.cache[o]
          PROVE  m = o
      <4>1. CASE m # f.name /\ o # f.name
        BY <1>1, <1>3, <3>2, <4>1 DEF CacheFromStack
      <4>2. ASSUME NEW p \in Names \ {f.name}, f.cache[p] # 0, f.cache[p] = f.cache[f.name]
            PROVE  FALSE
        <5>1. f.cache[p] \in DOMAIN nodes
          BY <1>3, <4>2 DEF CacheOK
        <5> QED
          BY <1>1, <1>3, <4>2, <5>1 DEF CacheFromStack
      <4> QED
        BY <3>2, <4>1, <4>2
    <3> QED
      BY <1>1, <1>2, <1>3, <3>1, <3>2, TopCacheFromStack
  <2> QED
    BY <1>1, <1>2, <2>1, <2>2 DEF CachesFromStack
<1>7. RootBuilt'
  BY <1>1 DEF RootBuilt
<1> QED
  BY <1>4, <1>5, <1>6, <1>7, KeepLinks DEF GInv

(* What get does to the heap: nothing, or a node without children is added. *)
LEMMA HeapFacts ==
  ASSUME IInv
  PROVE  /\ \A k \in DOMAIN nodes : Heap[k] = nodes[k]
         /\ \A k \in DOMAIN Heap \ DOMAIN nodes : Heap[k].depends = <<>>
         /\ Got \in DOMAIN nodes => Got = Top.cache[Top.name]
<1>1. nodes \in Seq(Node)
  BY DEF IInv, TypeOK
<1>2. CASE Hit
  BY <1>2 DEF Heap, Got
<1>3. CASE ~Hit
  <2> DEFINE x == [pkg |-> FileAtPath, depends |-> <<>>]
  <2>1. Heap = Append(nodes, x) /\ Got = Len(nodes) + 1 /\ x.depends = <<>>
    BY <1>3 DEF Heap, Got
  <2> HIDE DEF x
  <2> QED
    BY <1>1, <2>1
<1> QED
  BY <1>2, <1>3

(* A call without an accepted candidate has found nothing yet.              *)
LEMMA TopEmpty ==
  ASSUME IInv, GInv, Running, Top.node = 0
  PROVE  Top.found = <<>>
<1>1. Top = stack[Len(stack)] /\ Len(stack) \in DOMAIN stack
  BY RunningFacts DEF IInv
<1> QED
  BY <1>1 DEF GInv, FramesBuilt, Built

LEMMA EmptyBuilt ==
  ASSUME NEW ns, NEW files, NEW top, NEW f, f.node = 0, f.found = <<>>
  PROVE  Built(ns, files, top, f, {})
BY DEF Built

-----------------------------------------------------------------------------
(* One lemma per action that leaves the search running.                     *)
LEMMA LoadFailsBuilt ==
  ASSUME IInv, GInv, LoadFails
  PROVE  GInv'
<1> PICK f : f = NextPath(Top)
  OBVIOUS
<1>1. /\ Running /\ Top.node = 0
      /\ stack' = SetTop(f) /\ UNCHANGED <<disk, request, nodes, outcome, root>>
  BY DEF LoadFails, Trying
<1>2. Top \in Frame /\ Len(stack) \in Nat
  BY <1>1, RunningFacts DEF IInv
<1>3. /\ f \in Frame /\ f.name = Top.name /\ f.node = 0 /\ f.cache = Top.cache
      /\ f.found = <<>>
  BY <1>2, NextPathType DEF NextPath, Frame
<1>4. Grows
  BY <1>1 DEF Grows, IInv, TypeOK
<1> QED
  BY <1>1, <1>2, <1>3, <1>4, EmptyBuilt, TopBuilt

LEMMA RejectBuilt ==
  ASSUME IInv, GInv, Reject
  PROVE  GInv'
<1> PICK f : f = [NextPath(Top) EXCEPT !.cache = Cache]
  OBVIOUS
<1>1. /\ Running /\ Trying /\ Loads /\ Top.node = 0 /\ nodes' = Heap
      /\ stack' = SetTop(f) /\ UNCHANGED <<disk, request, outcome, root>>
  BY DEF Reject, Trying
<1>2. Top \in Frame /\ Len(stack) \in Nat
  BY <1>1, RunningFacts DEF IInv
<1>3. /\ Cache \in [Names -> Nat] /\ Cache[Top.name] = Got
      /\ \A m \in Names \ {Top.name} : Cache[m] = Top.cache[m]
  BY <1>1, GetFacts
<1>4. /\ f \in Frame /\ f.name = Top.name /\ f.node = 0 /\ f.cache = Cache
      /\ f.found = <<>>
  BY <1>2, <1>3, NextPathType DEF NextPath, Frame
<1>5. Grows
  BY <1>1, GotCache
<1>6. /\ \A k \in DOMAIN nodes : nodes'[k] = nodes[k]
      /\ \A k \in DOMAIN nodes' \ DOMAIN nodes : nodes'[k].depends = <<>>
      /\ Got \in DOMAIN nodes => Got = Top.cache[Top.name]
  BY <1>1, HeapFacts
<1> QED
  BY <1>1, <1>2, <1>3, <1>4, <1>5, <1>6, EmptyBuilt, TopBuilt

LEMMA AcceptBuilt ==
  ASSUME IInv, GInv, Accept
  PROVE  GInv'
<1> PICK f : f = [Top EXCEPT !.cache = Cache, !.node = Got,
                             !.todo = Keys(GotPackage.require)]
  OBVIOUS
<1>1. /\ Running /\ Trying /\ Loads /\ Top.node = 0 /\ nodes' = Heap
      /\ stack' = SetTop(f) /\ UNCHANGED <<disk, request, outcome, root>>
  BY DEF Accept, Trying
<1>2. Top \in Frame /\ Len(stack) \in Nat /\ Top.found = <<>>
  BY <1>1, RunningFacts, TopEmpty DEF IInv
<1>3. /\ Cache \in [Names -> Nat] /\ Cache[Top.name] = Got
      /\ \A m \in Names \ {Top.name} : Cache[m] = Top.cache[m]
      /\ GotPackage = Chosen(disk, Top.name) /\ GotPackage \in Package
      /\ Got \in DOMAIN Heap /\ Heap \in Seq(Node)
  BY <1>1, GetFacts
<1>4. Keys(GotPackage.require) \subseteq Names
  BY <1>3, RequireType
<1>5. /\ f \in Frame /\ f.name = Top.name /\ f.node = Got /\ f.cache = Cache
      /\ f.found = <<>> /\ f.todo = Keys(GotPackage.require)
  BY <1>2, <1>3, <1>4 DEF Frame
<1>6. Grows
  BY <1>1, GotCache
<1>7. /\ \A k \in DOMAIN nodes : nodes'[k] = nodes[k]
      /\ \A k \in DOMAIN nodes' \ DOMAIN nodes : nodes'[k].depends = <<>>
      /\ Got \in DOMAIN nodes => Got = Top.cache[Top.name]
  BY <1>1, HeapFacts
<1>8. Built(nodes', disk, request, f, {})
  <2> DEFINE require == Chosen(disk, f.name).require
  <2>1. Keys(require) \ (f.todo \cup {}) = {}
    BY <1>3, <1>5
  <2>2. FoundFor(nodes', disk, <<>>, require, {})
    BY FoundNothing
  <2> QED
    BY <1>3, <1>5, <2>1, <2>2 DEF Built
<1> QED
  BY <1>1, <1>2, <1>3, <1>5, <1>6, <1>7, <1>8, TopBuilt

(* The stack after a call and after a return.                              *)
LEMMA PushAny ==
  ASSUME NEW s \in Seq(Frame), NEW g
  PROVE  LET t == Append(s, g)
         IN  /\ Len(t) = Len(s) + 1 /\ t[Len(s) + 1] = g
             /\ DOMAIN t = 1..(Len(s) + 1)
             /\ \A k \in 1..Len(s) : t[k] = s[k]
OBVIOUS

LEMMA DescendShape ==
  ASSUME IInv, NEW n \in Names, Descend(n), NEW l, l = Len(stack)
  PROVE  LET g == stack'[l + 1]
             f == stack'[l]
         IN  /\ stack \in Seq(Frame) /\ l \in 1..StackLimit /\ Top = stack[l]
             /\ Top \in Frame /\ Top.node # 0 /\ n \in Top.todo
             /\ DOMAIN stack = 1..l /\ DOMAIN stack' = 1..(l + 1) /\ Len(stack') = l + 1
             /\ \A k \in 1..(l - 1) : stack'[k] = stack[k]
             /\ f.name = Top.name /\ f.node = Top.node /\ f.cache = Top.cache
             /\ f.found = Top.found /\ f.todo = Top.todo \ {n}
             /\ g.name = n /\ g.node = 0 /\ g.cache = Top.cache /\ g.found = <<>>
             /\ UNCHANGED <<disk, request, nodes, outcome, root>>
<1>0. PICK f, g : /\ f = [Top EXCEPT !.todo = @ \ {n}]
                /\ g = Call(n, nodes[Top.node].pkg.require[n], Top.cache)
  OBVIOUS
<1>1. /\ Running /\ Top.node # 0 /\ n \in Top.todo
      /\ stack' = Append(SetTop(f), g)
      /\ UNCHANGED <<disk, request, nodes, outcome, root>>
  BY <1>0 DEF Descend, Expanding
<1>2. /\ stack \in Seq(Frame) /\ stack # <<>> /\ l \in 1..StackLimit
      /\ Top \in Frame /\ Top = stack[l]
  BY <1>1, RunningFacts DEF IInv
<1>3. /\ f \in Frame /\ f.name = Top.name /\ f.node = Top.node
      /\ f.cache = Top.cache /\ f.todo = Top.todo \ {n} /\ f.found = Top.found
  BY <1>0, <1>2 DEF Frame
<1>4. /\ g.name = n /\ g.node = 0 /\ g.cache = Top.cache /\ g.found = <<>>
  BY <1>0 DEF Call
<1>5. PICK t : t = [stack EXCEPT ![l] = f]
  OBVIOUS
<1>6. /\ t \in Seq(Frame) /\ Len(t) = l /\ t[l] = f
      /\ \A k \in 1..(l - 1) : t[k] = stack[k]
  BY <1>2, <1>3, <1>5, SetTopStack
<1>7. /\ stack' = Append(t, g) /\ Len(stack') = l + 1 /\ stack'[l + 1] = g
      /\ \A k \in 1..l : stack'[k] = t[k]
      /\ DOMAIN stack' = 1..(l + 1)
  <2>1. stack' = Append(t, g)
    BY <1>1, <1>2, <1>5 DEF SetTop
  <2> QED
    BY <1>6, <2>1, PushAny
<1>8. stack'[l] = f /\ \A k \in 1..(l - 1) : stack'[k] = stack[k]
  BY <1>2, <1>6, <1>7
<1>9. DOMAIN stack = 1..l
  BY <1>2
<1> QED
  BY <1>1, <1>2, <1>3, <1>4, <1>7, <1>8, <1>9

LEMMA PopShape ==
  ASSUME IInv, Running, NEW n \in Nat \ {0}, Len(stack) = n + 1,
         NEW f \in Frame, stack' = PopInto(f)
  PROVE  /\ stack \in Seq(Frame) /\ DOMAIN stack = 1..(n + 1)
         /\ Parent = stack[n] /\ Top = stack[n + 1] /\ Top \in Frame /\ root = 0
         /\ DOMAIN stack' = 1..n /\ Len(stack') = n /\ stack'[n] = f
         /\ \A k \in 1..(n - 1) : stack'[k] = stack[k]
<1>1. /\ stack \in Seq(Frame) /\ Top \in Frame /\ root = 0
      /\ Parent = stack[n] /\ Top = stack[n + 1]
  BY RunningFacts DEF IInv, Parent
<1> DEFINE r == SubSeq(stack, 1, Len(stack) - 1)
           P(t) == /\ t \in Seq(Frame) /\ Len(t) = Len(stack) - 1 /\ t # <<>>
                   /\ t[Len(stack) - 1] = f
                   /\ \A k \in 1..(Len(stack) - 2) : t[k] = stack[k]
<1>2. \A t : t = [r EXCEPT ![Len(r)] = f] => P(t)
  <2>1. Len(stack) > 1
    OBVIOUS
  <2> QED
    BY <1>1, <2>1, PopStack
<1>3. stack' = [r EXCEPT ![Len(r)] = f]
  BY DEF PopInto, Rest
<1> HIDE DEF r, P
<1>4. P(stack')
  BY <1>2, <1>3
<1>5. /\ Len(stack') = n /\ stack'[n] = f /\ stack' \in Seq(Frame)
      /\ \A k \in 1..(n - 1) : stack'[k] = stack[k]
  BY <1>4 DEF P
<1>6. DOMAIN stack = 1..(n + 1) /\ DOMAIN stack' = 1..n
  BY <1>1, <1>5
<1> QED
  BY <1>1, <1>5, <1>6

(* A call is made: it has found nothing, and its caller waits for it.       *)
LEMMA DescendBuilt ==
  ASSUME IInv, GInv, NEW n \in Names, Descend(n)
  PROVE  GInv'
<1> PICK l : l = Len(stack)
  OBVIOUS
<1> DEFINE f == stack'[l]
           g == stack'[l + 1]
<1>1. /\ stack \in Seq(Frame) /\ l \in 1..StackLimit /\ Top = stack[l]
      /\ Top \in Frame /\ Top.node # 0 /\ n \in Top.todo
      /\ DOMAIN stack = 1..l /\ DOMAIN stack' = 1..(l + 1) /\ Len(stack') = l + 1
      /\ \A k \in 1..(l - 1) : stack'[k] = stack[k]
      /\ f.name = Top.name /\ f.node = Top.node /\ f.cache = Top.cache
      /\ f.found = Top.found /\ f.todo = Top.todo \ {n}
      /\ g.name = n /\ g.node = 0 /\ g.cache = Top.cache /\ g.found = <<>>
      /\ UNCHANGED <<disk, request, nodes, outcome, root>>
  BY DescendShape
<1> HIDE DEF f, g
<1>2. CacheFromStack(l) /\ Built(nodes, disk, request, Top, {}) /\ root = 0
  <2>1. Called(l) = {} /\ l \in DOMAIN stack
    BY <1>1 DEF Called
  <2>2. CacheFromStack(l) /\ Built(nodes, disk, request, stack[l], Called(l))
    BY <2>1 DEF GInv, FramesBuilt, CachesFromStack
  <2>3. root = 0
    BY RunningFacts DEF IInv, Descend, Expanding
  <2> QED
    BY <1>1, <2>1, <2>2, <2>3
<1>3. Grows
  BY <1>1 DEF Grows, IInv, TypeOK
<1>4. LinksKept
  <2>1. ASSUME NEW k \in DOMAIN stack'
        PROVE  \/ stack'[k].found = <<>>
               \/ k \in DOMAIN stack /\ stack'[k].found = stack[k].found
    BY <1>1 DEF f, g
  <2>2. ASSUME NEW c \in DOMAIN nodes, NEW k \in DOMAIN stack',
               c = stack'[k].node \/ \E m \in Names : c = stack'[k].cache[m]
        PROVE  InUse(c)
    <3>1. CASE k \in 1..(l - 1)
      BY <1>1, <2>2, <3>1 DEF InUse
    <3>2. CASE k \in {l, l + 1}
      <4>1. c # 0
        BY DEF IInv, TypeOK
      <4>2. c = Top.node \/ \E m \in Names : c = Top.cache[m]
        BY <1>1, <2>2, <3>2, <4>1 DEF f, g
      <4> QED
        BY <1>1, <4>2 DEF InUse
    <3> QED
      BY <1>1, <3>1, <3>2
  <2> QED
    BY <1>1, <2>1, <2>2 DEF LinksKept, InUse
<1>5. FramesBuilt'
  <2>1. ASSUME NEW k \in 1..(l - 1)
        PROVE  Built(nodes', disk', request', stack'[k], Called(k)')
    <3>1. stack'[k + 1].name = stack[k + 1].name
      BY <1>1 DEF f
    <3> QED
      BY <1>1, <1>3, <3>1, KeepBuilt
  <2>2. Built(nodes', disk', request', f, Called(l)')
    <3>1. Called(l)' = {n}
      BY <1>1 DEF Called, g
    <3>2. f.todo \cup {n} = Top.todo \cup {} /\ f.todo \cap {n} = {}
      BY <1>1
    <3> QED
      BY <1>1, <1>2, <3>1, <3>2 DEF Built
  <2>3. Built(nodes', disk', request', g, Called(l + 1)')
    <3>1. Called(l + 1)' = {}
      BY <1>1 DEF Called
    <3>2. Built(nodes', disk', request', g, {})
      BY <1>1, EmptyBuilt
    <3> QED
      BY <3>1, <3>2
  <2>4. \A k \in DOMAIN stack' : k \in 1..(l - 1) \/ k = l \/ k = l + 1
    BY <1>1
  <2> QED
    BY <2>1, <2>2, <2>3, <2>4 DEF FramesBuilt, f, g
<1>6. CachesFromStack'
  <2>1. ASSUME NEW k \in 1..(l - 1)
        PROVE  CacheFromStack(k)'
    BY <1>1, KeepCacheFromStack
  <2>2. ASSUME NEW m \in Names, Top.cache[m] # 0
        PROVE  \E j \in 1..l : stack'[j].node = Top.cache[m]
    <3>1. PICK j \in 1..l : stack[j].node = Top.cache[m]
      BY <1>1, <1>2, <2>2 DEF CacheFromStack
    <3>2. stack'[j].node = stack[j].node
      BY <1>1 DEF f
    <3> QED
      BY <3>1, <3>2
  <2>3. \A m, o \in Names : Top.cache[m] # 0 /\ Top.cache[m] = Top.cache[o] => m = o
    BY <1>1, <1>2 DEF CacheFromStack
  <2>4. CacheFromStack(l)'
    BY <1>1, <2>2, <2>3 DEF CacheFromStack, f
  <2>5. CacheFromStack(l + 1)'
    <3>1. \A j \in 1..l : j \in 1..(l + 1)
      BY <1>1
    <3> QED
      BY <1>1, <2>2, <2>3, <3>1 DEF CacheFromStack, g
  <2>6. \A k \in DOMAIN stack' : k \in 1..(l - 1) \/ k = l \/ k = l + 1
    BY <1>1
  <2> QED
    BY <1>1, <2>1, <2>4, <2>5, <2>6 DEF CachesFromStack
<1>7. RootBuilt'
  BY <1>1, <1>2 DEF RootBuilt
<1> QED
  BY <1>4, <1>5, <1>6, <1>7, KeepLinks DEF GInv

(* A call gives up: its caller's candidate loses what it had found.         *)
LEMMA ReturnErrorBuilt ==
  ASSUME IInv, GInv, ReturnError
  PROVE  GInv'
<1>1. Running /\ Exhausted /\ UNCHANGED <<disk, request, nodes, root>>
  BY DEF ReturnError, Exhausted
<1>2. Len(stack) \in Nat \ {0} /\ root = 0
  BY <1>1, RunningFacts, DemandsAssumption DEF IInv
<1>3. Grows /\ RootBuilt'
  BY <1>1, <1>2 DEF Grows, IInv, TypeOK, RootBuilt
<1>4. CASE Len(stack) = 1
  <2>1. stack' = <<>> /\ DOMAIN stack' = {}
    BY <1>4 DEF ReturnError
  <2>2. LinksKept
    BY <1>1, <2>1 DEF LinksKept, InUse
  <2>3. FramesBuilt' /\ CachesFromStack'
    BY <2>1 DEF FramesBuilt, CachesFromStack
  <2> QED
    BY <1>3, <2>2, <2>3, KeepLinks DEF GInv
<1>5. CASE Len(stack) # 1
  <2>1. PICK n \in Nat \ {0} : Len(stack) = n + 1
    <3>1. Len(stack) - 1 \in Nat \ {0} /\ Len(stack) = (Len(stack) - 1) + 1
      BY <1>2, <1>5
    <3> QED
      BY <3>1
  <2>2. PICK f : f = [NextPath(Parent) EXCEPT !.cache = Parent.cache]
    OBVIOUS
  <2>3. stack' = PopInto(f)
    BY <1>5, <2>2 DEF ReturnError, CacheAfterReturn
  <2>4. Parent \in Frame /\ Parent.node # 0
    BY <1>1, <2>1, ParentFacts
  <2>5. /\ f \in Frame /\ f.name = Parent.name /\ f.node = 0 /\ f.cache = Parent.cache
        /\ f.found = <<>>
    <3>1. NextPath(Parent) \in Frame /\ NextPath(Parent).found = <<>>
      BY <2>4, NextPathType DEF NextPath, Frame
    <3> QED
      BY <2>2, <2>4, <3>1, NextPathType DEF Frame
  <2>6. /\ DOMAIN stack = 1..(n + 1) /\ Parent = stack[n] /\ DOMAIN stack' = 1..n
        /\ Len(stack') = n /\ stack'[n] = f
        /\ \A k \in 1..(n - 1) : stack'[k] = stack[k]
    BY <1>1, <2>1, <2>3, <2>5, PopShape
  <2>7. /\ CacheFromStack(n) /\ Parent.cache[Parent.name] = Parent.node
        /\ Parent.name \in Names
    <3>1. n \in DOMAIN stack
      BY <2>6
    <3>2. CacheFromStack(n) /\ Built(nodes, disk, request, stack[n], Called(n))
      BY <3>1 DEF GInv, CachesFromStack, FramesBuilt
    <3>3. Parent.cache[Parent.name] = Parent.node
      BY <2>4, <2>6, <3>2 DEF Built
    <3> QED
      BY <2>4, <3>2, <3>3 DEF Frame
  <2>8. LinksKept
    <3>1. ASSUME NEW k \in DOMAIN stack'
          PROVE  \/ stack'[k].found = <<>>
                 \/ k \in DOMAIN stack /\ stack'[k].found = stack[k].found
      BY <2>5, <2>6
    <3>2. ASSUME NEW c \in DOMAIN nodes, NEW k \in DOMAIN stack',
                 c = stack'[k].node \/ \E m \in Names : c = stack'[k].cache[m]
          PROVE  InUse(c)
      <4>1. c # 0 /\ k \in DOMAIN stack
        BY <2>6 DEF IInv, TypeOK
      <4>2. c = stack[k].node \/ \E m \in Names : c = stack[k].cache[m]
        BY <2>5, <2>6, <3>2, <4>1
      <4> QED
        BY <4>1, <4>2 DEF InUse
    <3> QED
      BY <1>1, <3>1, <3>2 DEF LinksKept, InUse
  <2>9. FramesBuilt'
    <3>1. ASSUME NEW k \in 1..(n - 1)
          PROVE  Built(nodes', disk', request', stack'[k], Called(k)')
      <4>1. stack'[k + 1].name = stack[k + 1].name
        BY <2>5, <2>6
      <4> QED
        BY <1>1, <1>3, <2>1, <2>6, <4>1, KeepBuilt
    <3>2. Called(n)' = {} /\ Built(nodes', disk', request', f, {})
      BY <2>5, <2>6, EmptyBuilt DEF Called
    <3>3. \A k \in DOMAIN stack' : k \in 1..(n - 1) \/ k = n
      BY <2>6
    <3> QED
      BY <2>6, <3>1, <3>2, <3>3 DEF FramesBuilt
  <2>10. CachesFromStack'
    <3>1. ASSUME NEW k \in 1..(n - 1)
          PROVE  CacheFromStack(k)'
      BY <2>6, KeepCacheFromStack
    <3>2. ASSUME NEW m \in Names \ {f.name}, f.cache[m] # 0
          PROVE  \E j \in 1..(n - 1) : stack'[j].node = f.cache[m]
      <4>1. PICK j \in 1..n : stack[j].node = Parent.cache[m]
        BY <2>4, <2>5, <2>6, <2>7, <3>2 DEF CacheFromStack
      <4>2. j # n
        BY <2>5, <2>6, <2>7, <3>2, <4>1 DEF CacheFromStack
      <4> QED
        BY <2>5, <2>6, <4>1, <4>2
    <3>3. \A m, o \in Names : f.cache[m] # 0 /\ f.cache[m] = f.cache[o] => m = o
      BY <2>5, <2>6, <2>7 DEF CacheFromStack
    <3>4. CacheFromStack(n)'
      BY <2>5, <2>6, <2>7, <3>2, <3>3, TopCacheFromStack
    <3>5. \A k \in DOMAIN stack' : k \in 1..(n - 1) \/ k = n
      BY <2>6
    <3> QED
      BY <3>1, <3>4, <3>5 DEF CachesFromStack
  <2> QED
    BY <1>3, <2>8, <2>9, <2>10, KeepLinks, SMTT(60) DEF GInv
<1> QED
  BY <1>4, <1>5

-----------------------------------------------------------------------------
(* A call that returns a node: all it required is grounded, so its node is   *)
(* no other active call's, and in no other call's cache.                    *)
LEMMA FinishedFacts ==
  ASSUME IInv, GInv, Expanding, Top.todo = {}, NEW l, l = Len(stack)
  PROVE  /\ l \in Nat \ {0} /\ Top = stack[l] /\ DOMAIN stack = 1..l
         /\ Top \in Frame /\ Top.node \in DOMAIN nodes
         /\ nodes[Top.node].pkg = Chosen(disk, Top.name)
         /\ nodes[Top.node].depends = <<>> /\ ~Linked(Top.node)
         /\ Acceptable(disk, DemandAt(l))
         /\ \A e \in Successors(disk, DemandAt(l)) : Grounded(disk, request, e)
         /\ FoundFor(nodes, disk, Top.found, nodes[Top.node].pkg.require,
                     Keys(nodes[Top.node].pkg.require))
<1>1. /\ Running /\ Top.node # 0 /\ stack \in Seq(Frame) /\ l \in Nat \ {0}
      /\ Top = stack[l] /\ DOMAIN stack = 1..l /\ l \in DOMAIN stack /\ Top \in Frame
  BY RunningFacts, DemandsAssumption DEF Expanding, IInv
<1>2. /\ Top.node \in DOMAIN nodes /\ nodes[Top.node].pkg = Chosen(disk, Top.name)
      /\ Acceptable(disk, DemandAt(l))
  BY <1>1, TopIsOK DEF TopOK, DemandAt
<1>3. nodes[Top.node].depends = <<>> /\ ~Linked(Top.node)
  BY <1>1, <1>2 DEF GInv, LinksOK, UseUnlinked, InUse
<1> DEFINE require == Chosen(disk, Top.name).require
<1>4. /\ \A m \in Keys(require) : Grounded(disk, request, [name |-> m, req |-> require[m]])
      /\ FoundFor(nodes, disk, Top.found, require, Keys(require))
  <2>1. Called(l) = {}
    BY <1>1 DEF Called
  <2>2. Built(nodes, disk, request, Top, {})
    BY <1>1, <2>1 DEF GInv, FramesBuilt
  <2>3. Keys(require) \ (Top.todo \cup {}) = Keys(require)
    OBVIOUS
  <2> QED
    BY <1>1, <2>2, <2>3 DEF Built
<1>5. \A e \in Successors(disk, DemandAt(l)) : Grounded(disk, request, e)
  BY <1>1, <1>2, <1>4 DEF Successors, DemandsOf, DemandAt
<1> QED
  BY <1>1, <1>2, <1>3, <1>4, <1>5

LEMMA FinishedApart ==
  ASSUME IInv, GInv, Expanding, Top.todo = {}, NEW l, l = Len(stack), NEW k \in 1..(l - 1)
  PROVE  /\ stack[k].node # Top.node
         /\ \A m \in Names : stack[k].cache[m] # Top.node
<1>1. /\ l \in Nat \ {0} /\ Top = stack[l] /\ DOMAIN stack = 1..l
      /\ Top.node \in DOMAIN nodes /\ nodes[Top.node].pkg = Chosen(disk, Top.name)
      /\ Acceptable(disk, DemandAt(l))
      /\ \A e \in Successors(disk, DemandAt(l)) : Grounded(disk, request, e)
  BY FinishedFacts
<1>2. ASSUME NEW j \in 1..(l - 1)
      PROVE  stack[j].node # 0 /\ stack[j].node # Top.node
  <2>1. /\ stack[j].node # 0 /\ nodes[stack[j].node].pkg = Chosen(disk, stack[j].name)
        /\ Acceptable(disk, DemandAt(j))
    BY <1>1 DEF IInv, FramesOK, FrameOK
  <2>2. ASSUME stack[j].node = Top.node
        PROVE  FALSE
    <3>1. Successors(disk, DemandAt(l)) = Successors(disk, DemandAt(j))
      BY <1>1, <2>1, <2>2 DEF Successors, DemandAt
    <3> DEFINE c == [i \in 1..l |-> DemandAt(i)]
    <3>2. \A i \in 1..(l - 1) : c[i + 1] \in Successors(disk, c[i])
      BY <1>1 DEF IInv, StackIsChain
    <3>3. j + 1 \in Nat /\ j + 1 <= l /\ \A i \in (j + 1)..(l - 1) : i \in 1..(l - 1)
      BY <1>1
    <3>4. c[l] = DemandAt(l) /\ c[j] = DemandAt(j)
      BY <1>1
    <3> HIDE DEF c
    <3>5. c[j + 1] \in Successors(disk, c[l])
      BY <3>1, <3>2, <3>4
    <3>6. ~Grounded(disk, request, c[j + 1])
      BY <1>1, <3>2, <3>3, <3>5, CycleNotGrounded
    <3> QED
      BY <1>1, <3>4, <3>5, <3>6
  <2> QED
    BY <2>1, <2>2
<1>3. ASSUME NEW m \in Names, stack[k].cache[m] = Top.node
      PROVE  FALSE
  <2>1. CacheFromStack(k) /\ Top.node # 0
    BY <1>1 DEF GInv, CachesFromStack, Expanding
  <2>2. PICK j \in 1..k : stack[j].node = Top.node
    BY <1>2, <1>3, <2>1 DEF CacheFromStack
  <2> QED
    BY <1>1, <1>2, <2>2
<1> QED
  BY <1>2, <1>3

(* The node is linked to what its call found, and is itself found by the    *)
(* caller, if there is one.                                                *)
NodeReturned(l) ==
  /\ nodes' = [nodes EXCEPT ![Top.node].depends = @ \o Top.found]
  /\ UNCHANGED <<disk, request>>
  /\ \A k \in DOMAIN stack' :
       /\ k \in 1..(l - 1)
       /\ stack'[k].node = stack[k].node /\ stack'[k].cache = stack[k].cache
       /\ \A i \in DOMAIN stack'[k].found :
            \/ i \in DOMAIN stack[k].found /\ stack'[k].found[i] = stack[k].found[i]
            \/ /\ k = l - 1 /\ i = Len(stack[k].found) + 1
               /\ stack'[k].found[i] = Top.node

LEMMA ReturnedNodes ==
  ASSUME IInv, GInv, Expanding, Top.todo = {}, NEW l, l = Len(stack), NodeReturned(l)
  PROVE  /\ Grows /\ DOMAIN nodes' = DOMAIN nodes
         /\ nodes'[Top.node].depends = Top.found
         /\ nodes'[Top.node].pkg = nodes[Top.node].pkg
         /\ \A n \in DOMAIN nodes \ {Top.node} : nodes'[n] = nodes[n]
<1>1. /\ nodes \in Seq(Node) /\ Top.node \in DOMAIN nodes /\ Top.found \in Seq(Nat \ {0})
      /\ nodes[Top.node].depends = <<>>
  BY FinishedFacts DEF IInv, TypeOK, Frame
<1>2. PICK x : x = [nodes[Top.node] EXCEPT !.depends = @ \o Top.found]
  OBVIOUS
<1>3. nodes[Top.node] \in Node /\ <<>> \o Top.found = Top.found
  BY <1>1
<1>4. x.depends = Top.found /\ x.pkg = nodes[Top.node].pkg /\ x \in Node
  BY <1>1, <1>2, <1>3 DEF Node
<1>5. nodes' = [nodes EXCEPT ![Top.node] = x]
  BY <1>2 DEF NodeReturned
<1> QED
  BY <1>1, <1>4, <1>5 DEF Grows

LEMMA ReturnedLinks ==
  ASSUME IInv, GInv, Expanding, Top.todo = {}, NEW l, l = Len(stack), NodeReturned(l)
  PROVE  /\ LinksOK' /\ HasKids(nodes', disk, Top.node)
         /\ \A c : stack' = <<>> /\ c = Top.node => ~Linked(c)'
<1> DEFINE x == Top.node
<1>1. /\ l \in Nat \ {0} /\ Top = stack[l] /\ DOMAIN stack = 1..l /\ l \in DOMAIN stack
      /\ x \in DOMAIN nodes /\ nodes[x].depends = <<>> /\ ~Linked(x)
      /\ FoundFor(nodes, disk, Top.found, nodes[x].pkg.require, Keys(nodes[x].pkg.require))
  BY FinishedFacts
<1>2. /\ Grows /\ DOMAIN nodes' = DOMAIN nodes
      /\ nodes'[x].depends = Top.found /\ nodes'[x].pkg = nodes[x].pkg
      /\ \A n \in DOMAIN nodes \ {x} : nodes'[n] = nodes[n]
  BY ReturnedNodes
<1>3. \A k \in 1..(l - 1) : stack[k].node # x /\ \A m \in Names : stack[k].cache[m] # x
  BY FinishedApart
<1> HIDE DEF x
<1>4. ASSUME NEW k \in DOMAIN stack'
      PROVE  /\ k \in 1..(l - 1) /\ k \in DOMAIN stack /\ k # l
             /\ stack'[k].node = stack[k].node /\ stack'[k].cache = stack[k].cache
             /\ \A i \in DOMAIN stack'[k].found :
                  \/ i \in DOMAIN stack[k].found /\ stack'[k].found[i] = stack[k].found[i]
                  \/ k = l - 1 /\ i = Len(stack[k].found) + 1 /\ stack'[k].found[i] = x
  BY <1>1 DEF NodeReturned, x
<1>5. \A n \in DOMAIN nodes' : \A i \in DOMAIN nodes'[n].depends :
        \/ n # x /\ n \in DOMAIN nodes /\ nodes'[n] = nodes[n] /\ i \in DOMAIN nodes[n].depends
        \/ n = x /\ i \in DOMAIN Top.found /\ nodes'[n].depends[i] = Top.found[i]
  BY <1>2
<1>6. \A k \in DOMAIN stack : \A i \in DOMAIN stack[k].found : stack[k].found[i] # x
  BY <1>1 DEF Linked, InFound
<1>7. \A n \in DOMAIN nodes : \A i \in DOMAIN nodes[n].depends : nodes[n].depends[i] # x
  BY <1>1 DEF Linked, InDepends
<1>8. \A c : InDepends(c)' => Linked(c)
  BY <1>1, <1>5 DEF InDepends, InFound, Linked
<1>9. \A c : InFound(c)' => Linked(c) \/ c = x
  BY <1>4 DEF InFound, Linked
<1>10. UseUnlinked'
  <2> SUFFICES ASSUME NEW c \in DOMAIN nodes', InUse(c)'
               PROVE  nodes'[c].depends = <<>> /\ ~Linked(c)'
    BY DEF UseUnlinked
  <2>1. InUse(c) /\ c # x
    BY <1>3, <1>4 DEF InUse
  <2>2. c \in DOMAIN nodes /\ nodes[c].depends = <<>> /\ ~Linked(c) /\ nodes'[c] = nodes[c]
    BY <1>2, <2>1 DEF GInv, LinksOK, UseUnlinked
  <2> QED
    BY <1>8, <1>9, <2>1, <2>2 DEF Linked
<1>11. LinkedInHeap'
  BY <1>1, <1>2, <1>4, <1>5 DEF GInv, LinksOK, LinkedInHeap
<1>12. \A c \in DOMAIN nodes :
         \A kids : (\A i \in DOMAIN kids : kids[i] \in DOMAIN nodes) =>
           \A i \in DOMAIN kids : nodes'[kids[i]].pkg = nodes[kids[i]].pkg
  BY <1>2 DEF Grows
<1>13. HasKids(nodes', disk, x)
  <2>1. \A i \in DOMAIN Top.found : nodes'[Top.found[i]].pkg = nodes[Top.found[i]].pkg
    BY <1>1, <1>12 DEF GInv, LinksOK, LinkedInHeap
  <2>2. FoundFor(nodes', disk, Top.found, nodes[x].pkg.require, Keys(nodes[x].pkg.require))
    BY <1>1, <2>1, FoundKept
  <2> QED
    BY <1>2, <2>2 DEF HasKids
<1>14. LinkedComplete'
  <2> SUFFICES ASSUME NEW c \in DOMAIN nodes', Linked(c)', c # x
               PROVE  HasKids(nodes', disk, c)
    BY <1>13 DEF LinkedComplete, NodeReturned
  <2>1. c \in DOMAIN nodes /\ HasKids(nodes, disk, c) /\ nodes'[c] = nodes[c]
    BY <1>2, <1>8, <1>9 DEF GInv, LinksOK, LinkedComplete, Linked
  <2>2. \A i \in DOMAIN nodes[c].depends :
          nodes'[nodes[c].depends[i]].pkg = nodes[nodes[c].depends[i]].pkg
    BY <1>12, <2>1 DEF GInv, LinksOK, LinkedInHeap
  <2> QED
    BY <2>1, <2>2, FoundKept DEF HasKids
<1>15. LinkedApart'
  <2>1. ASSUME NEW m \in DOMAIN nodes', NEW n \in DOMAIN nodes',
               NEW i \in DOMAIN nodes'[m].depends, NEW j \in DOMAIN nodes'[n].depends,
               nodes'[m].depends[i] = nodes'[n].depends[j]
        PROVE  m = n /\ i = j
    <3>1. CASE m # x /\ n # x
      BY <1>5, <2>1, <3>1 DEF GInv, LinksOK, LinkedApart
    <3>2. CASE m = x /\ n = x
      BY <1>1, <1>5, <2>1, <3>2 DEF GInv, LinksOK, LinkedApart
    <3>3. CASE m = x /\ n # x
      BY <1>1, <1>5, <2>1, <3>3 DEF GInv, LinksOK, LinkedApart
    <3>4. CASE m # x /\ n = x
      BY <1>1, <1>5, <2>1, <3>4 DEF GInv, LinksOK, LinkedApart
    <3> QED
      BY <3>1, <3>2, <3>3, <3>4
  <2>2. ASSUME NEW k \in DOMAIN stack', NEW h \in DOMAIN stack',
               NEW i \in DOMAIN stack'[k].found, NEW j \in DOMAIN stack'[h].found,
               stack'[k].found[i] = stack'[h].found[j]
        PROVE  k = h /\ i = j
    <3>1. CASE stack'[k].found[i] = x
      <4>0. ASSUME NEW a \in DOMAIN stack', NEW b \in DOMAIN stack'[a].found,
                   stack'[a].found[b] = x
            PROVE  a = l - 1 /\ b = Len(stack[a].found) + 1
        <5>1. a \in DOMAIN stack /\ (b \in DOMAIN stack[a].found => stack[a].found[b] # x)
          BY <1>4, <1>6
        <5> QED
          BY <1>4, <4>0, <5>1
      <4>1. k = l - 1 /\ i = Len(stack[k].found) + 1
        BY <3>1, <4>0
      <4>2. h = l - 1 /\ j = Len(stack[h].found) + 1
        BY <2>2, <3>1, <4>0
      <4> QED
        BY <4>1, <4>2
    <3>2. CASE stack'[k].found[i] # x
      BY <1>4, <2>2, <3>2 DEF GInv, LinksOK, LinkedApart
    <3> QED
      BY <3>1, <3>2
  <2>3. ASSUME NEW n \in DOMAIN nodes', NEW k \in DOMAIN stack',
               NEW i \in DOMAIN nodes'[n].depends, NEW j \in DOMAIN stack'[k].found,
               nodes'[n].depends[i] = stack'[k].found[j]
        PROVE  FALSE
    <3>1. CASE stack'[k].found[j] = x
      BY <1>1, <1>5, <1>6, <1>7, <2>3, <3>1
    <3>2. CASE stack'[k].found[j] # x
      <4>1. /\ k \in DOMAIN stack /\ k # l /\ j \in DOMAIN stack[k].found
            /\ stack'[k].found[j] = stack[k].found[j]
        BY <1>4, <3>2
      <4>2. CASE n # x
        BY <1>5, <2>3, <4>1, <4>2 DEF GInv, LinksOK, LinkedApart
      <4>3. CASE n = x
        BY <1>1, <1>5, <2>3, <4>1, <4>3 DEF GInv, LinksOK, LinkedApart
      <4> QED
        BY <4>2, <4>3
    <3> QED
      BY <3>1, <3>2
  <2> QED
    BY <2>1, <2>2, <2>3 DEF LinkedApart
<1>16. \A c : stack' = <<>> /\ c = x => ~Linked(c)'
  BY <1>1, <1>8 DEF Linked, InFound
<1> QED
  BY <1>10, <1>11, <1>13, <1>14, <1>15, <1>16 DEF LinksOK, x

(* The caller of a call that returns a node has found one more entry.       *)
LEMMA CallerBuilt ==
  ASSUME IInv, GInv, Expanding, Top.todo = {}, NEW n \in Nat \ {0}, Len(stack) = n + 1,
         NodeReturned(n + 1), NEW f, f.name = Parent.name, f.node = Parent.node,
         f.cache = Parent.cache, f.todo = Parent.todo,
         f.found = Append(Parent.found, Top.node)
  PROVE  Built(nodes', disk, request, f, {})
<1> DEFINE require == Chosen(disk, f.name).require
           done    == Keys(require) \ (f.todo \cup {Top.name})
<1>1. /\ Parent \in Frame /\ Parent.node # 0
      /\ [name |-> Top.name, req |-> Top.req]
           \in Successors(disk, [name |-> Parent.name, req |-> Parent.req])
      /\ Acceptable(disk, [name |-> Parent.name, req |-> Parent.req])
  BY ParentFacts DEF Expanding
<1>2. /\ Top.name \in Keys(require) /\ Top.req = require[Top.name]
  BY <1>1 DEF Successors, DemandsOf
<1>3. /\ Parent = stack[n] /\ Top = stack[n + 1] /\ n \in DOMAIN stack /\ n + 1 \in DOMAIN stack
      /\ Top \in Frame
  BY RunningFacts DEF Expanding, IInv, Parent
<1>4. /\ f.todo \cap {Top.name} = {} /\ f.cache[f.name] = f.node
      /\ \A m \in done : Grounded(disk, request, [name |-> m, req |-> require[m]])
      /\ FoundFor(nodes, disk, Parent.found, require, done)
  <2>1. Called(n) = {Top.name}
    BY <1>3 DEF Called
  <2>2. Built(nodes, disk, request, Parent, {Top.name})
    BY <1>3, <2>1 DEF GInv, FramesBuilt
  <2> QED
    BY <1>1, <2>2 DEF Built
<1>5. /\ Acceptable(disk, DemandAt(n + 1)) /\ nodes[Top.node].pkg = Chosen(disk, Top.name)
      /\ \A e \in Successors(disk, DemandAt(n + 1)) : Grounded(disk, request, e)
  BY FinishedFacts
<1>6. Grounded(disk, request, [name |-> Top.name, req |-> require[Top.name]])
  <2>1. DemandAt(n + 1) \in AllDemands(disk, request)
    BY <1>3, ReachedType, RunningFacts DEF IInv, DemandsReached, Expanding
  <2>2. Grounded(disk, request, DemandAt(n + 1))
    BY <1>5, <2>1, GroundedIntro
  <2> QED
    BY <1>2, <1>3, <2>2 DEF DemandAt
<1>7. /\ \A i \in DOMAIN Parent.found :
           nodes'[Parent.found[i]].pkg = nodes[Parent.found[i]].pkg
      /\ nodes'[Top.node].pkg = nodes[Top.node].pkg
  <2>1. /\ \A i \in DOMAIN nodes : nodes'[i].pkg = nodes[i].pkg
        /\ nodes'[Top.node].pkg = nodes[Top.node].pkg
    BY ReturnedNodes DEF Grows
  <2> QED
    BY <1>3, <2>1 DEF GInv, LinksOK, LinkedInHeap
<1>8. FoundFor(nodes', disk, Parent.found, require, done)
  BY <1>4, <1>7, FoundKept
<1>9. Fits(nodes', disk, require, Top.name, Top.node)
  BY <1>2, <1>3, <1>5, <1>7 DEF Acceptable, DemandAt, Fits, FromFile
<1>10. Parent.found \in Seq(Nat \ {0}) /\ Top.name \notin done
  BY <1>1 DEF Frame
<1>11. FoundFor(nodes', disk, f.found, require, done \cup {Top.name})
  <2> HIDE DEF done, require
  <2>1. FoundFor(nodes', disk, Append(Parent.found, Top.node), require, done \cup {Top.name})
    BY <1>8, <1>9, <1>10, FoundMore
  <2> QED
    BY <2>1
<1>12. Keys(require) \ (f.todo \cup {}) = done \cup {Top.name}
  BY <1>2, <1>4
<1>13. \A m \in done \cup {Top.name} :
         Grounded(disk, request, [name |-> m, req |-> require[m]])
  BY <1>4, <1>6
<1> QED
  BY <1>1, <1>4, <1>11, <1>12, <1>13 DEF Built

LEMMA ReturnNodeBuilt ==
  ASSUME IInv, GInv, ReturnNode
  PROVE  GInv'
<1>1. /\ Running /\ Expanding /\ Top.todo = {}
      /\ nodes' = [nodes EXCEPT ![Top.node].depends = @ \o Top.found]
      /\ UNCHANGED <<disk, request>>
  BY DEF ReturnNode, Expanding
<1>2. Len(stack) \in Nat \ {0} /\ root = 0
  BY <1>1, RunningFacts, DemandsAssumption DEF IInv
<1>3. CASE Len(stack) = 1
  <2>1. stack' = <<>> /\ DOMAIN stack' = {} /\ root' = Top.node
    BY <1>3 DEF ReturnNode
  <2>2. NodeReturned(1)
    BY <1>1, <2>1 DEF NodeReturned
  <2>3. /\ LinksOK' /\ HasKids(nodes', disk, Top.node)
        /\ \A c : stack' = <<>> /\ c = Top.node => ~Linked(c)'
    BY <1>1, <1>3, <2>2, ReturnedLinks
  <2>4. RootBuilt'
    BY <1>1, <2>1, <2>3 DEF RootBuilt
  <2>5. FramesBuilt' /\ CachesFromStack'
    BY <2>1 DEF FramesBuilt, CachesFromStack
  <2> QED
    BY <2>3, <2>4, <2>5 DEF GInv
<1>4. CASE Len(stack) # 1
  <2>1. PICK n \in Nat \ {0} : Len(stack) = n + 1
    <3>1. Len(stack) - 1 \in Nat \ {0} /\ Len(stack) = (Len(stack) - 1) + 1
      BY <1>2, <1>4
    <3> QED
      BY <3>1
  <2>2. PICK f : f = [Parent EXCEPT !.found = Append(@, Top.node),
                                    !.cache = Parent.cache]
    OBVIOUS
  <2>3. stack' = PopInto(f) /\ UNCHANGED <<outcome, root>>
    BY <1>4, <2>2 DEF ReturnNode, CacheAfterReturn
  <2>4. /\ f \in Frame /\ f.name = Parent.name /\ f.node = Parent.node
        /\ f.todo = Parent.todo /\ f.cache = Parent.cache
        /\ f.found = Append(Parent.found, Top.node) /\ Parent.found \in Seq(Nat \ {0})
    <3>1. Parent \in Frame /\ Top \in Frame /\ Top.node # 0
      BY <1>1, <2>1, ParentFacts, RunningFacts DEF Expanding, IInv
    <3>2. Append(Parent.found, Top.node) \in Seq(Nat \ {0})
      BY <3>1 DEF Frame
    <3> QED
      BY <2>2, <3>1, <3>2 DEF Frame
  <2>5. /\ DOMAIN stack = 1..(n + 1) /\ Parent = stack[n] /\ DOMAIN stack' = 1..n
        /\ Len(stack') = n /\ stack'[n] = f
        /\ \A k \in 1..(n - 1) : stack'[k] = stack[k]
    BY <1>1, <2>1, <2>3, <2>4, PopShape
  <2>6. NodeReturned(n + 1)
    <3>1. ASSUME NEW i \in DOMAIN f.found
          PROVE  \/ i \in DOMAIN Parent.found /\ f.found[i] = Parent.found[i]
                 \/ i = Len(Parent.found) + 1 /\ f.found[i] = Top.node
      BY <2>4, <3>1
    <3>2. ASSUME NEW k \in DOMAIN stack'
          PROVE  /\ k \in 1..((n + 1) - 1)
                 /\ stack'[k].node = stack[k].node /\ stack'[k].cache = stack[k].cache
                 /\ \A i \in DOMAIN stack'[k].found :
                      \/ /\ i \in DOMAIN stack[k].found
                         /\ stack'[k].found[i] = stack[k].found[i]
                      \/ /\ k = (n + 1) - 1 /\ i = Len(stack[k].found) + 1
                         /\ stack'[k].found[i] = Top.node
      <4>1. CASE k = n
        <5>1. stack'[k] = f /\ stack[k] = Parent /\ k = (n + 1) - 1 /\ k \in 1..((n + 1) - 1)
          BY <2>5, <4>1
        <5> QED
          BY <2>4, <3>1, <5>1
      <4>2. CASE k # n
        <5>1. stack'[k] = stack[k] /\ k \in 1..((n + 1) - 1)
          BY <2>5, <4>2
        <5> QED
          BY <5>1
      <4> QED
        BY <4>1, <4>2
    <3> QED
      BY <1>1, <3>2 DEF NodeReturned
  <2>7. LinksOK' /\ Grows
    BY <1>1, <2>1, <2>6, ReturnedLinks, ReturnedNodes
  <2>8. FramesBuilt'
    <3>1. ASSUME NEW k \in 1..(n - 1)
          PROVE  Built(nodes', disk', request', stack'[k], Called(k)')
      <4>1. stack'[k + 1].name = stack[k + 1].name
        BY <2>4, <2>5
      <4>2. /\ k \in DOMAIN stack /\ stack'[k] = stack[k] /\ k < Len(stack)
            /\ k < Len(stack') /\ UNCHANGED <<disk, request>>
        BY <1>1, <2>1, <2>5
      <4> QED
        BY <2>7, <4>1, <4>2, KeepBuilt
    <3>2. Built(nodes', disk, request, f, {})
      BY <1>1, <2>1, <2>4, <2>6, CallerBuilt
    <3>3. Called(n)' = {}
      BY <2>5 DEF Called
    <3>4. Built(nodes', disk', request', stack'[n], Called(n)')
      BY <1>1, <2>5, <3>2, <3>3
    <3>5. \A k \in DOMAIN stack' : k \in 1..(n - 1) \/ k = n
      BY <2>5
    <3> QED
      BY <3>1, <3>4, <3>5 DEF FramesBuilt
  <2>9. CachesFromStack'
    <3>1. ASSUME NEW k \in DOMAIN stack'
          PROVE  CacheFromStack(k)'
      <4>1. CacheFromStack(k)
        BY <2>5 DEF GInv, CachesFromStack
      <4>2. \A j \in 1..k : /\ stack'[j].node = stack[j].node
                            /\ stack'[j].name = stack[j].name
                            /\ stack'[j].cache = stack[j].cache
        BY <2>4, <2>5
      <4>3. k \in 1..k
        BY <2>5
      <4> QED
        BY <4>1, <4>2, <4>3 DEF CacheFromStack
    <3> QED
      BY <3>1 DEF CachesFromStack
  <2>10. RootBuilt'
    BY <1>2, <2>3 DEF RootBuilt
  <2> QED
    BY <2>7, <2>8, <2>9, <2>10 DEF GInv
<1> QED
  BY <1>3, <1>4

-----------------------------------------------------------------------------
LEMMA InitBuilt == Init => GInv
<1> SUFFICES ASSUME Init
             PROVE  GInv
  OBVIOUS
<1>0. PICK f : f = Call(request.name, request.req, EmptyCache)
  OBVIOUS
<1>1. nodes = <<>> /\ stack = <<f>> /\ root = 0 /\ DOMAIN nodes = {} /\ DOMAIN stack = {1}
  BY <1>0 DEF Init, Start
<1>2. f.node = 0 /\ f.found = <<>> /\ \A m \in Names : f.cache[m] = 0
  BY <1>0 DEF Call, EmptyCache
<1>3. stack[1] = f /\ Len(stack) = 1
  BY <1>1
<1>4. FramesBuilt
  <2>1. Called(1) = {}
    BY <1>3 DEF Called
  <2>2. Built(nodes, disk, request, f, {})
    BY <1>2, EmptyBuilt
  <2> QED
    BY <1>1, <1>3, <2>1, <2>2 DEF FramesBuilt
<1>5. CachesFromStack
  BY <1>1, <1>2, <1>3 DEF CachesFromStack, CacheFromStack
<1>6. DOMAIN f.found = {}
  BY <1>2
<1>7. LinksOK
  BY <1>1, <1>3, <1>6 DEF LinksOK, UseUnlinked, LinkedInHeap, LinkedComplete, LinkedApart
<1> QED
  BY <1>1, <1>4, <1>5, <1>7 DEF GInv, RootBuilt

LEMMA StutterBuilt ==
  ASSUME GInv, UNCHANGED <<disk, request, nodes, stack, root>>
  PROVE  GInv'
<1>1. \A k : Called(k)' = Called(k)
  BY DEF Called
<1>2. FramesBuilt'
  BY <1>1 DEF GInv, FramesBuilt
<1>3. CachesFromStack'
  BY DEF GInv, CachesFromStack, CacheFromStack
<1>4. \A c : (Linked(c)' <=> Linked(c)) /\ (InUse(c)' <=> InUse(c))
  BY DEF Linked, InDepends, InFound, InUse
<1>5. LinksOK'
  BY <1>4 DEF GInv, LinksOK, UseUnlinked, LinkedInHeap, LinkedComplete, LinkedApart
<1>6. RootBuilt'
  <2>1. \A c : root' = c => root = c
    OBVIOUS
  <2> QED
    BY <1>4 DEF GInv, RootBuilt, Linked, InDepends, InFound
<1> QED
  BY <1>2, <1>3, <1>5, <1>6 DEF GInv

LEMMA NextBuilt == IInv /\ GInv /\ [Next]_vars => GInv'
<1> SUFFICES ASSUME IInv, GInv, [Next]_vars
             PROVE  GInv'
  OBVIOUS
<1>1. CASE LoadFails
  BY <1>1, LoadFailsBuilt
<1>2. CASE LoadThrows \/ ComparisonThrows \/ StackOverflow
  BY <1>2, StutterBuilt DEF LoadThrows, ComparisonThrows, StackOverflow
<1>3. CASE Reject
  BY <1>3, RejectBuilt
<1>4. CASE Accept
  BY <1>4, AcceptBuilt
<1>5. CASE \E n \in Names : Descend(n)
  BY <1>5, DescendBuilt
<1>6. CASE ReturnNode
  BY <1>6, ReturnNodeBuilt
<1>7. CASE ReturnError
  BY <1>7, ReturnErrorBuilt
<1>8. CASE UNCHANGED vars
  BY <1>8, StutterBuilt DEF vars
<1> QED
  BY <1>1, <1>2, <1>3, <1>4, <1>5, <1>6, <1>7, <1>8 DEF Next

(* The inductive invariant holds of every behaviour.                        *)
THEOREM BuiltHolds == Spec => []GInv
BY InitBuilt, NextBuilt, InvariantHolds, PTL DEF Spec

(* What the loops of each active call have established is true of the files *)
(* and of the heap: every file passed failed to load, or the demand is      *)
(* beyond help; the requirements done are resolved; and `found` has one     *)
(* node for each of them, made from the first file of its name that loads,  *)
(* and which meets it.                                                     *)
THEOREM FramesHold == Spec => [](FramesOK /\ FramesBuilt)
<1>1. IInv /\ GInv => FramesOK /\ FramesBuilt
  BY DEF IInv, GInv
<1> QED
  BY <1>1, InvariantHolds, BuiltHolds, PTL

(* A node's depends vector is written once: when build_node links what it    *)
(* found to a node (search.cpp:336), the node has no children yet, though    *)
(* the cache may have returned it for several demands before.               *)
THEOREM LinksOnlyOnce == Spec => LinkedOnce
<1>1. IInv /\ GInv /\ [Next]_vars =>
        [\A n \in DOMAIN nodes : nodes'[n] # nodes[n] => nodes[n].depends = <<>>]_vars
  <2> SUFFICES ASSUME IInv, GInv, Next
               PROVE  \A n \in DOMAIN nodes : nodes'[n] # nodes[n] => nodes[n].depends = <<>>
    OBVIOUS
  <2>1. CASE ReturnNode
    <3>1. nodes[Top.node].depends = <<>>
      BY <2>1, FinishedFacts DEF ReturnNode
    <3>2. nodes' = [nodes EXCEPT ![Top.node].depends = @ \o Top.found]
      BY <2>1 DEF ReturnNode
    <3>3. \A n \in DOMAIN nodes : n # Top.node => nodes'[n] = nodes[n]
      BY <3>2
    <3> QED
      BY <3>1, <3>3
  <2>2. CASE Reject \/ Accept
    BY <2>2, HeapFacts DEF Reject, Accept
  <2>3. CASE ~ReturnNode /\ ~Reject /\ ~Accept
    <3>1. nodes' = nodes
      BY <2>3 DEF Next, LoadFails, LoadThrows, ComparisonThrows, Descend, StackOverflow,
                  ReturnError
    <3> QED
      BY <3>1
  <2> QED
    BY <2>1, <2>2, <2>3
<1> QED
  BY <1>1, InvariantHolds, BuiltHolds, PTL DEF LinkedOnce, Spec

-----------------------------------------------------------------------------
(* Induction, from the well-foundedness of < on the natural numbers: a set  *)
(* of numbers has a least element, so one that has 0 and, with each number, *)
(* the next one has them all.                                              *)
LEMMA LeastNumber ==
  ASSUME NEW T, T \subseteq Nat, T # {}
  PROVE  \E m \in T : \A k \in T : m <= k
<1> DEFINE R == OpToRel(<, Nat)
<1>1. IsWellFoundedOn(R, Nat)
  BY NatLessThanWellFounded
<1>2. \A a, b \in Nat : a < b => <<a, b>> \in R
  BY DEF OpToRel
<1> HIDE DEF R
<1>3. PICK m \in T : \A k \in T : ~(<<k, m>> \in R)
  BY <1>1, WFMin
<1>4. ASSUME NEW k \in T
      PROVE  m <= k
  <2>1. k \in Nat /\ m \in Nat /\ ~(k < m)
    BY <1>2, <1>3
  <2> QED
    BY <2>1
<1> QED
  BY <1>4

LEMMA SetInduction ==
  ASSUME NEW S, 0 \in S, \A n \in Nat : n \in S => n + 1 \in S
  PROVE  Nat \subseteq S
<1> DEFINE T == Nat \ S
<1>1. T \subseteq Nat
  OBVIOUS
<1>2. ASSUME T # {}
      PROVE  FALSE
  <2>1. PICK m \in T : \A k \in T : m <= k
    <3> HIDE DEF T
    <3> QED
      BY <1>1, <1>2, LeastNumber
  <2>2. m # 0 /\ m - 1 \in Nat /\ m - 1 \in S
    BY <2>1
  <2>3. (m - 1) + 1 \in S
    BY <2>2
  <2> QED
    BY <2>1, <2>3
<1> QED
  BY <1>2

(* Below is a recursive function: it is defined, and each of its values is  *)
(* made from the one before.                                               *)
Nearer(ns, r, l, within) ==
  [k \in 0..l |-> IF k = 0 THEN {r}
                  ELSE LET nearer == within[k - 1]
                       IN  nearer \cup UNION {Children(ns, n) : n \in nearer}]

LEMMA WithinExists ==
  ASSUME NEW ns, NEW r, NEW l \in Nat
  PROVE  \E within : within = Nearer(ns, r, l, within)
<1> DEFINE Step(w, k) == IF k = 0 THEN {r}
                         ELSE LET nearer == w[k - 1]
                              IN  nearer \cup UNION {Children(ns, n) : n \in nearer}
           S == {m \in Nat : \E w : w = [k \in 0..m |-> Step(w, k)]}
<1>1. 0 \in S
  <2> DEFINE w == [k \in 0..0 |-> {r}]
  <2>1. w = [k \in 0..0 |-> Step(w, k)]
    OBVIOUS
  <2> QED
    BY <2>1
<1>2. ASSUME NEW m \in Nat, m \in S
      PROVE  m + 1 \in S
  <2>1. PICK w : w = [k \in 0..m |-> Step(w, k)]
    BY <1>2
  <2> DEFINE v == [k \in 0..(m + 1) |-> IF k = m + 1 THEN Step(w, k) ELSE w[k]]
  <2>2. ASSUME NEW k \in 0..(m + 1)
        PROVE  v[k] = Step(v, k)
    <3>1. k # 0 => v[k - 1] = w[k - 1]
      OBVIOUS
    <3>2. Step(v, k) = Step(w, k)
      <4> HIDE DEF v
      <4> QED
        BY <3>1
    <3>3. CASE k = m + 1
      BY <3>2, <3>3
    <3>4. CASE k # m + 1
      <4>1. k \in 0..m /\ v[k] = w[k]
        BY <3>4
      <4>2. w[k] = Step(w, k)
        BY <2>1, <4>1
      <4> QED
        BY <3>2, <4>1, <4>2
    <3> QED
      BY <3>3, <3>4
  <2>3. v = [k \in 0..(m + 1) |-> v[k]]
    OBVIOUS
  <2> HIDE DEF v
  <2>4. v = [k \in 0..(m + 1) |-> Step(v, k)]
    BY <2>2, <2>3
  <2> QED
    BY <2>4
<1>3. l \in S
  <2> HIDE DEF S
  <2> QED
    BY <1>1, <1>2, SetInduction
<1> QED
  BY <1>3 DEF Nearer

(* A set that has the root and the children of what it has, has everything  *)
(* below the root.                                                         *)
LEMMA BelowLeast ==
  ASSUME NEW ns, Len(ns) \in Nat, NEW r, NEW G, r \in G,
         \A n \in G : Children(ns, n) \subseteq G
  PROVE  Below(ns, r) \subseteq G
<1> DEFINE within == CHOOSE w : w = Nearer(ns, r, Len(ns), w)
<1>0. within = Nearer(ns, r, Len(ns), within)
  BY WithinExists
<1>1. /\ within = [k \in 0..Len(ns) |->
                     IF k = 0 THEN {r}
                     ELSE LET nearer == within[k - 1]
                          IN  nearer \cup UNION {Children(ns, n) : n \in nearer}]
      /\ Below(ns, r) = within[Len(ns)]
  <2>1. Below(ns, r) = within[Len(ns)]
    BY DEF Below, Nearer
  <2> HIDE DEF within
  <2> QED
    BY <1>0, <2>1 DEF Nearer
<1> HIDE DEF within
<1> DEFINE S == {m \in Nat : m <= Len(ns) => within[m] \subseteq G}
<1>2. 0 \in S
  BY <1>1
<1>3. ASSUME NEW m \in Nat, m \in S
      PROVE  m + 1 \in S
  <2> SUFFICES ASSUME m + 1 <= Len(ns)
               PROVE  within[m + 1] \subseteq G
    OBVIOUS
  <2>1. within[m] \subseteq G
    BY <1>3
  <2>2. within[m + 1] = within[m] \cup UNION {Children(ns, n) : n \in within[m]}
    <3>1. m + 1 \in 0..Len(ns) /\ m + 1 # 0 /\ (m + 1) - 1 = m
      OBVIOUS
    <3> QED
      BY <1>1, <3>1
  <2> QED
    BY <2>1, <2>2
<1>4. Len(ns) \in S
  <2> HIDE DEF S
  <2> QED
    BY <1>2, <1>3, SetInduction
<1> QED
  BY <1>1, <1>4

-----------------------------------------------------------------------------
(* Every node that is found is complete.                                   *)
LEMMA FoundComplete ==
  ASSUME IInv, GInv, outcome = "found"
  PROVE  /\ Below(nodes, root) \subseteq DOMAIN nodes
         /\ \A n \in Below(nodes, root) : HasKids(nodes, disk, n) /\ MeetsRequires(nodes, n)
         /\ ~InDepends(root)
<1>1. root \in DOMAIN nodes /\ Len(nodes) \in Nat /\ root # 0
  BY DEF IInv, TypeOK
<1>2. ~InDepends(root) /\ HasKids(nodes, disk, root)
  BY <1>1 DEF GInv, RootBuilt, Linked
<1> DEFINE G == {n \in DOMAIN nodes : HasKids(nodes, disk, n)}
<1>3. ASSUME NEW n \in G, NEW c \in Children(nodes, n)
      PROVE  c \in G
  <2>1. PICK i \in DOMAIN nodes[n].depends : c = nodes[n].depends[i]
    BY DEF Children, Range
  <2>2. c \in DOMAIN nodes /\ Linked(c)
    BY <2>1 DEF GInv, LinksOK, LinkedInHeap, Linked, InDepends
  <2> QED
    BY <2>2 DEF GInv, LinksOK, LinkedComplete
<1>4. Below(nodes, root) \subseteq G
  <2>1. root \in G
    BY <1>1, <1>2
  <2>2. \A n \in G : Children(nodes, n) \subseteq G
    BY <1>3
  <2> HIDE DEF G
  <2> QED
    BY <1>1, <2>1, <2>2, BelowLeast
<1> QED
  BY <1>2, <1>4, KidsMeetRequires

(* A graph that is found is built.                                         *)
LEMMA FoundIsBuilt == IInv /\ GInv => GraphIsBuilt
<1> SUFFICES ASSUME IInv, GInv, outcome = "found"
             PROVE  IsBuilt(nodes, root)
  BY DEF GraphIsBuilt
<1>1. /\ Below(nodes, root) \subseteq DOMAIN nodes
      /\ \A n \in Below(nodes, root) : MeetsRequires(nodes, n)
      /\ ~InDepends(root)
  BY FoundComplete
<1> DEFINE E        == Edges(nodes, Below(nodes, root))
           Child(e) == nodes[e[1]].depends[e[2]]
<1>2. \A e \in E : /\ e[1] \in DOMAIN nodes /\ e[2] \in DOMAIN nodes[e[1]].depends
                   /\ e = <<e[1], e[2]>>
  BY <1>1 DEF Edges
<1>3. \A e \in E : Child(e) # root
  BY <1>1, <1>2 DEF InDepends
<1>4. ASSUME NEW e \in E, NEW f \in E, Child(e) = Child(f)
      PROVE  e = f
  <2>1. e[1] = f[1] /\ e[2] = f[2]
    BY <1>2, <1>4 DEF GInv, LinksOK, LinkedApart
  <2> QED
    BY <1>2, <2>1
<1>5. IsTree(nodes, root)
  BY <1>3, <1>4 DEF IsTree
<1> QED
  BY <1>1, <1>5 DEF IsBuilt

(* The graph the search hands to set_components is a tree, in which every    *)
(* node has exactly one child for each entry of its package's requires, and  *)
(* that child meets it: what given-up candidates left in the heap is not     *)
(* part of it.                                                             *)
THEOREM GraphBuilt == Spec => []GraphIsBuilt
BY FoundIsBuilt, InvariantHolds, BuiltHolds, PTL

(* A version that lt does not find less is not older.                       *)
LEMMA NotLessNotOlder ==
  ASSUME NEW l, NEW r, simple_compare(l, "lt", r) = "no"
  PROVE  ~Older(l, r)
<1> DEFINE first == compare_numbers(l[1], "lt", r[1])
           rest  == compare_rest(l, "lt", r)
<1>1. Verdict("lt") = "yes" /\ "lt" \notin NonStrict
  BY DEF Verdict, NonStrict
<1>2. first = "unknown" /\ rest \in {"no", "unknown"}
  <2>1. /\ IsSplit(l) /\ IsSplit(r)
        /\ IF first # "unknown" THEN first = "no" ELSE Settled("lt", rest) = "no"
    BY DEF simple_compare
  <2>2. first # "no"
    BY <1>1 DEF compare_numbers
  <2> QED
    BY <2>1, <2>2 DEF Settled
<1>3. ASSUME NEW s, NEW t, compare_numbers(s, "lt", t) \notin {"yes", "error"}
      PROVE  ~SegmentBefore(s, t)
  <2>1. \A i \in 1..Longest(s, t) : ~Settles("lt", At(s, i), At(t, i))
    BY <1>1, <1>3 DEF compare_numbers
  <2> QED
    BY <2>1 DEF Settles, SegmentBefore
<1>4. ~SegmentBefore(l[1], r[1])
  BY <1>2, <1>3
<1>5. CASE Len(l) = 2 /\ Len(r) = 2
  <2>1. rest = compare_numbers(l[2], "lt", r[2])
    BY <1>5 DEF compare_rest
  <2>2. ~SegmentBefore(l[2], r[2])
    BY <1>2, <1>3, <2>1
  <2> QED
    BY <1>4, <1>5, <2>2 DEF Older
<1>6. CASE ~(Len(l) = 2 /\ Len(r) = 2)
  <2>1. ~Settles("lt", Len(l), Len(r))
    BY <1>1, <1>2, <1>6 DEF compare_rest, compare_value
  <2> QED
    BY <1>4, <1>6, <2>1 DEF Settles, Older
<1> QED
  BY <1>5, <1>6

(* The child built for a requirement is the first file of that name that    *)
(* loads, and not older than required: a comparison that fails, a version   *)
(* that is missing and a package from the cache are no way around the       *)
(* rejection (search.cpp:302-316).                                         *)
THEOREM NoneTooOld == Spec => []NothingTooOld
<1>1. IInv /\ GInv => NothingTooOld
  <2> SUFFICES ASSUME IInv, GInv, outcome = "found", NEW n \in Below(nodes, root)
               PROVE  \E entry \in Bijection(DOMAIN nodes[n].depends,
                                             Keys(nodes[n].pkg.require)) :
                        \A k \in DOMAIN nodes[n].depends :
                          LET p == nodes[nodes[n].depends[k]].pkg
                              r == nodes[n].pkg.require[entry[k]]
                          IN  /\ HasChosen(disk, entry[k]) /\ p = Chosen(disk, entry[k])
                              /\ HasComponents(p, r)
                              /\ r.version # None => ~Older(ProvidedVersion(p), r.version)
    BY DEF NothingTooOld
  <2> DEFINE kids    == nodes[n].depends
             require == nodes[n].pkg.require
  <2>1. HasKids(nodes, disk, n)
    BY FoundComplete
  <2>2. PICK entry \in Bijection(DOMAIN kids, Keys(require)) :
          \A k \in DOMAIN kids : Fits(nodes, disk, require, entry[k], kids[k])
    BY <2>1 DEF HasKids, FoundFor
  <2>3. ASSUME NEW k \in DOMAIN kids
        PROVE  LET p == nodes[kids[k]].pkg
                   r == require[entry[k]]
               IN  /\ HasChosen(disk, entry[k]) /\ p = Chosen(disk, entry[k])
                   /\ HasComponents(p, r)
                   /\ r.version # None => ~Older(ProvidedVersion(p), r.version)
    <3>1. /\ Meets(nodes[kids[k]].pkg, require[entry[k]])
          /\ FromFile(nodes, disk, entry[k], kids[k])
      BY <2>2, <2>3 DEF Fits
    <3>2. HasComponents(nodes[kids[k]].pkg, require[entry[k]])
      BY <3>1 DEF Meets
    <3>3. ASSUME require[entry[k]].version # None
          PROVE  ~Older(ProvidedVersion(nodes[kids[k]].pkg), require[entry[k]].version)
      BY <3>1, <3>3, NotLessNotOlder DEF Meets, VersionMeets, compare
    <3> QED
      BY <3>1, <3>2, <3>3 DEF FromFile
  <2> QED
    BY <2>2, <2>3
<1> QED
  BY <1>1, InvariantHolds, BuiltHolds, PTL

-----------------------------------------------------------------------------
(* What the request comes to.  The first call makes the first node, and has *)
(* it in its cache from then on; it is the root of the graph returned.      *)
FirstCall ==
  stack # <<>> => stack[1].cache[stack[1].name] = IF nodes = <<>> THEN 0 ELSE 1

Answered ==
  /\ outcome = "found" => /\ root = 1 /\ FromFile(nodes, disk, request.name, 1)
                          /\ Acceptable(disk, request) /\ Resolvable(disk, request)
  /\ outcome = "error" => ~Resolvable(disk, request)

AnswerInv == FirstCall /\ Answered

(* A step that leaves the first call its cache, and the heap a node.        *)
LEMMA KeepFirst ==
  ASSUME IInv, AnswerInv, Running, outcome' = outcome, nodes # <<>>, nodes' # <<>>,
         stack'[1].name = stack[1].name, stack'[1].cache = stack[1].cache
  PROVE  AnswerInv'
<1>1. stack # <<>>
  BY RunningFacts DEF IInv
<1>2. stack'[1].cache[stack'[1].name] = 1
  BY <1>1 DEF AnswerInv, FirstCall
<1> QED
  BY <1>2 DEF AnswerInv, FirstCall, Answered, Running

(* Once it has made a call, it has a node.                                  *)
LEMMA CallersHaveNodes ==
  ASSUME IInv, Running, Len(stack) # 1 \/ Top.node # 0
  PROVE  nodes # <<>>
<1>1. stack \in Seq(Frame) /\ Len(stack) \in 1..StackLimit /\ Top = stack[Len(stack)]
  BY RunningFacts, DemandsAssumption DEF IInv
<1>2. FrameOK(1) /\ (Len(stack) = 1 => Top = stack[1])
  BY <1>1 DEF IInv, FramesOK
<1>3. stack[1].node # 0
  <2>1. CASE Len(stack) # 1
    <3>0. PICK l : l = Len(stack)
      OBVIOUS
    <3>1. 1 < Len(stack)
      <4>1. l \in 1..StackLimit /\ l # 1 /\ StackLimit \in Nat
        BY <1>1, <2>1, <3>0, DemandsAssumption
      <4>2. 1 < l
        BY <4>1
      <4> QED
        BY <3>0, <4>2
    <3> QED
      BY <1>2, <3>1, Zenon DEF FrameOK
  <2>2. CASE Len(stack) = 1
    BY <1>2, <2>2
  <2> QED
    BY <2>1, <2>2
<1>4. stack[1].node \in DOMAIN nodes
  BY <1>2, <1>3 DEF FrameOK
<1> QED
  BY <1>4

(* The node that is got is the first call's, or there are others.           *)
LEMMA GotFirst ==
  ASSUME IInv, AnswerInv, Trying, Loads, nodes' = Heap, outcome' = outcome,
         NEW f \in Frame, stack' = SetTop(f), f.name = Top.name, f.cache = Cache
  PROVE  AnswerInv'
<1>1. /\ Running /\ stack \in Seq(Frame) /\ stack # <<>> /\ Len(stack) \in 1..StackLimit
      /\ Top = stack[Len(stack)] /\ StackLimit \in Nat
  BY RunningFacts, DemandsAssumption DEF IInv, Trying
<1>2. /\ Heap \in Seq(Node) /\ Got \in DOMAIN Heap /\ Cache[Top.name] = Got
  BY GetFacts
<1>3. /\ stack' # <<>> /\ stack'[Len(stack)] = f
      /\ \A k \in 1..(Len(stack) - 1) : stack'[k] = stack[k]
  BY <1>1, SetTopStack DEF SetTop
<1>4. nodes' # <<>>
  BY <1>2
<1>5. CASE Len(stack) # 1
  <2>1. stack'[1] = stack[1]
    <3>0. PICK l : l = Len(stack)
      OBVIOUS
    <3>1. l \in 1..StackLimit /\ l # 1 /\ StackLimit \in Nat
      BY <1>1, <1>5, <3>0
    <3>2. 1 \in 1..(l - 1)
      BY <3>1
    <3> QED
      BY <1>3, <3>0, <3>2
  <2>2. nodes # <<>>
    BY <1>1, <1>5, CallersHaveNodes
  <2> QED
    BY <1>1, <1>4, <2>1, <2>2, KeepFirst
<1>6. CASE Len(stack) = 1
  <2>1. Top.cache[Top.name] = IF nodes = <<>> THEN 0 ELSE 1
    BY <1>1, <1>6 DEF AnswerInv, FirstCall
  <2>2. Got = 1
    BY <2>1 DEF Got, Hit
  <2>3. FirstCall'
    BY <1>2, <1>3, <1>4, <1>6, <2>2 DEF FirstCall
  <2> QED
    BY <1>1, <2>3 DEF AnswerInv, Answered, Running
<1> QED
  BY <1>5, <1>6

(* The answer to find_package.                                             *)
LEMMA ReturnNodeAnswers ==
  ASSUME IInv, GInv, AnswerInv, ReturnNode
  PROVE  AnswerInv'
<1>0. PICK l : l = Len(stack)
  OBVIOUS
<1>1. /\ Running /\ Expanding /\ Top.node # 0 /\ Top.todo = {}
      /\ nodes' = [nodes EXCEPT ![Top.node].depends = @ \o Top.found]
      /\ UNCHANGED <<disk, request>>
  BY DEF ReturnNode, Expanding
<1>2. /\ l \in Nat \ {0} /\ Top = stack[l] /\ DOMAIN stack = 1..l /\ Top \in Frame
      /\ Top.node \in DOMAIN nodes /\ nodes[Top.node].pkg = Chosen(disk, Top.name)
      /\ Acceptable(disk, DemandAt(l))
  BY <1>0, <1>1, FinishedFacts
<1>3. /\ Grows /\ nodes' # <<>> /\ nodes # <<>>
      /\ nodes'[Top.node].pkg = nodes[Top.node].pkg
  <2>1. nodes \in Seq(Node) /\ nodes[Top.node] \in Node /\ Top.found \in Seq(Nat \ {0})
    BY <1>2 DEF IInv, TypeOK, Frame
  <2>2. PICK x : x = [nodes[Top.node] EXCEPT !.depends = @ \o Top.found]
    OBVIOUS
  <2>3. nodes[Top.node].depends \o Top.found \in Seq(Nat \ {0})
    BY <2>1 DEF Node
  <2>4. x \in Node /\ x.pkg = nodes[Top.node].pkg
    BY <2>1, <2>2, <2>3 DEF Node
  <2>5. nodes' = [nodes EXCEPT ![Top.node] = x]
    BY <1>1, <2>2
  <2>6. DOMAIN nodes' = DOMAIN nodes /\ nodes'[Top.node].pkg = nodes[Top.node].pkg /\ Grows
    BY <1>2, <2>1, <2>4, <2>5 DEF Grows
  <2> QED
    BY <1>2, <2>6
<1>4. CASE l = 1
  <2>1. stack' = <<>> /\ outcome' = "found" /\ root' = Top.node
    BY <1>0, <1>4 DEF ReturnNode
  <2>2. request = [name |-> Top.name, req |-> Top.req]
    BY <1>0, <1>1, <1>4, BottomIsRequest
  <2>3. Called(1) = {}
    BY <1>0, <1>4 DEF Called
  <2>4. Top.cache[Top.name] = Top.node
    BY <1>1, <1>2, <1>4 DEF GInv, FramesBuilt, Built
  <2>5. Top.node = 1
    <3>1. stack # <<>> /\ Top = stack[1]
      BY <1>1, <1>2, <1>4, RunningFacts DEF IInv
    <3> QED
      BY <1>3, <2>4, <3>1 DEF AnswerInv, FirstCall
  <2>6. Acceptable(disk, request) /\ request.name = Top.name
    BY <1>2, <1>4, <2>2 DEF DemandAt
  <2>7. Resolvable(disk, request)
    BY <1>1, <2>2, ReturnsResolved
  <2>8. FromFile(nodes, disk, request.name, 1)'
    BY <1>1, <1>2, <1>3, <2>5, <2>6 DEF FromFile, Acceptable
  <2>9. Answered'
    BY <1>1, <2>1, <2>5, <2>6, <2>7, <2>8 DEF Answered
  <2> QED
    BY <2>1, <2>9 DEF AnswerInv, FirstCall
<1>5. CASE l # 1
  <2>1. PICK n \in Nat \ {0} : Len(stack) = n + 1
    <3>1. l - 1 \in Nat \ {0} /\ l = (l - 1) + 1
      BY <1>2, <1>5
    <3> QED
      BY <1>0, <3>1
  <2>2. PICK f : f = [Parent EXCEPT !.found = Append(@, Top.node), !.cache = Parent.cache]
    OBVIOUS
  <2>3. stack' = PopInto(f) /\ outcome' = outcome
    BY <1>0, <1>5, <2>2 DEF ReturnNode, CacheAfterReturn
  <2>4. f \in Frame /\ f.name = Parent.name /\ f.cache = Parent.cache
    <3>1. Parent \in Frame
      BY <1>1, <2>1, ParentFacts
    <3>2. Append(Parent.found, Top.node) \in Seq(Nat \ {0})
      BY <1>1, <1>2, <3>1 DEF Frame
    <3> QED
      BY <2>2, <3>1, <3>2 DEF Frame
  <2>5. /\ Parent = stack[n] /\ stack'[n] = f /\ \A k \in 1..(n - 1) : stack'[k] = stack[k]
    BY <1>1, <2>1, <2>3, <2>4, PopShape
  <2>6. stack'[1].name = stack[1].name /\ stack'[1].cache = stack[1].cache
    BY <2>4, <2>5
  <2> QED
    BY <1>1, <1>3, <2>3, <2>6, KeepFirst
<1> QED
  BY <1>4, <1>5

LEMMA ReturnErrorAnswers ==
  ASSUME IInv, GInv, AnswerInv, ReturnError
  PROVE  AnswerInv'
<1>0. PICK l : l = Len(stack)
  OBVIOUS
<1>1. Running /\ Exhausted /\ UNCHANGED <<disk, request, nodes, root>>
  BY DEF ReturnError, Exhausted
<1>2. Top \in Frame /\ l \in Nat \ {0}
  BY <1>0, <1>1, RunningFacts, DemandsAssumption DEF IInv
<1>3. CASE l = 1
  <2>1. stack' = <<>> /\ outcome' = "error"
    BY <1>0, <1>3 DEF ReturnError
  <2>2. request = [name |-> Top.name, req |-> Top.req]
    BY <1>0, <1>1, <1>3, BottomIsRequest
  <2>3. ~Resolvable(disk, request)
    BY <1>1, <2>2, ReturnsHopeless
  <2> QED
    BY <1>1, <2>1, <2>3 DEF AnswerInv, FirstCall, Answered
<1>4. CASE l # 1
  <2>1. PICK n \in Nat \ {0} : Len(stack) = n + 1
    <3>1. l - 1 \in Nat \ {0} /\ l = (l - 1) + 1
      BY <1>2, <1>4
    <3> QED
      BY <1>0, <3>1
  <2>2. PICK f : f = [NextPath(Parent) EXCEPT !.cache = Parent.cache]
    OBVIOUS
  <2>3. stack' = PopInto(f) /\ outcome' = outcome
    BY <1>0, <1>4, <2>2 DEF ReturnError, CacheAfterReturn
  <2>4. f \in Frame /\ f.name = Parent.name /\ f.cache = Parent.cache
    <3>1. Parent \in Frame
      BY <1>1, <2>1, ParentFacts
    <3>2. NextPath(Parent) \in Frame /\ NextPath(Parent).name = Parent.name
      BY <3>1, NextPathType
    <3> QED
      BY <2>2, <3>1, <3>2 DEF Frame
  <2>5. /\ Parent = stack[n] /\ stack'[n] = f /\ \A k \in 1..(n - 1) : stack'[k] = stack[k]
    BY <1>1, <2>1, <2>3, <2>4, PopShape
  <2>6. stack'[1].name = stack[1].name /\ stack'[1].cache = stack[1].cache
    BY <2>4, <2>5
  <2>7. nodes # <<>>
    BY <1>0, <1>1, <1>4, CallersHaveNodes
  <2> QED
    BY <1>1, <2>3, <2>6, <2>7, KeepFirst
<1> QED
  BY <1>3, <1>4

LEMMA InitAnswers == Init => AnswerInv
<1> SUFFICES ASSUME Init
             PROVE  AnswerInv
  OBVIOUS
<1> PICK f : f = Call(request.name, request.req, EmptyCache)
  OBVIOUS
<1>1. nodes = <<>> /\ stack = <<f>> /\ outcome = "running"
  BY DEF Init, Start
<1>2. f.name \in Names /\ f.cache = [n \in Names |-> 0]
  BY DemandsAssumption DEF Init, Call, EmptyCache, RootDemand, Demand
<1>3. stack[1] = f
  BY <1>1
<1> QED
  BY <1>1, <1>2, <1>3 DEF AnswerInv, FirstCall, Answered

LEMMA NextAnswers == IInv /\ GInv /\ AnswerInv /\ [Next]_vars => AnswerInv'
<1> SUFFICES ASSUME IInv, GInv, AnswerInv, [Next]_vars
             PROVE  AnswerInv'
  OBVIOUS
<1>1. CASE LoadFails
  <2>0. PICK f : f = NextPath(Top)
    OBVIOUS
  <2>1. /\ Running /\ stack' = SetTop(f) /\ UNCHANGED <<disk, request, nodes, outcome>>
    BY <1>1, <2>0 DEF LoadFails, Trying
  <2>2. /\ stack \in Seq(Frame) /\ stack # <<>> /\ Len(stack) \in Nat \ {0}
        /\ Top = stack[Len(stack)] /\ Top \in Frame
    BY <2>1, RunningFacts, DemandsAssumption DEF IInv
  <2>3. f \in Frame /\ f.name = Top.name /\ f.cache = Top.cache
    BY <2>0, <2>2, NextPathType
  <2>4. /\ stack' # <<>> /\ stack'[Len(stack)] = f
        /\ \A k \in 1..(Len(stack) - 1) : stack'[k] = stack[k]
    BY <2>1, <2>2, <2>3, SetTopStack DEF SetTop
  <2>5. stack'[1].name = stack[1].name /\ stack'[1].cache = stack[1].cache
    BY <2>2, <2>3, <2>4
  <2> QED
    BY <2>1, <2>2, <2>5 DEF AnswerInv, FirstCall, Answered, Running
<1>2. CASE LoadThrows \/ ComparisonThrows \/ StackOverflow
  BY <1>2 DEF LoadThrows, ComparisonThrows, StackOverflow, AnswerInv, FirstCall, Answered
<1>3. CASE Reject
  <2>0. PICK f : f = [NextPath(Top) EXCEPT !.cache = Cache]
    OBVIOUS
  <2>1. Running /\ Trying /\ Loads /\ nodes' = Heap /\ stack' = SetTop(f) /\ outcome' = outcome
    BY <1>3, <2>0 DEF Reject, Trying
  <2>2. Top \in Frame /\ Cache \in [Names -> Nat]
    BY <2>1, RunningFacts, GetFacts DEF IInv
  <2>3. f \in Frame /\ f.name = Top.name /\ f.cache = Cache
    BY <2>0, <2>2, NextPathType DEF Frame
  <2> QED
    BY <2>1, <2>3, GotFirst
<1>4. CASE Accept
  <2>0. PICK f : f = [Top EXCEPT !.cache = Cache, !.node = Got,
                                 !.todo = Keys(GotPackage.require)]
    OBVIOUS
  <2>1. Running /\ Trying /\ Loads /\ nodes' = Heap /\ stack' = SetTop(f) /\ outcome' = outcome
    BY <1>4, <2>0 DEF Accept, Trying
  <2>2. /\ Top \in Frame /\ Cache \in [Names -> Nat] /\ Cache[Top.name] = Got
        /\ GotPackage \in Package
    BY <2>1, RunningFacts, GetFacts DEF IInv
  <2>3. Keys(GotPackage.require) \subseteq Names /\ Got \in Nat
    BY <2>2, RequireType DEF Frame
  <2>4. f \in Frame /\ f.name = Top.name /\ f.cache = Cache
    BY <2>0, <2>2, <2>3 DEF Frame
  <2> QED
    BY <2>1, <2>4, GotFirst
<1>5. CASE \E n \in Names : Descend(n)
  <2>1. PICK n \in Names : Descend(n)
    BY <1>5
  <2>2. PICK l : l = Len(stack)
    OBVIOUS
  <2>3. /\ l \in 1..StackLimit /\ Top = stack[l] /\ Top.node # 0
        /\ \A k \in 1..(l - 1) : stack'[k] = stack[k]
        /\ stack'[l].name = Top.name /\ stack'[l].cache = Top.cache
        /\ UNCHANGED <<disk, request, nodes, outcome, root>>
    BY <2>1, <2>2, DescendShape
  <2>4. stack'[1].name = stack[1].name /\ stack'[1].cache = stack[1].cache
    BY <2>3
  <2>5. Running
    BY <2>1 DEF Descend, Expanding
  <2>6. nodes # <<>>
    BY <2>3, <2>5, CallersHaveNodes
  <2> QED
    BY <2>3, <2>4, <2>5, <2>6, KeepFirst
<1>6. CASE ReturnNode
  BY <1>6, ReturnNodeAnswers
<1>7. CASE ReturnError
  BY <1>7, ReturnErrorAnswers
<1>8. CASE UNCHANGED vars
  BY <1>8 DEF vars, AnswerInv, FirstCall, Answered
<1> QED
  BY <1>1, <1>2, <1>3, <1>4, <1>5, <1>6, <1>7, <1>8 DEF Next

(* The root of the graph is the first node, made from the file the request  *)
(* names, and the answer is the one the files allow.                        *)
THEOREM RootIsFirst == Spec => []AnswerInv
BY InitAnswers, NextAnswers, InvariantHolds, BuiltHolds, PTL DEF Spec
=============================================================================
