------------------------ MODULE DependencyTreeProofs -------------------------
(***************************************************************************)
(* Proofs about DependencyTree, for every machine and every limit.         *)
(***************************************************************************)
EXTENDS DependencyTree, FiniteSetTheorems, SequenceTheorems, TLAPS

LEMMA NoPathIsNone == NoPath \notin Paths
BY DEF NoPath, Paths, Places

\* What a machine is made of.
LEMMA MachineType ==
    ASSUME sys \in System
    PROVE  /\ sys.root \in Paths
           /\ sys.pe \subseteq Paths
           /\ \A n \in Names : Resolve(n) \in Paths \cup {NoPath}
           /\ \A p \in Paths :
                /\ Imports(p) \in Seq(Names \cup {BadName})
                /\ Reached(p) \in Nat
                /\ Reached(p) <= Len(Imports(p))
                /\ \A k \in 1..Reached(p) : Imports(p)[k] \in Names \cup {BadName}
<1>1. /\ sys.root \in Paths /\ sys.pe \subseteq Paths
      /\ sys.table \in [Paths -> Table]
  BY DEF System
<1>2. ASSUME NEW n \in Names
      PROVE  Resolve(n) \in Paths \cup {NoPath}
  BY DEF Resolve, Paths, Places
<1>3. ASSUME NEW p \in Paths
      PROVE  /\ Imports(p) \in Seq(Names \cup {BadName})
             /\ Reached(p) \in Nat
             /\ Reached(p) <= Len(Imports(p))
             /\ \A k \in 1..Reached(p) : Imports(p)[k] \in Names \cup {BadName}
  <2>1. sys.table[p] \in Table
    BY <1>1
  <2>2. Imports(p) \in Seq(Names \cup {BadName})
    BY <2>1 DEF Table, Imports
  <2>3. Len(Imports(p)) \in Nat
    BY <2>2
  <2>4. Reached(p) \in Nat /\ Reached(p) <= Len(Imports(p))
    BY <2>3, LimitsAssumption DEF Reached
  <2> QED BY <2>2, <2>3, <2>4
<1> QED BY <1>1, <1>2, <1>3

\* The machine does not change while the report is made.
LEMMA MachineFrame ==
    ASSUME sys' = sys
    PROVE  /\ \A n : Resolve(n)' = Resolve(n)
           /\ \A p : Imports(p)' = Imports(p)
           /\ \A p : Reached(p)' = Reached(p)
           /\ Edges' = Edges
BY DEF Resolve, Imports, Reached, Edges

LEMMA InitType == Init => TypeOK
<1> SUFFICES ASSUME Init PROVE TypeOK
  OBVIOUS
<1>1. sys \in System
  BY SystemsAssumption DEF Init
<1>2. call \in Paths /\ stack \in Seq(Paths)
  <2>1. << >> \in Seq(Paths)
    BY EmptySeq
  <2>2. sys.root \in Paths
    BY <1>1, MachineType
  <2>3. stack = << >> /\ call = sys.root
    BY DEF Init
  <2> QED BY <2>1, <2>2, <2>3
<1>3. /\ row \in [Paths -> Nat \ {0}] /\ visited \subseteq Paths
      /\ nodes \in Nat /\ invalid \in Nat /\ missing \in Nat
  BY DEF Init
<1>4. cut \in BOOLEAN /\ done \in BOOLEAN
  BY Zenon DEF Init
<1> QED BY <1>1, <1>2, <1>3, <1>4 DEF TypeOK

\* What the image being read is.
LEMMA TopType ==
    ASSUME TypeOK, stack # << >>
    PROVE  /\ Len(stack) \in Nat \ {0}
           /\ Top \in Paths
           /\ Top = stack[Len(stack)]
<1>1. stack \in Seq(Paths) /\ Len(stack) \in Nat
  BY DEF TypeOK
<1>2. Len(stack) # 0
  BY <1>1, EmptySeq
<1> QED BY <1>1, <1>2 DEF Top

LEMMA StepType == TypeOK /\ [Next]_vars => TypeOK'
<1> SUFFICES ASSUME TypeOK, [Next]_vars PROVE TypeOK'
  OBVIOUS
<1>1. CASE Limit
  BY <1>1 DEF Limit, TypeOK
<1>2. CASE Revisit
  BY <1>2 DEF Revisit, TypeOK
<1>3. CASE VisitInvalid
  BY <1>3 DEF VisitInvalid, TypeOK
<1>4. CASE VisitImage
  BY <1>4 DEF VisitImage, TypeOK
<1>5. CASE Import
  <2>1. Top \in Paths
    BY <1>5, TopType DEF Import, Reading
  <2>2. row[Top] \in 1..Reached(Top)
    BY <1>5, <2>1, MachineType DEF Import, TypeOK
  <2>3. Imports(Top)[row[Top]] \in Names \cup {BadName}
    BY <2>1, <2>2, MachineType DEF TypeOK
  <2>4. row' \in [Paths -> Nat \ {0}]
    BY <1>5, <2>1 DEF Import, TypeOK
  <2>5. call' \in Paths \cup {NoPath} /\ invalid' \in Nat /\ missing' \in Nat
    BY <1>5, <2>3, MachineType DEF Import, Follow, TypeOK
  <2> QED BY <1>5, <2>4, <2>5 DEF Import, TypeOK
<1>6. CASE Return
  <2>1. stack' \in Seq(Paths)
    BY <1>6, TopType DEF Return, Reading, TypeOK
  <2> QED BY <1>6, <2>1 DEF Return, TypeOK
<1>7. CASE Summary
  BY <1>7 DEF Summary, TypeOK
<1>8. CASE UNCHANGED vars
  BY <1>8 DEF vars, TypeOK
<1> QED BY <1>1, <1>2, <1>3, <1>4, <1>5, <1>6, <1>7, <1>8 DEF Next

\* Type correctness of the traversal.
THEOREM TreeTypes == Spec => []TypeOK
BY InitType, StepType, PTL DEF Spec

-----------------------------------------------------------------------------
(***************************************************************************)
(* The limits.                                                             *)
(***************************************************************************)
LimitInv == IsFiniteSet(visited) /\ WithinLimits

LEMMA LimitStep == TypeOK /\ LimitInv /\ [Next]_vars => LimitInv'
<1> SUFFICES ASSUME TypeOK, LimitInv, [Next]_vars PROVE LimitInv'
  OBVIOUS
<1>a. /\ stack \in Seq(Paths) /\ Len(stack) \in Nat /\ nodes \in Nat
      /\ MaxDepth \in Nat /\ MaxNodes \in Nat
      /\ IsFiniteSet(visited) /\ Len(stack) <= MaxDepth + 1
      /\ nodes = Cardinality(visited) /\ nodes <= MaxNodes
  BY LimitsAssumption DEF TypeOK, LimitInv, WithinLimits
<1>1. ASSUME visited' = visited \cup {call}, call \notin visited, nodes' = nodes + 1, ~AtLimit
      PROVE  /\ IsFiniteSet(visited') /\ nodes' = Cardinality(visited')
             /\ nodes' <= MaxNodes
  BY <1>1, <1>a, FS_AddElement DEF AtLimit
<1>2. CASE VisitInvalid
  BY <1>2, <1>1, <1>a DEF VisitInvalid, LimitInv, WithinLimits
<1>3. CASE VisitImage
  <2>1. Len(stack') = Len(stack) + 1 /\ Len(stack) <= MaxDepth
    BY <1>3, <1>a DEF VisitImage, AtLimit, TypeOK
  <2> QED BY <1>3, <2>1, <1>1, <1>a DEF VisitImage, LimitInv, WithinLimits
<1>4. CASE Return
  <2>1. Len(stack') <= Len(stack)
    BY <1>4, <1>a, TopType DEF Return, Reading
  <2>2. Len(stack') \in Nat
    BY StepType DEF TypeOK
  <2> QED BY <1>4, <2>1, <2>2, <1>a DEF Return, LimitInv, WithinLimits
<1>5. CASE UNCHANGED <<stack, visited, nodes>>
  BY <1>5, <1>a DEF LimitInv, WithinLimits
<1> QED BY <1>2, <1>3, <1>4, <1>5
  DEF Next, Limit, Revisit, Import, Summary, vars

\* The recursion depth and the node count never exceed their limits, and the
\* node count is the number of files visited.
THEOREM TreeLimits == Spec => []WithinLimits
<1>1. Init => LimitInv
  BY FS_EmptySet, LimitsAssumption DEF Init, LimitInv, WithinLimits
<1>2. LimitInv => WithinLimits
  BY DEF LimitInv
<1> QED BY <1>1, <1>2, InitType, StepType, LimitStep, PTL DEF Spec
-----------------------------------------------------------------------------
(***************************************************************************)
(* The completeness of the report.                                         *)
(***************************************************************************)

\* The stack after a call and after a return.
LEMMA PushPop ==
    ASSUME TypeOK
    PROVE  /\ \A p \in Paths :
                /\ Len(Append(stack, p)) = Len(stack) + 1
                /\ Append(stack, p)[Len(stack) + 1] = p
                /\ \A i \in 1..Len(stack) : Append(stack, p)[i] = stack[i]
           /\ stack # << >> =>
                LET s == SubSeq(stack, 1, Len(stack) - 1) IN
                /\ Len(s) = Len(stack) - 1
                /\ \A i \in 1..(Len(stack) - 1) : s[i] = stack[i]
<1>1. stack \in Seq(Paths) /\ Len(stack) \in Nat
  BY DEF TypeOK
<1>2. stack # << >> => Len(stack) \in Nat \ {0}
  BY <1>1, EmptySeq
<1>3. ASSUME NEW p \in Paths
      PROVE  /\ Len(Append(stack, p)) = Len(stack) + 1
             /\ Append(stack, p)[Len(stack) + 1] = p
             /\ \A i \in 1..Len(stack) : Append(stack, p)[i] = stack[i]
  BY <1>1
<1>4. ASSUME stack # << >>
      PROVE  LET s == SubSeq(stack, 1, Len(stack) - 1) IN
             /\ Len(s) = Len(stack) - 1
             /\ \A i \in 1..(Len(stack) - 1) : s[i] = stack[i]
  <2>1. PICK n \in Nat : n = Len(stack) - 1
    BY <1>2, <1>4
  <2>2. \A i \in 1..n : stack[i] \in Paths
    BY <1>1, <2>1
  <2>3. /\ Len(SubSeq(stack, 1, n)) = IF 1 <= n THEN n - 1 + 1 ELSE 0
        /\ \A i \in 1..(n - 1 + 1) : SubSeq(stack, 1, n)[i] = stack[1 + i - 1]
    BY <2>2, SubSeqProperties
  <2>4. /\ Len(SubSeq(stack, 1, n)) = n
        /\ \A i \in 1..n : SubSeq(stack, 1, n)[i] = stack[i]
    BY <2>3
  <2> QED BY <2>1, <2>4
<1> QED BY <1>3, <1>4

\* Reading a descriptor.
LEMMA ImportStep ==
    ASSUME TypeOK, TreeInv, Import
    PROVE  TreeInv'
<1>a. /\ stack # << >> /\ call = NoPath
      /\ sys' = sys /\ stack' = stack /\ visited' = visited /\ cut' = cut /\ done' = done
      /\ row' = [row EXCEPT ![Top] = row[Top] + 1]
      /\ row[Top] <= Reached(Top)
  BY DEF Import, Reading
<1>b. /\ row \in [Paths -> Nat \ {0}] /\ visited \subseteq Paths /\ sys \in System
  BY DEF TypeOK
<1>c. Top \in Paths /\ Len(stack) \in Nat \ {0} /\ Top = stack[Len(stack)]
  BY <1>a, TopType
<1>d. Top \in visited \cap sys.pe
  BY <1>c DEF TreeInv, StackInv
<1>e. /\ \A n : Resolve(n)' = Resolve(n)
      /\ \A p : Imports(p)' = Imports(p)
      /\ \A p : Reached(p)' = Reached(p)
      /\ Edges' = Edges
  BY <1>a, MachineFrame
<1>f. row[Top] \in 1..Reached(Top) /\ Reached(Top) \in Nat
  BY <1>a, <1>b, <1>c, MachineType
<1> DEFINE n == Imports(Top)[row[Top]]
<1>g. n \in Names \cup {BadName}
  BY <1>b, <1>c, <1>f, MachineType
<1>h. \/ (n = BadName \/ Resolve(n) = NoPath) /\ call' = NoPath
      \/ n # BadName /\ Resolve(n) # NoPath /\ call' = Resolve(n)
  BY <1>a DEF Import, Follow
<1>1. StackInv'
  BY <1>a DEF TreeInv, StackInv
<1>2. CallInv'
  <2>1. CASE call' = NoPath
    BY <2>1 DEF CallInv
  <2>2. CASE call' # NoPath
    <3>1. call' = Resolve(n) /\ n # BadName /\ call' \in Paths
      BY <2>2, <1>b, <1>g, <1>h, MachineType
    <3>2. <<Top, call'>> \in sys.pe \X Paths
      BY <3>1, <1>d
    <3>3. <<Top, call'>> \in Edges
      BY <3>1, <3>2, <1>f DEF Edges
    <3>4. Top' = Top
      BY <1>a DEF Top
    <3> QED BY <3>3, <3>4, <1>a, <1>e DEF CallInv
  <2> QED BY <2>1, <2>2
<1>5. FreshInv'
  BY <1>a, <1>b, <1>d DEF TreeInv, FreshInv
<1>3. DoneInv'
  BY <1>a DEF TreeInv, DoneInv
<1>4. CoverInv'
  <2>1. (cut \/ sys.root \in visited \cup {call})'
    <3>1. cut \/ sys.root \in visited \cup {NoPath}
      BY <1>a DEF TreeInv, CoverInv
    <3> QED BY <3>1, <1>a, <1>b, MachineType, NoPathIsNone
  <2>2. ASSUME NEW p \in visited \cap sys.pe
        PROVE  /\ cut \/ Handled(p)'
               /\ row'[p] > Reached(p) \/ \E i \in 1..Len(stack) : stack[i] = p
    <3>1. p \in Paths /\ Reached(p) \in Nat
      BY <2>2, <1>b, MachineType
    <3>2. /\ cut \/ Handled(p)
          /\ row[p] > Reached(p) \/ \E i \in 1..Len(stack) : stack[i] = p
      BY <2>2 DEF TreeInv, CoverInv
    <3>3. CASE p = Top
      <4>1. row'[p] = row[p] + 1
        BY <3>3, <1>a, <1>b, <3>1
      <4>2. \E i \in 1..Len(stack) : stack[i] = p
        BY <3>3, <1>c
      <4>3. ASSUME ~cut, NEW k \in 1..Reached(p), k < row'[p],
                   Imports(p)[k] # BadName, Resolve(Imports(p)[k]) # NoPath
            PROVE  Resolve(Imports(p)[k]) \in visited \cup {call'}
        <5>1. CASE k = row[p]
          BY <5>1, <4>3, <3>3, <1>h
        <5>2. CASE k # row[p]
          <6>1. k < row[p]
            BY <5>2, <4>1, <4>3, <1>f, <3>3
          <6>2. Resolve(Imports(p)[k]) \in visited \cup {call}
            BY <6>1, <4>3, <3>2 DEF Handled
          <6> QED BY <6>2, <4>3, <1>a
        <5> QED BY <5>1, <5>2
      <4> QED BY <4>2, <4>3, <1>a, <1>e DEF Handled
    <3>4. CASE p # Top
      <4>1. row'[p] = row[p]
        BY <3>4, <1>a, <1>b, <3>1
      <4> QED BY <4>1, <3>2, <1>a, <1>e DEF Handled
    <3> QED BY <3>3, <3>4
  <2> QED BY <2>1, <2>2, <1>a, <1>e DEF CoverInv
<1> QED BY <1>1, <1>2, <1>3, <1>4, <1>5 DEF TreeInv

\* Visit returns from an image.
LEMMA ReturnStep ==
    ASSUME TypeOK, TreeInv, Return
    PROVE  TreeInv'
<1>a. /\ stack # << >> /\ call = NoPath /\ call' = NoPath
      /\ sys' = sys /\ row' = row /\ visited' = visited /\ cut' = cut /\ done' = done
      /\ stack' = SubSeq(stack, 1, Len(stack) - 1)
      /\ row[Top] > Reached(Top)
  BY DEF Return, Reading
<1>b. /\ Len(stack) \in Nat \ {0} /\ Top = stack[Len(stack)]
      /\ Len(stack') = Len(stack) - 1
      /\ \A i \in 1..(Len(stack) - 1) : stack'[i] = stack[i]
  BY <1>a, TopType, PushPop
<1>e. /\ \A n : Resolve(n)' = Resolve(n)
      /\ \A p : Imports(p)' = Imports(p)
      /\ \A p : Reached(p)' = Reached(p)
  BY <1>a, MachineFrame
<1>1. StackInv'
  BY <1>a, <1>b DEF TreeInv, StackInv
<1>2. CallInv'
  BY <1>a DEF CallInv
<1>5. FreshInv'
  BY <1>a DEF TreeInv, FreshInv
<1>3. DoneInv'
  BY <1>a DEF TreeInv, DoneInv
<1>4. CoverInv'
  <2>1. (cut \/ sys.root \in visited \cup {call})'
    BY <1>a DEF TreeInv, CoverInv
  <2>2. ASSUME NEW p \in visited \cap sys.pe
        PROVE  /\ cut \/ Handled(p)'
               /\ row[p] > Reached(p) \/ \E i \in 1..Len(stack') : stack'[i] = p
    <3>1. /\ cut \/ Handled(p)
          /\ row[p] > Reached(p) \/ \E i \in 1..Len(stack) : stack[i] = p
      BY <2>2 DEF TreeInv, CoverInv
    <3>2. ASSUME NEW i \in 1..Len(stack), stack[i] = p
          PROVE  row[p] > Reached(p) \/ \E j \in 1..Len(stack') : stack'[j] = p
      <4>1. CASE i = Len(stack)
        BY <4>1, <3>2, <1>a, <1>b
      <4>2. CASE i # Len(stack)
        <5>1. i \in 1..Len(stack') /\ stack'[i] = p
          BY <4>2, <3>2, <1>b
        <5> QED BY <5>1
      <4> QED BY <4>1, <4>2
    <3>3. Handled(p)' <=> Handled(p)
      BY <1>a, <1>e DEF Handled
    <3> QED BY <3>1, <3>2, <3>3
  <2> QED BY <2>1, <2>2, <1>a, <1>e DEF CoverInv
<1> QED BY <1>1, <1>2, <1>3, <1>4, <1>5 DEF TreeInv

\* Visit is entered: the path becomes visited, and read when it is an image.
LEMMA VisitStep ==
    ASSUME TypeOK, TreeInv, VisitInvalid \/ VisitImage
    PROVE  TreeInv'
<1>a. /\ call # NoPath /\ call \notin visited /\ call' = NoPath
      /\ sys' = sys /\ row' = row /\ cut' = cut /\ done' = done
      /\ visited' = visited \cup {call}
      /\ \/ stack' = stack /\ call \notin sys.pe
         \/ stack' = Append(stack, call) /\ call \in sys.pe
  BY DEF VisitInvalid, VisitImage
<1>b. /\ Len(stack) \in Nat /\ call \in Paths
      /\ \A i \in 1..Len(stack) : i \in 1..Len(stack') /\ stack'[i] = stack[i]
      /\ call \in sys.pe => /\ Len(stack') = Len(stack) + 1
                            /\ stack'[Len(stack) + 1] = call
  BY <1>a, PushPop DEF TypeOK
<1>e. /\ \A n : Resolve(n)' = Resolve(n)
      /\ \A p : Imports(p)' = Imports(p)
      /\ \A p : Reached(p)' = Reached(p)
  BY <1>a, MachineFrame
<1>1. StackInv'
  <2>1. CASE call \in sys.pe
    BY <2>1, <1>a, <1>b DEF TreeInv, StackInv
  <2>2. CASE call \notin sys.pe
    BY <2>2, <1>a DEF TreeInv, StackInv
  <2> QED BY <2>1, <2>2
<1>2. CallInv'
  BY <1>a DEF CallInv
<1>5. FreshInv'
  BY <1>a DEF TreeInv, FreshInv
<1>3. DoneInv'
  BY <1>a DEF TreeInv, DoneInv
<1>4. CoverInv'
  <2>1. (cut \/ sys.root \in visited \cup {call})'
    BY <1>a DEF TreeInv, CoverInv
  <2>2. ASSUME NEW p \in visited' \cap sys.pe
        PROVE  /\ cut \/ Handled(p)'
               /\ row[p] > Reached(p) \/ \E i \in 1..Len(stack') : stack'[i] = p
    <3>1. CASE p = call
      <4>1. Len(stack) + 1 \in 1..Len(stack') /\ stack'[Len(stack) + 1] = p
        BY <3>1, <2>2, <1>b
      <4>2. ASSUME ~cut
            PROVE  Handled(p)'
        \* A file that was not visited before has not been read.
        <5>1. row[p] = 1
          BY <3>1, <1>a, <1>b DEF TreeInv, FreshInv
        <5>2. Reached(p)' = Reached(p) /\ Reached(p) \in Nat
          BY <1>b, <1>e, <3>1, MachineType DEF TypeOK
        <5> QED BY <5>1, <5>2, <1>a DEF Handled
      <4> QED BY <4>1, <4>2
    <3>2. CASE p # call
      <4>1. p \in visited \cap sys.pe
        BY <3>2, <2>2, <1>a
      <4>2. /\ cut \/ Handled(p)
            /\ row[p] > Reached(p) \/ \E i \in 1..Len(stack) : stack[i] = p
        BY <4>1 DEF TreeInv, CoverInv
      <4>3. Handled(p) => Handled(p)'
        BY <1>a, <1>e DEF Handled
      <4> QED BY <4>2, <4>3, <1>b
    <3> QED BY <3>1, <3>2
  <2> QED BY <2>1, <2>2, <1>a, <1>e DEF CoverInv
<1> QED BY <1>1, <1>2, <1>3, <1>4, <1>5 DEF TreeInv

LEMMA TreeStep == TypeOK /\ TreeInv /\ [Next]_vars => TreeInv'
<1> SUFFICES ASSUME TypeOK, TreeInv, [Next]_vars PROVE TreeInv'
  OBVIOUS
<1>1. ASSUME call' = NoPath \/ call' = call, sys' = sys, row' = row,
             stack' = stack, visited' = visited,
             cut' \/ (cut' = cut /\ (call' = call \/ call \in visited)),
             cut => cut',
             done' => call' = NoPath /\ stack = << >>
      PROVE  TreeInv'
  <2>e. /\ \A n : Resolve(n)' = Resolve(n)
        /\ \A p : Imports(p)' = Imports(p)
        /\ \A p : Reached(p)' = Reached(p)
        /\ Edges' = Edges
    BY <1>1, MachineFrame
  <2>1. StackInv' /\ FreshInv'
    BY <1>1 DEF TreeInv, StackInv, FreshInv
  <2>2. CallInv'
    BY <1>1, <2>e DEF TreeInv, CallInv, Top
  <2>3. DoneInv'
    BY <1>1 DEF DoneInv
  <2>4. CoverInv'
    <3>1. (cut \/ sys.root \in visited \cup {call})'
      BY <1>1 DEF TreeInv, CoverInv
    <3>2. ASSUME NEW p \in visited \cap sys.pe
          PROVE  /\ cut' \/ Handled(p)'
                 /\ row[p] > Reached(p) \/ \E i \in 1..Len(stack) : stack[i] = p
      BY <1>1, <2>e, <3>2 DEF TreeInv, CoverInv, Handled
    <3> QED BY <1>1, <2>e, <3>1, <3>2 DEF CoverInv
  <2> QED BY <2>1, <2>2, <2>3, <2>4 DEF TreeInv
<1>2. CASE Limit
  BY <1>2, <1>1 DEF Limit, TreeInv, DoneInv, TypeOK
<1>3. CASE Revisit
  BY <1>3, <1>1 DEF Revisit, TreeInv, DoneInv
<1>4. CASE Summary
  BY <1>4, <1>1 DEF Summary
<1>5. CASE UNCHANGED vars
  BY <1>5, <1>1 DEF vars, TreeInv, DoneInv
<1> QED BY <1>2, <1>3, <1>4, <1>5, ImportStep, ReturnStep, VisitStep DEF Next

LEMMA TreeInit == Init => TreeInv
<1> SUFFICES ASSUME Init PROVE TreeInv
  OBVIOUS
<1>1. Len(stack) = 0
  BY EmptySeq DEF Init
<1>2. sys.root \in Paths
  BY SystemsAssumption, MachineType DEF Init
<1> QED BY <1>1, <1>2 DEF Init, TreeInv, StackInv, CallInv, FreshInv, DoneInv, CoverInv

\* When the outermost call has returned, every visited table has been read.
LEMMA EndClosed ==
    ASSUME TypeOK, TreeInv, call = NoPath, stack = << >>, ~cut
    PROVE  /\ sys.root \in visited
           /\ \A p \in visited, q \in Paths : <<p, q>> \in Edges => q \in visited
<1>1. sys.root \in visited
  BY MachineType, NoPathIsNone DEF TreeInv, CoverInv, TypeOK
<1>2. Len(stack) = 0
  BY EmptySeq
<1>3. ASSUME NEW p \in visited, NEW q \in Paths, <<p, q>> \in Edges
      PROVE  q \in visited
  <2>1. p \in sys.pe
    BY <1>3 DEF Edges
  <2>2. PICK k \in 1..Reached(p) : Imports(p)[k] # BadName /\ Resolve(Imports(p)[k]) = q
    BY <1>3 DEF Edges
  <2>3. row[p] > Reached(p) /\ Handled(p)
    BY <2>1, <1>2 DEF TreeInv, CoverInv
  <2>4. p \in Paths /\ row[p] \in Nat /\ Reached(p) \in Nat
    BY MachineType DEF TypeOK
  <2>5. k < row[p] /\ q # NoPath
    BY <2>3, <2>4, NoPathIsNone
  <2> QED BY <2>2, <2>3, <2>5 DEF Handled
<1> QED BY <1>1, <1>3

\* A report without a LIMIT line names the root and everything below it.
THEOREM TreeComplete == Spec => []Complete
<1>1. TypeOK /\ TreeInv => Complete
  BY EndClosed DEF Complete, TreeInv, DoneInv
<1> QED BY <1>1, InitType, TreeInit, StepType, TreeStep, PTL DEF Spec

\* The traversal implements ImportClosure: it reports only modules the root
\* needs, each once, and calls itself complete only when none is missing.
THEOREM TreeImplements == Spec => Implements
<1>1. Init => Report!Init
  BY SystemsAssumption, MachineType DEF Init, Report!Init, Edges
<1>2. TypeOK /\ TreeInv /\ [Next]_vars => [Report!Next]_Report!vars
  <2> SUFFICES ASSUME TypeOK, TreeInv, [Next]_vars
               PROVE  [Report!Next]_Report!vars
    OBVIOUS
  <2>a. sys' = sys => sys.root' = sys.root /\ Edges' = Edges
    BY MachineFrame
  <2>1. CASE VisitInvalid \/ VisitImage
    <3>1. /\ call \in Paths /\ call \notin visited /\ visited' = visited \cup {call}
          /\ sys' = sys /\ cut' = cut /\ done' = done /\ ~done
      BY <2>1 DEF VisitInvalid, VisitImage, TypeOK, TreeInv, DoneInv
    <3>2. call = sys.root \/ \E p \in visited : <<p, call>> \in Edges
      <4>1. CASE stack = << >>
        BY <4>1, <3>1, NoPathIsNone DEF TreeInv, CallInv
      <4>2. CASE stack # << >>
        <5>1. <<Top, call>> \in Edges
          BY <4>2, <3>1, NoPathIsNone DEF TreeInv, CallInv
        <5>2. Top \in visited
          BY <4>2, TopType DEF TreeInv, StackInv
        <5> QED BY <5>1, <5>2
      <4> QED BY <4>1, <4>2
    <3>3. Report!Discover(call)
      BY <3>1, <3>2, <2>a DEF Report!Discover
    <3> QED BY <3>1, <3>3 DEF Report!Next
  <2>2. CASE Summary
    <3>1. /\ call = NoPath /\ stack = << >> /\ ~done /\ done'
          /\ sys' = sys /\ visited' = visited /\ cut' = cut
      BY <2>2 DEF Summary
    <3>2. ~cut => sys.root \in visited /\ Report!Closed(visited)
      BY <3>1, EndClosed DEF Report!Closed
    <3>3. Report!Conclude
      BY <3>1, <3>2, <2>a DEF Report!Conclude
    <3> QED BY <3>3 DEF Report!Next
  <2>3. CASE Limit \/ Revisit \/ Import \/ Return \/ UNCHANGED vars
    <3>1. /\ sys' = sys /\ visited' = visited /\ done' = done
          /\ done => cut' = cut
      BY <2>3 DEF Limit, Revisit, Import, Return, Reading, vars, TreeInv, DoneInv
    <3> QED BY <3>1, <2>a DEF Report!vars
  <2> QED BY <2>1, <2>2, <2>3 DEF Next
<1> QED BY <1>1, <1>2, InitType, TreeInit, StepType, TreeStep, PTL DEF Spec, Implements, Report!Spec

-----------------------------------------------------------------------------
(***************************************************************************)
(* The counters of the summary.                                            *)
(***************************************************************************)
ImagesRead == visited \cap sys.pe

\* The descriptors that have been read, those among them that are no names,
\* and those whose name is found nowhere.
EntriesRead == {e \in ImagesRead \X (1..MaxImports) : e[2] <= Reached(e[1]) /\ e[2] < row[e[1]]}
BadRead == {e \in EntriesRead : Imports(e[1])[e[2]] = BadName}
LostRead == {e \in EntriesRead \ BadRead : Resolve(Imports(e[1])[e[2]]) = NoPath}

OnStack(p) == \E i \in 1..Len(stack) : stack[i] = p
BrokenEnded == {p \in ImagesRead : Broken(p) /\ ~OnStack(p)}

\* The counters tell what has been read so far; a table that breaks off is
\* counted when its image leaves the stack, which it entered once.
SummaryInv ==
    /\ IsFiniteSet(visited)
    /\ invalid = Cardinality(visited \ sys.pe) + Cardinality(BadRead) + Cardinality(BrokenEnded)
    /\ missing = Cardinality(LostRead)
    /\ \A i, j \in 1..Len(stack) : stack[i] = stack[j] => i = j

LEMMA CountedFinite ==
    ASSUME IsFiniteSet(visited)
    PROVE  /\ IsFiniteSet(visited \ sys.pe) /\ IsFiniteSet(ImagesRead)
           /\ IsFiniteSet(BadRead) /\ IsFiniteSet(LostRead) /\ IsFiniteSet(BrokenEnded)
           /\ Cardinality(visited \ sys.pe) \in Nat /\ Cardinality(BadRead) \in Nat
           /\ Cardinality(LostRead) \in Nat /\ Cardinality(BrokenEnded) \in Nat
<1>1. IsFiniteSet(visited \ sys.pe) /\ IsFiniteSet(ImagesRead)
  BY FS_Subset DEF ImagesRead
<1>2. IsFiniteSet(1..MaxImports)
  BY FS_Interval, LimitsAssumption
<1>3. IsFiniteSet(ImagesRead \X (1..MaxImports))
  BY <1>1, <1>2, FS_Product
<1>4. /\ BadRead \subseteq ImagesRead \X (1..MaxImports)
      /\ LostRead \subseteq ImagesRead \X (1..MaxImports)
      /\ BrokenEnded \subseteq ImagesRead
  BY DEF BadRead, LostRead, EntriesRead, BrokenEnded
<1>5. IsFiniteSet(BadRead) /\ IsFiniteSet(LostRead) /\ IsFiniteSet(BrokenEnded)
  BY <1>1, <1>3, <1>4, FS_Subset
<1> QED BY <1>1, <1>5, FS_CardinalityType

\* What has been read after a step that reads nothing and finds no image.
LEMMA CountedFrame ==
    ASSUME sys' = sys, row' = row, visited' \cap sys.pe = visited \cap sys.pe
    PROVE  /\ ImagesRead' = ImagesRead /\ EntriesRead' = EntriesRead
           /\ BadRead' = BadRead /\ LostRead' = LostRead
           /\ stack' = stack => BrokenEnded' = BrokenEnded
<1>1. /\ \A n : Resolve(n)' = Resolve(n)
      /\ \A p : Imports(p)' = Imports(p)
      /\ \A p : Reached(p)' = Reached(p)
      /\ \A p : Broken(p)' = Broken(p)
  BY MachineFrame DEF Broken
<1>2. ImagesRead' = ImagesRead
  BY DEF ImagesRead
<1>3. EntriesRead' = EntriesRead
  BY <1>1, <1>2 DEF EntriesRead
<1>4. BadRead' = BadRead
  BY <1>1, <1>3 DEF BadRead
<1>5. LostRead' = LostRead
  BY <1>1, <1>3, <1>4 DEF LostRead
<1>6. ASSUME stack' = stack PROVE BrokenEnded' = BrokenEnded
  BY <1>1, <1>2, <1>6 DEF BrokenEnded, OnStack
<1> QED BY <1>2, <1>3, <1>4, <1>5, <1>6

LEMMA SummaryInit == Init => SummaryInv
<1> SUFFICES ASSUME Init PROVE SummaryInv
  OBVIOUS
<1>1. visited = {} /\ invalid = 0 /\ missing = 0 /\ Len(stack) = 0
  BY EmptySeq DEF Init
<1>2. visited \ sys.pe = {} /\ BadRead = {} /\ LostRead = {} /\ BrokenEnded = {}
  BY <1>1 DEF BadRead, LostRead, EntriesRead, BrokenEnded, ImagesRead
<1>3. Cardinality({}) = 0 /\ IsFiniteSet({})
  BY FS_EmptySet
<1> QED BY <1>1, <1>2, <1>3 DEF SummaryInv

LEMMA SummaryVisitInvalid == ASSUME TypeOK, SummaryInv, VisitInvalid PROVE SummaryInv'
<1>1. /\ sys' = sys /\ row' = row /\ stack' = stack /\ missing' = missing
      /\ visited' = visited \cup {call} /\ call \notin visited /\ call \notin sys.pe
      /\ invalid' = invalid + 1
  BY DEF VisitInvalid
<1>2. visited' \cap sys.pe = visited \cap sys.pe
      /\ visited' \ sys.pe = (visited \ sys.pe) \cup {call} /\ call \notin visited \ sys.pe
  BY <1>1
<1>3. IsFiniteSet(visited') /\ Cardinality(visited' \ sys.pe) = Cardinality(visited \ sys.pe) + 1
  BY <1>1, <1>2, CountedFinite, FS_AddElement DEF SummaryInv
<1>4. BadRead' = BadRead /\ LostRead' = LostRead /\ BrokenEnded' = BrokenEnded
  BY <1>1, <1>2, CountedFrame
<1> QED BY <1>1, <1>3, <1>4, CountedFinite DEF SummaryInv

LEMMA SummaryVisitImage == ASSUME TypeOK, TreeInv, SummaryInv, VisitImage PROVE SummaryInv'
<1>1. /\ sys' = sys /\ row' = row /\ stack' = Append(stack, call)
      /\ missing' = missing /\ invalid' = invalid
      /\ visited' = visited \cup {call} /\ call \notin visited /\ call \in sys.pe
      /\ call \in Paths /\ Len(stack) \in Nat
  BY DEF VisitImage, TypeOK
<1>2. /\ Len(stack') = Len(stack) + 1 /\ stack'[Len(stack) + 1] = call
      /\ \A i \in 1..Len(stack) : stack'[i] = stack[i]
  BY <1>1, PushPop
<1>3. \A i \in 1..Len(stack) : stack[i] # call
  BY <1>1 DEF TreeInv, StackInv
<1>4. /\ \A n : Resolve(n)' = Resolve(n)
      /\ \A p : Imports(p)' = Imports(p)
      /\ \A p : Reached(p)' = Reached(p)
      /\ \A p : Broken(p)' = Broken(p)
  BY <1>1, MachineFrame DEF Broken
<1>5. ImagesRead' = ImagesRead \cup {call} /\ row[call] = 1
  BY <1>1 DEF ImagesRead, TreeInv, FreshInv
<1>6. EntriesRead' = EntriesRead
  <2>1. \A k \in 1..MaxImports : ~(k < row[call])
    BY <1>5, LimitsAssumption
  <2> QED BY <1>1, <1>4, <1>5, <2>1 DEF EntriesRead
<1>7. BadRead' = BadRead /\ LostRead' = LostRead
  BY <1>4, <1>6 DEF BadRead, LostRead
<1>8. /\ Len(stack) + 1 \in 1..Len(stack')
      /\ \A i \in 1..Len(stack) : i \in 1..Len(stack')
      /\ \A i \in 1..Len(stack') : i \in 1..Len(stack) \/ i = Len(stack) + 1
  BY <1>1, <1>2
<1>9. \A p : OnStack(p)' <=> OnStack(p) \/ p = call
  BY <1>2, <1>8 DEF OnStack
<1>10. BrokenEnded' = BrokenEnded
  BY <1>4, <1>5, <1>9, <1>1 DEF BrokenEnded, ImagesRead
<1>11. visited' \ sys.pe = visited \ sys.pe /\ IsFiniteSet(visited')
  BY <1>1, FS_AddElement DEF SummaryInv
<1>12. \A i, j \in 1..Len(stack') : stack'[i] = stack'[j] => i = j
  BY <1>2, <1>3, <1>8 DEF SummaryInv
<1> QED BY <1>1, <1>7, <1>10, <1>11, <1>12 DEF SummaryInv

LEMMA SummaryImport == ASSUME TypeOK, TreeInv, SummaryInv, Import PROVE SummaryInv'
<1>1. /\ stack # << >> /\ sys' = sys /\ stack' = stack /\ visited' = visited
      /\ row' = [row EXCEPT ![Top] = row[Top] + 1]
      /\ row[Top] <= Reached(Top) /\ Follow(Imports(Top)[row[Top]])
      /\ row \in [Paths -> Nat \ {0}]
  BY DEF Import, Reading, TypeOK
<1> DEFINE e == <<Top, row[Top]>>
           n == Imports(Top)[row[Top]]
<1>2. Top \in Paths /\ Top \in ImagesRead
  BY <1>1, TopType DEF TreeInv, StackInv, ImagesRead
<1>3. Reached(Top) \in Nat /\ Reached(Top) <= MaxImports
  BY <1>2, MachineType, LimitsAssumption DEF TypeOK, Reached
<1>4. row[Top] \in 1..MaxImports
  BY <1>1, <1>2, <1>3, LimitsAssumption
<1>5. /\ \A m : Resolve(m)' = Resolve(m)
      /\ \A p : Imports(p)' = Imports(p)
      /\ \A p : Reached(p)' = Reached(p)
      /\ \A p : Broken(p)' = Broken(p)
  BY <1>1, MachineFrame DEF Broken
<1>6. ImagesRead' = ImagesRead /\ ImagesRead \subseteq Paths
  BY <1>1 DEF ImagesRead, TypeOK
<1>7. BrokenEnded' = BrokenEnded
  BY <1>1, <1>5, <1>6 DEF BrokenEnded, OnStack
<1>8. EntriesRead' = EntriesRead \cup {e} /\ e \notin EntriesRead
  <2>1. ASSUME NEW p \in ImagesRead, NEW k \in 1..MaxImports
        PROVE  k < row'[p] <=> k < row[p] \/ <<p, k>> = e
    <3>1. row[p] \in Nat /\ k \in Nat
      BY <1>1, <1>6
    <3>2. CASE p = Top
      <4>1. row'[p] = row[p] + 1
        BY <1>1, <1>2, <3>2
      <4> QED BY <3>1, <3>2, <4>1
    <3>3. CASE p # Top
      BY <1>1, <1>6, <3>3
    <3> QED BY <3>2, <3>3
  <2>2. EntriesRead' = {x \in ImagesRead \X (1..MaxImports) :
                          x[2] <= Reached(x[1]) /\ x[2] < row'[x[1]]}
    BY <1>5, <1>6 DEF EntriesRead
  <2>3. e \in ImagesRead \X (1..MaxImports) /\ e[2] <= Reached(e[1]) /\ ~(e[2] < row[e[1]])
    BY <1>1, <1>2, <1>4
  <2>4. \A x \in ImagesRead \X (1..MaxImports) :
          x[2] < row'[x[1]] <=> x[2] < row[x[1]] \/ x = e
    BY <2>1
  <2> HIDE DEF e
  <2> QED BY <2>2, <2>3, <2>4 DEF EntriesRead
<1>9. Imports(e[1])[e[2]] = n
  OBVIOUS
<1> HIDE DEF e, n
<1>10. CASE n = BadName
  <2>1. BadRead' = BadRead \cup {e} /\ e \notin BadRead
    BY <1>5, <1>8, <1>9, <1>10 DEF BadRead
  <2>2. LostRead' = LostRead
    BY <1>5, <1>8, <1>9, <1>10, <2>1 DEF LostRead
  <2>3. invalid' = invalid + 1 /\ missing' = missing
    BY <1>1, <1>10 DEF Follow, n
  <2>4. Cardinality(BadRead') = Cardinality(BadRead) + 1
    BY <2>1, CountedFinite, FS_AddElement DEF SummaryInv
  <2> QED BY <1>1, <1>7, <2>2, <2>3, <2>4, CountedFinite DEF SummaryInv
<1>11. CASE n # BadName
  <2>1. BadRead' = BadRead
    BY <1>5, <1>8, <1>9, <1>11 DEF BadRead
  <2>2. CASE Resolve(n) = NoPath
    <3>1. LostRead' = LostRead \cup {e} /\ e \notin LostRead
      BY <1>5, <1>8, <1>9, <1>11, <2>1, <2>2 DEF LostRead, BadRead
    <3>2. missing' = missing + 1 /\ invalid' = invalid
      BY <1>1, <1>11, <2>2 DEF Follow, n
    <3>3. Cardinality(LostRead') = Cardinality(LostRead) + 1
      BY <3>1, CountedFinite, FS_AddElement DEF SummaryInv
    <3> QED BY <1>1, <1>7, <2>1, <3>2, <3>3, CountedFinite DEF SummaryInv
  <2>3. CASE Resolve(n) # NoPath
    <3>1. LostRead' = LostRead
      BY <1>5, <1>8, <1>9, <1>11, <2>1, <2>3 DEF LostRead
    <3>2. missing' = missing /\ invalid' = invalid
      BY <1>1, <1>11, <2>3 DEF Follow, n
    <3> QED BY <1>1, <1>7, <2>1, <3>1, <3>2 DEF SummaryInv
  <2> QED BY <2>2, <2>3
<1> QED BY <1>10, <1>11

LEMMA SummaryReturn == ASSUME TypeOK, TreeInv, SummaryInv, Return PROVE SummaryInv'
<1>1. /\ stack # << >> /\ sys' = sys /\ row' = row /\ visited' = visited /\ missing' = missing
      /\ stack' = SubSeq(stack, 1, Len(stack) - 1)
      /\ invalid' = IF Broken(Top) THEN invalid + 1 ELSE invalid
  BY DEF Return, Reading
<1>2. /\ Len(stack) \in Nat \ {0} /\ Top = stack[Len(stack)]
      /\ Len(stack') = Len(stack) - 1
      /\ \A i \in 1..(Len(stack) - 1) : stack'[i] = stack[i]
  BY <1>1, TopType, PushPop
<1>3. BadRead' = BadRead /\ LostRead' = LostRead /\ ImagesRead' = ImagesRead
  BY <1>1, CountedFrame
<1>4. \A i \in 1..Len(stack) : i \in 1..Len(stack') \/ i = Len(stack)
  BY <1>2
<1>5. \A i \in 1..Len(stack') : i \in 1..Len(stack) /\ i # Len(stack) /\ stack'[i] = stack[i]
  BY <1>2
<1>6. Len(stack) \in 1..Len(stack)
  BY <1>2
<1>7. \A p : OnStack(p)' <=> OnStack(p) /\ p # Top
  <2>1. ASSUME NEW p, OnStack(p)' PROVE OnStack(p) /\ p # Top
    <3>1. PICK i \in 1..Len(stack') : stack'[i] = p
      BY <2>1 DEF OnStack
    <3> QED BY <1>2, <1>5, <1>6, <3>1 DEF OnStack, SummaryInv
  <2>2. ASSUME NEW p, OnStack(p), p # Top PROVE OnStack(p)'
    <3>1. PICK i \in 1..Len(stack) : stack[i] = p
      BY <2>2 DEF OnStack
    <3> QED BY <1>2, <1>4, <1>5, <2>2, <3>1 DEF OnStack
  <2> QED BY <2>1, <2>2
<1>8. OnStack(Top) /\ Top \in ImagesRead
  BY <1>2, <1>6 DEF OnStack, TreeInv, StackInv, ImagesRead
<1>9. \A p : Broken(p)' = Broken(p)
  BY <1>1, MachineFrame DEF Broken
<1>10. \A i, j \in 1..Len(stack') : stack'[i] = stack'[j] => i = j
  BY <1>5 DEF SummaryInv
<1>11. CASE Broken(Top)
  <2>1. BrokenEnded' = BrokenEnded \cup {Top} /\ Top \notin BrokenEnded
    BY <1>3, <1>7, <1>8, <1>9, <1>11 DEF BrokenEnded
  <2>2. Cardinality(BrokenEnded') = Cardinality(BrokenEnded) + 1
    BY <2>1, CountedFinite, FS_AddElement DEF SummaryInv
  <2> QED BY <1>1, <1>3, <1>10, <1>11, <2>2, CountedFinite DEF SummaryInv
<1>12. CASE ~Broken(Top)
  <2>1. BrokenEnded' = BrokenEnded
    BY <1>3, <1>7, <1>9, <1>12 DEF BrokenEnded
  <2> QED BY <1>1, <1>3, <1>10, <1>12, <2>1 DEF SummaryInv
<1> QED BY <1>11, <1>12

LEMMA SummaryStep == TypeOK /\ TreeInv /\ SummaryInv /\ [Next]_vars => SummaryInv'
<1> SUFFICES ASSUME TypeOK, TreeInv, SummaryInv, [Next]_vars PROVE SummaryInv'
  OBVIOUS
<1>1. CASE UNCHANGED <<sys, row, stack, visited, invalid, missing>>
  BY <1>1, CountedFrame DEF SummaryInv
<1> QED BY <1>1, SummaryVisitInvalid, SummaryVisitImage, SummaryImport, SummaryReturn
  DEF Next, Limit, Revisit, Summary, vars

\* The counters of the summary line are exact: every bad file, bad name and
\* broken table is counted once, and so is every import found nowhere, for
\* every import graph and also when a limit cuts the report.
THEOREM SummaryCounts == Spec => []SummaryExact
<1>1. TypeOK /\ TreeInv /\ SummaryInv => SummaryExact
  <2> SUFFICES ASSUME TypeOK, TreeInv, SummaryInv, done PROVE SummaryExact
    BY DEF SummaryExact
  <2> DEFINE entries == {e \in ImagesRead \X (1..MaxImports) : e[2] <= Reached(e[1])}
             bad == {e \in entries : Imports(e[1])[e[2]] = BadName}
  <2>1. stack = << >> /\ Len(stack) = 0
    BY EmptySeq DEF TreeInv, DoneInv
  <2>2. \A p \in ImagesRead : row[p] > Reached(p) /\ ~OnStack(p)
    BY <2>1 DEF TreeInv, CoverInv, ImagesRead, OnStack
  <2>3. EntriesRead = entries
    <3>1. ASSUME NEW p \in ImagesRead, NEW k \in 1..MaxImports, k <= Reached(p) PROVE k < row[p]
      <4>1. p \in Paths /\ row[p] \in Nat
        BY DEF ImagesRead, TypeOK
      <4>2. Reached(p) \in Nat
        BY <4>1, MachineType DEF TypeOK
      <4> QED BY <2>2, <3>1, <4>1, <4>2
    <3> QED BY <3>1 DEF EntriesRead
  <2>4. BadRead = bad
    BY <2>3 DEF BadRead
  <2>5. LostRead = {e \in entries \ bad : Resolve(Imports(e[1])[e[2]]) = NoPath}
    BY <2>3, <2>4 DEF LostRead
  <2>6. BrokenEnded = {p \in ImagesRead : Broken(p)}
    BY <2>2 DEF BrokenEnded
  <2> QED BY <2>4, <2>5, <2>6 DEF SummaryInv, SummaryExact, ImagesRead
<1> QED BY <1>1, InitType, TreeInit, SummaryInit, StepType, TreeStep, SummaryStep, PTL DEF Spec
=============================================================================
