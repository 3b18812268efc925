------------------------- MODULE PassPipelineProofs -------------------------
(***************************************************************************)
(* Proofs about module PassPipeline.                                       *)
(***************************************************************************)
EXTENDS PassPipeline, SequenceTheorems, TLAPS

LEMMA PipeFacts ==
    ASSUME TypeOK
    PROVE  /\ pipe \in PipelineType
           /\ \A p \in Pass : DependsOn(p) \in Seq(Pass) /\ Deps(p) \subseteq Pass
           /\ \A p \in Pass : Modifies(p) \subseteq Element
           /\ Monotone(pipe) /\ Additive(pipe) /\ Acyclic(pipe)
<1>1. pipe \in PipelineType /\ Monotone(pipe) /\ Additive(pipe) /\ Acyclic(pipe)
  BY PipelineAssumption DEF TypeOK
<1>2. \A p \in Pass : DependsOn(p) \in Seq(Pass)
  BY <1>1 DEF PipelineType, DependsOn
<1>3. \A p \in Pass : Deps(p) \subseteq Pass
  BY <1>1 DEF PipelineType, Deps, Dependencies
<1>4. \A p \in Pass : Modifies(p) \subseteq Element
  BY <1>1 DEF PipelineType, Modifies
<1> QED  BY <1>1, <1>2, <1>3, <1>4

(***************************************************************************)
(* What the stack operators do.                                            *)
(***************************************************************************)
LEMMA PopFacts ==
    ASSUME NEW S, NEW s \in Seq(S), s # <<>>
    PROVE  /\ Pop(s) \in Seq(S)
           /\ Len(Pop(s)) = Len(s) - 1
           /\ \A i \in 1..(Len(s) - 1) : Pop(s)[i] = s[i]
           /\ Len(s) \in Nat \ {0}
           /\ s[Len(s)] \in S
<1>1. Len(s) \in Nat \ {0}
  BY EmptySeq
<1>2. \A i \in 1..Len(s) : s[i] \in S
  BY ElementOfSeq
<1> DEFINE n == Len(s) - 1
<1>3. n \in Int /\ \A i \in 1..n : s[i] \in S
  BY <1>1, <1>2
<1> HIDE DEF n
<1>4. /\ SubSeq(s, 1, n) \in Seq(S)
      /\ Len(SubSeq(s, 1, n)) = IF 1 <= n THEN n - 1 + 1 ELSE 0
      /\ \A i \in 1..(n - 1 + 1) : SubSeq(s, 1, n)[i] = s[1 + i - 1]
  BY <1>3, SubSeqProperties
<1>5. n = Len(s) - 1 /\ Pop(s) = SubSeq(s, 1, n)
  BY DEF n, Pop
<1>6. Len(Pop(s)) = Len(s) - 1
  BY <1>1, <1>4, <1>5
<1>7. \A i \in 1..(Len(s) - 1) : Pop(s)[i] = s[i]
  BY <1>1, <1>4, <1>5
<1> QED  BY <1>1, <1>2, <1>4, <1>5, <1>6, <1>7

LEMMA AdvanceFacts ==
    ASSUME TypeOK, stack # <<>>
    PROVE  /\ Advance \in Seq(Pass \X (Nat \ {0}))
           /\ Len(Advance) = Len(stack)
           /\ \A i \in 1..(Len(stack) - 1) : Advance[i] = stack[i]
           /\ Advance[Len(stack)] = <<Top[1], Top[2] + 1>>
           /\ Len(stack) \in Nat \ {0}
           /\ Top \in Pass \X (Nat \ {0})
<1>1. stack \in Seq(Pass \X (Nat \ {0}))
  BY DEF TypeOK
<1>2. /\ Pop(stack) \in Seq(Pass \X (Nat \ {0}))
      /\ Len(Pop(stack)) = Len(stack) - 1
      /\ \A i \in 1..(Len(stack) - 1) : Pop(stack)[i] = stack[i]
      /\ Len(stack) \in Nat \ {0}
      /\ Top \in Pass \X (Nat \ {0})
  BY <1>1, PopFacts DEF Top
<1>3. <<Top[1], Top[2] + 1>> \in Pass \X (Nat \ {0})
  BY <1>2
<1> QED  BY <1>2, <1>3 DEF Advance

(***************************************************************************)
(* Type correctness.                                                       *)
(***************************************************************************)
LEMMA InitTypeOK == Init => TypeOK
<1> SUFFICES ASSUME Init PROVE TypeOK
  OBVIOUS
<1>1. pipe.named \in Seq(Pass)
  BY PipelineAssumption DEF Init, PipelineType
<1> QED  BY <1>1, MaxChangesAssumption DEF Init, TypeOK

LEMMA ApplySubpassTypeOK ==
    ASSUME TypeOK, NEW p \in Pass, NEW r \in BOOLEAN, NEW m \in SUBSET Element,
           ApplySubpass(p, r, m)
    PROVE  TypeOK'
<1>1. Modifies(p) \subseteq Element
  BY PipeFacts
<1>2. Modified(p, r) \subseteq Element
  BY <1>1 DEF Modified
<1>3. stack' \in Seq(Pass \X (Nat \ {0}))
  BY PopFacts DEF TypeOK, ApplySubpass, Ready
<1>4. changes' \in 0..MaxChanges
  BY MaxChangesAssumption DEF TypeOK, ApplySubpass, MayReturn
<1>5. since' \in [Pass -> SUBSET Element]
  BY <1>2 DEF TypeOK, ApplySubpass
<1>6. dirty' \in [Pass -> SUBSET Element] /\ outdated' \in [Pass -> SUBSET Element]
  BY DEF TypeOK, ApplySubpass
<1>7. /\ applied' \subseteq Pass
      /\ results' \subseteq Pass
      /\ retval' \subseteq Pass
  BY DEF TypeOK, ApplySubpass
<1> QED  BY <1>3, <1>4, <1>5, <1>6, <1>7 DEF TypeOK, ApplySubpass, construction

LEMMA NextTypeOK == TypeOK /\ [Next]_vars => TypeOK'
<1> SUFFICES ASSUME TypeOK, [Next]_vars PROVE TypeOK'
  OBVIOUS
<1> USE DEF construction, iteration, outcome, history
<1>1. CASE RejectDuplicates
  BY <1>1 DEF RejectDuplicates, TypeOK
<1>2. CASE AddDependency
  <2>1. Checked \in Pass
    BY <1>2 DEF AddDependency, ExamineDependency, TypeOK, Checked
  <2>2. DependsOn(Checked) \in Seq(Pass)
    BY <2>1, PipeFacts
  <2>3. Dependency \in Pass
    BY <1>2, <2>2 DEF AddDependency, ExamineDependency, TypeOK, Dependency
  <2> QED  BY <1>2, <2>3 DEF AddDependency, TypeOK
<1>3. CASE KnownDependency
  BY <1>3 DEF KnownDependency, TypeOK
<1>4. CASE RejectObject
  BY <1>4 DEF RejectObject, TypeOK
<1>5. CASE CheckNextPass
  BY <1>5 DEF CheckNextPass, TypeOK
<1>6. CASE Constructed
  BY <1>6 DEF Constructed, TypeOK
<1>7. CASE BeginIteration
  <2>1. order' \in Seq(Pass)
    BY <1>7, OrderingsAssumption DEF BeginIteration, Orders, TypeOK
  <2> QED  BY <1>7, <2>1 DEF BeginIteration, TypeOK
<1>9. CASE EnterPass
  <2>1. order[pos] \in Pass
    BY <1>9 DEF EnterPass, Walking, TypeOK
  <2> QED  BY <1>9, <2>1 DEF EnterPass, TypeOK
<1>10. CASE SkipDependency
  BY <1>10, AdvanceFacts DEF SkipDependency, CheckingDependencies, TypeOK
<1>11. CASE EnterDependency
  <2>1. Top[1] \in Pass /\ Top[2] \in Nat \ {0}
    BY <1>11, AdvanceFacts DEF EnterDependency, CheckingDependencies
  <2>2. DependsOn(Top[1]) \in Seq(Pass)
    BY <2>1, PipeFacts
  <2>3. NextDependency \in Pass
    BY <1>11, <2>1, <2>2 DEF EnterDependency, CheckingDependencies, NextDependency
  <2>4. <<NextDependency, 1>> \in Pass \X (Nat \ {0})
    BY <2>3
  <2>5. Advance \in Seq(Pass \X (Nat \ {0}))
    BY <1>11, AdvanceFacts DEF EnterDependency, CheckingDependencies
  <2>6. Append(Advance, <<NextDependency, 1>>) \in Seq(Pass \X (Nat \ {0}))
    BY <2>4, <2>5
  <2> QED  BY <1>11, <2>6 DEF EnterDependency, TypeOK
<1>12. CASE \E p \in Pass, r \in BOOLEAN, m \in SUBSET Element : ApplySubpass(p, r, m)
  BY <1>12, ApplySubpassTypeOK
<1>13. CASE ReturnPlain
  BY <1>13 DEF ReturnPlain, TypeOK
<1>14. CASE Repeat
  BY <1>14 DEF Repeat, NewRet, TypeOK
<1>15. CASE ReturnFixedPoint
  BY <1>15 DEF ReturnFixedPoint, TypeOK
<1>16. CASE UNCHANGED vars
  BY <1>16 DEF vars, TypeOK
<1> QED
  BY <1>1, <1>2, <1>3, <1>4, <1>5, <1>6, <1>7, <1>9, <1>10, <1>11, <1>12,
     <1>13, <1>14, <1>15, <1>16
  DEF Next, Construct, Apply, Stopped

(***************************************************************************)
(* Every reachable state of a pipeline is well typed, whatever the passes  *)
(* declare; the counter of results stays within its bound.                 *)
(***************************************************************************)
THEOREM PipelineTypeCorrect == Spec => []TypeOK
  BY InitTypeOK, NextTypeOK, PTL DEF Spec
-----------------------------------------------------------------------------
(***************************************************************************)
(* The inductive invariant.  The frames of the stack are a chain of        *)
(* dependencies; each was entered because it was not up to date.           *)
(***************************************************************************)
StackIdle == phase # "iterate" => stack = <<>>

Pending(p) == p \notin applied \/ since[p] \in pipe.reappliesOn[p]

StackChained ==
    /\ \A i \in 1..Len(stack) :
          /\ stack[i][2] <= Len(DependsOn(stack[i][1])) + 1
          /\ Pending(stack[i][1])
    /\ \A i \in 1..(Len(stack) - 1) :
          /\ stack[i][2] >= 2
          /\ stack[i + 1][1] = DependsOn(stack[i][1])[stack[i][2] - 1]

(***************************************************************************)
(* The dependencies a frame has been through are up to date, or have just  *)
(* run, except for the one that is in progress; and what applied_passes    *)
(* records for an analysis covers all that changed since its result.       *)
(***************************************************************************)
Current(d) ==
    d \in applied /\ (since[d] = {} \/ since[d] \notin pipe.reappliesOn[d])

FramesCurrent ==
    \A i \in 1..Len(stack) : \A j \in 1..(stack[i][2] - 1) :
        \/ i < Len(stack) /\ j = stack[i][2] - 1
        \/ Current(DependsOn(stack[i][1])[j])

Tracked ==
    \A d \in applied : IsAnalysis(d) => d \in results /\ outdated[d] \subseteq since[d]

Inv ==
    /\ TypeOK
    /\ StackIdle
    /\ StackChained
    /\ AnalysisDependencies => FramesCurrent /\ Tracked

(***************************************************************************)
(* No pass is on the stack twice, since dependencies are acyclic: the      *)
(* passes between its two frames would each depend on another of them.     *)
(***************************************************************************)
LEMMA StackDistinct ==
    ASSUME TypeOK, StackChained,
           NEW i \in 1..Len(stack), NEW j \in 1..Len(stack), i < j
    PROVE  stack[i][1] # stack[j][1]
<1> SUFFICES ASSUME stack[i][1] = stack[j][1] PROVE FALSE
  OBVIOUS
<1>0. Acyclic(pipe)
  BY PipelineAssumption DEF TypeOK
<1>1. stack \in Seq(Pass \X (Nat \ {0})) /\ Len(stack) \in Nat
  BY DEF TypeOK
<1>2. \A k \in 1..Len(stack) : stack[k][1] \in Pass /\ stack[k][2] \in Nat \ {0}
  BY <1>1
<1>3. \A k \in 1..(Len(stack) - 1) : stack[k + 1][1] \in Deps(stack[k][1])
  <2> SUFFICES ASSUME NEW k \in 1..(Len(stack) - 1)
               PROVE  stack[k + 1][1] \in Deps(stack[k][1])
    OBVIOUS
  <2>1. k \in 1..Len(stack)
    BY <1>1
  <2>2. DependsOn(stack[k][1]) \in Seq(Pass)
    BY <1>2, <2>1, PipeFacts
  <2>3. stack[k][2] - 1 \in 1..Len(DependsOn(stack[k][1]))
    <3>1. stack[k][2] <= Len(DependsOn(stack[k][1])) + 1 /\ stack[k][2] >= 2
      BY <2>1 DEF StackChained
    <3>2. stack[k][2] \in Nat /\ Len(DependsOn(stack[k][1])) \in Nat
      BY <1>2, <2>1, <2>2
    <3> QED  BY <3>1, <3>2
  <2>4. stack[k + 1][1] = DependsOn(stack[k][1])[stack[k][2] - 1]
    BY DEF StackChained
  <2> QED  BY <2>3, <2>4 DEF Deps, Dependencies, DependsOn
<1> DEFINE S == {stack[k][1] : k \in i..j}
<1>4. S \in SUBSET Pass /\ S # {}
  <2>1. \A k \in i..j : k \in 1..Len(stack)
    BY <1>1
  <2>2. i \in i..j
    BY <1>1
  <2> QED  BY <1>2, <2>1, <2>2
<1>5. PICK p \in S : Dependencies(pipe, p) \cap S = {}
  BY <1>0, <1>4 DEF Acyclic
<1>6. PICK k \in i..j : p = stack[k][1]
  BY <1>5
<1>7. CASE k < j
  <2>1. k \in 1..(Len(stack) - 1) /\ k + 1 \in i..j
    <3> HIDE DEF S
    <3>1. i \in Nat /\ j \in Nat /\ 1 <= i /\ j <= Len(stack) /\ Len(stack) \in Nat
      BY <1>1
    <3>2. k \in Int /\ i <= k /\ k < j
      BY <1>7, <3>1
    <3> QED  BY <3>1, <3>2
  <2>2. stack[k + 1][1] \in Deps(p) /\ stack[k + 1][1] \in S
    BY <1>3, <1>6, <2>1
  <2> QED  BY <1>5, <2>2 DEF Deps
<1>8. CASE k = j
  <2>1. i \in 1..(Len(stack) - 1) /\ i + 1 \in i..j
    BY <1>1
  <2>2. stack[i + 1][1] \in Deps(p) /\ stack[i + 1][1] \in S
    BY <1>3, <1>6, <1>8, <2>1
  <2> QED  BY <1>5, <2>2 DEF Deps
<1> QED  BY <1>1, <1>6, <1>7, <1>8

(***************************************************************************)
(* A step that leaves the stack empty, or all of this alone.               *)
(***************************************************************************)
LEMMA EmptyStackInv ==
    ASSUME TypeOK', stack' = <<>>, AnalysisDependencies' => Tracked'
    PROVE  Inv'
  BY DEF Inv, StackIdle, StackChained, FramesCurrent

LEMMA SameInv ==
    ASSUME Inv, TypeOK', phase' = "iterate" => phase = "iterate",
           UNCHANGED <<pipe, iteration, results, outdated>>,
           phase' = phase \/ stack = <<>>
    PROVE  Inv'
<1> USE DEF iteration
<1>1. StackIdle'
  BY DEF Inv, StackIdle
<1>2. StackChained'
  BY DEF Inv, StackChained, Pending, DependsOn
<1>3. AnalysisDependencies' <=> AnalysisDependencies
  BY DEF AnalysisDependencies, IsAnalysis, Deps, Modifies
<1>4. FramesCurrent => FramesCurrent'
  BY DEF FramesCurrent, Current, DependsOn
<1>5. Tracked => Tracked'
  BY DEF Tracked, IsAnalysis, Modifies
<1> QED  BY <1>1, <1>2, <1>3, <1>4, <1>5 DEF Inv

(***************************************************************************)
(* The steps of reapply_recursive that run no pass.                        *)
(***************************************************************************)
LEMMA Unmodified ==
    ASSUME UNCHANGED <<pipe, applied, since, results, outdated>>
    PROVE  /\ \A p : Pending(p)' <=> Pending(p)
           /\ \A p : Current(p)' <=> Current(p)
           /\ \A p : DependsOn(p)' = DependsOn(p)
           /\ AnalysisDependencies' <=> AnalysisDependencies
           /\ Tracked' <=> Tracked
<1>1. \A p : Pending(p)' <=> Pending(p)
  BY DEF Pending
<1>2. \A p : Current(p)' <=> Current(p)
  BY DEF Current
<1>3. \A p : DependsOn(p)' = DependsOn(p)
  BY DEF DependsOn
<1>4. AnalysisDependencies' <=> AnalysisDependencies
  BY DEF AnalysisDependencies, IsAnalysis, Deps, Modifies
<1>5. Tracked' <=> Tracked
  BY DEF Tracked, IsAnalysis, Modifies
<1> QED  BY <1>1, <1>2, <1>3, <1>4, <1>5

LEMMA EnterPassInv ==
    ASSUME Inv, TypeOK', EnterPass
    PROVE  Inv'
<1>1. UNCHANGED <<pipe, applied, since, results, outdated>>
  BY DEF EnterPass, outcome, history
<1> DEFINE p == order[pos]
<1>2. p \in Pass /\ Pending(p)
  BY DEF Inv, TypeOK, EnterPass, Walking, UpToDate, Pending
<1>3. stack' = << <<p, 1>> >>
  BY DEF EnterPass
<1>4. Len(stack') = 1 /\ stack'[1][1] = p /\ stack'[1][2] = 1
  BY <1>3
<1> HIDE DEF p
<1>5. StackIdle'
  BY DEF EnterPass, Walking, StackIdle
<1>6. Len(DependsOn(p)) \in Nat
  BY <1>2, PipeFacts DEF Inv
<1>7. StackChained'
  BY <1>1, <1>2, <1>4, <1>6, Unmodified DEF StackChained
<1>8. FramesCurrent'
  BY <1>4 DEF FramesCurrent
<1> QED  BY <1>1, <1>5, <1>7, <1>8, Unmodified DEF Inv

(***************************************************************************)
(* The frame on top of the stack and the dependency it comes to.           *)
(***************************************************************************)
LEMMA TopFacts ==
    ASSUME Inv, CheckingDependencies
    PROVE  /\ Len(stack) \in Nat \ {0}
           /\ stack[Len(stack)] = Top
           /\ Top[1] \in Pass /\ Top[2] \in Nat \ {0}
           /\ DependsOn(Top[1]) \in Seq(Pass)
           /\ Len(DependsOn(Top[1])) \in Nat
           /\ Top[2] <= Len(DependsOn(Top[1]))
           /\ NextDependency = DependsOn(Top[1])[Top[2]]
           /\ NextDependency \in Pass
           /\ Pending(Top[1])
           /\ \A i \in 1..Len(stack) : stack[i][1] \in Pass /\ stack[i][2] \in Nat \ {0}
<1>1. stack \in Seq(Pass \X (Nat \ {0})) /\ stack # <<>>
  BY DEF Inv, TypeOK, CheckingDependencies
<1>2. Len(stack) \in Nat \ {0} /\ Top \in Pass \X (Nat \ {0})
  BY AdvanceFacts, <1>1 DEF Inv
<1>3. Top[1] \in Pass /\ Top[2] \in Nat \ {0}
  BY <1>2
<1>4. DependsOn(Top[1]) \in Seq(Pass)
  BY <1>3, PipeFacts DEF Inv
<1>5. Top[2] <= Len(DependsOn(Top[1]))
  BY DEF CheckingDependencies
<1>6. NextDependency \in Pass
  BY <1>3, <1>4, <1>5 DEF NextDependency
<1>7. Pending(Top[1])
  BY <1>2 DEF Inv, StackChained, Top
<1>8. \A i \in 1..Len(stack) : stack[i][1] \in Pass /\ stack[i][2] \in Nat \ {0}
  BY <1>1
<1> QED  BY <1>2, <1>3, <1>4, <1>5, <1>6, <1>7, <1>8 DEF Top, NextDependency

LEMMA SkipDependencyInv ==
    ASSUME Inv, TypeOK', SkipDependency
    PROVE  Inv'
<1>0. CheckingDependencies /\ UpToDate(NextDependency)
  BY DEF SkipDependency
<1>1. UNCHANGED <<pipe, phase, applied, since, results, outdated>>
  BY DEF SkipDependency, outcome, history
<1> DEFINE n == Len(stack)
<1>2. /\ n \in Nat \ {0}
      /\ Len(stack') = n
      /\ \A i \in 1..(n - 1) : stack'[i] = stack[i]
      /\ stack'[n][1] = Top[1] /\ stack'[n][2] = Top[2] + 1
  BY AdvanceFacts DEF SkipDependency, CheckingDependencies, Inv
<1>3. StackIdle'
  BY <1>0, <1>1 DEF CheckingDependencies, StackIdle
<1>4. StackChained'
  <2>1. ASSUME NEW i \in 1..n
        PROVE  /\ stack'[i][2] <= Len(DependsOn(stack'[i][1])) + 1
               /\ Pending(stack'[i][1])
    <3>1. CASE i = n
      BY <1>0, <1>2, <3>1, TopFacts
    <3>2. CASE i # n
      <4>1. stack'[i] = stack[i] /\ i \in 1..Len(stack)
        BY <1>2, <3>2
      <4> QED  BY <4>1 DEF Inv, StackChained
    <3> QED  BY <3>1, <3>2
  <2>2. ASSUME NEW i \in 1..(n - 1)
        PROVE  /\ stack'[i][2] >= 2
               /\ stack'[i + 1][1] = DependsOn(stack'[i][1])[stack'[i][2] - 1]
    <3>1. stack'[i] = stack[i] /\ i \in 1..(Len(stack) - 1)
      BY <1>2
    <3>2. stack'[i + 1][1] = stack[i + 1][1]
      BY <1>2, <1>0, TopFacts
    <3> QED  BY <3>1, <3>2 DEF Inv, StackChained
  <2> QED  BY <1>1, <1>2, <2>1, <2>2, Unmodified DEF StackChained
<1>5. ASSUME FramesCurrent PROVE FramesCurrent'
  <2> SUFFICES ASSUME NEW i \in 1..n, NEW j \in 1..(stack'[i][2] - 1)
               PROVE  \/ i < n /\ j = stack'[i][2] - 1
                      \/ Current(DependsOn(stack'[i][1])[j])
    BY <1>1, <1>2, Unmodified DEF FramesCurrent
  <2>1. CASE i # n
    BY <1>2, <1>5, <2>1 DEF FramesCurrent
  <2>2. CASE i = n /\ j = Top[2]
    BY <1>0, <1>2, <2>2, TopFacts DEF UpToDate, Current
  <2>3. CASE i = n /\ j # Top[2]
    <3>1. j \in 1..(stack[n][2] - 1) /\ n \in 1..Len(stack)
      BY <1>0, <1>2, <2>3, TopFacts
    <3>2. Current(DependsOn(stack[n][1])[j])
      BY <1>2, <1>5, <3>1 DEF FramesCurrent
    <3> QED  BY <1>0, <1>2, <2>3, <3>2, TopFacts
  <2> QED  BY <2>1, <2>2, <2>3
<1> QED  BY <1>1, <1>3, <1>4, <1>5, Unmodified DEF Inv

LEMMA EnterDependencyInv ==
    ASSUME Inv, TypeOK', EnterDependency
    PROVE  Inv'
<1>0. CheckingDependencies /\ ~UpToDate(NextDependency)
  BY DEF EnterDependency
<1>1. UNCHANGED <<pipe, phase, applied, since, results, outdated>>
  BY DEF EnterDependency, outcome, history
<1> DEFINE n == Len(stack)
<1>2. /\ n \in Nat \ {0}
      /\ Len(stack') = n + 1
      /\ \A i \in 1..(n - 1) : stack'[i] = stack[i]
      /\ stack'[n][1] = Top[1] /\ stack'[n][2] = Top[2] + 1
      /\ stack'[n + 1][1] = NextDependency /\ stack'[n + 1][2] = 1
  <2>1. /\ Advance \in Seq(Pass \X (Nat \ {0}))
        /\ Len(Advance) = Len(stack)
        /\ \A i \in 1..(Len(stack) - 1) : Advance[i] = stack[i]
        /\ Advance[Len(stack)] = <<Top[1], Top[2] + 1>>
        /\ Len(stack) \in Nat \ {0}
    BY <1>0, AdvanceFacts DEF CheckingDependencies, Inv
  <2>2. stack' = Append(Advance, <<NextDependency, 1>>)
    BY DEF EnterDependency
  <2>3. /\ Len(stack') = n + 1
        /\ \A i \in 1..n : stack'[i] = Advance[i]
        /\ stack'[n + 1] = <<NextDependency, 1>>
    BY <2>1, <2>2, AppendProperties
  <2> QED  BY <2>1, <2>3
<1>3. StackIdle'
  BY <1>0, <1>1 DEF CheckingDependencies, StackIdle
<1>4. Pending(NextDependency)
  BY <1>0 DEF UpToDate, Pending
<1>5. StackChained'
  <2>1. ASSUME NEW i \in 1..(n + 1)
        PROVE  /\ stack'[i][2] <= Len(DependsOn(stack'[i][1])) + 1
               /\ Pending(stack'[i][1])
    <3>1. CASE i = n + 1
      <4>1. Len(DependsOn(NextDependency)) \in Nat
        BY <1>0, TopFacts, PipeFacts DEF Inv
      <4> QED  BY <1>2, <1>4, <3>1, <4>1
    <3>2. CASE i = n
      BY <1>0, <1>2, <3>2, TopFacts
    <3>3. CASE i \in 1..(n - 1)
      BY <1>2, <3>3 DEF Inv, StackChained
    <3> QED  BY <1>2, <3>1, <3>2, <3>3
  <2>2. ASSUME NEW i \in 1..n
        PROVE  /\ stack'[i][2] >= 2
               /\ stack'[i + 1][1] = DependsOn(stack'[i][1])[stack'[i][2] - 1]
    <3>1. CASE i = n
      <4>1. (Top[2] + 1) - 1 = Top[2] /\ Top[2] + 1 >= 2
        BY <1>0, TopFacts
      <4> QED  BY <1>0, <1>2, <3>1, <4>1, TopFacts
    <3>2. CASE i \in 1..(n - 1)
      <4>1. stack'[i] = stack[i] /\ i \in 1..(Len(stack) - 1)
        BY <1>2, <3>2
      <4>2. stack'[i + 1][1] = stack[i + 1][1]
        <5>1. CASE i + 1 = n
          BY <1>0, <1>2, <5>1, TopFacts
        <5>2. CASE i + 1 \in 1..(n - 1)
          BY <1>2, <5>2
        <5> QED  BY <1>2, <3>2, <5>1, <5>2
      <4> QED  BY <4>1, <4>2 DEF Inv, StackChained
    <3> QED  BY <1>2, <3>1, <3>2
  <2>3. Len(stack') - 1 = n
    BY <1>2
  <2> QED  BY <1>1, <1>2, <2>1, <2>2, <2>3, Unmodified DEF StackChained
<1>6. ASSUME FramesCurrent PROVE FramesCurrent'
  <2> SUFFICES ASSUME NEW i \in 1..(n + 1), NEW j \in 1..(stack'[i][2] - 1)
               PROVE  \/ i < n + 1 /\ j = stack'[i][2] - 1
                      \/ Current(DependsOn(stack'[i][1])[j])
    BY <1>1, <1>2, Unmodified DEF FramesCurrent
  <2>1. CASE i = n + 1
    BY <1>2, <2>1
  <2>2. CASE i \in 1..(n - 1)
    BY <1>2, <1>6, <2>2 DEF FramesCurrent
  <2>3. CASE i = n /\ j = Top[2]
    BY <1>0, <1>2, <2>3, TopFacts
  <2>4. CASE i = n /\ j # Top[2]
    <3>1. j \in 1..(stack[n][2] - 1) /\ n \in 1..Len(stack)
      BY <1>0, <1>2, <2>4, TopFacts
    <3>2. Current(DependsOn(stack[n][1])[j])
      BY <1>2, <1>6, <3>1 DEF FramesCurrent
    <3> QED  BY <1>0, <1>2, <2>4, <3>2, TopFacts
  <2> QED  BY <1>2, <2>1, <2>2, <2>3, <2>4
<1> QED  BY <1>1, <1>3, <1>5, <1>6, Unmodified DEF Inv

(***************************************************************************)
(* A pass runs.  One that runs as a dependency is an analysis and modifies *)
(* nothing, so what the frames below have been through stays current.      *)
(***************************************************************************)
LEMMA ApplySubpassInv ==
    ASSUME Inv, TypeOK',
           NEW p \in Pass, NEW r \in BOOLEAN, NEW m \in SUBSET Element,
           ApplySubpass(p, r, m)
    PROVE  Inv'
<1> DEFINE n == Len(stack)
<1>0. /\ phase = "iterate" /\ UNCHANGED <<pipe, phase>>
      /\ stack # <<>> /\ Top[1] = p
      /\ stack' = Pop(stack)
      /\ applied' = applied \cup {p}
      /\ m \subseteq Modified(p, r)
  BY DEF ApplySubpass, Ready
<1>1. stack \in Seq(Pass \X (Nat \ {0})) /\ since \in [Pass -> SUBSET Element]
      /\ applied \subseteq Pass /\ pipe \in PipelineType
  BY PipeFacts DEF Inv, TypeOK
<1>2. /\ n \in Nat \ {0}
      /\ Len(stack') = n - 1
      /\ \A i \in 1..(n - 1) : stack'[i] = stack[i]
      /\ stack[n][1] = p
  BY <1>0, <1>1, PopFacts DEF Top
<1>3. \A i \in 1..n : stack[i][1] \in Pass /\ stack[i][2] \in Nat \ {0}
  BY <1>1
<1>4. \A i \in 1..(n - 1) : stack[i][1] # p
  BY <1>2, StackDistinct DEF Inv
<1>5. \A q : DependsOn(q)' = DependsOn(q)
  BY <1>0 DEF DependsOn
<1>6. /\ since'[p] = {}
      /\ \A q \in Pass : q # p => since'[q] = IF q \in applied
                                              THEN since[q] \cup Modified(p, r)
                                              ELSE since[q]
  BY DEF ApplySubpass
<1>7. StackIdle'
  BY <1>0 DEF StackIdle
<1>8. StackChained'
  <2>1. ASSUME NEW i \in 1..(n - 1)
        PROVE  /\ stack'[i] = stack[i]
               /\ stack[i][2] <= Len(DependsOn(stack[i][1])) + 1
               /\ Pending(stack[i][1])
    BY <1>2 DEF Inv, StackChained
  <2>2. ASSUME NEW q \in Pass, q # p, Pending(q) PROVE Pending(q)'
    <3>1. CASE q \notin applied
      BY <1>0, <2>2, <3>1 DEF Pending
    <3>2. CASE q \in applied /\ since[q] \in pipe.reappliesOn[q]
      <4>1. since[q] \in SUBSET Element /\ since'[q] \in SUBSET Element
        BY <1>1 DEF TypeOK
      <4>2. since[q] \subseteq since'[q]
        BY <1>6, <2>2
      <4>3. since'[q] \in pipe.reappliesOn[q]
        BY <3>2, <4>1, <4>2, PipeFacts DEF Inv, Monotone
      <4> QED  BY <1>0, <4>3 DEF Pending
    <3> QED  BY <2>2, <3>1, <3>2 DEF Pending
  <2>3. \A i \in 1..(n - 1) : Pending(stack[i][1])'
    <3> SUFFICES ASSUME NEW i \in 1..(n - 1), NEW q, q = stack[i][1]
                 PROVE  Pending(q)'
      BY <2>1 DEF Pending
    <3> QED  BY <1>2, <1>3, <1>4, <2>1, <2>2
  <2>4. ASSUME NEW i \in 1..(n - 1 - 1)
        PROVE  /\ stack'[i] = stack[i] /\ stack'[i + 1] = stack[i + 1]
               /\ stack[i][2] >= 2
               /\ stack[i + 1][1] = DependsOn(stack[i][1])[stack[i][2] - 1]
    BY <1>2 DEF Inv, StackChained
  <2> QED  BY <1>2, <1>5, <2>1, <2>3, <2>4 DEF StackChained
<1>9. AnalysisDependencies' <=> AnalysisDependencies
  BY <1>0 DEF AnalysisDependencies, IsAnalysis, Deps, Modifies
<1>10. ASSUME AnalysisDependencies, FramesCurrent, n # 1 PROVE FramesCurrent'
  <2>1. n - 1 \in 1..(Len(stack) - 1) /\ n - 1 \in 1..Len(stack)
        /\ (n - 1) + 1 = n
    BY <1>2, <1>10
  <2> DEFINE q == stack[n - 1][1]
             k == stack[n - 1][2] - 1
  <2>2. q \in Pass /\ stack[n - 1][2] \in Nat /\ p = DependsOn(q)[k]
        /\ stack[n - 1][2] >= 2 /\ stack[n - 1][2] <= Len(DependsOn(q)) + 1
    BY <1>2, <1>3, <2>1 DEF Inv, StackChained
  <2>3. Len(DependsOn(q)) \in Nat
    BY <2>2, PipeFacts DEF Inv
  <2>4. k \in 1..Len(DependsOn(q))
    BY <2>2, <2>3
  <2>5. p \in Deps(q)
    BY <2>2, <2>4 DEF Deps, Dependencies, DependsOn
  <2>6. Modified(p, r) = {}
    BY <1>10, <2>2, <2>5 DEF AnalysisDependencies, IsAnalysis, Modified
  <2>7. ASSUME NEW d, Current(d) PROVE Current(d)'
    <3>1. since'[d] = since[d] \/ since'[d] = {}
      BY <1>1, <1>6, <2>6, <2>7 DEF Current
    <3> QED  BY <1>0, <2>7, <3>1 DEF Current
  <2>8. Current(p)'
    BY <1>0, <1>6 DEF Current
  <2> SUFFICES ASSUME NEW i \in 1..(n - 1), NEW j \in 1..(stack[i][2] - 1)
               PROVE  \/ i < n - 1 /\ j = stack[i][2] - 1
                      \/ \A d : d = DependsOn(stack[i][1])[j] => Current(d)'
    BY <1>2, <1>5 DEF FramesCurrent, Current
  <2>9. CASE i = n - 1 /\ j = k
    BY <2>2, <2>8, <2>9
  <2>10. CASE ~(i = n - 1 /\ j = k)
    <3>1. \/ i < n /\ j = stack[i][2] - 1
          \/ Current(DependsOn(stack[i][1])[j])
      BY <1>2, <1>10 DEF FramesCurrent
    <3> QED  BY <1>2, <2>7, <2>10, <3>1
  <2> QED  BY <2>9, <2>10
<1>11. n = 1 => FramesCurrent'
  BY <1>2 DEF FramesCurrent
<1>12. ASSUME Tracked PROVE Tracked'
  <2> SUFFICES ASSUME NEW d \in applied', IsAnalysis(d)
               PROVE  d \in results' /\ outdated'[d] \subseteq since'[d]
    BY <1>0 DEF Tracked, IsAnalysis, Modifies
  <2>1. d \in Pass
    BY <1>0, <1>1
  <2>2. CASE d = p
    <3>1. r
      BY <2>2 DEF IsAnalysis, ApplySubpass, MayReturn
    <3>2. m = {}
      BY <1>0, <2>2 DEF IsAnalysis, Modified
    <3> QED  BY <2>1, <2>2, <3>1, <3>2 DEF ApplySubpass
  <2>3. CASE d # p
    <3>1. d \in applied
      BY <1>0, <2>3
    <3>2. d \in results /\ outdated[d] \subseteq since[d]
      BY <1>12, <3>1 DEF Tracked
    <3>3. outdated'[d] = outdated[d] \cup m /\ d \in results'
      BY <2>1, <2>3, <3>2 DEF ApplySubpass
    <3> QED  BY <1>0, <1>6, <2>1, <2>3, <3>1, <3>2, <3>3
  <2> QED  BY <2>2, <2>3
<1> QED  BY <1>7, <1>8, <1>9, <1>10, <1>11, <1>12 DEF Inv

LEMMA InitInv == Init => Inv
<1> SUFFICES ASSUME Init PROVE Inv
  OBVIOUS
<1>1. stack = <<>> /\ applied = {}
  BY DEF Init
<1> QED
  BY <1>1, InitTypeOK DEF Inv, StackIdle, StackChained, FramesCurrent, Tracked

LEMMA NextInv == Inv /\ [Next]_vars => Inv'
<1> SUFFICES ASSUME Inv, [Next]_vars PROVE Inv'
  OBVIOUS
<1>0. TypeOK'
  BY NextTypeOK DEF Inv
<1> USE DEF iteration, outcome, history
<1>1. CASE Construct
  <2>1. phase = "construct" /\ phase' # "iterate"
        /\ UNCHANGED <<pipe, iteration, results, outdated>>
    BY <1>1
    DEF Construct, RejectDuplicates, AddDependency, KnownDependency, RejectObject,
        CheckNextPass, Constructed, ExamineDependency, Constructing
  <2>2. stack = <<>>
    BY <2>1 DEF Inv, StackIdle
  <2> QED  BY <1>0, <2>1, <2>2, SameInv
<1>2. CASE BeginIteration
  <2>1. stack' = <<>> /\ applied' = {}
    BY <1>2 DEF BeginIteration
  <2> QED  BY <1>0, <2>1, EmptyStackInv DEF Tracked
<1>4. CASE EnterPass
  BY <1>0, <1>4, EnterPassInv
<1>5. CASE SkipDependency
  BY <1>0, <1>5, SkipDependencyInv
<1>6. CASE EnterDependency
  BY <1>0, <1>6, EnterDependencyInv
<1>7. CASE \E p \in Pass, r \in BOOLEAN, m \in SUBSET Element : ApplySubpass(p, r, m)
  BY <1>0, <1>7, ApplySubpassInv
<1>8. CASE ReturnPlain \/ Repeat \/ ReturnFixedPoint
  <2>1. stack = <<>> /\ phase' # "iterate"
        /\ UNCHANGED <<pipe, iteration, results, outdated>>
    BY <1>8 DEF ReturnPlain, Repeat, ReturnFixedPoint, IterationOver
  <2> QED  BY <1>0, <2>1, SameInv
<1>9. CASE UNCHANGED vars
  <2>1. UNCHANGED <<pipe, phase, iteration, results, outdated>>
    BY <1>9 DEF vars
  <2> QED  BY <1>0, <2>1, SameInv
<1> QED
  BY <1>1, <1>2, <1>4, <1>5, <1>6, <1>7, <1>8, <1>9 DEF Next, Apply, Stopped

(***************************************************************************)
(* A pass that is about to run has been through all its dependencies.      *)
(***************************************************************************)
LEMMA ReadyCurrent ==
    ASSUME Inv, AnalysisDependencies, NEW p \in Pass, Ready(p), NEW d \in Deps(p)
    PROVE  Current(d)
<1>1. stack \in Seq(Pass \X (Nat \ {0})) /\ stack # <<>> /\ Top[1] = p
  BY DEF Inv, TypeOK, Ready
<1>2. Len(stack) \in Nat \ {0} /\ stack[Len(stack)] = Top /\ Top[2] \in Nat
  BY <1>1, AdvanceFacts DEF Inv, Top
<1>3. PICK j \in 1..Len(DependsOn(p)) : d = DependsOn(p)[j]
  BY DEF Deps, Dependencies, DependsOn
<1>4. Len(DependsOn(p)) \in Nat /\ Top[2] > Len(DependsOn(p))
  BY PipeFacts DEF Inv, Ready
<1>5. j \in 1..(Top[2] - 1)
  BY <1>2, <1>3, <1>4
<1>6. Len(stack) \in 1..Len(stack) /\ ~(Len(stack) < Len(stack))
  BY <1>2
<1>7. stack[Len(stack)][1] = p /\ j \in 1..(stack[Len(stack)][2] - 1)
  BY <1>1, <1>2, <1>5
<1>8. Current(DependsOn(stack[Len(stack)][1])[j])
  BY <1>6, <1>7 DEF Inv, FramesCurrent
<1> QED  BY <1>3, <1>7, <1>8

LEMMA CurrentIsFresh ==
    ASSUME TypeOK, Tracked, NEW d \in Pass, IsAnalysis(d), Current(d)
    PROVE  ResultFresh(d)
<1>1. d \in results /\ outdated[d] \subseteq since[d]
  BY DEF Tracked, Current
<1>2. outdated[d] \in SUBSET Element /\ since[d] \in SUBSET Element
  BY DEF TypeOK
<1>3. outdated[d] \in pipe.reappliesOn[d] => since[d] \in pipe.reappliesOn[d]
  BY <1>1, <1>2, PipeFacts DEF Monotone
<1> QED  BY <1>1, <1>3 DEF ResultFresh, Current

(***************************************************************************)
(* In a pipeline whose dependencies are analyses, a pass always finds a    *)
(* result of each of its dependencies, and none that is out of date.       *)
(***************************************************************************)
THEOREM PipelineResultsFresh == Spec => []ResultsFresh
<1>1. Inv => ResultsFresh
  <2> SUFFICES ASSUME Inv, AnalysisDependencies, NEW p \in Pass, Ready(p),
                      NEW d \in Deps(p)
               PROVE  ResultFresh(d)
    BY DEF ResultsFresh
  <2>1. d \in Pass /\ IsAnalysis(d)
    BY PipeFacts DEF Inv, AnalysisDependencies
  <2> QED  BY <2>1, ReadyCurrent, CurrentIsFresh DEF Inv
<1> QED  BY <1>1, InitInv, NextInv, PTL DEF Spec

(***************************************************************************)
(* No pass runs again without a modification it asks to be reapplied for.  *)
(***************************************************************************)
THEOREM PipelineNoRedundantRun == Spec => []NoRedundantRun
<1>1. Inv => NoRedundantRun
  <2> SUFFICES ASSUME Inv, NEW p \in Pass, Ready(p)
               PROVE  Pending(p)
    BY DEF NoRedundantRun, Pending
  <2>1. stack # <<>> /\ Top[1] = p
    BY DEF Ready
  <2>2. Len(stack) \in Nat \ {0}
    BY <2>1, AdvanceFacts DEF Inv
  <2> QED  BY <2>1, <2>2 DEF Inv, StackChained, Top
<1> QED  BY <1>1, InitInv, NextInv, PTL DEF Spec
-----------------------------------------------------------------------------
(***************************************************************************)
(* The fixed point.  Since the order was chosen it is an order of all the  *)
(* passes, which hold those that were named; every pass before the cursor  *)
(* has been applied in this iteration, or is at the bottom of the stack;   *)
(* and as long as no named pass has returned a result, nothing changed     *)
(* since the passes that were applied have looked.                         *)
(***************************************************************************)
Started == phase \notin {"construct", "error"}

OrderKept ==
    /\ ~Started => order = <<>>
    /\ phase = "iterate" \/ order # <<>> => DependencyOrder(order)
    /\ Named \subseteq Elements(passes)

Visited ==
    /\ \A i \in 1..Len(stack) : stack[i][1] \in Elements(passes)
    /\ phase = "iterate" =>
          \A i \in 1..Len(order) :
              i < pos => \/ order[i] \in applied
                         \/ stack # <<>> /\ stack[1][1] = order[i]

Settled ==
    phase = "iterate" /\ AddedAnalyses /\ NewRet = {} =>
        \A p \in applied \ pipe.incompatible : dirty[p] = {}

FixedInv == Inv /\ OrderKept /\ Visited /\ Settled /\ FixedPointReached

LEMMA SamePasses ==
    ASSUME UNCHANGED <<pipe, passes>>
    PROVE  /\ Named' = Named
           /\ Elements(passes)' = Elements(passes)
           /\ AddedAnalyses' <=> AddedAnalyses
           /\ order' = order => (DependencyOrder(order)' <=> DependencyOrder(order))
           /\ \A p : Deps(p)' = Deps(p) /\ Modifies(p)' = Modifies(p)
<1>1. \A p : Deps(p)' = Deps(p) /\ Modifies(p)' = Modifies(p)
  BY DEF Deps, Modifies
<1>2. Named' = Named /\ Elements(passes)' = Elements(passes)
  BY DEF Named
<1>3. AddedAnalyses' <=> AddedAnalyses
  BY <1>1, <1>2 DEF AddedAnalyses
<1>4. order' = order => (DependencyOrder(order)' <=> DependencyOrder(order))
  BY <1>2 DEF DependencyOrder, Deps
<1> QED  BY <1>1, <1>2, <1>3, <1>4

(***************************************************************************)
(* The construction only adds passes.                                      *)
(***************************************************************************)
LEMMA ConstructFixed ==
    ASSUME FixedInv, TypeOK', Inv', Construct
    PROVE  FixedInv'
<1> USE DEF iteration, construction, outcome, history
<1>1. /\ phase = "construct" /\ phase' \in {"construct", "error", "begin"}
      /\ UNCHANGED <<pipe, iteration>>
  BY DEF Construct, RejectDuplicates, AddDependency, KnownDependency, RejectObject,
         CheckNextPass, Constructed, ExamineDependency, Constructing
<1>2. Elements(passes) \subseteq Elements(passes')
  <2>1. CASE passes' = passes
    BY <2>1
  <2>2. CASE AddDependency
    <3>1. passes \in Seq(Pass) /\ passes' = Append(passes, Dependency)
      BY <2>2 DEF FixedInv, Inv, TypeOK, AddDependency
    <3>2. Len(passes) \in Nat /\ Len(passes') = Len(passes) + 1
          /\ \A i \in 1..Len(passes) : passes'[i] = passes[i]
      BY <3>1
    <3> QED  BY <3>2 DEF Elements
  <2> QED
    BY <2>1, <2>2 DEF Construct, RejectDuplicates, KnownDependency, RejectObject,
                      CheckNextPass, Constructed
<1>3. order = <<>> /\ stack = <<>>
  BY <1>1 DEF FixedInv, OrderKept, Started, Inv, StackIdle
<1>4. OrderKept'
  BY <1>1, <1>2, <1>3 DEF FixedInv, OrderKept, Named
<1>5. Visited'
  BY <1>1, <1>3 DEF Visited
<1>6. Settled' /\ FixedPointReached'
  BY <1>1 DEF Settled, FixedPointReached
<1> QED  BY <1>4, <1>5, <1>6 DEF FixedInv

LEMMA BeginFixed ==
    ASSUME FixedInv, TypeOK', Inv', BeginIteration
    PROVE  FixedInv'
<1>1. /\ phase = "begin" /\ phase' = "iterate" /\ UNCHANGED <<pipe, passes>>
      /\ stack' = <<>> /\ applied' = {} /\ pos' = 1
  BY DEF BeginIteration, construction
<1>2. DependencyOrder(order)'
  <2>1. CASE order = <<>>
    <3>1. DependencyOrder(order')
      BY <2>1 DEF BeginIteration, Orders
    <3> QED  BY <1>1, <3>1, SamePasses DEF DependencyOrder
  <2>2. CASE order # <<>>
    BY <1>1, <2>2, SamePasses DEF BeginIteration, FixedInv, OrderKept
  <2> QED  BY <2>1, <2>2
<1>3. OrderKept'
  BY <1>1, <1>2, SamePasses DEF FixedInv, OrderKept, Started
<1>4. Visited'
  BY <1>1 DEF Visited
<1>5. Settled' /\ FixedPointReached'
  BY <1>1 DEF Settled, FixedPointReached
<1> QED  BY <1>3, <1>4, <1>5 DEF FixedInv

(***************************************************************************)
(* The passes of the order, and their dependencies, are those of the       *)
(* pipeline.                                                               *)
(***************************************************************************)
LEMMA OrderFacts ==
    ASSUME FixedInv, phase = "iterate"
    PROVE  /\ Elements(order) = Elements(passes)
           /\ \A p \in Elements(passes) : Deps(p) \subseteq Elements(passes)
           /\ order \in Seq(Pass) /\ Len(order) \in Nat /\ pos \in Nat \ {0}
<1>1. DependencyOrder(order) /\ order \in Seq(Pass) /\ pos \in Nat \ {0}
  BY DEF FixedInv, OrderKept, Inv, TypeOK
<1>2. Elements(order) = Elements(passes) /\ Len(order) \in Nat
  BY <1>1 DEF DependencyOrder
<1>3. ASSUME NEW p \in Elements(passes) PROVE Deps(p) \subseteq Elements(passes)
  <2>1. PICK i \in 1..Len(order) : p = order[i]
    BY <1>2 DEF Elements
  <2>2. Deps(p) \subseteq {order[j] : j \in 1..(i - 1)}
    BY <1>1, <2>1 DEF DependencyOrder
  <2>3. \A j \in 1..(i - 1) : j \in 1..Len(order)
    BY <1>2
  <2>4. {order[j] : j \in 1..(i - 1)} \subseteq Elements(order)
    BY <2>3 DEF Elements
  <2> QED  BY <1>2, <2>2, <2>4
<1> QED  BY <1>1, <1>2, <1>3

(***************************************************************************)
(* The steps of reapply_recursive that run no pass keep the bottom of the  *)
(* stack, and those that start with it move the cursor past it.            *)
(***************************************************************************)
LEMMA WalkFixed ==
    ASSUME FixedInv, TypeOK', Inv', phase = "iterate", phase' = "iterate",
           UNCHANGED <<pipe, passes, order, applied, dirty, retval>>, Visited'
    PROVE  FixedInv'
<1>1. OrderKept'
  BY SamePasses DEF FixedInv, OrderKept, Started
<1>2. Settled' /\ FixedPointReached'
  BY SamePasses DEF FixedInv, Settled, NewRet, FixedPointReached
<1> QED  BY <1>1, <1>2 DEF FixedInv

LEMMA EnterPassFixed ==
    ASSUME FixedInv, TypeOK', Inv', EnterPass
    PROVE  FixedInv'
<1>1. /\ phase = "iterate" /\ phase' = "iterate" /\ stack = <<>> /\ pos <= Len(order)
      /\ UNCHANGED <<pipe, passes, order, applied, dirty, retval>>
      /\ pos' = pos + 1 /\ stack' = << <<order[pos], 1>> >>
  BY DEF EnterPass, Walking, construction, outcome, history
<1>2. Len(stack') = 1 /\ stack'[1][1] = order[pos] /\ stack' # <<>>
  BY <1>1
<1>3. pos \in 1..Len(order) /\ order[pos] \in Elements(passes)
  BY <1>1, OrderFacts DEF Elements
<1>4. \A i \in 1..Len(stack') : stack'[i][1] \in Elements(passes')
  BY <1>1, <1>2, <1>3
<1>5. ASSUME NEW i \in 1..Len(order), i < pos'
      PROVE  order[i] \in applied \/ stack'[1][1] = order[i]
  <2>1. i = pos \/ i < pos
    BY <1>1, <1>3, <1>5
  <2> QED  BY <1>1, <1>2, <2>1 DEF FixedInv, Visited
<1>6. Visited'
  BY <1>1, <1>2, <1>4, <1>5 DEF Visited
<1> QED  BY <1>1, <1>6, WalkFixed

LEMMA SkipDependencyFixed ==
    ASSUME FixedInv, TypeOK', Inv', SkipDependency
    PROVE  FixedInv'
<1>1. /\ phase = "iterate" /\ phase' = "iterate" /\ stack # <<>>
      /\ UNCHANGED <<pipe, passes, order, pos, applied, dirty, retval>>
      /\ stack' = Advance
  BY DEF SkipDependency, CheckingDependencies, construction, outcome, history
<1> DEFINE n == Len(stack)
<1>2. /\ n \in Nat \ {0} /\ Len(stack') = n /\ stack' # <<>>
      /\ \A i \in 1..n : stack'[i][1] = stack[i][1]
  <2>1. /\ n \in Nat \ {0} /\ Len(stack') = n /\ stack[n] = Top
        /\ \A i \in 1..(n - 1) : stack'[i] = stack[i]
        /\ stack'[n] = <<Top[1], Top[2] + 1>>
    BY <1>1, AdvanceFacts DEF FixedInv, Inv, Top
  <2> QED  BY <2>1
<1>3. Visited'
  BY <1>1, <1>2 DEF FixedInv, Visited
<1> QED  BY <1>1, <1>3, WalkFixed

LEMMA EnterDependencyFixed ==
    ASSUME FixedInv, TypeOK', Inv', EnterDependency
    PROVE  FixedInv'
<1>1. /\ phase = "iterate" /\ phase' = "iterate" /\ stack # <<>>
      /\ UNCHANGED <<pipe, passes, order, pos, applied, dirty, retval>>
      /\ stack' = Append(Advance, <<NextDependency, 1>>)
      /\ CheckingDependencies
  BY DEF EnterDependency, CheckingDependencies, construction, outcome, history
<1> DEFINE n == Len(stack)
<1>2. /\ n \in Nat \ {0} /\ Len(stack') = n + 1 /\ stack' # <<>> /\ stack[n] = Top
      /\ \A i \in 1..n : stack'[i][1] = stack[i][1]
      /\ stack'[n + 1][1] = NextDependency
  <2>1. /\ Advance \in Seq(Pass \X (Nat \ {0}))
        /\ n \in Nat \ {0} /\ Len(Advance) = n /\ stack[n] = Top
        /\ \A i \in 1..(n - 1) : Advance[i] = stack[i]
        /\ Advance[n] = <<Top[1], Top[2] + 1>>
    BY <1>1, AdvanceFacts DEF FixedInv, Inv, Top
  <2>2. /\ Len(stack') = n + 1
        /\ \A i \in 1..n : stack'[i] = Advance[i]
        /\ stack'[n + 1] = <<NextDependency, 1>>
    BY <1>1, <2>1, AppendProperties
  <2> QED  BY <2>1, <2>2
<1>3. NextDependency \in Elements(passes)
  <2>1. Top[1] \in Elements(passes)
    BY <1>2 DEF FixedInv, Visited
  <2>2. NextDependency \in Deps(Top[1])
    BY <1>1, TopFacts DEF FixedInv, Deps, Dependencies, DependsOn
  <2> QED  BY <1>1, <2>1, <2>2, OrderFacts
<1>4. \A i \in 1..(n + 1) : stack'[i][1] \in Elements(passes)
  <2>1. \A i \in 1..n : stack[i][1] \in Elements(passes)
    BY DEF FixedInv, Visited
  <2> QED  BY <1>2, <1>3, <2>1
<1>5. stack'[1][1] = stack[1][1]
  BY <1>2
<1>6. Visited'
  BY <1>1, <1>2, <1>4, <1>5 DEF FixedInv, Visited
<1> QED  BY <1>1, <1>6, WalkFixed

(***************************************************************************)
(* A pass runs.  If it returns a result, then it is named, or it is one    *)
(* the pipeline added and changes nothing.                                 *)
(***************************************************************************)
LEMMA ApplySubpassFixed ==
    ASSUME FixedInv, TypeOK', Inv',
           NEW p \in Pass, NEW r \in BOOLEAN, NEW m \in SUBSET Element,
           ApplySubpass(p, r, m)
    PROVE  FixedInv'
<1> DEFINE n == Len(stack)
<1>1. /\ phase = "iterate" /\ phase' = "iterate" /\ stack # <<>> /\ Top[1] = p
      /\ UNCHANGED <<pipe, passes, order, pos>>
      /\ stack' = Pop(stack) /\ applied' = applied \cup {p}
      /\ retval' = (IF r THEN retval \cup {p} ELSE retval)
      /\ m \subseteq Modified(p, r)
      /\ \A q \in Pass : dirty'[q] = IF q = p /\ p \notin pipe.incompatible
                                     THEN m ELSE dirty[q] \cup m
  BY DEF ApplySubpass, Ready, construction
<1>2. /\ n \in Nat \ {0} /\ Len(stack') = n - 1 /\ stack[n][1] = p
      /\ \A i \in 1..(n - 1) : stack'[i] = stack[i]
      /\ stack' \in Seq(Pass \X (Nat \ {0}))
  BY <1>1, PopFacts DEF FixedInv, Inv, TypeOK, Top
<1>3. OrderKept'
  BY <1>1, SamePasses DEF FixedInv, OrderKept, Started
<1>4. Visited'
  <2>1. \A i \in 1..Len(stack') : stack'[i][1] \in Elements(passes')
    BY <1>1, <1>2 DEF FixedInv, Visited
  <2>2. ASSUME NEW i \in 1..Len(order), i < pos
        PROVE  order[i] \in applied' \/ (stack' # <<>> /\ stack'[1][1] = order[i])
    <3>1. order[i] \in applied \/ stack[1][1] = order[i]
      BY <1>1, <2>2 DEF FixedInv, Visited
    <3>2. CASE n = 1
      BY <1>1, <1>2, <3>1, <3>2
    <3>3. CASE n # 1
      <4>1. stack'[1] = stack[1] /\ stack' # <<>>
        BY <1>2, <3>3
      <4> QED  BY <1>1, <3>1, <4>1
    <3> QED  BY <3>2, <3>3
  <2> QED  BY <1>1, <2>1, <2>2 DEF Visited
<1>5. Settled'
  <2> SUFFICES ASSUME AddedAnalyses, NewRet' = {},
                      NEW q \in applied' \ pipe.incompatible
               PROVE  dirty'[q] = {}
    BY <1>1, SamePasses DEF Settled
  <2>1. p \in Elements(passes)
    BY <1>2 DEF FixedInv, Visited
  <2>2. m = {}
    <3>1. CASE r /\ p \in Named
      <4>1. p \in retval' /\ p \in Named'
        BY <1>1, <3>1, SamePasses
      <4> QED  BY <4>1 DEF NewRet
    <3>2. CASE r /\ p \notin Named
      BY <1>1, <2>1, <3>2 DEF AddedAnalyses, Modified
    <3>3. CASE ~r
      BY <1>1, <3>3 DEF Modified
    <3> QED  BY <3>1, <3>2, <3>3
  <2>3. q \in Pass
    BY <1>1 DEF FixedInv, Inv, TypeOK
  <2>4. CASE q = p
    BY <1>1, <2>2, <2>3, <2>4
  <2>5. CASE q # p
    <3>1. NewRet = {}
      BY <1>1, SamePasses DEF NewRet
    <3>2. dirty[q] = {}
      BY <1>1, <2>5, <3>1 DEF FixedInv, Settled
    <3> QED  BY <1>1, <2>2, <2>3, <2>5, <3>2
  <2> QED  BY <2>4, <2>5
<1>6. FixedPointReached'
  BY <1>1 DEF FixedPointReached
<1> QED  BY <1>3, <1>4, <1>5, <1>6 DEF FixedInv

(***************************************************************************)
(* The iteration is over: every pass of the order has been applied in it.  *)
(***************************************************************************)
LEMMA IterationOverFixed ==
    ASSUME FixedInv, TypeOK', Inv', ReturnPlain \/ Repeat \/ ReturnFixedPoint
    PROVE  FixedInv'
<1>1. /\ phase = "iterate" /\ stack = <<>> /\ pos > Len(order)
      /\ phase' \in {"begin", "returned"}
      /\ UNCHANGED <<pipe, passes, order, stack, dirty, applied>>
  BY DEF ReturnPlain, Repeat, ReturnFixedPoint, IterationOver, construction, iteration,
         outcome, history
<1>2. OrderKept'
  BY <1>1, SamePasses DEF FixedInv, OrderKept, Started
<1>3. Visited' /\ Settled'
  BY <1>1 DEF Visited, Settled
<1>4. FixedPointReached'
  <2> SUFFICES ASSUME phase' = "returned", pipe.fixedPoint, AddedAnalyses,
                      NEW p \in Named \ pipe.incompatible
               PROVE  dirty[p] = {}
    BY <1>1, SamePasses DEF FixedPointReached
  <2>1. NewRet = {}
    BY DEF ReturnPlain, Repeat, ReturnFixedPoint
  <2>2. p \in Elements(order)
    BY <1>1, OrderFacts DEF FixedInv, OrderKept
  <2>3. PICK i \in 1..Len(order) : p = order[i]
    BY <2>2 DEF Elements
  <2>4. i < pos
    BY <1>1, OrderFacts
  <2>5. p \in applied
    BY <1>1, <2>3, <2>4 DEF FixedInv, Visited
  <2> QED  BY <1>1, <2>1, <2>5 DEF FixedInv, Settled
<1> QED  BY <1>2, <1>3, <1>4 DEF FixedInv

LEMMA NextFixed == FixedInv /\ [Next]_vars => FixedInv'
<1> SUFFICES ASSUME FixedInv, [Next]_vars PROVE FixedInv'
  OBVIOUS
<1>0. TypeOK' /\ Inv'
  BY NextInv DEF FixedInv, Inv
<1>1. CASE Construct
  BY <1>0, <1>1, ConstructFixed
<1>2. CASE BeginIteration
  BY <1>0, <1>2, BeginFixed
<1>3. CASE EnterPass
  BY <1>0, <1>3, EnterPassFixed
<1>4. CASE SkipDependency
  BY <1>0, <1>4, SkipDependencyFixed
<1>5. CASE EnterDependency
  BY <1>0, <1>5, EnterDependencyFixed
<1>6. CASE \E p \in Pass, r \in BOOLEAN, m \in SUBSET Element : ApplySubpass(p, r, m)
  BY <1>0, <1>6, ApplySubpassFixed
<1>7. CASE ReturnPlain \/ Repeat \/ ReturnFixedPoint
  BY <1>0, <1>7, IterationOverFixed
<1>8. CASE UNCHANGED vars
  <2>1. UNCHANGED <<pipe, passes, phase, order, pos, stack, applied, retval, dirty>>
    BY <1>8 DEF vars, construction, iteration, outcome, history
  <2>2. OrderKept' /\ Visited'
    BY <2>1, SamePasses DEF FixedInv, OrderKept, Visited, Started
  <2>3. Settled' /\ FixedPointReached'
    BY <2>1, SamePasses DEF FixedInv, Settled, FixedPointReached, NewRet
  <2> QED  BY <1>0, <2>2, <2>3 DEF FixedInv
<1> QED
  BY <1>1, <1>2, <1>3, <1>4, <1>5, <1>6, <1>7, <1>8 DEF Next, Apply, Stopped

(***************************************************************************)
(* When a fixed-point pipeline returns, no pass it was given has anything  *)
(* left to see, if the passes the pipeline added are analyses.             *)
(***************************************************************************)
THEOREM PipelineFixedPoint == Spec => []FixedPointReached
<1>1. Init => FixedInv
  <2> SUFFICES ASSUME Init PROVE FixedInv
    OBVIOUS
  <2>1. /\ phase = "construct" /\ order = <<>> /\ stack = <<>>
        /\ passes = pipe.named
    BY DEF Init
  <2>2. OrderKept /\ Visited /\ Settled /\ FixedPointReached
    BY <2>1 DEF OrderKept, Visited, Settled, FixedPointReached, Named, Started
  <2> QED  BY <2>2, InitInv DEF FixedInv
<1>2. FixedInv => FixedPointReached
  BY DEF FixedInv
<1> QED  BY <1>1, <1>2, NextFixed, PTL DEF Spec
-----------------------------------------------------------------------------
(***************************************************************************)
(* Dependencies of dependencies.  What has changed since a dependency of a *)
(* dependency was run, and wants it to be reapplied, has also changed      *)
(* since the dependency itself was run: it would be found out of date.     *)
(***************************************************************************)
Stale(d, S) == S # {} /\ S \in pipe.reappliesOn[d]

Backed ==
    \A q \in Pass : \A a \in Deps(q) \cap applied : \A d \in Deps(a) :
        d \in applied /\ (Stale(d, since[d]) => Stale(d, since[a]))

BackedInv == Inv /\ (AnalysisDependencies => Backed)

LEMMA CurrentIsNotStale ==
    ASSUME NEW d
    PROVE  Current(d) <=> d \in applied /\ ~Stale(d, since[d])
  BY DEF Current, Stale

LEMMA StaleUnion ==
    ASSUME TypeOK, NEW d \in Pass, NEW S \in SUBSET Element, NEW T \in SUBSET Element,
           NEW M \in SUBSET Element,
           Stale(d, S) => Stale(d, T), Stale(d, S \cup M)
    PROVE  Stale(d, T \cup M)
<1>1. \A A, C \in SUBSET Element :
          /\ A \in pipe.reappliesOn[d] /\ A \subseteq C => C \in pipe.reappliesOn[d]
          /\ A \cup C \in pipe.reappliesOn[d] =>
                 A \in pipe.reappliesOn[d] \/ C \in pipe.reappliesOn[d]
  BY PipeFacts DEF Monotone, Additive
<1>2. T \cup M \in SUBSET Element /\ T \subseteq T \cup M /\ M \subseteq T \cup M
  OBVIOUS
<1>3. CASE M \in pipe.reappliesOn[d] /\ M # {}
  BY <1>1, <1>2, <1>3 DEF Stale
<1>4. CASE M = {}
  <2>1. S \cup M = S /\ T \cup M = T
    BY <1>4
  <2> QED  BY <2>1
<1>5. CASE M \notin pipe.reappliesOn[d] /\ M # {}
  <2>1. S \in pipe.reappliesOn[d]
    BY <1>1, <1>5 DEF Stale
  <2>2. CASE S = {}
    <3>1. M \in pipe.reappliesOn[d]
      BY <1>1, <2>1, <2>2
    <3> QED  BY <1>5, <3>1
  <2>3. CASE S # {}
    <3>1. T \in pipe.reappliesOn[d] /\ T # {}
      BY <2>1, <2>3 DEF Stale
    <3> QED  BY <1>1, <1>2, <3>1 DEF Stale
  <2> QED  BY <2>2, <2>3
<1> QED  BY <1>3, <1>4, <1>5

LEMMA ApplySubpassBacked ==
    ASSUME BackedInv, Inv', AnalysisDependencies,
           NEW p \in Pass, NEW r \in BOOLEAN, NEW m \in SUBSET Element,
           ApplySubpass(p, r, m)
    PROVE  Backed'
<1> DEFINE M == Modified(p, r)
<1>1. /\ UNCHANGED pipe
      /\ stack # <<>> /\ Top[1] = p /\ Ready(p)
      /\ applied' = applied \cup {p}
      /\ since'[p] = {}
      /\ \A q \in Pass : q # p /\ q \in applied => since'[q] = since[q] \cup M
  BY DEF ApplySubpass, Ready
<1>2. TypeOK /\ Backed
  BY DEF BackedInv, Inv
<1>3. \A q : Deps(q)' = Deps(q)
  BY <1>1 DEF Deps
<1>4. \A d, S : Stale(d, S)' <=> Stale(d, S)
  BY <1>1 DEF Stale
<1>5. M \in SUBSET Element
  BY <1>2, PipeFacts DEF Modified
<1>6. ASSUME NEW d \in Deps(p) PROVE Current(d) /\ d # p
  <2>5. Current(d)
    BY <1>1, ReadyCurrent DEF BackedInv
  <2>6. d # p
    <3>1. Acyclic(pipe) /\ {p} \in SUBSET Pass
      BY <1>2, PipeFacts
    <3>2. Dependencies(pipe, p) \cap {p} = {}
      BY <3>1 DEF Acyclic
    <3> QED  BY <3>2 DEF Deps
  <2> QED  BY <2>5, <2>6
<1> HIDE DEF M
<1> SUFFICES ASSUME NEW q \in Pass, NEW a \in Deps(q), a \in applied',
                    NEW d \in Deps(a)
             PROVE  d \in applied' /\ (Stale(d, since'[d]) => Stale(d, since'[a]))
  BY <1>3, <1>4 DEF Backed
<1>7. a \in Pass /\ d \in Pass
  BY <1>2, PipeFacts
<1>8. CASE d = p
  BY <1>1, <1>8 DEF Stale
<1>9. CASE d # p /\ a = p
  <2>1. Current(d)
    BY <1>6, <1>9
  <2>2. M = {}
    BY <1>9 DEF AnalysisDependencies, IsAnalysis, M, Modified
  <2>3. d \in applied /\ since'[d] = since[d]
    BY <1>1, <1>7, <1>9, <2>1, <2>2 DEF Current
  <2> QED  BY <1>1, <2>1, <2>3, CurrentIsNotStale
<1>10. CASE d # p /\ a # p
  <2>1. a \in applied
    BY <1>1, <1>10
  <2>2. d \in applied /\ (Stale(d, since[d]) => Stale(d, since[a]))
    BY <1>2, <2>1 DEF Backed
  <2>3. since'[d] = since[d] \cup M /\ since'[a] = since[a] \cup M
    BY <1>1, <1>7, <1>10, <2>1, <2>2
  <2>4. since[d] \in SUBSET Element /\ since[a] \in SUBSET Element
    BY <1>2, <1>7 DEF TypeOK
  <2>5. Stale(d, since[d] \cup M) => Stale(d, since[a] \cup M)
    BY <1>2, <1>5, <1>7, <2>2, <2>4, StaleUnion
  <2> QED  BY <1>1, <2>2, <2>3, <2>5
<1> QED  BY <1>8, <1>9, <1>10

LEMMA NextBacked == BackedInv /\ [Next]_vars => BackedInv'
<1> SUFFICES ASSUME BackedInv, [Next]_vars PROVE BackedInv'
  OBVIOUS
<1>0. Inv'
  BY NextInv DEF BackedInv
<1> USE DEF iteration, outcome, history
<1>1. CASE UNCHANGED <<pipe, applied, since>>
  BY <1>0, <1>1
  DEF BackedInv, Backed, Stale, Deps, AnalysisDependencies, IsAnalysis, Modifies
<1>2. CASE BeginIteration
  BY <1>0, <1>2 DEF BeginIteration, BackedInv, Backed
<1>3. CASE \E p \in Pass, r \in BOOLEAN, m \in SUBSET Element : ApplySubpass(p, r, m)
  <2>1. UNCHANGED pipe
    BY <1>3 DEF ApplySubpass
  <2>2. AnalysisDependencies' <=> AnalysisDependencies
    BY <2>1 DEF AnalysisDependencies, IsAnalysis, Deps, Modifies
  <2> QED  BY <1>0, <1>3, <2>2, ApplySubpassBacked DEF BackedInv
<1> QED
  BY <1>1, <1>2, <1>3
  DEF Next, Construct, Apply, Stopped, vars, RejectDuplicates, AddDependency,
      KnownDependency, RejectObject, CheckNextPass, Constructed, EnterPass,
      SkipDependency, EnterDependency, ReturnPlain, Repeat, ReturnFixedPoint

(***************************************************************************)
(* If every analysis asks for reapplication when one it depends on does, a *)
(* pass finds current results of all analyses below it, although           *)
(* reapply_recursive looks at its direct dependencies only.                *)
(***************************************************************************)
THEOREM PipelineTransitivelyFresh == Spec => []TransitivelyFresh
<1>1. BackedInv => TransitivelyFresh
  <2> SUFFICES ASSUME BackedInv, AnalysisDependencies, Covering,
                      NEW p \in Pass, Ready(p), NEW d \in AllDeps(p)
               PROVE  ResultFresh(d)
    BY DEF TransitivelyFresh
  <2>1. TypeOK /\ Backed /\ Tracked
    BY DEF BackedInv, Inv
  <2> DEFINE S == {c \in Pass : Current(c) /\ \E q \in Pass : c \in Deps(q)}
  <2>2. Deps(p) \subseteq S
    <3> SUFFICES ASSUME NEW c \in Deps(p) PROVE c \in Pass /\ Current(c)
      OBVIOUS
    <3>1. c \in Pass
      BY <2>1, PipeFacts
    <3> QED  BY <3>1, ReadyCurrent DEF BackedInv
  <2>3. Closed(S)
    <3> SUFFICES ASSUME NEW a \in S, NEW c \in Deps(a) PROVE c \in S
      BY DEF Closed
    <3>1. PICK q \in Pass : a \in Deps(q)
      OBVIOUS
    <3>2. a \in Pass /\ c \in Pass /\ a \in applied /\ ~Stale(a, since[a])
      BY <2>1, PipeFacts, CurrentIsNotStale
    <3>3. c \in applied /\ (Stale(c, since[c]) => Stale(c, since[a]))
      BY <2>1, <3>1, <3>2 DEF Backed
    <3>4. pipe.reappliesOn[c] \subseteq pipe.reappliesOn[a]
      BY <3>1 DEF Covering
    <3>5. ~Stale(c, since[c])
      BY <3>2, <3>3, <3>4 DEF Stale
    <3> QED  BY <3>2, <3>3, <3>5, CurrentIsNotStale
  <2>4. d \in S
    <3>1. S \in SUBSET Pass
      OBVIOUS
    <3> HIDE DEF S
    <3> QED  BY <2>2, <2>3, <3>1 DEF AllDeps
  <2>5. d \in Pass /\ Current(d) /\ IsAnalysis(d)
    BY <2>4 DEF AnalysisDependencies
  <2> QED  BY <2>1, <2>5, CurrentIsFresh
<1>2. Init => BackedInv
  BY InitInv DEF BackedInv, Backed, Init
<1> QED  BY <1>1, <1>2, NextBacked, PTL DEF Spec
=============================================================================
