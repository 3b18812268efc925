---------------------- MODULE DfsTopologicalSortProofs ----------------------
(***************************************************************************)
(* Proofs about module DfsTopologicalSort, for any set of nodes, any       *)
(* graphs (with parallel edges, cycles and self-loops), any sources and    *)
(* any condition.                                                          *)
(***************************************************************************)
EXTENDS DfsTopologicalSort, SequenceTheorems, TLAPS

(***************************************************************************)
(* A node that some frame of the stack will still be offered as a child.   *)
(***************************************************************************)
Offered(s, n) ==
    \E i \in 1..Len(s) : \E j \in 1..Len(nbrs[s[i][1]]) :
        s[i][2] <= j /\ nbrs[s[i][1]][j] = n

(***************************************************************************)
(* The inductive invariant.  What makes the order complete is Pending: an  *)
(* unvisited node whose predecessors have all been visited is still to be  *)
(* offered, because the predecessor that was visited last is on the stack  *)
(* with the node among its remaining children.                             *)
(***************************************************************************)
YieldedVisited == Yielded(Len(order)) \subseteq visited

VisitedYielded == AcceptsAll => visited \subseteq Yielded(Len(order))

Pending ==
    AcceptsAll =>
        \A n \in Node \ visited :
            Pred(n) # {} /\ Pred(n) \subseteq visited => Offered(stack, n)

Started ==
    \A i \in 1..(next - 1) :
        IsStart(Candidates[i]) => Candidates[i] \in visited

Inv ==
    /\ TypeOK
    /\ YieldedVisited /\ VisitedYielded
    /\ YieldedOnce /\ PredecessorsFirst
    /\ Pending /\ Started

(***************************************************************************)
(* The stack: what advancing and popping it leave alone.                   *)
(***************************************************************************)
LEMMA StackType ==
    ASSUME TypeOK, stack # <<>>
    PROVE  /\ Len(stack) \in Nat \ {0}
           /\ Top \in Node \X (Nat \ {0})
           /\ Top[1] \in Node /\ Top[2] \in Nat \ {0}
           /\ nbrs[Top[1]] \in Seq(Node)
<1>1. stack \in Seq(Node \X (Nat \ {0})) /\ nbrs \in [Node -> Seq(Node)]
  BY CallAssumption DEF TypeOK
<1>2. Len(stack) \in Nat \ {0}
  BY <1>1
<1>3. Top \in Node \X (Nat \ {0})
  BY <1>1, <1>2 DEF Top
<1> QED  BY <1>1, <1>2, <1>3

LEMMA PopType ==
    ASSUME TypeOK, stack # <<>>
    PROVE  /\ Pop(stack) \in Seq(Node \X (Nat \ {0}))
           /\ Len(Pop(stack)) = Len(stack) - 1
           /\ \A i \in 1..(Len(stack) - 1) : Pop(stack)[i] = stack[i]
<1>1. stack \in Seq(Node \X (Nat \ {0})) /\ Len(stack) \in Nat \ {0}
  BY StackType DEF TypeOK
<1> DEFINE n == Len(stack) - 1
<1>2. n \in Nat /\ n \in Int /\ 1 \in Int
  BY <1>1
<1>3. \A i \in 1..n : stack[i] \in Node \X (Nat \ {0})
  BY <1>1
<1>4. /\ SubSeq(stack, 1, n) \in Seq(Node \X (Nat \ {0}))
      /\ Len(SubSeq(stack, 1, n)) = IF 1 <= n THEN n - 1 + 1 ELSE 0
      /\ \A i \in 1..(n - 1 + 1) : SubSeq(stack, 1, n)[i] = stack[1 + i - 1]
  <2> HIDE DEF n
  <2> QED  BY <1>2, <1>3, SubSeqProperties
<1>5. n = Len(stack) - 1 /\ Pop(stack) = SubSeq(stack, 1, n)
  BY DEF Pop
<1> HIDE DEF n
<1> QED  BY <1>2, <1>4, <1>5

LEMMA AdvanceType ==
    ASSUME TypeOK, stack # <<>>
    PROVE  /\ Advance(stack) \in Seq(Node \X (Nat \ {0}))
           /\ Len(Advance(stack)) = Len(stack)
           /\ \A i \in 1..(Len(stack) - 1) : Advance(stack)[i] = stack[i]
           /\ Advance(stack)[Len(stack)] = <<Top[1], Top[2] + 1>>
<1>1. Frame(Top[1], Top[2] + 1) \in Node \X (Nat \ {0})
  BY StackType DEF Frame
<1>2. Len(stack) \in Nat \ {0}
  BY StackType
<1> QED  BY <1>1, <1>2, PopType DEF Advance, Frame

LEMMA ChildType ==
    ASSUME TypeOK, HasChild
    PROVE  Child \in Node
  BY StackType DEF HasChild, Child

(***************************************************************************)
(* Offers survive: an advance withdraws only the child it hands out, a pop *)
(* of an exhausted frame none, a push of a frame adds all its children.    *)
(***************************************************************************)
LEMMA AdvanceOffers ==
    ASSUME TypeOK, HasChild, NEW n \in Node, n # Child, Offered(stack, n)
    PROVE  Offered(Advance(stack), n)
<1>1. stack # <<>>
  BY DEF HasChild
<1>2. PICK i \in 1..Len(stack) : \E j \in 1..Len(nbrs[stack[i][1]]) :
          stack[i][2] <= j /\ nbrs[stack[i][1]][j] = n
  BY DEF Offered
<1>3. PICK j \in 1..Len(nbrs[stack[i][1]]) : stack[i][2] <= j /\ nbrs[stack[i][1]][j] = n
  BY <1>2
<1>4. i \in 1..Len(Advance(stack))
  BY <1>1, AdvanceType
<1>5. CASE i = Len(stack)
  <2>1. stack[i] = Top /\ Top[2] \in Nat \ {0} /\ nbrs[Top[1]] \in Seq(Node)
    BY <1>1, <1>5, StackType DEF Top
  <2>2. Len(nbrs[Top[1]]) \in Nat
    BY <2>1
  <2>3. j # Top[2]
    BY <1>3, <2>1 DEF Child
  <2>4. Top[2] + 1 <= j
    BY <1>3, <2>1, <2>2, <2>3
  <2>5. Advance(stack)[i] = <<Top[1], Top[2] + 1>>
    BY <1>1, <1>5, AdvanceType
  <2>6. Advance(stack)[i][1] = Top[1] /\ Advance(stack)[i][2] = Top[2] + 1
    BY <2>5
  <2>7. /\ j \in 1..Len(nbrs[Advance(stack)[i][1]])
        /\ Advance(stack)[i][2] <= j /\ nbrs[Advance(stack)[i][1]][j] = n
    BY <1>3, <2>1, <2>4, <2>6
  <2> QED  BY <1>4, <2>7 DEF Offered
<1>6. CASE i # Len(stack)
  <2>1. i \in 1..(Len(stack) - 1)
    BY <1>1, <1>6, StackType
  <2>2. Advance(stack)[i] = stack[i]
    BY <1>1, <2>1, AdvanceType
  <2> QED  BY <1>3, <1>4, <2>2 DEF Offered
<1> QED  BY <1>5, <1>6

LEMMA PopOffers ==
    ASSUME TypeOK, stack # <<>>, ~HasChild, NEW n \in Node, Offered(stack, n)
    PROVE  Offered(Pop(stack), n)
<1>2. PICK i \in 1..Len(stack) : \E j \in 1..Len(nbrs[stack[i][1]]) :
          stack[i][2] <= j /\ nbrs[stack[i][1]][j] = n
  BY DEF Offered
<1>3. PICK j \in 1..Len(nbrs[stack[i][1]]) : stack[i][2] <= j /\ nbrs[stack[i][1]][j] = n
  BY <1>2
<1>4. i # Len(stack)
  <2> SUFFICES ASSUME i = Len(stack) PROVE FALSE
    OBVIOUS
  <2>1. stack[i] = Top /\ Top[2] \in Nat \ {0} /\ nbrs[Top[1]] \in Seq(Node)
    BY StackType DEF Top
  <2>2. Len(nbrs[Top[1]]) \in Nat
    BY <2>1
  <2> QED  BY <1>3, <2>1, <2>2 DEF HasChild
<1>5. i \in 1..(Len(stack) - 1)
  BY <1>4, StackType
<1>6. Pop(stack)[i] = stack[i] /\ i \in 1..Len(Pop(stack))
  BY <1>5, PopType
<1> QED  BY <1>3, <1>6 DEF Offered

LEMMA PushOffers ==
    ASSUME nbrs \in [Node -> Seq(Node)],
           NEW s \in Seq(Node \X (Nat \ {0})), NEW c \in Node, NEW n \in Node,
           Offered(s, n) \/ c \in Pred(n)
    PROVE  Offered(Append(s, Frame(c, 1)), n)
<1> DEFINE f == Append(s, Frame(c, 1))
<1>1. /\ Len(s) \in Nat /\ Len(f) = Len(s) + 1
      /\ \A i \in 1..Len(s) : f[i] = s[i]
      /\ f[Len(s) + 1] = <<c, 1>>
  BY DEF Frame
<1>2. CASE Offered(s, n)
  <2> HIDE DEF f
  <2> QED  BY <1>1, <1>2 DEF Offered
<1>3. CASE c \in Pred(n)
  <2>1. PICK j \in 1..Len(nbrs[c]) : nbrs[c][j] = n
    BY <1>3 DEF Pred, Children
  <2>2. 1 <= j /\ Len(s) + 1 \in 1..Len(f)
    BY <1>1
  <2>3. f[Len(s) + 1][1] = c /\ f[Len(s) + 1][2] = 1
    BY <1>1
  <2>4. /\ j \in 1..Len(nbrs[f[Len(s) + 1][1]])
        /\ f[Len(s) + 1][2] <= j /\ nbrs[f[Len(s) + 1][1]][j] = n
    BY <2>1, <2>2, <2>3
  <2> HIDE DEF f
  <2>5. Offered(f, n)
    BY <2>2, <2>4 DEF Offered
  <2> QED  BY <2>5 DEF f
<1> QED  BY <1>2, <1>3

(***************************************************************************)
(* The order: what a yield and a step without one do to it.                *)
(***************************************************************************)
OrderInv == YieldedVisited /\ VisitedYielded /\ YieldedOnce /\ PredecessorsFirst

LEMMA ArgumentsKept ==
    ASSUME UNCHANGED arguments
    PROVE  /\ UNCHANGED <<nbrs, sources, cond>>
           /\ Candidates' = Candidates /\ AcceptsAll' = AcceptsAll
           /\ \A n : (Pred(n))' = Pred(n) /\ (IsStart(n))' = IsStart(n)
           /\ \A s, n : (Offered(s, n))' <=> Offered(s, n)
<1>1. UNCHANGED <<nbrs, sources, cond>>
  BY DEF arguments
<1> QED  BY <1>1 DEF Candidates, AcceptsAll, Pred, Children, IsStart, Offered

LEMMA YieldOrder ==
    ASSUME TypeOK, OrderInv, UNCHANGED arguments,
           NEW c \in Node, c \notin visited, IsStart(c) \/ Pred(c) \subseteq visited,
           visited' = visited \cup {c}, order' = Append(order, c)
    PROVE  OrderInv'
<1>1. /\ order \in Seq(Node) /\ Len(order) \in Nat /\ Len(order') = Len(order) + 1
      /\ \A i \in 1..Len(order) : order'[i] = order[i]
      /\ order'[Len(order) + 1] = c
  BY DEF TypeOK
<1>2. \A k \in 0..Len(order) : Yielded(k)' = Yielded(k)
  BY <1>1 DEF Yielded
<1>3. Yielded(Len(order))' = Yielded(Len(order)) \cup {c}
  BY <1>1 DEF Yielded
<1>4. YieldedVisited' /\ VisitedYielded'
  BY <1>3, ArgumentsKept DEF OrderInv, YieldedVisited, VisitedYielded
<1>5. \A i \in 1..Len(order) : order[i] # c
  BY DEF OrderInv, YieldedVisited, Yielded
<1>6. YieldedOnce'
  BY <1>1, <1>5 DEF OrderInv, YieldedOnce
<1>7. Dropped' = Dropped
  BY <1>3 DEF Dropped, OrderInv, YieldedVisited
<1>8. PredecessorsFirst'
  <2> SUFFICES ASSUME NEW k \in 1..(Len(order) + 1)
               PROVE  IsStart(order'[k])
                        \/ Pred(order'[k]) \subseteq Yielded(k - 1)' \cup Dropped
    BY <1>1, <1>7, ArgumentsKept DEF PredecessorsFirst
  <2>1. CASE k = Len(order) + 1
    <3>1. Yielded(k - 1)' = Yielded(Len(order)) /\ order'[k] = c
      BY <1>1, <1>2, <2>1
    <3>2. visited \subseteq Yielded(Len(order)) \cup Dropped
      BY DEF Dropped
    <3> QED  BY <3>1, <3>2
  <2>2. CASE k # Len(order) + 1
    <3>1. k \in 1..Len(order) /\ k - 1 \in 0..Len(order)
      BY <1>1, <2>2
    <3>2. Yielded(k - 1)' = Yielded(k - 1) /\ order'[k] = order[k]
      BY <1>1, <1>2, <3>1
    <3> QED  BY <3>1, <3>2 DEF OrderInv, PredecessorsFirst
  <2> QED  BY <2>1, <2>2
<1> QED  BY <1>4, <1>6, <1>8 DEF OrderInv

LEMMA KeepOrder ==
    ASSUME OrderInv, UNCHANGED arguments, UNCHANGED order,
           visited \subseteq visited', visited' = visited \/ ~AcceptsAll
    PROVE  OrderInv'
<1>1. \A k : Yielded(k)' = Yielded(k)
  BY DEF Yielded
<1>2. YieldedVisited' /\ VisitedYielded' /\ YieldedOnce'
  BY <1>1, ArgumentsKept DEF OrderInv, YieldedVisited, VisitedYielded, YieldedOnce
<1>3. Dropped \subseteq Dropped'
  BY <1>1 DEF Dropped
<1>4. PredecessorsFirst'
  BY <1>1, <1>3, ArgumentsKept DEF OrderInv, PredecessorsFirst
<1> QED  BY <1>2, <1>4 DEF OrderInv

LEMMA InitInv == Init => Inv
<1> SUFFICES ASSUME Init PROVE Inv
  OBVIOUS
<1> USE DEF Init
<1>1. Candidates \in Seq(Node) /\ Len(Candidates) \in Nat
  BY NodeOrderAssumption, CallAssumption DEF Candidates
<1>2. TypeOK
  BY <1>1 DEF TypeOK
<1>3. YieldedVisited /\ VisitedYielded /\ YieldedOnce /\ PredecessorsFirst
  BY DEF YieldedVisited, VisitedYielded, YieldedOnce, PredecessorsFirst, Yielded
<1>4. Pending /\ Started
  BY DEF Pending, Started
<1> QED  BY <1>2, <1>3, <1>4 DEF Inv

LEMMA CandidatesType ==
    ASSUME TypeOK
    PROVE  /\ Candidates \in Seq(Node) /\ Len(Candidates) \in Nat
           /\ next \in Nat \ {0}
           /\ nbrs \in [Node -> Seq(Node)]
<1>1. Candidates \in Seq(Node)
  BY NodeOrderAssumption, CallAssumption DEF TypeOK, Candidates
<1> QED  BY <1>1, CallAssumption DEF TypeOK

LEMMA SkipStartInv == ASSUME Inv, SkipStart PROVE Inv'
<1> USE DEF SkipStart
<1>1. UNCHANGED arguments /\ TypeOK /\ OrderInv
  BY DEF Inv, OrderInv
<1>2. TypeOK'
  BY <1>1, CandidatesType, ArgumentsKept DEF TypeOK
<1>3. OrderInv'
  BY <1>1, KeepOrder
<1>4. Pending'
  BY <1>1, ArgumentsKept DEF Inv, Pending
<1>5. Started'
  BY <1>1, CandidatesType, ArgumentsKept DEF Inv, Started
<1> QED  BY <1>2, <1>3, <1>4, <1>5 DEF Inv, OrderInv

LEMMA StartInv == ASSUME Inv, Start PROVE Inv'
<1> DEFINE c == Candidates[next]
<1>1. UNCHANGED arguments /\ TypeOK /\ OrderInv
  BY DEF Inv, OrderInv, Start
<1>2. c \in Node /\ IsStart(c) /\ c \notin visited
  BY <1>1, CandidatesType DEF Start
<1>3. /\ next' = next + 1 /\ next <= Len(Candidates)
      /\ visited' = visited \cup {c} /\ order' = Append(order, c)
      /\ stack = <<>> /\ stack' = <<Frame(c, 1)>>
  BY DEF Start
<1>4. TypeOK'
  <2>1. stack' \in Seq(Node \X (Nat \ {0}))
    BY <1>2, <1>3 DEF Frame
  <2>2. next' \in 1..(Len(Candidates) + 1)
    BY <1>1, <1>3, CandidatesType
  <2> QED  BY <1>1, <1>2, <1>3, <2>1, <2>2, ArgumentsKept DEF TypeOK
<1>5. OrderInv'
  BY <1>1, <1>2, <1>3, YieldOrder
<1>6. Pending'
  <2> SUFFICES ASSUME AcceptsAll, NEW n \in Node, n \notin visited, n # c, Pred(n) # {},
                      Pred(n) \subseteq visited \cup {c}
               PROVE  Offered(stack', n)
    BY <1>1, <1>3, ArgumentsKept DEF Pending
  <2>1. Offered(stack, n) \/ c \in Pred(n)
    BY DEF Inv, Pending
  <2>2. stack \in Seq(Node \X (Nat \ {0})) /\ nbrs \in [Node -> Seq(Node)]
    BY <1>1, CandidatesType DEF TypeOK
  <2>3. stack' = Append(stack, Frame(c, 1))
    BY <1>3
  <2> HIDE DEF c
  <2> QED  BY <1>2, <2>1, <2>2, <2>3, PushOffers
<1>7. Started'
  <2> SUFFICES ASSUME NEW i \in 1..next, IsStart(Candidates[i])
               PROVE  Candidates[i] \in visited'
    BY <1>1, <1>3, CandidatesType, ArgumentsKept DEF Started
  <2>1. i = next \/ i \in 1..(next - 1)
    BY <1>1, CandidatesType
  <2> QED  BY <1>3, <2>1 DEF Inv, Started
<1> QED  BY <1>4, <1>5, <1>6, <1>7 DEF Inv, OrderInv

(***************************************************************************)
(* A child that is not eligible is visited, or waits for a predecessor.    *)
(***************************************************************************)
LEMMA SkipChildInv == ASSUME Inv, SkipChild PROVE Inv'
<1>1. /\ UNCHANGED arguments /\ TypeOK /\ OrderInv /\ HasChild /\ stack # <<>>
      /\ UNCHANGED <<next, visited, order>> /\ stack' = Advance(stack) /\ ~Eligible(Child)
  BY DEF Inv, OrderInv, SkipChild, HasChild
<1>2. TypeOK'
  BY <1>1, AdvanceType, ArgumentsKept DEF TypeOK
<1>3. OrderInv'
  BY <1>1, KeepOrder
<1>4. Pending'
  <2> SUFFICES ASSUME AcceptsAll, NEW n \in Node, n \notin visited, Pred(n) # {},
                      Pred(n) \subseteq visited
               PROVE  Offered(Advance(stack), n)
    BY <1>1, ArgumentsKept DEF Pending
  <2>1. n # Child
    BY <1>1 DEF Eligible
  <2>2. Offered(stack, n)
    BY DEF Inv, Pending
  <2> QED  BY <1>1, <2>1, <2>2, AdvanceOffers
<1>5. Started'
  BY <1>1, ArgumentsKept DEF Inv, Started
<1> QED  BY <1>2, <1>3, <1>4, <1>5 DEF Inv, OrderInv

LEMMA YieldChildInv == ASSUME Inv, YieldChild PROVE Inv'
<1> DEFINE c == Child
<1>1. /\ UNCHANGED arguments /\ TypeOK /\ OrderInv /\ HasChild /\ stack # <<>>
      /\ UNCHANGED next /\ visited' = visited \cup {c} /\ order' = Append(order, c)
      /\ stack' = Append(Advance(stack), Frame(c, 1))
      /\ c \notin visited /\ Pred(c) \subseteq visited
  BY DEF Inv, OrderInv, YieldChild, HasChild, Eligible
<1>2. c \in Node
  BY <1>1, ChildType
<1>3. Advance(stack) \in Seq(Node \X (Nat \ {0}))
  BY <1>1, AdvanceType
<1>4. TypeOK'
  <2>1. stack' \in Seq(Node \X (Nat \ {0}))
    BY <1>1, <1>2, <1>3 DEF Frame
  <2> QED  BY <1>1, <1>2, <2>1, ArgumentsKept DEF TypeOK
<1>5. OrderInv'
  BY <1>1, <1>2, YieldOrder
<1>6. Pending'
  <2> SUFFICES ASSUME AcceptsAll, NEW n \in Node, n \notin visited, n # c, Pred(n) # {},
                      Pred(n) \subseteq visited \cup {c}
               PROVE  Offered(stack', n)
    BY <1>1, ArgumentsKept DEF Pending
  <2>1. Offered(stack, n) \/ c \in Pred(n)
    BY DEF Inv, Pending
  <2>2. Offered(Advance(stack), n) \/ c \in Pred(n)
    BY <1>1, <2>1, AdvanceOffers
  <2>3. nbrs \in [Node -> Seq(Node)]
    BY <1>1, CandidatesType
  <2> HIDE DEF c
  <2> QED  BY <1>1, <1>2, <1>3, <2>2, <2>3, PushOffers
<1>7. Started'
  BY <1>1, ArgumentsKept DEF Inv, Started
<1> QED  BY <1>4, <1>5, <1>6, <1>7 DEF Inv, OrderInv

LEMMA RejectChildInv == ASSUME Inv, RejectChild PROVE Inv'
<1>1. /\ UNCHANGED arguments /\ TypeOK /\ OrderInv /\ HasChild /\ stack # <<>>
      /\ UNCHANGED <<next, order>> /\ visited' = visited \cup {Child}
      /\ stack' = Advance(stack) /\ <<Top[1], Child>> \notin cond
  BY DEF Inv, OrderInv, RejectChild, HasChild
<1>2. Child \in Node /\ Top[1] \in Node
  BY <1>1, ChildType, StackType
<1>3. ~AcceptsAll
  BY <1>1, <1>2 DEF AcceptsAll
<1>4. TypeOK'
  BY <1>1, <1>2, AdvanceType, ArgumentsKept DEF TypeOK
<1>5. OrderInv'
  BY <1>1, <1>3, KeepOrder
<1>6. Pending'
  BY <1>1, <1>3, ArgumentsKept DEF Pending
<1>7. Started'
  BY <1>1, ArgumentsKept DEF Inv, Started
<1> QED  BY <1>4, <1>5, <1>6, <1>7 DEF Inv, OrderInv

LEMMA BacktrackInv == ASSUME Inv, Backtrack PROVE Inv'
<1>1. /\ UNCHANGED arguments /\ TypeOK /\ OrderInv /\ stack # <<>>
      /\ UNCHANGED <<next, visited, order>> /\ stack' = Pop(stack)
      /\ Top[2] > Len(nbrs[Top[1]])
  BY DEF Inv, OrderInv, Backtrack
<1>2. ~HasChild
  <2>1. Top[2] \in Nat /\ Len(nbrs[Top[1]]) \in Nat
    BY <1>1, StackType
  <2> QED  BY <1>1, <2>1 DEF HasChild
<1>3. TypeOK'
  BY <1>1, PopType, ArgumentsKept DEF TypeOK
<1>4. OrderInv'
  BY <1>1, KeepOrder
<1>5. Pending'
  <2> SUFFICES ASSUME AcceptsAll, NEW n \in Node, n \notin visited, Pred(n) # {},
                      Pred(n) \subseteq visited
               PROVE  Offered(Pop(stack), n)
    BY <1>1, ArgumentsKept DEF Pending
  <2>1. Offered(stack, n)
    BY DEF Inv, Pending
  <2> QED  BY <1>1, <1>2, <2>1, PopOffers
<1>6. Started'
  BY <1>1, ArgumentsKept DEF Inv, Started
<1> QED  BY <1>3, <1>4, <1>5, <1>6 DEF Inv, OrderInv

LEMMA StepInv == Inv /\ [Next]_vars => Inv'
<1> SUFFICES ASSUME Inv, [Next]_vars PROVE Inv'
  OBVIOUS
<1>1. CASE Step
  BY <1>1, SkipStartInv, StartInv, SkipChildInv, YieldChildInv, RejectChildInv,
     BacktrackInv DEF Step
<1>2. CASE UNCHANGED vars
  <2>1. UNCHANGED arguments /\ UNCHANGED <<next, visited, stack, order>> /\ OrderInv
    BY <1>2 DEF vars, arguments, Inv, OrderInv
  <2>2. OrderInv'
    BY <2>1, KeepOrder
  <2>3. TypeOK' /\ Pending' /\ Started'
    BY <2>1, ArgumentsKept DEF Inv, TypeOK, Pending, Started
  <2> QED  BY <2>2, <2>3 DEF Inv, OrderInv
<1> QED  BY <1>1, <1>2 DEF Next, Exhausted

LEMMA Invariance == Spec => []Inv
  BY InitInv, StepInv, PTL DEF Spec

(***************************************************************************)
(* The positions, frames and the order of dfs_topological_sort keep their  *)
(* types.                                                                  *)
(***************************************************************************)
THEOREM DfsTypeCorrect == Spec => []TypeOK
<1>1. Inv => TypeOK
  BY DEF Inv
<1> QED  BY <1>1, Invariance, PTL

(***************************************************************************)
(* On any graph, every node that is not a start is yielded after all its   *)
(* predecessors were yielded or dropped by the condition.                  *)
(***************************************************************************)
THEOREM DfsPredecessorsFirst == Spec => []PredecessorsFirst
<1>1. Inv => PredecessorsFirst
  BY DEF Inv
<1> QED  BY <1>1, Invariance, PTL

(***************************************************************************)
(* On any graph, no node is yielded twice, however many edges lead to it.  *)
(***************************************************************************)
THEOREM DfsYieldedOnce == Spec => []YieldedOnce
<1>1. Inv => YieldedOnce
  BY DEF Inv
<1> QED  BY <1>1, Invariance, PTL

(***************************************************************************)
(* On an acyclic graph, without sources and condition, an exhausted        *)
(* generator has yielded every node: a minimal unvisited node would either *)
(* be a start that was passed over or still be offered by the stack.       *)
(***************************************************************************)
THEOREM DfsCompleteOnDAG == Spec => []CompleteOnDAG
<1>1. Inv => CompleteOnDAG
  <2> SUFFICES ASSUME Inv, Acyclic, sources = NoSources, AcceptsAll, Finished
               PROVE  Yielded(Len(order)) = Node
    BY DEF CompleteOnDAG, Complete
  <2>1. TypeOK /\ stack = <<>> /\ next > Len(Candidates) /\ Candidates = NodeOrder
    BY DEF Inv, Finished, Candidates
  <2>2. ASSUME NEW n \in Node, Pred(n) = {} PROVE n \in visited
    <3>1. PICK i \in 1..Len(NodeOrder) : NodeOrder[i] = n
      BY NodeOrderAssumption
    <3>2. i \in 1..(next - 1)
      BY <2>1, <3>1, CandidatesType
    <3>3. IsStart(n)
      BY <2>2 DEF IsStart
    <3> QED  BY <2>1, <3>1, <3>2, <3>3 DEF Inv, Started
  <2>3. Node \ visited = {}
    <3> SUFFICES ASSUME Node \ visited # {} PROVE FALSE
      OBVIOUS
    <3>1. PICK n \in Node \ visited : Pred(n) \cap (Node \ visited) = {}
      BY DEF Acyclic
    <3>2. Pred(n) \subseteq visited
      BY <3>1 DEF Pred
    <3>3. Pred(n) # {}
      BY <2>2
    <3>4. Offered(stack, n)
      BY <3>2, <3>3 DEF Inv, Pending
    <3> QED  BY <2>1, <3>4 DEF Offered
  <2> QED  BY <2>1, <2>3 DEF Inv, VisitedYielded, YieldedVisited, TypeOK
<1> QED  BY <1>1, Invariance, PTL
=============================================================================
