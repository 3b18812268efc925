------------------------ MODULE ConsumeStreamProofs -------------------------
(***************************************************************************)
(* Proofs about module ConsumeStream, for any number of threads, any       *)
(* elements, any chunk size and any width of the counter that can count    *)
(* the elements.                                                           *)
(***************************************************************************)
EXTENDS ConsumeStream, FiniteSetTheorems, TLAPS

(***************************************************************************)
(* Arithmetic modulo the number of values of the counter.                  *)
(***************************************************************************)
LEMMA Division ==
    ASSUME NEW a \in Int
    PROVE  /\ a = Modulus * (a \div Modulus) + (a % Modulus)
           /\ a \div Modulus \in Int
           /\ a % Modulus \in 0..(Modulus - 1)
  BY ModulusAssumption

LEMMA Remainder ==
    ASSUME NEW q \in Int, NEW r \in 0..(Modulus - 1)
    PROVE  (Modulus * q + r) % Modulus = r
  BY ModulusAssumption

LEMMA SmallRemainder ==
    ASSUME NEW r \in 0..(Modulus - 1)
    PROVE  r % Modulus = r
<1>1. Modulus * 0 + r = r
  BY ModulusAssumption
<1> QED  BY <1>1, Remainder

LEMMA AddBoth ==
    ASSUME NEW a \in Int, NEW b \in Int, NEW n \in Int, a % Modulus = b % Modulus
    PROVE  (a + n) % Modulus = (b + n) % Modulus
<1> DEFINE r == (b + n) % Modulus
           q == (a \div Modulus) - (b \div Modulus) + ((b + n) \div Modulus)
<1>1. /\ a = Modulus * (a \div Modulus) + (a % Modulus)
      /\ b = Modulus * (b \div Modulus) + (b % Modulus)
      /\ b + n = Modulus * ((b + n) \div Modulus) + r
      /\ a \div Modulus \in Int /\ b \div Modulus \in Int
      /\ (b + n) \div Modulus \in Int
      /\ r \in 0..(Modulus - 1)
  BY Division
<1>2. a + n = Modulus * q + r /\ q \in Int
  <2> HIDE DEF r
  <2> QED  BY <1>1, ModulusAssumption
<1>3. (Modulus * q + r) % Modulus = r
  <2> HIDE DEF q, r
  <2> QED  BY <1>1, <1>2, Remainder
<1> QED  BY <1>2, <1>3

(* The counter may be wrapped before or after something is added to it.    *)
LEMMA WrapThenAdd ==
    ASSUME NEW a \in Int, NEW n \in Int
    PROVE  ((a % Modulus) + n) % Modulus = (a + n) % Modulus
<1>1. a % Modulus \in 0..(Modulus - 1)
  BY Division
<1>2. (a % Modulus) % Modulus = a % Modulus
  BY <1>1, SmallRemainder
<1>3. a % Modulus \in Int
  BY <1>1, ModulusAssumption
<1> QED  BY <1>2, <1>3, AddBoth

(***************************************************************************)
(* Sets that the threads own.                                              *)
(***************************************************************************)
All(f) == UNION {f[t] : t \in Thread}

LEMMA Owned ==
    ASSUME NEW f \in [Thread -> SUBSET Item], NEW t \in Thread, NEW S \in SUBSET Item,
           f[t] = {}
    PROVE  All([f EXCEPT ![t] = S]) = All(f) \cup S
  BY DEF All

LEMMA Disowned ==
    ASSUME NEW f \in [Thread -> SUBSET Item], NEW t \in Thread,
           \A u, v \in Thread : u # v => f[u] \cap f[v] = {}
    PROVE  All([f EXCEPT ![t] = {}]) = All(f) \ f[t]
  BY DEF All

LEMMA CardItem ==
    ASSUME NEW S \in SUBSET Item
    PROVE  /\ IsFiniteSet(S)
           /\ Cardinality(S) \in Nat
           /\ Cardinality(S) < Modulus
<1>1. IsFiniteSet(S) /\ Cardinality(S) <= Cardinality(Item)
  BY ItemAssumption, FS_Subset
<1>2. Cardinality(S) \in Nat /\ Cardinality(Item) \in Nat
  BY <1>1, ItemAssumption, FS_CardinalityType
<1> QED  BY <1>1, <1>2, CounterAssumption, ModulusAssumption

LEMMA CardAdd ==
    ASSUME NEW S \in SUBSET Item, NEW T \in SUBSET Item, S \cap T = {}
    PROVE  Cardinality(S \cup T) = Cardinality(S) + Cardinality(T)
<1>1. /\ IsFiniteSet(S) /\ IsFiniteSet(T)
      /\ Cardinality(S) \in Nat /\ Cardinality(T) \in Nat
  BY CardItem
<1>2. Cardinality(S \cup T)
        = Cardinality(S) + Cardinality(T) - Cardinality(S \cap T)
  BY <1>1, FS_Union
<1>3. Cardinality(S \cap T) = 0
  BY FS_EmptySet
<1> QED  BY <1>1, <1>2, <1>3

LEMMA CardRemove ==
    ASSUME NEW S \in SUBSET Item, NEW T \in SUBSET S
    PROVE  Cardinality(S \ T) = Cardinality(S) - Cardinality(T)
<1>1. (S \ T) \in SUBSET Item /\ T \in SUBSET Item /\ (S \ T) \cap T = {}
  OBVIOUS
<1>2. Cardinality((S \ T) \cup T) = Cardinality(S \ T) + Cardinality(T)
  BY <1>1, CardAdd
<1>3. (S \ T) \cup T = S
  OBVIOUS
<1>4. Cardinality(S \ T) \in Nat /\ Cardinality(T) \in Nat
  BY <1>1, CardItem
<1>5. Cardinality(S) = Cardinality(S \ T) + Cardinality(T)
  BY <1>2, <1>3
<1> QED
  <2> DEFINE s == Cardinality(S)
             d == Cardinality(S \ T)
             n == Cardinality(T)
  <2>1. s = d + n /\ d \in Nat /\ n \in Nat
    BY <1>4, <1>5
  <2>2. SUFFICES d = s - n
    OBVIOUS
  <2> HIDE DEF s, d, n
  <2> QED  BY <2>1

(***************************************************************************)
(* The inductive invariant.  A thread owns elements only while it runs     *)
(* their contents or is about to decrement, and no element has two owners. *)
(* An element that is being pushed may be consumed before it is counted,   *)
(* so pushing is disjoint only from what has not been pushed.              *)
(***************************************************************************)
Idle ==
    \A t \in Thread :
        /\ pc[t] \notin {"contents", "push", "decrement"} => held[t] = {}
        /\ pc[t] # "push" => pushing[t] = {}

Disjoint(f) == \A t, u \in Thread : t # u => f[t] \cap f[u] = {}

Owners ==
    /\ Disjoint(held)
    /\ Disjoint(pushing)
    /\ queue \cap (Held \cup consumed \cup unsent) = {}
    /\ unsent \cap (Held \cup Pushing \cup consumed) = {}
    /\ Item = unsent \cup queue \cup Held \cup consumed

Progress ==
    \A t \in Thread :
        /\ pc[t] \in {"contents", "push"} => held[t] \cap consumed = {}
        /\ pc[t] = "decrement" => held[t] \subseteq consumed

JoinedAtZero == Joined => elements = 0

Inv == TypeOK /\ Idle /\ Owners /\ Progress /\ Conservation /\ JoinedAtZero

LEMMA InitInv == Init => Inv
<1> SUFFICES ASSUME Init PROVE Inv
  OBVIOUS
<1> USE DEF Init
<1>1. Held = {} /\ Pushing = {}
  BY DEF Held, Pushing
<1>2. Cardinality(queue) \in Nat /\ Cardinality(queue) < Modulus
  BY CardItem
<1>3. TypeOK
  BY <1>2, ModulusAssumption DEF TypeOK, Point
<1>4. Idle /\ Progress
  BY DEF Idle, Progress
<1>5. Owners
  BY <1>1 DEF Owners, Disjoint
<1>6. Conservation
  BY <1>1, <1>2, FS_EmptySet DEF Conservation
<1>7. JoinedAtZero
  BY ThreadAssumption DEF JoinedAtZero, Joined
<1> QED  BY <1>3, <1>4, <1>5, <1>6, <1>7 DEF Inv

(***************************************************************************)
(* The sets that Conservation counts are sets of elements, so they have    *)
(* cardinalities below the modulus.                                        *)
(***************************************************************************)
LEMMA Counts ==
    ASSUME TypeOK
    PROVE  /\ Held \in SUBSET Item /\ Pushing \in SUBSET Item
           /\ Held = All(held) /\ Pushing = All(pushing)
           /\ Cardinality(queue) \in Nat /\ Cardinality(Held) \in Nat
           /\ Cardinality(Pushing) \in Nat /\ elements \in Int
           /\ \A S \in SUBSET Item : Cardinality(S) \in Nat
<1>1. Held \in SUBSET Item /\ Pushing \in SUBSET Item
  BY DEF TypeOK, Held, Pushing
<1>2. Held = All(held) /\ Pushing = All(pushing)
  BY DEF Held, Pushing, All
<1>3. \A S \in SUBSET Item : Cardinality(S) \in Nat
  BY CardItem
<1>4. queue \in SUBSET Item /\ elements \in Int
  BY ModulusAssumption DEF TypeOK
<1> QED  BY <1>1, <1>2, <1>3, <1>4

(***************************************************************************)
(* A step that leaves every thread's elements and the queue alone.         *)
(***************************************************************************)
LEMMA QuietStep ==
    ASSUME Inv, UNCHANGED <<queue, elements, held, pushing, unsent, consumed>>
    PROVE  Owners' /\ Conservation'
<1>1. Held' = Held /\ Pushing' = Pushing
  BY DEF Held, Pushing
<1> QED  BY <1>1 DEF Inv, Owners, Disjoint, Conservation

LEMMA EnterInv == ASSUME Inv, NEW t \in Thread, Enter(t) PROVE Inv'
<1> USE DEF Enter, At, Goto
<1>1. TypeOK'
  BY DEF Inv, TypeOK, Point
<1>2. Idle' /\ Progress'
  BY DEF Inv, TypeOK, Idle, Progress
<1>3. Owners' /\ Conservation'
  BY QuietStep
<1>4. JoinedAtZero'
  BY DEF Inv, TypeOK, JoinedAtZero, Joined
<1> QED  BY <1>1, <1>2, <1>3, <1>4 DEF Inv

LEMMA LeaveInv == ASSUME Inv, NEW t \in Thread, Leave(t) PROVE Inv'
<1> USE DEF Leave, At, Goto
<1>1. TypeOK'
  BY DEF Inv, TypeOK, Point
<1>2. Idle' /\ Progress'
  BY DEF Inv, TypeOK, Idle, Progress
<1>3. Owners' /\ Conservation'
  BY QuietStep
<1>4. JoinedAtZero'
  BY DEF JoinedAtZero
<1> QED  BY <1>1, <1>2, <1>3, <1>4 DEF Inv

LEMMA PopFailInv == ASSUME Inv, NEW t \in Thread, PopFail(t) PROVE Inv'
<1> USE DEF PopFail, At, Goto
<1>1. TypeOK'
  BY DEF Inv, TypeOK, Point
<1>2. Idle' /\ Progress'
  BY DEF Inv, TypeOK, Idle, Progress
<1>3. Owners' /\ Conservation'
  BY QuietStep
<1>4. JoinedAtZero'
  BY DEF Inv, TypeOK, JoinedAtZero, Joined
<1> QED  BY <1>1, <1>2, <1>3, <1>4 DEF Inv

(***************************************************************************)
(* A pop moves elements from the queue to a thread: the sum stays.         *)
(***************************************************************************)
LEMMA PopTryInv ==
    ASSUME Inv, NEW t \in Thread, NEW S \in SUBSET Item, PopTry(t, S)
    PROVE  Inv'
<1> USE DEF PopTry, At, Goto
<1>1. TypeOK'
  BY DEF Inv, TypeOK, Point
<1>2. held[t] = {} /\ pushing[t] = {}
  BY DEF Inv, Idle
<1>3. Held' = Held \cup S /\ Pushing' = Pushing
  <2>1. All(held') = All(held) \cup S
    BY <1>2, Owned DEF Inv, TypeOK
  <2> QED  BY <2>1, <1>1, Counts DEF Inv, Held, Pushing, All
<1>4. S \cap Held = {} /\ S \cap consumed = {} /\ S \cap unsent = {}
  BY DEF Inv, Owners
<1>5. Idle'
  BY DEF Inv, TypeOK, Idle
<1>6. Owners'
  <2>1. \A u \in Thread : held[u] \subseteq Held
    BY DEF Held
  <2>2. Disjoint(held)'
    BY <1>4, <2>1 DEF Inv, TypeOK, Owners, Disjoint
  <2>3. Disjoint(pushing)'
    BY DEF Inv, Owners, Disjoint
  <2> QED  BY <1>3, <1>4, <2>2, <2>3 DEF Inv, Owners
<1>7. Progress'
  BY <1>4 DEF Inv, TypeOK, Progress
<1>8. Conservation'
  <2>1. Cardinality(queue') = Cardinality(queue) - Cardinality(S)
    BY CardRemove DEF Inv, TypeOK
  <2>2. Cardinality(Held') = Cardinality(Held) + Cardinality(S)
    BY <1>3, <1>4, Counts, CardAdd DEF Inv
  <2>3. Cardinality(queue') + Cardinality(Held') = Cardinality(queue) + Cardinality(Held)
    BY <2>1, <2>2, Counts DEF Inv
  <2> QED  BY <1>3, <2>3 DEF Inv, Conservation
<1>9. JoinedAtZero'
  BY DEF Inv, TypeOK, JoinedAtZero, Joined
<1> QED  BY <1>1, <1>5, <1>6, <1>7, <1>8, <1>9 DEF Inv

(***************************************************************************)
(* An enqueue adds the same elements to both sides.                        *)
(***************************************************************************)
LEMMA EnqueueInv ==
    ASSUME Inv, NEW t \in Thread, NEW S \in SUBSET Item, Enqueue(t, S)
    PROVE  Inv'
<1> USE DEF Enqueue, At, Goto
<1>1. TypeOK'
  BY DEF Inv, TypeOK, Point
<1>2. pushing[t] = {}
  BY DEF Inv, Idle
<1>3. Pushing' = Pushing \cup S /\ Held' = Held
  <2>1. All(pushing') = All(pushing) \cup S
    BY <1>2, Owned DEF Inv, TypeOK
  <2> QED  BY <2>1, <1>1, Counts DEF Inv, Held, Pushing, All
<1>4. S \cap Held = {} /\ S \cap Pushing = {} /\ S \cap consumed = {} /\ S \cap queue = {}
  BY DEF Inv, Owners
<1>5. Idle'
  BY DEF Inv, TypeOK, Idle
<1>6. Owners'
  <2>1. \A u \in Thread : pushing[u] \subseteq Pushing
    BY DEF Pushing
  <2>2. Disjoint(pushing)'
    BY <1>4, <2>1 DEF Inv, TypeOK, Owners, Disjoint
  <2>3. Disjoint(held)'
    BY DEF Inv, Owners, Disjoint
  <2> QED  BY <1>3, <1>4, <2>2, <2>3 DEF Inv, Owners
<1>7. Progress'
  BY DEF Inv, TypeOK, Progress
<1>8. Conservation'
  <2> DEFINE P == Cardinality(Pushing)
             Q == Cardinality(queue)
             H == Cardinality(Held)
             n == Cardinality(S)
  <2>1. Cardinality(queue') = Q + n
    BY <1>4, CardAdd DEF Inv, TypeOK
  <2>2. Cardinality(Pushing') = P + n
    BY <1>3, <1>4, Counts, CardAdd DEF Inv
  <2>3. P \in Nat /\ Q \in Nat /\ H \in Nat /\ n \in Nat /\ elements \in Int
    BY Counts DEF Inv
  <2>4. (elements + P) % Modulus = (Q + H) % Modulus
    BY DEF Inv, Conservation
  <2>5. (elements' + Cardinality(Pushing')) % Modulus = ((elements + P) + n) % Modulus
    <3> HIDE DEF P, n
    <3> QED  BY <2>2, <2>3
  <2>6. (Cardinality(queue') + Cardinality(Held')) % Modulus = ((Q + H) + n) % Modulus
    <3>1. Cardinality(Held') = H
      BY <1>3
    <3> HIDE DEF Q, H, n
    <3> QED  BY <2>1, <2>3, <3>1
  <2>7. ((elements + P) + n) % Modulus = ((Q + H) + n) % Modulus
    <3> HIDE DEF P, Q, H, n
    <3>1. elements + P \in Int /\ Q + H \in Int /\ n \in Int
      BY <2>3
    <3> QED  BY <3>1, <2>4, AddBoth
  <2> QED  BY <2>5, <2>6, <2>7 DEF Conservation
<1>9. JoinedAtZero'
  BY DEF Inv, TypeOK, JoinedAtZero, Joined
<1> QED  BY <1>1, <1>5, <1>6, <1>7, <1>8, <1>9 DEF Inv

(***************************************************************************)
(* An increment moves what was pushed from Pushing to the counter.         *)
(***************************************************************************)
LEMMA IncrementInv == ASSUME Inv, NEW t \in Thread, Increment(t) PROVE Inv'
<1> USE DEF Increment, At, Goto
<1>1. Cardinality(pushing[t]) \in Nat /\ elements \in Int
  BY Counts DEF Inv, TypeOK
<1>2. TypeOK'
  BY <1>1, Division DEF Inv, TypeOK, Point
<1>3. Pushing' = Pushing \ pushing[t] /\ Held' = Held
  <2>1. All(pushing') = All(pushing) \ pushing[t]
    BY Disowned DEF Inv, TypeOK, Owners, Disjoint
  <2> QED  BY <2>1, <1>2, Counts DEF Inv, Held, Pushing, All
<1>4. Idle' /\ Progress'
  BY DEF Inv, TypeOK, Idle, Progress
<1>5. Owners'
  <2>1. Disjoint(pushing)' /\ Disjoint(held)'
    BY DEF Inv, TypeOK, Owners, Disjoint
  <2> QED  BY <1>3, <2>1 DEF Inv, Owners
<1>6. Conservation'
  <2> DEFINE P == Cardinality(Pushing)
             n == Cardinality(pushing[t])
  <2>1. Cardinality(Pushing') = P - n
    <3>1. pushing[t] \in SUBSET Pushing
      BY DEF Pushing
    <3> QED  BY <1>3, <3>1, Counts, CardRemove DEF Inv
  <2>2. P \in Nat
    BY Counts DEF Inv
  <2>3. (((elements + n) % Modulus) + (P - n)) % Modulus = ((elements + n) + (P - n)) % Modulus
    <3> HIDE DEF P, n
    <3>1. n \in Nat /\ elements \in Int
      BY <1>1 DEF n
    <3> QED  BY <3>1, <2>2, WrapThenAdd
  <2>4. (elements + n) + (P - n) = elements + P
    <3> HIDE DEF P, n
    <3>1. n \in Nat /\ elements \in Int
      BY <1>1 DEF n
    <3> QED  BY <3>1, <2>2
  <2>5. (elements' + Cardinality(Pushing')) % Modulus = (elements + P) % Modulus
    BY <2>1, <2>3, <2>4
  <2> QED  BY <1>3, <2>5 DEF Inv, Conservation
<1>7. JoinedAtZero'
  BY DEF Inv, TypeOK, JoinedAtZero, Joined
<1> QED  BY <1>2, <1>4, <1>5, <1>6, <1>7 DEF Inv

LEMMA ReturnInv == ASSUME Inv, NEW t \in Thread, Return(t) PROVE Inv'
<1> USE DEF Return, At, Goto
<1>1. TypeOK'
  BY DEF Inv, TypeOK, Point
<1>2. Held' = Held /\ Pushing' = Pushing /\ held[t] \subseteq Held
  BY DEF Held, Pushing
<1>3. Idle'
  BY DEF Inv, TypeOK, Idle
<1>4. Owners'
  BY <1>2 DEF Inv, Owners, Disjoint
<1>5. Progress'
  BY DEF Inv, TypeOK, Owners, Disjoint, Progress
<1>6. Conservation'
  BY <1>2 DEF Inv, Conservation
<1>7. JoinedAtZero'
  BY DEF Inv, TypeOK, JoinedAtZero, Joined
<1> QED  BY <1>1, <1>3, <1>4, <1>5, <1>6, <1>7 DEF Inv

(***************************************************************************)
(* A decrement takes the same elements from both sides, and the counter    *)
(* may wrap below zero on the way.                                         *)
(***************************************************************************)
LEMMA DecrementInv == ASSUME Inv, NEW t \in Thread, Decrement(t) PROVE Inv'
<1> USE DEF Decrement, At, Goto
<1>1. Cardinality(held[t]) \in Nat /\ elements \in Int
  BY Counts DEF Inv, TypeOK
<1>2. TypeOK'
  BY <1>1, Division DEF Inv, TypeOK, Point
<1>3. Held' = Held \ held[t] /\ Pushing' = Pushing
  <2>1. All(held') = All(held) \ held[t]
    BY Disowned DEF Inv, TypeOK, Owners, Disjoint
  <2> QED  BY <2>1, <1>2, Counts DEF Inv, Held, Pushing, All
<1>4. Idle' /\ Progress'
  BY DEF Inv, TypeOK, Idle, Progress
<1>5. Owners'
  <2>1. Disjoint(pushing)' /\ Disjoint(held)'
    BY DEF Inv, TypeOK, Owners, Disjoint
  <2>2. held[t] \subseteq consumed
    BY DEF Inv, Progress
  <2> QED  BY <1>3, <2>1, <2>2 DEF Inv, Owners
<1>6. Conservation'
  <2> DEFINE P == Cardinality(Pushing)
             Q == Cardinality(queue)
             H == Cardinality(Held)
             n == Cardinality(held[t])
  <2>1. Cardinality(Held') = H - n
    <3>1. held[t] \in SUBSET Held
      BY DEF Held
    <3> QED  BY <1>3, <3>1, Counts, CardRemove DEF Inv
  <2>2. P \in Nat /\ Q \in Nat /\ H \in Nat /\ n \in Nat /\ elements \in Int
    BY <1>1, Counts DEF Inv
  <2>3. (elements + P) % Modulus = (Q + H) % Modulus
    BY DEF Inv, Conservation
  <2>4. (((elements - n) % Modulus) + P) % Modulus = ((elements - n) + P) % Modulus
    <3> HIDE DEF P, n
    <3> QED  BY <2>2, WrapThenAdd
  <2>5. ((elements + P) + (-n)) % Modulus = ((Q + H) + (-n)) % Modulus
    <3> HIDE DEF P, Q, H, n
    <3>1. elements + P \in Int /\ Q + H \in Int /\ -n \in Int
      BY <2>2
    <3> QED  BY <3>1, <2>3, AddBoth
  <2>6. /\ (elements - n) + P = (elements + P) + (-n)
        /\ (Q + H) + (-n) = Q + (H - n)
    <3> HIDE DEF P, Q, H, n
    <3> QED  BY <2>2
  <2> QED  BY <1>3, <2>1, <2>4, <2>5, <2>6 DEF Conservation
<1>7. JoinedAtZero'
  BY DEF Inv, TypeOK, JoinedAtZero, Joined
<1> QED  BY <1>2, <1>4, <1>5, <1>6, <1>7 DEF Inv

LEMMA StepInv == Inv /\ [Next]_vars => Inv'
<1> SUFFICES ASSUME Inv, [Next]_vars PROVE Inv'
  OBVIOUS
<1>1. ASSUME NEW t \in Thread, Step(t) PROVE Inv'
  <2>1. CASE \E S \in SUBSET Item : PopTry(t, S)
    BY <2>1, PopTryInv
  <2>2. CASE \E S \in SUBSET Item : Enqueue(t, S)
    BY <2>2, EnqueueInv
  <2> QED
    BY <1>1, <2>1, <2>2, EnterInv, LeaveInv, PopFailInv, IncrementInv, ReturnInv,
       DecrementInv DEF Step, Pop, Push
<1>2. CASE UNCHANGED vars
  <2>1. UNCHANGED <<queue, elements, pc, held, pushing, unsent, consumed>>
    BY <1>2 DEF vars
  <2>2. Owners' /\ Conservation'
    BY <2>1, QuietStep
  <2> QED
    BY <2>1, <2>2 DEF Inv, TypeOK, Idle, Progress, JoinedAtZero, Joined
<1> QED  BY <1>1, <1>2 DEF Next, Join

LEMMA Invariance == Spec => []Inv
  BY InitInv, StepInv, PTL DEF Spec

(***************************************************************************)
(* The control points, the counter and the owned sets of consume keep      *)
(* their types; the counter stays an unsigned int.                         *)
(***************************************************************************)
THEOREM ConsumeTypeCorrect == Spec => []TypeOK
<1>1. Inv => TypeOK
  BY DEF Inv
<1> QED  BY <1>1, Invariance, PTL

(***************************************************************************)
(* m_elements is the queue plus what is being consumed less what is not    *)
(* yet counted, although pushes count late and decrements may wrap.        *)
(***************************************************************************)
THEOREM ConsumeConservation == Spec => []Conservation
<1>1. Inv => Conservation
  BY DEF Inv
<1> QED  BY <1>1, Invariance, PTL

(***************************************************************************)
(* No element of the stream is consumed by two threads or twice.           *)
(***************************************************************************)
THEOREM ConsumeOnce == Spec => []ConsumedOnce
<1>1. Inv => ConsumedOnce
  BY DEF Inv, Owners, Disjoint, Progress, ConsumedOnce
<1> QED  BY <1>1, Invariance, PTL

(***************************************************************************)
(* When the threads of consume are joined, nothing that was pushed is left *)
(* in the stream: the counter is zero, no thread owns anything, and the    *)
(* queue is too small for its size to wrap to zero.                        *)
(***************************************************************************)
THEOREM ConsumeDrained == Spec => []Drained
<1>1. Inv => Drained
  <2> SUFFICES ASSUME Inv, Joined PROVE queue = {} /\ consumed = Item \ unsent
    BY DEF Drained
  <2>1. Held = {} /\ Pushing = {}
    BY DEF Inv, Idle, Joined, Held, Pushing
  <2>2. elements = 0
    BY DEF Inv, JoinedAtZero
  <2>3. Cardinality(queue) \in 0..(Modulus - 1)
    BY CardItem, ModulusAssumption DEF Inv, TypeOK
  <2>4. Cardinality(queue) % Modulus = 0 % Modulus
    BY <2>1, <2>2, <2>3, FS_EmptySet DEF Inv, Conservation
  <2>5. Cardinality(queue) = 0
    BY <2>3, <2>4, SmallRemainder, ModulusAssumption
  <2>6. queue = {}
    BY <2>5, CardItem, FS_EmptySet DEF Inv, TypeOK
  <2> QED  BY <2>1, <2>6 DEF Inv, TypeOK, Owners
<1> QED  BY <1>1, Invariance, PTL
=============================================================================
