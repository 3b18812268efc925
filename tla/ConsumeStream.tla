--------------------------- MODULE ConsumeStream ----------------------------
(***************************************************************************)
(* Consume::consume over a Stream of dace/runtime/include/dace/stream.h:   *)
(* threads take elements from a concurrent queue until the counter         *)
(* m_elements is seen to be zero, while the contents they run for an       *)
(* element push further elements to the same stream.                       *)
(*                                                                         *)
(* A push is two steps, the enqueue and the increment of the counter, and  *)
(* the counter is decremented only after the contents of an element have   *)
(* run.  The counter is an unsigned int and may wrap below zero.           *)
(***************************************************************************)
EXTENDS Integers, FiniteSets

CONSTANTS
    Thread,     \* the processing elements
    Item,       \* the elements that are ever pushed to the stream
    ChunkSize,  \* the most elements one iteration takes
    Modulus     \* 2^32: the number of values of an unsigned int

ASSUME ThreadAssumption == IsFiniteSet(Thread) /\ Thread # {}
ASSUME ItemAssumption == IsFiniteSet(Item)
ASSUME ChunkSizeAssumption == ChunkSize \in Nat \ {0}
ASSUME ModulusAssumption == Modulus \in Nat \ {0}

(* The stream never holds as many elements as its counter can count.       *)
ASSUME CounterAssumption == Cardinality(Item) < Modulus

VARIABLES
    queue,     \* the elements in m_queue
    elements,  \* m_elements
    pc,        \* the control point of each thread
    held,      \* consumed_elements of each thread
    pushing,   \* what the thread has enqueued but not yet counted
    unsent,    \* the elements that have not been pushed yet
    consumed   \* the elements whose contents have run

vars == <<queue, elements, pc, held, pushing, unsent, consumed>>

(***************************************************************************)
(* consume starts on a stream that was filled before.                      *)
(***************************************************************************)
Init ==
    /\ queue \in SUBSET Item
    /\ elements = Cardinality(queue)
    /\ pc = [t \in Thread |-> "check"]
    /\ held = [t \in Thread |-> {}]
    /\ pushing = [t \in Thread |-> {}]
    /\ unsent = Item \ queue
    /\ consumed = {}

At(t, here) == pc[t] = here
Goto(t, there) == pc' = [pc EXCEPT ![t] = there]

(* while (stream.m_elements > 0) *)
Enter(t) ==
    /\ At(t, "check")
    /\ elements > 0
    /\ Goto(t, "pop")
    /\ UNCHANGED <<queue, elements, held, pushing, unsent, consumed>>

Leave(t) ==
    /\ At(t, "check")
    /\ elements = 0
    /\ Goto(t, "left")
    /\ UNCHANGED <<queue, elements, held, pushing, unsent, consumed>>

(***************************************************************************)
(* stream.pop_try(..., noupdate = true).  The queue is the moodycamel      *)
(* concurrent queue: elements of different producers come in any order,    *)
(* and a dequeue may find the queue empty although it is not.              *)
(***************************************************************************)
PeekTry(t, S) ==                                                \* mutant
    /\ At(t, "pop")
    /\ S # {} /\ S \subseteq queue
    /\ Cardinality(S) <= ChunkSize
    /\ held' = [held EXCEPT ![t] = S]
    /\ Goto(t, "contents")
    /\ UNCHANGED <<queue, elements, pushing, unsent, consumed>>

PopTry(t, S) ==
    /\ At(t, "pop")
    /\ S # {} /\ S \subseteq queue
    /\ Cardinality(S) <= ChunkSize
    /\ queue' = queue \ S
    /\ held' = [held EXCEPT ![t] = S]
    /\ Goto(t, "contents")
    /\ UNCHANGED <<elements, pushing, unsent, consumed>>

PopFail(t) ==
    /\ At(t, "pop")
    /\ Goto(t, "check")
    /\ UNCHANGED <<queue, elements, held, pushing, unsent, consumed>>

(***************************************************************************)
(* contents(pe, consumed_elements, elems): any number of pushes, of one    *)
(* element or in bulk.                                                     *)
(***************************************************************************)
Enqueue(t, S) ==
    /\ At(t, "contents")
    /\ S # {} /\ S \subseteq unsent
    /\ queue' = queue \cup S
    /\ unsent' = unsent \ S
    /\ pushing' = [pushing EXCEPT ![t] = S]
    /\ Goto(t, "push")
    /\ UNCHANGED <<elements, held, consumed>>

IncrementOne(t) ==                                              \* mutant
    /\ At(t, "push")
    /\ elements' = (elements + 1) % Modulus
    /\ pushing' = [pushing EXCEPT ![t] = {}]
    /\ Goto(t, "contents")
    /\ UNCHANGED <<queue, held, unsent, consumed>>

Increment(t) ==
    /\ At(t, "push")
    /\ elements' = (elements + Cardinality(pushing[t])) % Modulus
    /\ pushing' = [pushing EXCEPT ![t] = {}]
    /\ Goto(t, "contents")
    /\ UNCHANGED <<queue, held, unsent, consumed>>

Return(t) ==
    /\ At(t, "contents")
    /\ consumed' = consumed \cup held[t]
    /\ Goto(t, "decrement")
    /\ UNCHANGED <<queue, elements, held, pushing, unsent>>

DecrementOne(t) ==                                              \* mutant
    /\ At(t, "decrement")
    /\ elements' = (elements - 1) % Modulus
    /\ held' = [held EXCEPT ![t] = {}]
    /\ Goto(t, "check")
    /\ UNCHANGED <<queue, pushing, unsent, consumed>>

DecrementSigned(t) ==                                           \* mutant
    /\ At(t, "decrement")
    /\ elements' = elements - Cardinality(held[t])
    /\ held' = [held EXCEPT ![t] = {}]
    /\ Goto(t, "check")
    /\ UNCHANGED <<queue, pushing, unsent, consumed>>

(* stream.m_elements -= elems *)
Decrement(t) ==
    /\ At(t, "decrement")
    /\ elements' = (elements - Cardinality(held[t])) % Modulus
    /\ held' = [held EXCEPT ![t] = {}]
    /\ Goto(t, "check")
    /\ UNCHANGED <<queue, pushing, unsent, consumed>>

(* for (auto& t : threads) t.join() *)
Joined == \A t \in Thread : pc[t] = "left"
Join == Joined /\ UNCHANGED vars

Pop(t) == \E S \in SUBSET Item : PopTry(t, S)
Push(t) == \E S \in SUBSET Item : Enqueue(t, S)

Step(t) == \/ Enter(t) \/ Leave(t) \/ Pop(t) \/ PopFail(t)
           \/ Push(t) \/ Increment(t) \/ Return(t) \/ Decrement(t)

Next == (\E t \in Thread : Step(t)) \/ Join

Spec == Init /\ [][Next]_vars

(***************************************************************************)
(* Every thread is scheduled, and a thread that keeps trying gets an       *)
(* element as long as the queue keeps having one.                          *)
(***************************************************************************)
FairSpec ==
    /\ Spec
    /\ \A t \in Thread : WF_vars(Step(t)) /\ SF_vars(Pop(t))
-----------------------------------------------------------------------------
Held == UNION {held[t] : t \in Thread}
Pushing == UNION {pushing[t] : t \in Thread}

Point == {"check", "pop", "contents", "push", "decrement", "left"}

TypeOK ==
    /\ queue \subseteq Item
    /\ elements \in 0..(Modulus - 1)
    /\ pc \in [Thread -> Point]
    /\ held \in [Thread -> SUBSET Item]
    /\ pushing \in [Thread -> SUBSET Item]
    /\ unsent \subseteq Item
    /\ consumed \subseteq Item

(***************************************************************************)
(* What m_elements counts, up to wrapping: the elements in the queue and   *)
(* those a thread has taken and not accounted for, less those that were    *)
(* enqueued and not yet counted (some of which may be consumed already).   *)
(***************************************************************************)
Conservation ==
    (elements + Cardinality(Pushing)) % Modulus
        = (Cardinality(queue) + Cardinality(Held)) % Modulus

(***************************************************************************)
(* No element is consumed twice: what the threads hold, the queue and what *)
(* is yet to be pushed are disjoint, and contents run for elements once.   *)
(***************************************************************************)
ConsumedOnce ==
    /\ \A t, u \in Thread : t # u => held[t] \cap held[u] = {}
    /\ queue \cap (Held \cup consumed \cup unsent) = {}
    /\ \A t \in Thread : pc[t] \in {"contents", "push"} => held[t] \cap consumed = {}

(***************************************************************************)
(* A thread may see a zero counter and leave while another is about to     *)
(* push; still, when all threads have been joined, every element that was  *)
(* pushed has been consumed.                                               *)
(***************************************************************************)
Drained == Joined => queue = {} /\ consumed = Item \ unsent

(***************************************************************************)
(* consume returns, and every element in the queue is consumed.            *)
(***************************************************************************)
Terminates == <>Joined
EventuallyConsumed == \A i \in Item : (i \in queue) ~> (i \in consumed)
=============================================================================
