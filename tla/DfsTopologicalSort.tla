------------------------- MODULE DfsTopologicalSort -------------------------
(***************************************************************************)
(* dfs_topological_sort of dace/sdfg/utils.py: the generator that code     *)
(* generation, the schedule tree and the pass pipeline use to walk a graph *)
(* in a depth-first topological order.                                     *)
(*                                                                         *)
(* One behaviour is one call on one graph, driven to exhaustion.  The      *)
(* graph is given by the two accessors the function uses: neighbors, an    *)
(* ordered list per node, and predecessors, its inverse (only membership   *)
(* of a predecessor matters).  reverse=True only swaps the two accessors,  *)
(* so it is the same algorithm on another value of nbrs.                   *)
(***************************************************************************)
EXTENDS Naturals, Sequences, FiniteSets

CONSTANTS
    Node,        \* the nodes of the graph
    NodeOrder,   \* the nodes in the order G iterates over them
    Graphs,      \* the neighbor functions a call may get
    SourceArgs,  \* the values of the sources argument
    Conditions,  \* the values of condition: the <<parent, child>> it accepts
    NoSources    \* sources=None

ASSUME NodeOrderAssumption ==
    /\ NodeOrder \in Seq(Node)
    /\ \A n \in Node : \E i \in 1..Len(NodeOrder) : NodeOrder[i] = n

ASSUME CallAssumption ==
    /\ Graphs \subseteq [Node -> Seq(Node)]
    /\ NoSources \notin Seq(Node)
    /\ SourceArgs \subseteq Seq(Node) \cup {NoSources}

VARIABLES
    nbrs,     \* neighbors of each node, in order (an argument)
    sources,  \* the sources argument
    cond,     \* the condition argument
    next,     \* position of the loop "for start in nodes"
    visited,  \* the set visited
    stack,    \* the stack of <<node, next child>> pairs
    order     \* the nodes yielded so far

vars == <<nbrs, sources, cond, next, visited, stack, order>>
arguments == <<nbrs, sources, cond>>

(***************************************************************************)
(* predecessors(n), as a set.                                              *)
(***************************************************************************)
Children(n) == {nbrs[n][i] : i \in 1..Len(nbrs[n])}
Pred(n) == {m \in Node : n \in Children(m)}

(***************************************************************************)
(* The candidates of the outer loop.  Without sources these are G's source *)
(* nodes, or all of G when it has none; with sources, just those.  The     *)
(* list of source nodes is walked as the node order filtered by IsStart.   *)
(***************************************************************************)
Candidates == IF sources = NoSources THEN NodeOrder ELSE sources

IsStart(n) ==
    IF sources = NoSources
    THEN Pred(n) = {} \/ \A m \in Node : Pred(m) # {}
    ELSE \E i \in 1..Len(sources) : sources[i] = n

FrameFromZero(n, i) == <<n, i - 1>>              \* mutant
Frame(n, i) == <<n, i>>
Top == stack[Len(stack)]
Pop(s) == SubSeq(s, 1, Len(s) - 1)
Advance(s) == Append(Pop(s), Frame(Top[1], Top[2] + 1))

Init ==
    /\ nbrs \in Graphs
    /\ sources \in SourceArgs
    /\ cond \in Conditions
    /\ next = 1
    /\ visited = {}
    /\ stack = <<>>
    /\ order = <<>>

(***************************************************************************)
(* for start in nodes: continue when already visited, else yield it.       *)
(***************************************************************************)
SkipStart ==
    /\ stack = <<>>
    /\ next <= Len(Candidates)
    /\ Candidates[next] \in visited \/ ~IsStart(Candidates[next])
    /\ next' = next + 1
    /\ UNCHANGED <<arguments, visited, stack, order>>

Start ==
    /\ stack = <<>>
    /\ next <= Len(Candidates)
    /\ Candidates[next] \notin visited
    /\ IsStart(Candidates[next])
    /\ next' = next + 1
    /\ visited' = visited \cup {Candidates[next]}
    /\ order' = Append(order, Candidates[next])
    /\ stack' = <<Frame(Candidates[next], 1)>>
    /\ UNCHANGED arguments

(***************************************************************************)
(* The body of "while stack": child = next(children).                      *)
(***************************************************************************)
HasChild ==
    /\ stack # <<>>
    /\ Top[2] <= Len(nbrs[Top[1]])

Child == nbrs[Top[1]][Top[2]]

EligibleWithoutPredecessors(n) == n \notin visited         \* mutant
EligibleAgain(n) == Pred(n) \subseteq visited              \* mutant
Eligible(n) == n \notin visited /\ Pred(n) \subseteq visited

SkipChildInPlace ==                              \* mutant
    HasChild /\ ~Eligible(Child) /\ UNCHANGED vars

SkipChild ==
    /\ HasChild
    /\ ~Eligible(Child)
    /\ stack' = Advance(stack)
    /\ UNCHANGED <<arguments, next, visited, order>>

YieldChild ==
    /\ HasChild
    /\ Eligible(Child)
    /\ <<Top[1], Child>> \in cond
    /\ visited' = visited \cup {Child}
    /\ order' = Append(order, Child)
    /\ stack' = Append(Advance(stack), Frame(Child, 1))
    /\ UNCHANGED <<arguments, next>>

RejectChild ==
    /\ HasChild
    /\ Eligible(Child)
    /\ <<Top[1], Child>> \notin cond
    /\ visited' = visited \cup {Child}
    /\ stack' = Advance(stack)
    /\ UNCHANGED <<arguments, next, order>>

BacktrackToStart ==                              \* mutant
    /\ stack # <<>>
    /\ Top[2] > Len(nbrs[Top[1]])
    /\ stack' = <<>>
    /\ UNCHANGED <<arguments, next, visited, order>>

Backtrack ==                                     \* except StopIteration
    /\ stack # <<>>
    /\ Top[2] > Len(nbrs[Top[1]])
    /\ stack' = Pop(stack)
    /\ UNCHANGED <<arguments, next, visited, order>>

Finished == stack = <<>> /\ next > Len(Candidates)
Exhausted == Finished /\ UNCHANGED vars

Step == \/ SkipStart \/ Start
        \/ SkipChild \/ YieldChild \/ RejectChild \/ Backtrack

Next == Step \/ Exhausted

Spec == Init /\ [][Next]_vars
FairSpec == Spec /\ WF_vars(Step)
-----------------------------------------------------------------------------
TypeOK ==
    /\ nbrs \in Graphs
    /\ sources \in SourceArgs
    /\ next \in 1..(Len(Candidates) + 1)
    /\ visited \subseteq Node
    /\ stack \in Seq(Node \X (Nat \ {0}))
    /\ order \in Seq(Node)

(***************************************************************************)
(* The docstring's condition "that each node visited had all its           *)
(* predecessors visited": whatever the condition argument drops, a node    *)
(* that is not a start of the search is yielded after each of its          *)
(* predecessors was yielded or dropped.                                    *)
(***************************************************************************)
Yielded(k) == {order[i] : i \in 1..k}
Dropped == visited \ Yielded(Len(order))

PredecessorsFirst ==
    \A k \in 1..Len(order) :
        \/ IsStart(order[k])
        \/ Pred(order[k]) \subseteq Yielded(k - 1) \cup Dropped

(***************************************************************************)
(* No node is yielded twice: consumers (code generation in particular)     *)
(* emit code for every node they are handed.                               *)
(***************************************************************************)
YieldedOnce ==
    \A i, j \in 1..Len(order) : order[i] = order[j] => i = j

(***************************************************************************)
(* The order is complete on an acyclic graph.  Acyclicity is stated as     *)
(* well-foundedness: every non-empty set of nodes has one with no          *)
(* predecessor in the set.                                                 *)
(***************************************************************************)
Acyclic ==
    \A S \in SUBSET Node : S # {} => \E n \in S : Pred(n) \cap S = {}

AcceptsAll == Node \X Node \subseteq cond

Complete ==
    sources = NoSources /\ AcceptsAll /\ Finished
        => Yielded(Len(order)) = Node

CompleteOnDAG == Acyclic => Complete

(***************************************************************************)
(* The generator is always exhausted: each pass of the loop consumes a     *)
(* start, a child or a frame.                                              *)
(***************************************************************************)
Terminates == <>Finished
=============================================================================
