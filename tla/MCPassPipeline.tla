--------------------------- MODULE MCPassPipeline ---------------------------
(***************************************************************************)
(* Pipelines for TLC: the part of SimplifyPass with dependencies under the *)
(* flags its passes declare, and a family of small pipelines.              *)
(*                                                                         *)
(* The passes of SimplifyPass that have dependencies, and                  *)
(* DeadStateElimination which invalidates some of these, with the flags    *)
(* they declare:                                                           *)
(*   DDE  DeadDataflowElimination       dead_dataflow_elimination.py:40-48 *)
(*   DSE  DeadStateElimination             dead_state_elimination.py:24-28 *)
(*   R2V  ReferenceToView                     reference_reduction.py:22-29 *)
(*   AE   ArrayElimination                      array_elimination.py:83-90 *)
(*   CFBR ControlFlowBlockReachability               analysis.py:82-86     *)
(*   SR   StateReachability                          analysis.py:36-44     *)
(*   AS   AccessSets                                 analysis.py:250-254   *)
(*   FAS  FindAccessStates                           analysis.py:321-325   *)
(*   FRS  FindReferenceSources                       analysis.py:803-807   *)
(* The elements are the flags of Modifies these mention; Nodes stands for  *)
(* AccessNodes and the other kinds of node, which they do not tell apart.  *)
(***************************************************************************)
EXTENDS PassPipeline, TLC

CONSTANTS DDE, DSE, R2V, AE, CFBR, SR, AS, FAS, FRS,
          Descriptors, States, InterstateEdges, Nodes, Memlets

SimplifyPasses == {DDE, DSE, R2V, AE, CFBR, SR, AS, FAS, FRS}
ModifiesFlags == {Descriptors, States, InterstateEdges, Nodes, Memlets}
CFG == {States, InterstateEdges}

(* should_reapply of the form "modified & S". *)
Touching(S) == {m \in SUBSET Element : m \cap S # {}}
Always == SUBSET Element
Never == {}

(* The order dfs_topological_sort yields on this dependency graph. *)
SimplifyOrder == {<<CFBR, SR, AS, DDE, DSE, FAS, AE, FRS, R2V>>}

Simplify ==
    {[named |-> <<DDE, DSE, R2V, AE>>,
      dependsOn |-> (DDE :> <<CFBR, AS>>) @@ (R2V :> <<FAS, FRS>>)
                      @@ (AE :> <<SR, FAS>>) @@ (SR :> <<CFBR>>)
                      @@ [p \in SimplifyPasses |-> <<>>],
      byObject |-> {},
      modifies |-> (DDE :> {Nodes, InterstateEdges, Memlets, Descriptors})
                     @@ (DSE :> {States})
                     @@ (R2V :> {Descriptors, Nodes})
                     @@ (AE :> {Descriptors, Nodes})
                     @@ [p \in SimplifyPasses |-> {}],
      reappliesOn |-> (DDE :> Touching(CFG \cup {Nodes, Memlets}))
                        @@ (DSE :> Touching(CFG))
                        @@ (CFBR :> Touching(CFG)) @@ (SR :> Touching(CFG))
                        @@ (FRS :> Touching({Memlets}))
                        @@ [p \in SimplifyPasses |-> Touching({Nodes})],
      reports |-> {CFBR, SR, AS, FAS, FRS},
      incompatible |-> {},
      fixedPoint |-> TRUE]}

(* The small pipelines have two transformations, two analyses and two      *)
(* flags, under some of the names above; the other passes are not in them. *)
T1 == R2V
T2 == AE
A == FAS
B == FRS
x == Nodes
y == Memlets

SmallOrders == UNION {[1..n -> {T1, T2, A, B}] : n \in 1..4}
NoDeps == [p \in SimplifyPasses |-> <<>>]
NoFlags == [p \in SimplifyPasses |-> {}]

(* The transformations depend on A and B in either order, A may itself     *)
(* depend on B.                                                            *)
Family ==
    [named : {<<T1, T2>>},
     dependsOn : {[NoDeps EXCEPT ![T1] = d1, ![T2] = <<A, B>>, ![A] = da] :
                    d1 \in {<<A>>, <<B, A>>}, da \in {<<>>, <<B>>}},
     byObject : {{}},
     modifies : {[NoFlags EXCEPT ![T1] = m1, ![T2] = {x, y}] : m1 \in {{x}, {y}}},
     reappliesOn : {[NoFlags EXCEPT ![T1] = r, ![T2] = Touching({x}), ![A] = ra, ![B] = rb] :
                    r \in {Never, Touching({y})},
                    ra \in {Touching({x}), Always},
                    rb \in {Touching({y}), Never}},
     reports : {{A, B}},
     incompatible : {{}, {T2}},
     fixedPoint : BOOLEAN]

(* A transformation as a dependency; an analysis that is named; duplicates *)
(* and objects among the dependencies.                                     *)
Odd ==
    [named : {<<T2>>, <<T2, A>>, <<T1, T2, T1>>},
     dependsOn : {[NoDeps EXCEPT ![T2] = <<A, T1>>, ![T1] = <<A, B>>]},
     byObject : {{}, {<<T2, A>>}, {<<T1, B>>}, {<<T1, A>>}},
     modifies : {[NoFlags EXCEPT ![T1] = {x}, ![T2] = {y}]},
     reappliesOn : {[p \in SimplifyPasses |-> Touching({x})]},
     reports : {{A}},
     incompatible : {{}},
     fixedPoint : {FALSE}]

MCPipelines == Simplify \cup Family \cup Odd
MCOrderings == SimplifyOrder \cup SmallOrders
=============================================================================
