------------------------ MODULE MCDfsTopologicalSort ------------------------
(***************************************************************************)
(* Instances of DfsTopologicalSort for TLC.                                *)
(***************************************************************************)
EXTENDS DfsTopologicalSort, SequencesExt

CONSTANTS a, b, c, d, e

MCNode == {a, b, c, d, e}
MCOrder == <<e, c, a, d, b>>

(* DAGs: every edge leads to an earlier letter, the order in which the     *)
(* generator meets the nodes is scrambled.                                 *)
MCDags ==
    {(a :> <<>>) @@ (b :> lb) @@ (c :> lc) @@ (d :> ld) @@ (e :> le) :
        lb \in SetToAllKPermutations({a}),
        lc \in SetToAllKPermutations({a, b}),
        ld \in SetToAllKPermutations({a, b, c}),
        le \in SetToAllKPermutations({b, c})}

(* All graphs on a, b and c without self-loops, next to a source with a    *)
(* child, to a cycle, and with a parallel edge.                            *)
MCGraphs ==
    {(a :> la) @@ (b :> lb) @@ (c :> lc) @@ rest :
        la \in SetToAllKPermutations({b, c}),
        lb \in SetToAllKPermutations({a, c}),
        lc \in SetToAllKPermutations({a, b}),
        rest \in {(d :> <<e>>) @@ (e :> <<>>), (d :> <<e>>) @@ (e :> <<d>>),
                  (d :> <<e, a, e>>) @@ (e :> <<>>)}}

MCAll == MCDags \cup MCGraphs

MCSources == {NoSources, <<b, a>>}
MCConditions == {Node \X Node, (Node \X Node) \ {<<a, b>>}}
=============================================================================
