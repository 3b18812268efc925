--------------------------- MODULE MCCudaStreams ----------------------------
(***************************************************************************)
(* CudaStreams for TLC: all states of four nodes, all pairs of states of   *)
(* three and two nodes, and some larger ones.                              *)
(***************************************************************************)
EXTENDS CudaStreams

(* All states of n <= 4 nodes; the edges in one order, since the nodes     *)
(* come in all.                                                            *)
PairsInOrder == << <<1, 2>>, <<1, 3>>, <<1, 4>>, <<2, 3>>, <<2, 4>>, <<3, 4>> >>

StateOf(kind, E) == [kind |-> kind, edges |-> SelectSeq(PairsInOrder, LAMBDA e : e \in E)]

Compatible(kind) == {e \in ToSet(PairsInOrder) : e[2] \in DOMAIN kind /\ ValidEdge(kind, e)}

States(n) ==
    {g \in UNION {{StateOf(kind, E) : E \in SUBSET Compatible(kind)} : kind \in [1..n -> Kind]} :
        GraphType(g)}

(* Two arrays are copied to the GPU, a kernel uses both and its result is  *)
(* copied back and used.                                                   *)
Join == [kind |-> <<"host", "gpu", "host", "gpu", "kernel", "gpu", "host", "code", "host">>,
         edges |-> << <<1, 2>>, <<2, 5>>, <<3, 4>>, <<4, 5>>, <<5, 6>>, <<6, 7>>, <<7, 8>>, <<8, 9>> >>]

(* The output of a kernel is used by two, another kernel uses their output *)
(* and the array of the first is copied back too.                          *)
Fork == [kind |-> <<"kernel", "gpu", "kernel", "kernel", "gpu", "gpu", "kernel", "gpu", "host">>,
         edges |-> << <<1, 2>>, <<2, 3>>, <<2, 4>>, <<3, 5>>, <<4, 6>>, <<5, 7>>, <<6, 7>>,
                      <<7, 8>>, <<2, 9>> >>]

(* Two kernels write parts of an array that a third reads. *)
Parts == [kind |-> <<"kernel", "kernel", "gpu", "kernel", "gpu">>,
          edges |-> << <<1, 3>>, <<2, 3>>, <<3, 4>>, <<4, 5>> >>]

(* A kernel gets the second stream, and the state after it, which copies   *)
(* host memory, begins with that one and launches its kernel on the first. *)
Second == [kind |-> <<"code", "host", "kernel", "gpu">>, edges |-> << <<1, 2>>, <<3, 4>> >>]
Idle == [kind |-> <<"host", "host", "host", "host", "host", "kernel">>,
         edges |-> << <<1, 2>>, <<2, 3>>, <<3, 6>>, <<4, 5>>, <<5, 6>> >>]

MCPrograms == {<<g>> : g \in States(4)}
                \cup {<<g, h>> : g \in States(3), h \in States(2)}
                \cup {<<Join>>, <<Fork>>, <<Parts, Fork>>, <<Parts, Parts>>, <<Second, Idle>>}

(* The output of a kernel is used by another one, and copied to an array   *)
(* that a third uses.                                                      *)
MCCopied == {<<[kind |-> <<"kernel", "gpu", "kernel", "gpu", "gpu", "kernel", "gpu">>,
                edges |-> << <<1, 2>>, <<2, 3>>, <<3, 4>>, <<2, 5>>, <<5, 6>>, <<6, 7>> >>]>>}
=============================================================================
