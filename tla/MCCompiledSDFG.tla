--------------------------- MODULE MCCompiledSDFG ---------------------------
(***************************************************************************)
(* CompiledSDFG for TLC: the library, two further names that compile may   *)
(* give it, and copies of copies of the library.                           *)
(***************************************************************************)
EXTENDS CompiledSDFG, TLC

CONSTANTS o1, o2, o3, o4

MCName == {<<0>>, <<1>>, <<2>>, <<0, 0>>, <<0, 1>>, <<1, 0>>, <<0, 0, 0>>}
(* Four objects without disturbances, with code that is kept, and with     *)
(* processes that end; two with everything.                                *)
MCEnvironments ==
    {[disturbed |-> {}, objects |-> 4], [disturbed |-> {"kept"}, objects |-> 4],
     [disturbed |-> {"exit", "restart"}, objects |-> 4],
     [disturbed |-> Disturbance, objects |-> 2]}
CallFault == {[disturbed |-> {"call"}, objects |-> 2]}
Interchangeable == Permutations(Object)
=============================================================================
