--------------------------- MODULE MCProgramCache ---------------------------
(***************************************************************************)
(* ProgramCache for TLC.  For one combination of argument types the        *)
(* function uses a constant and an array, for the other one neither.  The  *)
(* values of the constant and the addresses are interchangeable.           *)
(***************************************************************************)
EXTENDS ProgramCache

CONSTANTS big, small, n, A, x, y, v1, v2, p1, p2

MCType == {big, small}
MCUses == (big :> {n, A}) @@ (small :> {})
MCDesc == (x :> 20) @@ (y :> 30)
Interchangeable == Permutations({v1, v2}) \cup Permutations({p1, p2})
=============================================================================
