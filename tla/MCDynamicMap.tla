---------------------------- MODULE MCDynamicMap ----------------------------
(***************************************************************************)
(* DynamicMap for TLC: blocks of four threads.  A thread has nothing to    *)
(* do, less than a warp, at least a warp or more than a block of work.     *)
(* With two warps per block the threads work on the rest of their own; the *)
(* fine-grained mode is checked for one warp per block.                    *)
(***************************************************************************)
EXTENDS DynamicMap

MCRanges == {<<0, 0>>, <<3, 4>>, <<1, 4>>, <<0, 5>>}
MCRangesRace == {<<0, 0>>, <<3, 4>>}
Coarse == [block |-> 4, warp |-> 2, fine |-> FALSE]
FineOneWarp == [block |-> 4, warp |-> 4, fine |-> TRUE]
FineTwoWarps == [block |-> 4, warp |-> 2, fine |-> TRUE]
MCConfig == {Coarse, FineOneWarp}
MCConfigRace == {FineTwoWarps}
=============================================================================
