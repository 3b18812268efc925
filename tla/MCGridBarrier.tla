--------------------------- MODULE MCGridBarrier ----------------------------
(***************************************************************************)
(* GridBarrier for TLC: up to three blocks of two threads, so that one     *)
(* thread of block 0 has two peers and the other one.                      *)
(***************************************************************************)
EXTENDS GridBarrier
=============================================================================
