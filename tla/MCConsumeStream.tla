-------------------------- MODULE MCConsumeStream ---------------------------
(***************************************************************************)
(* ConsumeStream for TLC.  The modulus is small enough for the counter to  *)
(* wrap and no smaller than the assumption on it allows.                   *)
(***************************************************************************)
EXTENDS ConsumeStream

CONSTANTS t1, t2, t3, i1, i2, i3

MCThread3 == {t1, t2, t3}
MCItem3 == {i1, i2, i3}
=============================================================================
