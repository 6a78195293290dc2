------------------------------- MODULE MCStream -------------------------------
(***************************************************************************)
(* Stream for TLC: a level of six pixels at two codes to a pixel, so that  *)
(* the area is as wide as a power of two of codes, and ints of six bits.   *)
(***************************************************************************)
EXTENDS Stream
MCAxis == [x1 |-> -1, x2 |-> 7, acc |-> 2, fine |-> 4]
MCBounded == {1, 2, 5, 8}
=============================================================================
