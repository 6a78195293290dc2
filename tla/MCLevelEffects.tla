---------------------------- MODULE MCLevelEffects ----------------------------
(***************************************************************************)
(* LevelEffects for TLC: a level of two pixels of dirt, an effect of one   *)
(* pixel and one of two that lies to the right of its pivot, and two       *)
(* positions: two pixels left of the level, where the second effect still  *)
(* reaches it but has no code of its own, and the first pixel.             *)
(***************************************************************************)
EXTENDS LevelEffects, Encoding, TLC

CONSTANTS spark, blast
MCDirt      == {0, 1}
MCMask      == spark :> {0} @@ blast :> {1, 2}
MCPositions == {-2, 0}
MCAxis      == [x1 |-> -1, x2 |-> 3, acc |-> 1, fine |-> 1]
MCArrivesAt == [x \in MCPositions |-> Arrives(MCAxis, x)]
=============================================================================
