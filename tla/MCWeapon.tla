------------------------------- MODULE MCWeapon -------------------------------
(***************************************************************************)
(* Weapon for TLC.                                                         *)
(***************************************************************************)
EXTENDS Weapon
=============================================================================
