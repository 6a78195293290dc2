------------------------------- MODULE MCOwners -------------------------------
(* Two players and two worms and another object, or one of each and another. *)
EXTENDS Owners
=============================================================================
