----------------------------- MODULE MCObjectGrid -----------------------------
(* A few objects in a grid small enough for every order of the lists. *)
EXTENDS ObjectGrid, TLC
Symmetry == Permutations(Object)
MCKind == {<<1, TRUE>>, <<1, FALSE>>}
MCWormLayer == {2}
=============================================================================
