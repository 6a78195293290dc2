------------------------------ MODULE MCNetwork ------------------------------
(***************************************************************************)
(* Network for TLC: two connections, and small delays in the order of the  *)
(* real ones.  Connections are not exchanged for one another: symmetry and *)
(* the liveness properties do not go together.                             *)
(***************************************************************************)
EXTENDS Network
=============================================================================
