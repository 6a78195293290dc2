------------------------------ MODULE MCSession ------------------------------
(* A client, and one more player beside it. *)
EXTENDS Session
=============================================================================
