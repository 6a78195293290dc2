------------------------------ MODULE MCUpdater ------------------------------
(***************************************************************************)
(* Updater for TLC: two clients that hand one identifier to each other.    *)
(***************************************************************************)
EXTENDS Updater
=============================================================================
