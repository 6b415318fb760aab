----------------------------- MODULE MCPrivateFiles -----------------------------
(***************************************************************************)
(* The instance of PrivateFiles for TLC.                                   *)
(***************************************************************************)
EXTENDS PrivateFiles

=============================================================================
