------------------------ MODULE MCDepositAuthorizations ------------------------
(***************************************************************************)
(* A small instance of DepositAuthorizations for TLC.                      *)
(***************************************************************************)
EXTENDS DepositAuthorizations, TLC

=============================================================================
