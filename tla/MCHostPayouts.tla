------------------------------ MODULE MCHostPayouts ------------------------------
(***************************************************************************)
(* A small instance of HostPayouts for TLC: an earning of two, a refund    *)
(* that takes one of it.                                                   *)
(***************************************************************************)
EXTENDS HostPayouts, TLC

CONSTANTS e1, f1

TwoEach == [e \in Earnings |-> 2]
OfFirst == [f \in Refunds |-> e1]
OneEach == [f \in Refunds |-> 1]

=============================================================================
