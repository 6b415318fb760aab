-------------------------- MODULE MCStripeEventLedger --------------------------
(***************************************************************************)
(* Instances of StripeEventLedger for TLC.                                 *)
(***************************************************************************)
EXTENDS StripeEventLedger

\* Every kind of fault once.
OneOfEach == [k \in FaultKinds |-> 1]

\* Two failing handlers and nothing else: enough to be flagged at two.
ErrorsOnly == [error |-> 2, crash |-> 0, lapse |-> 0]

OneDelay == <<1>>

=============================================================================
