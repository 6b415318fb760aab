--------------------------- MODULE MCRefundOperations ---------------------------
(***************************************************************************)
(* Small instances of RefundOperations for TLC.  The bounds are in the     *)
(* configurations; what each is for is said in the README.                 *)
(***************************************************************************)
EXTENDS RefundOperations, FiniteSets, TLC

CONSTANTS f1, f2, f3, w1, w2

MCAmount == [f \in Refunds |-> 1]

Executions == Permutations(Workers)
Ours == Permutations(Refunds \ External)

\* Of three possible refunds, any two; next to one made at the dashboard, an
\* operation is not retried.
TwoAtATime ==
  /\ Cardinality({f \in Refunds : refund[f].status # "ABSENT" \/ money[f].objects > 0}) <= 2
  /\ (\E f \in External : money[f].objects > 0) => \A f \in Refunds : op[f].failures = 0

=============================================================================
