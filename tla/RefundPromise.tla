------------------------------ MODULE RefundPromise ------------------------------
(***************************************************************************)
(* What refunding a payment promises.  The ledger reserves a refund before *)
(* the provider is asked for it; the provider is made to pay a reserved    *)
(* refund at most once; and the ledger settles a refund only as the        *)
(* provider did.  RefundOperations implements it.                          *)
(***************************************************************************)
CONSTANTS
  Refunds,
  External,   \* refunds made by hand at the provider, unknown to the ledger
  Fits(_)     \* Fits(S): the refunds in S do not exceed the payment

VARIABLES
  status,     \* status[f] in the ledger
  money       \* money[f] at the provider

vars == <<status, money>>

Reserved(f) == status[f] \in {"PENDING", "SUCCEEDED"}

Init ==
  /\ status = [f \in Refunds |-> "ABSENT"]
  /\ money = [f \in Refunds |-> "none"]

Reserve(f) ==
  /\ f \notin External
  /\ status[f] = "ABSENT"
  /\ Fits({g \in Refunds : Reserved(g)} \cup {f})
  /\ status' = [status EXCEPT ![f] = "PENDING"]
  /\ UNCHANGED money

Import(f) ==
  /\ f \in External
  /\ status[f] = "ABSENT"
  /\ money[f] # "none"
  /\ status' = [status EXCEPT ![f] = "PENDING"]
  /\ UNCHANGED money

\* The provider pays f: only what the ledger has reserved, and once.
Pay(f) ==
  /\ money[f] = "none"
  /\ status[f] = "PENDING" \/ f \in External
  /\ \E m \in {"pending", "succeeded"} : money' = [money EXCEPT ![f] = m]
  /\ UNCHANGED status

\* A payment takes its course at the provider; a success may be taken back.
Move(f) ==
  /\ money[f] \in {"pending", "succeeded"}
  /\ money' = [money EXCEPT ![f] = IF @ = "pending" THEN "succeeded" ELSE "failed"]
     \/ money' = [money EXCEPT ![f] = "failed"]
  /\ UNCHANGED status

\* The ledger learns what became of f; a success may be old news.
Settle(f) ==
  /\ status[f] # "ABSENT"
  /\ \/ /\ money[f] \in {"succeeded", "failed"}
        /\ status' = [status EXCEPT ![f] = "SUCCEEDED"]
     \/ /\ money[f] = "failed"
        /\ status' = [status EXCEPT ![f] = "FAILED"]
  /\ UNCHANGED money

Next == \E f \in Refunds : Reserve(f) \/ Import(f) \/ Pay(f) \/ Move(f) \/ Settle(f)

Spec == Init /\ [][Next]_vars

=============================================================================
