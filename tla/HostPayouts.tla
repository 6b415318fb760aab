------------------------------- MODULE HostPayouts -------------------------------
(***************************************************************************)
(* The earnings of one host on their way to a bank: src/lib/payout-        *)
(* operations.ts with payout-authority.ts, payout-movement.ts, finance-    *)
(* ledger.ts, the recovery and audit of payout-workers.ts and the          *)
(* resolution of issues in finance-admin.ts, on the provider operations of *)
(* financial-operations.ts and provider-execution-guard.ts.                *)
(*                                                                         *)
(* Earnings are collected in a batch; a transfer moves it to the host's    *)
(* account at Stripe, a payout from there to the bank.  A payout that      *)
(* failed is retried as the next generation.  A refund that is known only  *)
(* after the transfer may have left is recovered by a reversal of it.      *)
(*                                                                         *)
(* A transaction holds the guards of the host and of the reservations, and *)
(* a call to the provider holds them from the check of its authority to    *)
(* the saved result, so each is one action; a crash ends it earlier.  What *)
(* was read before the guard is saved by a later action.  The lease of an  *)
(* operation may expire at any time: then it can be claimed again, and     *)
(* what the former owner does has no effect.                               *)
(*                                                                         *)
(* Left out, since they can only delay: the other conditions of            *)
(* eligibility (trip, return, cases, account, delay, minimum amounts), the *)
(* issues BANK_MOVEMENT_INCOMPLETE and ACCOUNTING_INCOMPLETE, attempts and *)
(* schedules.  Currency and ownership are the same for all.                *)
(***************************************************************************)
EXTENDS Integers, FiniteSets, Functions

CONSTANTS
  Earnings,       \* one for each completed reservation of the host
  Net,            \* Net[e]: its cents
  Refunds,        \* refunds to customers
  RefundOf,       \* RefundOf[f]: the earning it reduces
  Cents,          \* Cents[f]: the host's share of it
  MaxBatches,     \* bound: batches
  MaxGenerations  \* bound: payouts of a batch

Batches == 1..MaxBatches

RefundsOf(e) == {f \in Refunds : RefundOf[f] = e}

\* finance-ledger.ts l.70: a share never exceeds what is left of the earning.
ASSUME PayoutAssumption ==
  /\ Net \in [Earnings -> Nat \ {0}]
  /\ RefundOf \in [Refunds -> Earnings]
  /\ Cents \in [Refunds -> Nat \ {0}]
  /\ \A e \in Earnings : SumFunctionOnSet(Cents, RefundsOf(e)) <= Net[e]
  /\ MaxBatches \in Nat /\ MaxGenerations \in Nat \ {0}

ASSUME FiniteAssumption == IsFiniteSet(Earnings) /\ IsFiniteSet(Refunds)

Transfer(b) == <<"TRANSFER", b, 0>>
Payout(b, g) == <<"PAYOUT", b, g>>
Reversal(f) == <<"REVERSAL", f, 0>>

Transfers == {Transfer(b) : b \in Batches}
PayoutsOf(b) == {Payout(b, g) : g \in 1..MaxGenerations}
Payouts == UNION {PayoutsOf(b) : b \in Batches}
Reversals == {Reversal(f) : f \in Refunds}
Operations == Transfers \cup Payouts \cup Reversals

VARIABLES
  refund,       \* refund[f]: how far it is accounted, and the batch it changes
  batch,        \* batch[b]: the PayoutBatch row with its frozen items
  op,           \* op[o]: the FinancialOperation row, its dispatches and projection
  provider,     \* provider[o]: what Stripe made of the call
  differences   \* operations with an issue PAYOUT_ or REVERSAL_DIFFERENCE

vars == <<refund, batch, op, provider, differences>>

-----------------------------------------------------------------------------
\* SUCCEEDED is not accounted yet; ALLOCATED changed no batch.
RefundStates ==
  {"NONE", "SUCCEEDED", "ALLOCATED", "BATCH_CHANGED", "POST_PAYOUT_REFUND", "RESOLVED"}
Accounted == RefundStates \ {"NONE", "SUCCEEDED"}

BatchStates ==
  {"NONE", "PLANNED", "TRANSFERRED", "PAYOUT_PENDING", "PAID", "PAYOUT_FAILED",
   "VOIDED", "REVERSED"}

\* READY stands for RETRY as well; NONE is an operation that was not prepared.
OperationStates == {"NONE", "READY", "RUNNING", "OBSERVED", "REVIEW", "DEAD_LETTER"}

\* What can be read at the provider.  LATE is a call that it will execute after
\* the caller has given up, DONE a transfer or reversal.
Answers == {"DONE", "PENDING", "PAID", "FAILED"}
Effects == Answers \cup {"LATE"}

NoOperation ==
  [state |-> "NONE", amount |-> 0, sent |-> FALSE, known |-> FALSE,
   seen |-> "NONE", back |-> 0, projected |-> "NONE"]

Prepared(amount) == [NoOperation EXCEPT !.state = "READY", !.amount = amount]

Init ==
  /\ refund = [f \in Refunds |-> [state |-> "NONE", batch |-> 0]]
  /\ batch = [b \in Batches |-> [state |-> "NONE", items |-> [e \in Earnings |-> 0], generation |-> 1]]
  /\ op = [o \in Operations |-> NoOperation]
  /\ provider = [o \in Operations |-> "NONE"]
  /\ differences = {}

-----------------------------------------------------------------------------
(* Amounts.  The columns of a batch are sums over its projections.         *)

\* An item is never of zero cents.
ItemsOf(b) == {e \in Earnings : batch[b].items[e] > 0}
Amount(b) == SumFunctionOnSet(batch[b].items, ItemsOf(b))
AmountsOf(S) == SumFunctionOnSet([o \in Operations |-> op[o].amount], S)

ReversalsOf(b) ==
  {Reversal(f) : f \in {g \in Refunds : refund[g].batch = b /\ op[Reversal(g)].state # "NONE"}}

Transferred(b) == IF op[Transfer(b)].projected = "DONE" THEN Amount(b) ELSE 0
PaidCents(b) == AmountsOf({o \in PayoutsOf(b) : op[o].projected = "PAID"})
PendingCents(b) == AmountsOf({o \in PayoutsOf(b) : op[o].projected = "PENDING"})
Reversed(b) == AmountsOf({o \in ReversalsOf(b) : op[o].projected = "DONE"})
Reserved(b) == AmountsOf({o \in ReversalsOf(b) : op[o].projected # "DONE"})

\* What is left of an earning after the refunds in these states.
Left(e, states) ==
  Net[e] - SumFunctionOnSet(Cents, {f \in RefundsOf(e) : refund[f].state \in states})

LeftOf(S, states) == SumFunctionOnSet([e \in Earnings |-> Left(e, states)], S)

Active(e) == {b \in Batches : e \in ItemsOf(b) /\ batch[b].state # "VOIDED"}

-----------------------------------------------------------------------------
(* Accounting: finance-ledger.ts.                                          *)

\* Mutated MayHaveMoved: the transfer was confirmed.
MayHaveMovedForSure(b) == op[Transfer(b)].known

\* transferMayHaveMoved.
MayHaveMoved(b) == op[Transfer(b)].sent \/ op[Transfer(b)].known

\* accountReservation for a set of earnings.
Account(S) ==
  refund' = [f \in Refunds |->
    IF RefundOf[f] \notin S \/ refund[f].state # "SUCCEEDED" THEN refund[f]
    ELSE IF Active(RefundOf[f]) = {} THEN [state |-> "ALLOCATED", batch |-> 0]
    ELSE LET b == CHOOSE b \in Active(RefundOf[f]) : TRUE
         IN  [state |-> IF MayHaveMoved(b) THEN "POST_PAYOUT_REFUND" ELSE "BATCH_CHANGED",
              batch |-> b]]

\* A refund of the rental succeeded, of the system or made in Stripe.
Refunded(f) ==
  /\ refund[f].state = "NONE"
  /\ refund' = [refund EXCEPT ![f].state = "SUCCEEDED"]
  /\ UNCHANGED <<batch, op, provider, differences>>

\* reconcileAccounting.
AccountReservation(e) ==
  /\ \E f \in RefundsOf(e) : refund[f].state = "SUCCEEDED"
  /\ Account({e})
  /\ UNCHANGED <<batch, op, provider, differences>>

-----------------------------------------------------------------------------
(* Authority.                                                              *)

\* Issues of the host: operations under review, and differences.
HostClear ==
  /\ \A o \in Operations : op[o].state # "REVIEW"
  /\ differences = {}

\* Mutated Eligible: refunds that are not accounted do not matter.
EligibleAsAccounted(e) ==
  /\ HostClear
  /\ \A f \in RefundsOf(e) : refund[f].state \notin {"BATCH_CHANGED", "POST_PAYOUT_REFUND"}

\* payoutEligibility, but for a batch that holds the earning.
Eligible(e) ==
  /\ HostClear
  /\ \A f \in RefundsOf(e) :
       refund[f].state \notin {"SUCCEEDED", "BATCH_CHANGED", "POST_PAYOUT_REFUND"}

Effect(o) == op[o].sent \/ op[o].known

\* Mutated MovementComplete: what the batch says of its current payout.
MovementByState(b) ==
  /\ HostClear
  /\ batch[b].state # "PAYOUT_PENDING"

\* bankMovement: every generation, sent or not, is accounted for.
MovementComplete(b) ==
  /\ HostClear
  /\ \A o \in PayoutsOf(b) :
       Effect(o) => op[o].state = "OBSERVED" /\ op[o].projected \in {"PAID", "FAILED"}

Available(b) == Transferred(b) - PaidCents(b) - PendingCents(b) - Reversed(b)

\* assertFinanceDispatch.
TransferAuthority(b) ==
  /\ batch[b].state # "VOIDED"
  /\ Reserved(b) = 0
  /\ \A e \in ItemsOf(b) : Eligible(e) /\ batch[b].items[e] = Left(e, Accounted)

PayoutAuthority(b, o) ==
  /\ MovementComplete(b) /\ PaidCents(b) = 0
  /\ op[o].amount = Transferred(b) - Reversed(b)
  /\ Transferred(b) = Amount(b)
  /\ Reserved(b) = 0
  /\ \A e \in ItemsOf(b) : Eligible(e) /\ Left(e, Accounted) > 0
  /\ LeftOf(ItemsOf(b), Accounted) = op[o].amount

ReversalAuthority(b, o) ==
  /\ MovementComplete(b)
  /\ op[Transfer(b)].projected = "DONE"
  /\ Available(b) >= Reserved(b) /\ Reserved(b) >= op[o].amount

Authority(o) ==
  \/ \E b \in Batches : o = Transfer(b) /\ TransferAuthority(b)
  \/ \E b \in Batches : o \in PayoutsOf(b) /\ PayoutAuthority(b, o)
  \/ \E f \in Refunds : o = Reversal(f) /\ ReversalAuthority(refund[f].batch, o)

-----------------------------------------------------------------------------
(* Intents.                                                                *)

\* createPayoutBatch: accounts what it looks at, and takes what is eligible
\* then.
CreateBatch(b) ==
  /\ batch[b].state = "NONE" /\ \A c \in 1..(b - 1) : batch[c].state # "NONE"
  /\ HostClear
  /\ LET left == [e \in Earnings |-> Left(e, RefundStates \ {"NONE"})]
         payable == {e \in Earnings :
           /\ Active(e) = {} /\ left[e] > 0
           /\ \A f \in RefundsOf(e) :
                refund[f].state \notin {"BATCH_CHANGED", "POST_PAYOUT_REFUND"}}
     IN  \E items \in SUBSET payable \ {{}} :
           /\ batch' = [batch EXCEPT ![b].state = "PLANNED",
                ![b].items = [e \in Earnings |-> IF e \in items THEN left[e] ELSE 0]]
           /\ op' = [op EXCEPT ![Transfer(b)] =
                Prepared(SumFunctionOnSet(left, items))]
  /\ Account(Earnings)
  /\ UNCHANGED <<provider, differences>>

\* planBankPayout.
PlanBankPayout(b) ==
  LET o == Payout(b, batch[b].generation)
  IN  /\ batch[b].state = "TRANSFERRED"
      /\ Transferred(b) > Reversed(b) /\ Reserved(b) = 0
      /\ op[o].state = "NONE"
      /\ op' = [op EXCEPT ![o] = Prepared(Transferred(b) - Reversed(b))]
      /\ UNCHANGED <<refund, batch, provider, differences>>

\* retryBankPayout, when the failure has been retrieved.
RetryBankPayout(b) ==
  /\ MovementComplete(b)
  /\ batch[b].state = "PAYOUT_FAILED"
  /\ batch[b].generation < MaxGenerations
  /\ batch' = [batch EXCEPT ![b].state = "TRANSFERRED", ![b].generation = @ + 1]
  /\ UNCHANGED <<refund, op, provider, differences>>

\* planTransferReversal: a payout that was not sent is superseded.
PlanTransferReversal(f) ==
  LET b == refund[f].batch
      bank == Payout(b, batch[b].generation)
      superseded == op[bank].state # "NONE" /\ ~Effect(bank)
  IN  /\ refund[f].state = "POST_PAYOUT_REFUND"
      /\ op[Reversal(f)].state = "NONE"
      /\ MovementComplete(b)
      /\ Available(b) - Reserved(b) >= Cents[f]
      /\ superseded => batch[b].generation < MaxGenerations
      /\ batch' = [batch EXCEPT ![b].generation = IF superseded THEN @ + 1 ELSE @]
      /\ op' = [op EXCEPT ![bank].state = IF superseded THEN "DEAD_LETTER" ELSE @,
                          ![Reversal(f)] = Prepared(Cents[f])]
      /\ UNCHANGED <<refund, provider, differences>>

\* Mutated NeverSent: no result is there.
NeverKnown(b) == ~op[Transfer(b)].known

\* A dispatch is recorded before the call.
NeverSent(b) == ~op[Transfer(b)].sent

\* voidUndispatchedBatch.
VoidBatch(b) ==
  /\ batch[b].state \notin {"NONE", "VOIDED"}
  /\ Transferred(b) = 0 /\ NeverSent(b)
  /\ op' = [op EXCEPT ![Transfer(b)].state = "DEAD_LETTER", ![Transfer(b)].seen = "NONE"]
  /\ batch' = [batch EXCEPT ![b].state = "VOIDED"]
  /\ refund' = [f \in Refunds |->
       IF refund[f].state = "BATCH_CHANGED" /\ refund[f].batch = b
       THEN [refund[f] EXCEPT !.state = "RESOLVED"] ELSE refund[f]]
  /\ UNCHANGED <<provider, differences>>

-----------------------------------------------------------------------------
(* applyFinanceObject: the answer of the provider becomes the projection.  *)

Statuses == [PENDING |-> "PAYOUT_PENDING", PAID |-> "PAID", FAILED |-> "PAYOUT_FAILED"]

Observed(o, projected) ==
  op' = [op EXCEPT ![o].state = "OBSERVED", ![o].sent = TRUE, ![o].known = TRUE,
                   ![o].seen = "NONE", ![o].back = 0, ![o].projected = projected]

ApplyTransfer(b, back) ==
  /\ batch' = [batch EXCEPT ![b].state = IF @ = "PLANNED" THEN "TRANSFERRED" ELSE @]
  /\ differences' = IF back = Reversed(b) THEN differences ELSE differences \cup {Transfer(b)}
  /\ UNCHANGED refund

\* What was paid cannot regress.  Once the batch is paid, any other status is
\* a difference.
ApplyPayout(b, g, answer) ==
  /\ op[Payout(b, g)].projected = "PAID" => answer = "PAID"
  /\ IF batch[b].state = "PAID" /\ answer # "PAID"
     THEN differences' = differences \cup {Payout(b, g)} /\ UNCHANGED batch
     ELSE /\ batch' = [batch EXCEPT ![b].state =
               IF g = batch[b].generation THEN Statuses[answer] ELSE @]
          /\ UNCHANGED differences
  /\ UNCHANGED refund

ApplyReversal(f) ==
  LET b == refund[f].batch
  IN  /\ IF op[Reversal(f)].projected = "DONE" THEN UNCHANGED <<batch, refund>>
         ELSE /\ batch' = [batch EXCEPT ![b].state =
                   IF Reversed(b) + op[Reversal(f)].amount = Transferred(b) THEN "REVERSED" ELSE @]
              /\ refund' = [refund EXCEPT ![f].state = "RESOLVED"]
      /\ UNCHANGED differences

\* A difference leaves the projection as it is.
Apply(o, answer, back) ==
  \/ \E b \in Batches : o = Transfer(b) /\ ApplyTransfer(b, back) /\ Observed(o, answer)
  \/ \E b \in Batches, g \in 1..MaxGenerations :
       /\ o = Payout(b, g) /\ ApplyPayout(b, g, answer)
       /\ Observed(o, IF batch[b].state = "PAID" /\ answer # "PAID" THEN op[o].projected ELSE answer)
  \/ \E f \in Refunds : o = Reversal(f) /\ ApplyReversal(f) /\ Observed(o, answer)

-----------------------------------------------------------------------------
(* executeFinanceOperation: by the recovery worker, a poll, a webhook, the *)
(* historical audit or the retry of a payout.                              *)

\* For the first time, or when the lease of another worker has expired.
Claim(o) ==
  /\ op[o].state \in {"READY", "RUNNING", "OBSERVED"}
  /\ op' = [op EXCEPT ![o].state = "RUNNING", ![o].seen = "NONE", ![o].back = 0]
  /\ UNCHANGED <<refund, batch, provider, differences>>

\* The batch's reversals as the transfer shows them.
ReversedAtProvider(b) ==
  AmountsOf({o \in ReversalsOf(b) : provider[o] = "DONE"})

\* retrieve or discover, outside of the guard; also by resolveFinanceIssue for
\* an operation under review.
Read(o) ==
  /\ Effect(o) /\ op[o].seen = "NONE"
  /\ \/ op[o].state = "RUNNING"
     \/ op[o].state = "REVIEW" /\ provider[o] \in Answers
  /\ op' = [op EXCEPT
       ![o].seen = IF provider[o] \in Answers THEN provider[o] ELSE "ABSENT",
       ![o].back = IF o \in Transfers /\ provider[o] = "DONE" THEN ReversedAtProvider(o[2]) ELSE 0]
  /\ UNCHANGED <<refund, batch, provider, differences>>

Save(o) ==
  /\ op[o].state \in {"RUNNING", "REVIEW"}
  /\ op[o].seen \in Answers
  /\ Apply(o, op[o].seen, op[o].back)
  /\ UNCHANGED provider

Executed(o) == IF o \in Payouts THEN "PENDING" ELSE "DONE"

\* dispatchProviderCall: once, and the outcomes it may have.
Dispatch(o) ==
  /\ op[o].state = "RUNNING" /\ ~Effect(o)
  /\ Authority(o)
  /\ \/ \* Executed and saved.
        /\ provider' = [provider EXCEPT ![o] = Executed(o)]
        /\ Apply(o, Executed(o), 0)
     \/ \* Executed, and the process ends before the result is applied.
        /\ provider' = [provider EXCEPT ![o] = Executed(o)]
        /\ op' = [op EXCEPT ![o].sent = TRUE, ![o].known = TRUE]
        /\ UNCHANGED <<refund, batch, differences>>
     \/ \* No answer: executed, not executed, or executed later.
        /\ \E effect \in {Executed(o), "NONE", "LATE"} :
             provider' = [provider EXCEPT ![o] = effect]
        /\ op' = [op EXCEPT ![o].sent = TRUE, ![o].state = "READY"]
        /\ UNCHANGED <<refund, batch, differences>>

\* Dispatched and not found: quarantineOperation.
Unknown(o) ==
  /\ op[o].state = "RUNNING" /\ op[o].seen = "ABSENT"
  /\ op' = [op EXCEPT ![o].state = "REVIEW", ![o].seen = "NONE"]
  /\ UNCHANGED <<refund, batch, provider, differences>>

\* No authority or any error: another attempt, after twenty of them a review.
Fail(o) ==
  /\ op[o].state = "RUNNING"
  /\ \E state \in {"READY", "REVIEW"} :
       op' = [op EXCEPT ![o].state = state, ![o].seen = "NONE", ![o].back = 0]
  /\ UNCHANGED <<refund, batch, provider, differences>>

\* resolveFinanceIssue: verified never dispatched.
Resume(o) ==
  /\ op[o].state = "REVIEW" /\ ~Effect(o)
  /\ op' = [op EXCEPT ![o].state = "READY"]
  /\ UNCHANGED <<refund, batch, provider, differences>>

-----------------------------------------------------------------------------
(* The provider.  A payout that was paid may still be returned.            *)

Progress(o) ==
  /\ \/ provider[o] = "LATE" /\ provider' = [provider EXCEPT ![o] = Executed(o)]
     \/ /\ provider[o] = "PENDING"
        /\ \E status \in {"PAID", "FAILED"} : provider' = [provider EXCEPT ![o] = status]
     \/ provider[o] = "PAID" /\ provider' = [provider EXCEPT ![o] = "FAILED"]
  /\ UNCHANGED <<refund, batch, op, differences>>

Next ==
  \/ \E f \in Refunds : Refunded(f) \/ PlanTransferReversal(f)
  \/ \E e \in Earnings : AccountReservation(e)
  \/ \E b \in Batches :
       CreateBatch(b) \/ PlanBankPayout(b) \/ RetryBankPayout(b) \/ VoidBatch(b)
  \/ \E o \in Operations :
       \/ Claim(o) \/ Read(o) \/ Save(o) \/ Dispatch(o)
       \/ Unknown(o) \/ Fail(o) \/ Resume(o) \/ Progress(o)

Spec == Init /\ [][Next]_vars

-----------------------------------------------------------------------------
(* Properties.                                                             *)

Operation ==
  [state : OperationStates, amount : Nat, sent : BOOLEAN, known : BOOLEAN,
   seen : {"NONE", "ABSENT"} \cup Answers, back : Nat, projected : {"NONE"} \cup Answers]

PayoutBatch ==
  [state : BatchStates, items : [Earnings -> Nat], generation : 1..MaxGenerations]

\* With the check of the table: the funds of a batch are never overdrawn
\* (payout_available_funds_nonnegative of 20260927010000).
TypeOK ==
  /\ refund \in [Refunds -> [state : RefundStates, batch : Batches \cup {0}]]
  /\ batch \in [Batches -> PayoutBatch]
  /\ op \in [Operations -> Operation]
  /\ provider \in [Operations -> {"NONE"} \cup Effects]
  /\ differences \subseteq Operations
  /\ \A b \in Batches :
       PaidCents(b) + PendingCents(b) + Reversed(b) + Reserved(b) <= Transferred(b)

\* Money that left for the bank, is on its way or may still leave, and money
\* taken back never exceed what was transferred to the host's account, over
\* all generations, lost answers and late calls (payout-movement.ts l.4-6).
FundsCovered ==
  \A b \in Batches :
    LET out == {o \in PayoutsOf(b) : provider[o] \in {"LATE", "PENDING", "PAID"}}
        back == {o \in ReversalsOf(b) : provider[o] \in {"LATE", "DONE"}}
    IN  out \cup back # {} =>
          /\ provider[Transfer(b)] = "DONE"
          /\ AmountsOf(out) + AmountsOf(back) <= Amount(b)

\* No earning is transferred with two batches: what may have been sent cannot
\* be voided and collected again (payout-operations.ts l.130).
TransferredOnce ==
  \A b, c \in Batches :
    /\ provider[Transfer(b)] # "NONE" /\ provider[Transfer(c)] # "NONE"
    /\ ItemsOf(b) \cap ItemsOf(c) # {}
    => b = c

\* Whatever the host got beyond the earnings that are left stands in the books
\* as something to recover; nothing is recovered twice (finance-ledger.ts
\* l.71-73 and l.97, payout-operations.ts l.102-112).
OverpaymentRecorded ==
  \A b \in Batches :
    provider[Transfer(b)] # "NONE" =>
      LET recoverable == {f \in Refunds :
            /\ refund[f].state = "POST_PAYOUT_REFUND" /\ refund[f].batch = b
            /\ provider[Reversal(f)] \notin {"LATE", "DONE"}}
          recovered == {o \in ReversalsOf(b) : provider[o] \in {"LATE", "DONE"}}
      IN  Amount(b) - AmountsOf(recovered) =
            LeftOf(ItemsOf(b), Accounted) + SumFunctionOnSet(Cents, recoverable)

\* Nothing is sent to the host but what is left of the earnings after every
\* refund that succeeded, accounted or not (docs/pr-4-payout-blockers.md l.7-9,
\* payout-authority.ts l.27-28 and l.81-90).
SentWhatIsOwed ==
  [][\A b \in Batches, o \in Transfers \cup Payouts :
       /\ o[2] = b
       /\ provider[o] = "NONE" /\ provider'[o] # "NONE"
       => op[o].amount = LeftOf(ItemsOf(b), RefundStates \ {"NONE"})]_vars

=============================================================================
