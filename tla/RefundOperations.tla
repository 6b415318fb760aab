---------------------------- MODULE RefundOperations ----------------------------
(***************************************************************************)
(* The refunds of one captured rental payment: src/lib/refund-operations.ts*)
(* on top of the engine of provider operations,                            *)
(* src/lib/financial-operations.ts and src/lib/provider-execution-guard.ts.*)
(*                                                                         *)
(* A refund is reserved together with an operation.  Any number of workers *)
(* (the cron job, a settlement, a request of staff) may execute the        *)
(* operation: each claims it with a lease and a token, finds out whether   *)
(* the provider must still be called, calls it under the vehicle's guard   *)
(* with the operation's own idempotency key, and saves what it saw if its  *)
(* token still holds the lease.  Webhooks and the historical audit read    *)
(* the provider's object on their own and apply it to the row.             *)
(*                                                                         *)
(* One action is one transaction, one read outside a transaction, or one   *)
(* event at the provider.  Times are kept as the time left or gone by.     *)
(***************************************************************************)
EXTENDS Integers, FiniteSets, Functions

CONSTANTS
  Refunds,
  External,      \* refunds made at the provider's dashboard
  Amount,        \* Amount[f], in units of the currency
  Captured,      \* the amount of the rental payment
  Workers,       \* executions of operations
  Hooks,         \* webhook handlers and audits
  None,          \* no token
  Lease,         \* the two minutes of leaseExpiresAt
  Replay,        \* the 23 hours in which a call may be repeated
  Wire,          \* bound: how long a request may be under way
  Retention,     \* how long the provider remembers a key: 24 hours
  MaxFailures,   \* the twenty consecutive failures
  Reversible,    \* whether a refund that succeeded may fail later
  MaxCrashes     \* bound: processes that die

ASSUME RefundAssumption ==
  /\ External \subseteq Refunds
  /\ Amount \in [Refunds -> Nat]
  /\ Captured \in Nat
  /\ None \notin Workers
  /\ Lease \in Nat \ {0} /\ Wire \in Nat \ {0} /\ MaxFailures \in Nat \ {0}
  /\ Replay \in Nat /\ Retention \in Nat /\ MaxCrashes \in Nat
  /\ Reversible \in BOOLEAN

ASSUME FiniteAssumption == IsFiniteSet(Refunds)

\* A call decided upon at the end of the replay window may be made at the end
\* of the lease, and its request arrive at the end of the renewed one or later
\* still: the provider must remember the key for as long.
ASSUME RetentionAssumption == Replay + 2 * Lease + Wire <= Retention

VARIABLES
  refund,       \* refund[f]: the Refund row
  op,           \* op[f]: its FinancialOperation row
  worker,       \* worker[w]: what an execution is doing
  hook,         \* hook[h]: what a webhook handler or audit has read
  money,        \* money[f]: the refund's object at the provider
  wire,         \* wire[f]: the time a request nobody waits for may still take
  disposition,  \* the reservation's financialDisposition
  crashes

vars == <<refund, op, worker, hook, money, wire, disposition, crashes>>

-----------------------------------------------------------------------------
Horizon == Retention + 1     \* ages are counted up to here
NotStarted == -1             \* firstAttemptAt is NULL

\* READY stands for READY, RETRY and POLL: all are executed when due.
\* FAILED of a refund stands for FAILED and CANCELLED.
OpStates == {"READY", "RUNNING", "OBSERVED", "REVIEW"}
RefundStatuses == {"ABSENT", "PENDING", "SUCCEEDED", "FAILED"}
ProviderStatuses == {"pending", "succeeded", "failed"}
Dispositions == {"OPEN", "REFUND_REQUIRED", "TERMINATED", "REVIEW"}

RefundRows == [status : RefundStatuses, identified : BOOLEAN]

Ops == [state : OpStates, token : Workers \cup {None}, lease : 0..Lease,
        identified : BOOLEAN, failures : 0..MaxFailures, age : NotStarted..Horizon]

\* objects counts the provider's refunds for one row: it should be one.
Money == [status : {"none"} \cup ProviderStatuses, objects : 0..2, keyAge : 0..Horizon]

\* "prepared" is about to claim, "claimed" about to read, "sending" about to
\* call, "calling" waits for the answer, "answered" got it, "recorded" stored
\* the identity, "read" has read the object, "failing" and "uncertain" have
\* caught an error.  first and failures are the row as it was claimed.
Busy == [pc : {"prepared", "claimed", "sending", "calling", "answered", "recorded",
               "read", "failing", "uncertain"},
         refund : Refunds, first : BOOLEAN, identified : BOOLEAN,
         failures : 0..MaxFailures, seen : {"none"} \cup ProviderStatuses]

Reading == [pc : {"read"}, refund : Refunds, seen : ProviderStatuses]

Idle == [pc |-> "idle"]

NewOp == [state |-> "READY", token |-> None, lease |-> 0, identified |-> FALSE,
          failures |-> 0, age |-> NotStarted]

Init ==
  /\ refund = [f \in Refunds |-> [status |-> "ABSENT", identified |-> FALSE]]
  /\ op = [f \in Refunds |-> NewOp]
  /\ worker = [w \in Workers |-> Idle]
  /\ hook = [h \in Hooks |-> Idle]
  /\ money = [f \in Refunds |-> [status |-> "none", objects |-> 0, keyAge |-> 0]]
  /\ wire = [f \in Refunds |-> 0]
  /\ disposition \in {"OPEN", "REFUND_REQUIRED"}
  /\ crashes = 0

-----------------------------------------------------------------------------
At(w, pc) == worker[w].pc = pc
Goes(w, pc) == worker' = [worker EXCEPT ![w] = [worker[w] EXCEPT !.pc = pc]]
Ends(w) == worker' = [worker EXCEPT ![w] = Idle]

\* The vehicle's guard is held by a dispatch until its result is saved.
Guarding == {"calling", "answered", "recorded"}

\* Every transaction on the reservation waits for the guard.
GuardFree == \A v \in Workers : worker[v].pc \notin Guarding

\* assertCurrentLease.
HoldsLease(w, f) == op[f].token = w /\ op[f].lease > 0

-----------------------------------------------------------------------------
(* Reserving: reserveRefund.                                               *)

\* The refunds in S against what was captured.
Fits(S) == SumFunctionOnSet(Amount, S) <= Captured
Exhausts(S) == SumFunctionOnSet(Amount, S) >= Captured

PaidBack == {f \in Refunds : refund[f].status = "SUCCEEDED"}

\* Mutated Held: what is pending is not reserved.
HeldOnSuccess == {f \in Refunds : refund[f].status = "SUCCEEDED"}

\* The refunds that count against the payment.
Held == {f \in Refunds : refund[f].status \in {"PENDING", "SUCCEEDED"}}

Reserve(f) ==
  /\ GuardFree
  /\ f \notin External
  /\ refund[f].status = "ABSENT"
  /\ disposition # "REVIEW"
  /\ Fits(Held \cup {f})
  /\ refund' = [refund EXCEPT ![f] = [refund[f] EXCEPT !.status = "PENDING"]]
  /\ disposition' = IF Exhausts(Held \cup {f}) THEN "REFUND_REQUIRED" ELSE disposition
  /\ UNCHANGED <<op, worker, hook, money, wire, crashes>>

-----------------------------------------------------------------------------
(* Applying what was seen: applyRefundObservationTx.                       *)

\* Mutated RowStatus: a refund is complete once it is created.
RowStatusOnCreation(seen) == IF seen = "failed" THEN "FAILED" ELSE "SUCCEEDED"

RowStatus(seen) == IF seen = "succeeded" THEN "SUCCEEDED"
                   ELSE IF seen = "failed" THEN "FAILED" ELSE "PENDING"

\* Mutated Applied: nothing changes a row that is settled.
AppliedOnce(f, seen) ==
  IF refund[f].status # "PENDING" THEN refund[f]
  ELSE [status |-> RowStatus(seen), identified |-> TRUE]

\* The row after an observation: pending is ignored once it is settled.
Applied(f, seen) ==
  IF refund[f].status # "PENDING" /\ seen = "pending" THEN refund[f]
  ELSE [status |-> RowStatus(seen), identified |-> TRUE]

\* A final observation supersedes whoever executes the operation.
ObservedOp(o, seen) ==
  IF seen = "pending" THEN o
  ELSE [o EXCEPT !.state = "OBSERVED", !.token = None, !.lease = 0,
                 !.identified = TRUE, !.failures = 0]

\* The reservation after an observation of f: a success taken back is put
\* under review, and a full refund terminates.
DispositionAfter(f, seen) ==
  IF refund[f].status = "SUCCEEDED" /\ seen = "failed" THEN "REVIEW"
  ELSE IF /\ seen = "succeeded"
          /\ disposition = "REFUND_REQUIRED"
          /\ Exhausts(PaidBack \cup {f})
  THEN "TERMINATED"
  ELSE disposition

\* o is the operation's row as the same transaction has left it.
ApplyTx(f, o, seen) ==
  /\ refund' = [refund EXCEPT ![f] = Applied(f, seen)]
  /\ op' = [op EXCEPT ![f] = ObservedOp(o, seen)]
  /\ disposition' = DispositionAfter(f, seen)

-----------------------------------------------------------------------------
(* Executing: executeRefundOperation and runOperation.                     *)

Prepared(f) == [pc |-> "prepared", refund |-> f, first |-> FALSE,
                identified |-> FALSE, failures |-> 0, seen |-> "none"]

\* The operation learns the identity that an observation may have stored in
\* the row.  The row was read before the transaction: known may be old, save
\* that the row of an external refund has had its identity from the start.
Prepare(w, f) ==
  /\ At(w, "idle")
  /\ GuardFree
  /\ refund[f].status = "PENDING"
  /\ \E known \in {(f \in External), refund[f].identified} :
       op' = [op EXCEPT ![f] = [op[f] EXCEPT !.identified = op[f].identified \/ known]]
  /\ worker' = [worker EXCEPT ![w] = Prepared(f)]
  /\ UNCHANGED <<refund, hook, money, wire, disposition, crashes>>

\* Mutated Claimable: a lease never runs out.
ClaimableIfReleased(f) ==
  /\ refund[f].status = "PENDING"
  /\ op[f].state # "REVIEW"
  /\ op[f].token = None

Claimable(f) ==
  /\ refund[f].status = "PENDING"
  /\ op[f].state # "REVIEW"
  /\ op[f].lease = 0

ClaimedOp(o, w) ==
  [o EXCEPT !.state = "RUNNING", !.token = w, !.lease = Lease,
            !.age = IF o.age = NotStarted THEN 0 ELSE o.age]

Claimant(k, o) ==
  [k EXCEPT !.pc = "claimed", !.first = (o.age = NotStarted),
            !.identified = o.identified, !.failures = o.failures]

Claim(w) ==
  LET f == worker[w].refund
  IN  /\ At(w, "prepared")
      /\ GuardFree
      /\ Claimable(f)
      /\ op' = [op EXCEPT ![f] = ClaimedOp(op[f], w)]
      /\ worker' = [worker EXCEPT ![w] = Claimant(worker[w], op[f])]
      /\ UNCHANGED <<refund, hook, money, wire, disposition, crashes>>

\* "already processing", "already terminal": the execution is over.
ClaimRefused(w) ==
  /\ At(w, "prepared")
  /\ GuardFree
  /\ ~Claimable(worker[w].refund)
  /\ Ends(w)
  /\ UNCHANGED <<refund, op, hook, money, wire, disposition, crashes>>

\* Mutated Replayable: the key is used however old it is.
ReplayableAlways(w) == TRUE

\* The call may be made again with the same key.
Replayable(w) == worker[w].first \/ op[worker[w].refund].age <= Replay

\* The provider is going to be called.
Decide(w) ==
  /\ At(w, "claimed")
  /\ ~worker[w].identified
  /\ Replayable(w)
  /\ Goes(w, "sending")
  /\ UNCHANGED <<refund, op, hook, money, wire, disposition, crashes>>

\* The object is retrieved by its identity, or discovered by the key in its
\* metadata.
Look(w) ==
  LET f == worker[w].refund
  IN  /\ At(w, "claimed")
      /\ worker[w].identified \/ ~Replayable(w)
      /\ money[f].status # "none"
      /\ worker' = [worker EXCEPT ![w] =
                      [worker[w] EXCEPT !.pc = "read", !.seen = money[f].status]]
      /\ UNCHANGED <<refund, op, hook, money, wire, disposition, crashes>>

\* "Provider outcome unknown beyond safe replay window".
NotFound(w) ==
  /\ At(w, "claimed")
  /\ ~worker[w].identified
  /\ ~Replayable(w)
  /\ money[worker[w].refund].status = "none"
  /\ Goes(w, "uncertain")
  /\ UNCHANGED <<refund, op, hook, money, wire, disposition, crashes>>

\* The provider could not be read.
ReadFails(w) ==
  /\ At(w, "claimed")
  /\ worker[w].identified \/ ~Replayable(w)
  /\ Goes(w, "failing")
  /\ UNCHANGED <<refund, op, hook, money, wire, disposition, crashes>>

\* assertDispatchAuthority for a refund.
Authorized(f) == refund[f].status = "PENDING" /\ disposition # "REVIEW"

\* withOperationGuard and dispatchProviderCall, up to the call: the guard is
\* taken and the lease renewed.
Dispatch(w) ==
  LET f == worker[w].refund
  IN  /\ At(w, "sending")
      /\ GuardFree
      /\ HoldsLease(w, f)
      /\ Authorized(f)
      /\ op' = [op EXCEPT ![f] = [op[f] EXCEPT !.lease = Lease]]
      /\ Goes(w, "calling")
      /\ UNCHANGED <<refund, hook, money, wire, disposition, crashes>>

DispatchRefused(w) ==
  LET f == worker[w].refund
  IN  /\ At(w, "sending")
      /\ GuardFree
      /\ \/ ~HoldsLease(w, f) /\ Goes(w, "failing")
         \/ HoldsLease(w, f) /\ ~Authorized(f) /\ Goes(w, "uncertain")
      /\ UNCHANGED <<refund, op, hook, money, wire, disposition, crashes>>

-----------------------------------------------------------------------------
(* The provider's side of a call, and of what happens without one.         *)

Created == {[status |-> s, objects |-> 1, keyAge |-> 0] : s \in {"pending", "succeeded"}}

\* What a request leads to: a refund is created, or the one that the key stands
\* for is returned; a key that was forgotten creates a second one.
Accepted(m) ==
  IF m.objects = 0 THEN Created
  ELSE IF m.keyAge <= Retention THEN {m}
  ELSE {[status |-> s, objects |-> 2, keyAge |-> 0] : s \in {"pending", "succeeded"}}

Accept(w) ==
  LET f == worker[w].refund
  IN  /\ At(w, "calling")
      /\ \E m \in Accepted(money[f]) :
           /\ money' = [money EXCEPT ![f] = m]
           /\ worker' = [worker EXCEPT ![w] =
                           [worker[w] EXCEPT !.pc = "answered", !.seen = m.status]]
      /\ UNCHANGED <<refund, op, hook, wire, disposition, crashes>>

\* The call fails or times out; the request may still be under way.
Lost(w) ==
  LET f == worker[w].refund
  IN  /\ At(w, "calling")
      /\ \E left \in {wire[f], Wire} : wire' = [wire EXCEPT ![f] = left]
      /\ Goes(w, "failing")
      /\ UNCHANGED <<refund, op, hook, money, disposition, crashes>>

\* A request that nobody waits for arrives; there may be more of them.
LateAccept(f) ==
  /\ wire[f] > 0
  /\ \E left \in {0, wire[f]} : wire' = [wire EXCEPT ![f] = left]
  /\ \E m \in Accepted(money[f]) : money' = [money EXCEPT ![f] = m]
  /\ UNCHANGED <<refund, op, worker, hook, disposition, crashes>>

\* A refund made at the dashboard.
PayExternal(f) ==
  /\ f \in External
  /\ money[f].objects = 0
  /\ \E m \in Created : money' = [money EXCEPT ![f] = m]
  /\ UNCHANGED <<refund, op, worker, hook, wire, disposition, crashes>>

Becomes(f, s) ==
  /\ money' = [money EXCEPT ![f] = [money[f] EXCEPT !.status = s]]
  /\ UNCHANGED <<refund, op, worker, hook, wire, disposition, crashes>>

ProviderSettles(f) ==
  /\ money[f].status = "pending"
  /\ Becomes(f, "succeeded") \/ Becomes(f, "failed")

\* A refund that succeeded is returned by the customer's bank.
ProviderReverses(f) == Reversible /\ money[f].status = "succeeded" /\ Becomes(f, "failed")

-----------------------------------------------------------------------------
(* Saving the result of an execution, or its failure.                      *)

\* The proof of acceptance is committed on its own, under the guard.
Record(w) ==
  LET f == worker[w].refund
  IN  /\ At(w, "answered")
      /\ op' = [op EXCEPT ![f] = [op[f] EXCEPT !.identified = TRUE]]
      /\ Goes(w, "recorded")
      /\ UNCHANGED <<refund, hook, money, wire, disposition, crashes>>

SavedOp(o, seen) ==
  [o EXCEPT !.state = IF seen = "pending" THEN "READY" ELSE "OBSERVED",
            !.token = None, !.lease = 0, !.identified = TRUE, !.failures = 0]

Save(w) ==
  LET f == worker[w].refund
      seen == worker[w].seen
  IN  /\ At(w, "recorded") \/ (At(w, "read") /\ GuardFree)
      /\ \/ /\ HoldsLease(w, f)
            /\ ApplyTx(f, SavedOp(op[f], seen), seen)
            /\ Ends(w)
         \/ /\ ~HoldsLease(w, f)
            /\ Goes(w, "failing")
            /\ UNCHANGED <<refund, op, disposition>>
      /\ UNCHANGED <<hook, money, wire, crashes>>

\* Mutated GivesUp: one failure too many.
GivesUpLate(k) == k.pc = "uncertain" \/ k.failures >= MaxFailures

\* Uncertain outcomes and persistent failures are for staff to resolve.
GivesUp(k) == k.pc = "uncertain" \/ k.failures >= MaxFailures - 1

FailedOp(o, k) ==
  [o EXCEPT !.state = IF GivesUp(k) THEN "REVIEW" ELSE "READY",
            !.token = None, !.lease = 0, !.failures = o.failures + 1]

\* Mutated Quarantined: the reservation is left as it was.
QuarantinedLater(k) == disposition

\* quarantineOperation.
Quarantined(k) == IF GivesUp(k) THEN "REVIEW" ELSE disposition

Fail(w) ==
  LET f == worker[w].refund
  IN  /\ At(w, "failing") \/ At(w, "uncertain")
      /\ GuardFree
      /\ IF op[f].token = w
         THEN /\ op' = [op EXCEPT ![f] = FailedOp(op[f], worker[w])]
              /\ disposition' = Quarantined(worker[w])
         ELSE UNCHANGED <<op, disposition>>
      /\ Ends(w)
      /\ UNCHANGED <<refund, hook, money, wire, crashes>>

\* The process dies, its locks are released, its request may go on.
Crash(w) ==
  /\ crashes < MaxCrashes
  /\ ~At(w, "idle")
  /\ IF At(w, "calling")
     THEN \E left \in {wire[worker[w].refund], Wire} :
            wire' = [wire EXCEPT ![worker[w].refund] = left]
     ELSE UNCHANGED wire
  /\ Ends(w)
  /\ crashes' = crashes + 1
  /\ UNCHANGED <<refund, op, hook, money, disposition>>

-----------------------------------------------------------------------------
(* Webhooks and the historical audit: reconcileRefundStatus.               *)

\* The object is read outside any transaction.
Retrieve(h, f) ==
  /\ hook[h].pc = "idle"
  /\ money[f].status # "none"
  /\ hook' = [hook EXCEPT ![h] = [pc |-> "read", refund |-> f, seen |-> money[f].status]]
  /\ UNCHANGED <<refund, op, worker, money, wire, disposition, crashes>>

\* A refund that the ledger does not know is recorded, for review.
Import(h) ==
  LET f == hook[h].refund
  IN  /\ hook[h].pc = "read"
      /\ GuardFree
      /\ refund[f].status = "ABSENT"
      /\ refund' = [refund EXCEPT ![f] = [status |-> "PENDING", identified |-> TRUE]]
      /\ disposition' = "REVIEW"
      /\ UNCHANGED <<op, worker, hook, money, wire, crashes>>

\* applyRefundObservation: whatever has happened since the object was read.
Apply(h) ==
  LET f == hook[h].refund
  IN  /\ hook[h].pc = "read"
      /\ GuardFree
      /\ refund[f].status # "ABSENT"
      /\ ApplyTx(f, op[f], hook[h].seen)
      /\ hook' = [hook EXCEPT ![h] = Idle]
      /\ UNCHANGED <<worker, money, wire, crashes>>

HookCrash(h) ==
  /\ crashes < MaxCrashes
  /\ hook[h].pc = "read"
  /\ hook' = [hook EXCEPT ![h] = Idle]
  /\ crashes' = crashes + 1
  /\ UNCHANGED <<refund, op, worker, money, wire, disposition>>

-----------------------------------------------------------------------------
(* Time.                                                                   *)

Less(t) == IF t = 0 THEN 0 ELSE t - 1
Older(t) == IF t = Horizon THEN t ELSE t + 1

OpLater(o) == [o EXCEPT !.lease = Less(o.lease),
                        !.age = IF o.age = NotStarted THEN NotStarted ELSE Older(o.age)]

MoneyLater(m) == [m EXCEPT !.keyAge = IF m.objects = 0 THEN 0 ELSE Older(m.keyAge)]

\* The client gives up a call after eight seconds, within the lease.
InTime(w) == At(w, "calling") => op[worker[w].refund].lease > 0

Tick ==
  /\ \A w \in Workers : InTime(w)
  /\ op' = [f \in Refunds |-> OpLater(op[f])]
  /\ money' = [f \in Refunds |-> MoneyLater(money[f])]
  /\ wire' = [f \in Refunds |-> Less(wire[f])]
  /\ UNCHANGED <<refund, worker, hook, disposition, crashes>>

-----------------------------------------------------------------------------
WorkerStep(w) ==
  \/ Claim(w) \/ ClaimRefused(w) \/ Decide(w) \/ Look(w) \/ NotFound(w) \/ ReadFails(w)
  \/ Dispatch(w) \/ DispatchRefused(w) \/ Accept(w) \/ Lost(w)
  \/ Record(w) \/ Save(w) \/ Fail(w)

Next ==
  \/ \E f \in Refunds : \/ Reserve(f) \/ LateAccept(f) \/ PayExternal(f)
                        \/ ProviderSettles(f) \/ ProviderReverses(f)
  \/ \E w \in Workers : \/ \E f \in Refunds : Prepare(w, f)
                        \/ WorkerStep(w) \/ Crash(w)
  \/ \E h \in Hooks : \/ \E f \in Refunds : Retrieve(h, f)
                      \/ Import(h) \/ Apply(h) \/ HookCrash(h)
  \/ Tick

Spec == Init /\ [][Next]_vars

\* The refunds job and the audit run again and again, a process that does not
\* die gets on, the provider settles what is pending, and time passes.
Fairness ==
  /\ \A f \in Refunds : /\ WF_vars(\E w \in Workers : Prepare(w, f))
                        /\ SF_vars(\E h \in Hooks : Retrieve(h, f))
                        /\ WF_vars(ProviderSettles(f))
  /\ \A w \in Workers : WF_vars(WorkerStep(w))
  /\ \A h \in Hooks : WF_vars(Import(h) \/ Apply(h))
  /\ WF_vars(Tick)

FairSpec == Spec /\ Fairness

-----------------------------------------------------------------------------
(* Properties.                                                             *)

\* The rows, the executions and the objects have their types.
TypeOK ==
  /\ refund \in [Refunds -> RefundRows]
  /\ op \in [Refunds -> Ops]
  /\ worker \in [Workers -> {Idle} \cup Busy]
  /\ hook \in [Hooks -> {Idle} \cup Reading]
  /\ money \in [Refunds -> Money]
  /\ wire \in [Refunds -> 0..Wire]
  /\ disposition \in Dispositions
  /\ crashes \in 0..MaxCrashes

\* However often an operation is executed, by however many workers, and
\* whatever becomes of their requests, the provider makes one refund of it:
\* the key is not used again once it may have been forgotten
\* (financial-operations.ts:76-79).
SingleRefundObject == \A f \in Refunds : money[f].objects <= 1

\* The ledger never runs ahead of the provider: a refund is SUCCEEDED only if
\* it did succeed, be it taken back since, and FAILED, which frees its share of
\* the balance, only if it failed, for good (refund-operations.ts:59-74).
SettledByProvider ==
  \A f \in Refunds :
    /\ refund[f].status = "SUCCEEDED" => money[f].status \in {"succeeded", "failed"}
    /\ refund[f].status = "FAILED" => money[f].status = "failed"

\* An execution that was given up for staff to resolve keeps its share of the
\* balance, and its reservation stays under review
\* (financial-operations.ts:111-121).
ReviewHoldsBalance ==
  \A f \in Refunds :
    op[f].state = "REVIEW" => refund[f].status = "PENDING" /\ disposition = "REVIEW"

\* What the ledger asked for and the provider has paid, or may yet be made to
\* pay by a call or a request under way; a refund that failed stays failed.
Outgoing == {f \in Refunds \ External :
               \/ money[f].status \in {"pending", "succeeded"}
               \/ /\ money[f].status = "none"
                  /\ wire[f] > 0 \/ \E w \in Workers : At(w, "calling") /\ worker[w].refund = f}

\* The customer is never paid back more than was captured.
BalanceCovers == Fits(Outgoing)

\* A final observation ends the operation: no worker that claimed it earlier
\* reopens it with a result or an error of its own
\* (refund-operations.ts:67-74).
ObservedIsFinal ==
  [][\A f \in Refunds : op[f].state = "OBSERVED" => op'[f].state = "OBSERVED"]_vars

\* A webhook never reverses a refund that is settled as failed
\* (tests/refund-operations.test.ts:132).
NeverReversed ==
  [][\A f \in Refunds : refund[f].status = "FAILED" => refund'[f].status = "FAILED"]_vars

\* Refunding with leases, keys, webhooks and audits is a refund promise kept.
Promise == INSTANCE RefundPromise WITH
  status <- [f \in Refunds |-> refund[f].status],
  money <- [f \in Refunds |-> money[f].status]

ImplementsRefundPromise == Promise!Spec

\* A refund that was reserved is settled or handed to staff.
EventuallySettled ==
  \A f \in Refunds \ External :
    refund[f].status = "PENDING" ~> refund[f].status # "PENDING" \/ op[f].state = "REVIEW"

\* Whatever stale observations do to a row, the audit has the last word: in the
\* end a refund that failed at the provider is FAILED in the ledger.
ProviderPrevails ==
  \A f \in Refunds : <>[](money[f].status = "failed" => refund[f].status = "FAILED")

=============================================================================
