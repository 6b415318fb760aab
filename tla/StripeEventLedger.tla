--------------------------- MODULE StripeEventLedger ---------------------------
(***************************************************************************)
(* The ledger of Stripe events: src/lib/stripe-event-ledger.ts (the rows), *)
(* src/lib/stripe-event-dispatch.ts (the handlers' frame),                 *)
(* src/app/api/webhooks/stripe/route.ts (deliveries), the recovery worker  *)
(* of src/lib/financial-workers.ts and the event fence of                  *)
(* src/lib/financial-locks.ts.                                             *)
(*                                                                         *)
(* An event is stored once and handled by whichever delivery or recovery   *)
(* worker claims its row.  A claim is a lease: it is trusted for Stale     *)
(* units of time, every transaction of a handler checks it first (the      *)
(* fence), and a row whose lease ran out may be claimed again.             *)
(*                                                                         *)
(* One action is one database transaction or one read outside a            *)
(* transaction.  A handler is Steps fenced transactions in a row.          *)
(***************************************************************************)
EXTENDS Integers, Sequences

CONSTANTS
  Events,         \* Stripe event ids
  PaymentEvents,  \* those about a payment intent that has a Payment row
  Crons,          \* concurrent runs of the recovery worker
  Hooks,          \* concurrent webhook requests
  Steps,          \* fenced transactions of a handler
  Stale,          \* STALE_PROCESSING_MS, and the fence's '2 minutes'
  Backoff,        \* BACKOFF_SCHEDULE_MS
  FlagAfter,      \* MAX_ATTEMPTS_BEFORE_FLAGGING
  MaxFaults       \* bound: how often each kind of fault may happen

FaultKinds == {"error", "crash", "lapse"}

ASSUME LedgerAssumption ==
  /\ PaymentEvents \subseteq Events
  /\ Crons \cap Hooks = {}
  /\ Steps \in Nat \ {0}
  /\ Stale \in Nat \ {0}
  /\ Backoff \in Seq(Nat)
  /\ Len(Backoff) > 0
  /\ FlagAfter \in Nat
  /\ MaxFaults \in [FaultKinds -> Nat]

Workers == Crons \cup Hooks

VARIABLES
  row,       \* row[e]: the StripeEvent row of e, its token a claim number
  worker,    \* worker[w]: what a request or a recovery run is doing
  now,       \* the clock
  applied,   \* applied[e]: transactions committed under e's current claim
  flagged,   \* events with a WEBHOOK_PROCESSING_REPEATEDLY_FAILED record
  faults     \* faults so far, of each kind

vars == <<row, worker, now, applied, flagged, faults>>

Statuses == {"ABSENT", "RECEIVED", "PROCESSING", "PROCESSED", "FAILED"}

Rows == [status : Statuses, leaseToken : Nat, startedAt : Nat,
         attemptCount : Nat, nextRetryAt : Nat]

\* "claiming" is about to claim, "handling" runs the handler, "failing"
\* caught its error, "failed" is about to look at the attempt count.
Busy == [pc : {"claiming", "handling", "failing", "failed"}, event : Events,
         token : Nat, asOf : Nat, step : 0..Steps, renewed : BOOLEAN]

Idle == [pc |-> "idle"]

NoRow == [status |-> "ABSENT", leaseToken |-> 0, startedAt |-> 0,
          attemptCount |-> 0, nextRetryAt |-> 0]

Init ==
  /\ row = [e \in Events |-> NoRow]
  /\ worker = [w \in Workers |-> Idle]
  /\ now = 0
  /\ applied = [e \in Events |-> 0]
  /\ flagged = {}
  /\ faults = [k \in FaultKinds |-> 0]

-----------------------------------------------------------------------------
At(w, pc) == worker[w].pc = pc
RowOf(w) == row[worker[w].event]
HoldsToken(w) == RowOf(w).leaseToken = worker[w].token

\* The work record of a claim attempt that measured staleness now.
Claiming(e) == [pc |-> "claiming", event |-> e, token |-> 0, asOf |-> now,
                step |-> 0, renewed |-> FALSE]

\* The handler threw.
Thrown(k) == [k EXCEPT !.pc = "failing", !.step = 0, !.renewed = FALSE]
Throws(w) == worker' = [worker EXCEPT ![w] = Thrown(worker[w])]
Ends(w) == worker' = [worker EXCEPT ![w] = Idle]

\* A fault of kind k happens, within the bound.
Fault(k) ==
  /\ faults[k] < MaxFaults[k]
  /\ faults' = [faults EXCEPT ![k] = @ + 1]

-----------------------------------------------------------------------------
(* Deliveries and recovery: who gets to claim.                             *)

\* The first delivery of an event stores its row; the claim is a later
\* transaction.
Deliver(h, e) ==
  /\ At(h, "idle")
  /\ row[e].status = "ABSENT"
  /\ row' = [row EXCEPT ![e].status = "RECEIVED"]
  /\ worker' = [worker EXCEPT ![h] = Claiming(e)]
  /\ UNCHANGED <<now, applied, flagged, faults>>

\* A repeated delivery reads the row.  PROCESSED or in progress: it answers
\* 200 and is over (no state changes); otherwise it goes on to claim.
Redeliver(h, e) ==
  /\ At(h, "idle")
  /\ \/ row[e].status \in {"RECEIVED", "FAILED"}
     \/ /\ row[e].status = "PROCESSING"
        /\ row[e].startedAt <= now - Stale
  /\ worker' = [worker EXCEPT ![h] = Claiming(e)]
  /\ UNCHANGED <<row, now, applied, flagged, faults>>

\* Mutated Recoverable: a PROCESSING row is left to whoever claimed it.
RecoverableNotAbandoned(e) ==
  \/ row[e].status = "RECEIVED"
  \/ row[e].status = "FAILED" /\ row[e].nextRetryAt <= now

\* What the recovery worker selects.
Recoverable(e) ==
  \/ row[e].status = "RECEIVED"
  \/ row[e].status = "FAILED" /\ row[e].nextRetryAt <= now
  \/ row[e].status = "PROCESSING" /\ row[e].startedAt < now - Stale

Select(c, e) ==
  /\ At(c, "idle")
  /\ Recoverable(e)
  /\ worker' = [worker EXCEPT ![c] = Claiming(e)]
  /\ UNCHANGED <<row, now, applied, flagged, faults>>

\* Mutated Claimable: the status read before the claim is trusted.
ClaimableAsRead(w) ==
  RowOf(w).status = "PROCESSING" => RowOf(w).startedAt < worker[w].asOf - Stale

\* The condition of the claim's compare-and-swap, with staleness as the
\* claimant measured it before.
Claimable(w) ==
  \/ RowOf(w).status \in {"RECEIVED", "FAILED"}
  \/ /\ RowOf(w).status = "PROCESSING"
     /\ RowOf(w).startedAt < worker[w].asOf - Stale

ClaimedRow(r, token) ==
  [r EXCEPT !.status = "PROCESSING", !.leaseToken = token,
            !.startedAt = now, !.attemptCount = @ + 1]

Claimant(k, token) == [k EXCEPT !.pc = "handling", !.token = token, !.asOf = 0]

\* Mutated Claim: a reclaimed row keeps its token.
ClaimKeepsToken(w) ==
  /\ At(w, "claiming")
  /\ Claimable(w)
  /\ LET e == worker[w].event
         token == IF row[e].leaseToken = 0 THEN 1 ELSE row[e].leaseToken
     IN  /\ row' = [row EXCEPT ![e] = ClaimedRow(row[e], token)]
         /\ worker' = [worker EXCEPT ![w] = Claimant(worker[w], token)]
         /\ applied' = [applied EXCEPT ![e] = 0]
  /\ UNCHANGED <<now, flagged, faults>>

Claim(w) ==
  /\ At(w, "claiming")
  /\ Claimable(w)
  /\ LET e == worker[w].event
         token == row[e].attemptCount + 1     \* stands for randomUUID()
     IN  /\ row' = [row EXCEPT ![e] = ClaimedRow(row[e], token)]
         /\ worker' = [worker EXCEPT ![w] = Claimant(worker[w], token)]
         /\ applied' = [applied EXCEPT ![e] = 0]
  /\ UNCHANGED <<now, flagged, faults>>

\* Somebody else won the row, or finished it.
ClaimLost(w) ==
  /\ At(w, "claiming")
  /\ ~Claimable(w)
  /\ Ends(w)
  /\ UNCHANGED <<row, now, applied, flagged, faults>>

-----------------------------------------------------------------------------
(* The handler.                                                            *)

\* assertEventFence.
Fence(w) ==
  /\ HoldsToken(w)
  /\ RowOf(w).status = "PROCESSING"
  /\ RowOf(w).startedAt > now - Stale

Advanced(k) == [k EXCEPT !.step = @ + 1, !.renewed = FALSE]

\* The next transaction of the handler commits.
Commit(w) ==
  /\ At(w, "handling")
  /\ worker[w].step < Steps
  /\ Fence(w)
  /\ worker' = [worker EXCEPT ![w] = Advanced(worker[w])]
  /\ applied' = [applied EXCEPT ![worker[w].event] = @ + 1]
  /\ UNCHANGED <<row, now, flagged, faults>>

\* A provider call under the fence extends the lease (at most once per
\* transaction of the handler).
Renew(w) ==
  /\ At(w, "handling")
  /\ worker[w].step < Steps
  /\ ~worker[w].renewed
  /\ Fence(w)
  /\ row' = [row EXCEPT ![worker[w].event].startedAt = now]
  /\ worker' = [worker EXCEPT ![w].renewed = TRUE]
  /\ UNCHANGED <<now, applied, flagged, faults>>

\* "Stripe event lease lost".
LeaseLost(w) ==
  /\ At(w, "handling")
  /\ worker[w].step < Steps
  /\ ~Fence(w)
  /\ Throws(w)
  /\ UNCHANGED <<row, now, applied, flagged, faults>>

\* The handler throws for a reason of its own.
HandlerFails(w) ==
  /\ At(w, "handling")
  /\ worker[w].step < Steps
  /\ Throws(w)
  /\ Fault("error")
  /\ UNCHANGED <<row, now, applied, flagged>>

MarkProcessed(w) ==
  /\ At(w, "handling")
  /\ worker[w].step = Steps
  /\ row' = IF HoldsToken(w)
            THEN [row EXCEPT ![worker[w].event].status = "PROCESSED"]
            ELSE row
  /\ Ends(w)
  /\ UNCHANGED <<now, applied, flagged, faults>>

\* nextRetryDelayMs.
RetryDelay(attemptCount) ==
  Backoff[IF attemptCount < Len(Backoff) THEN attemptCount + 1 ELSE Len(Backoff)]

FailedRow(r) == [r EXCEPT !.status = "FAILED",
                          !.nextRetryAt = now + RetryDelay(r.attemptCount)]

MarkFailed(w) ==
  /\ At(w, "failing")
  /\ row' = IF HoldsToken(w)
            THEN [row EXCEPT ![worker[w].event] = FailedRow(RowOf(w))]
            ELSE row
  /\ worker' = [worker EXCEPT ![w].pc = "failed"]
  /\ UNCHANGED <<now, applied, flagged, faults>>

\* flagRepeatedProcessingFailure locks the reservation of a payment event,
\* and taking that lock checks the event fence.
CanFlag(w) == worker[w].event \in PaymentEvents => Fence(w)

\* The attempt count is read again, and may be a newer claim's.
Flag(w) ==
  /\ At(w, "failed")
  /\ flagged' = IF RowOf(w).attemptCount >= FlagAfter /\ CanFlag(w)
                THEN flagged \cup {worker[w].event}
                ELSE flagged
  /\ Ends(w)
  /\ UNCHANGED <<row, now, applied, faults>>

-----------------------------------------------------------------------------
(* The environment.                                                        *)

\* The process dies, or the database call that would settle the row throws.
Crash(w) ==
  /\ ~At(w, "idle")
  /\ Fault("crash")
  /\ Ends(w)
  /\ UNCHANGED <<row, now, applied, flagged>>

\* The leases one unit of time makes run out under a handler that still runs.
Lapsing ==
  {w \in Workers : At(w, "handling") /\ Fence(w)
                   /\ RowOf(w).startedAt = now + 1 - Stale}

\* Time passes while somebody waits for it: a lease that is not yet stale
\* or a retry that is not yet due.
Tick ==
  /\ \E e \in Events :
       \/ row[e].status = "PROCESSING" /\ row[e].startedAt >= now - Stale
       \/ row[e].status = "FAILED" /\ row[e].nextRetryAt > now
  /\ now' = now + 1
  /\ IF Lapsing = {} THEN UNCHANGED faults ELSE Fault("lapse")
  /\ UNCHANGED <<row, worker, applied, flagged>>

Step(w) ==
  \/ Claim(w) \/ ClaimLost(w)
  \/ Commit(w) \/ Renew(w) \/ LeaseLost(w) \/ HandlerFails(w)
  \/ MarkProcessed(w) \/ MarkFailed(w) \/ Flag(w)
  \/ Crash(w)

Next ==
  \/ \E h \in Hooks, e \in Events : Deliver(h, e) \/ Redeliver(h, e)
  \/ \E c \in Crons, e \in Events : Select(c, e)
  \/ \E w \in Workers : Step(w)
  \/ Tick

Spec == Init /\ [][Next]_vars

(***************************************************************************)
(* Fairness: the recovery worker runs every minute (vercel.json) and a     *)
(* running process goes on.  Nothing makes Stripe deliver again, makes a   *)
(* lease be renewed, or prevents the faults within their bounds.           *)
(***************************************************************************)
Proceeds(w) ==
  \/ Claim(w) \/ ClaimLost(w) \/ Commit(w) \/ LeaseLost(w)
  \/ MarkProcessed(w) \/ MarkFailed(w) \/ Flag(w)

Fairness ==
  /\ \A w \in Workers : WF_vars(Proceeds(w))
  /\ \A e \in Events : WF_vars(\E c \in Crons : Select(c, e))
  /\ WF_vars(Tick)

FairSpec == Spec /\ Fairness

-----------------------------------------------------------------------------
(* Properties.                                                             *)

TypeOK ==
  /\ row \in [Events -> Rows]
  /\ worker \in [Workers -> Busy \cup {Idle}]
  /\ now \in Nat
  /\ applied \in [Events -> 0..Steps]
  /\ flagged \subseteq Events
  /\ faults \in [FaultKinds -> Nat]

\* A PROCESSED row (which no delivery and no recovery will ever look at
\* again) had every transaction of its handler committed under one claim,
\* however many stale workers took part (markStripeEventProcessed).
ProcessedApplied ==
  \A e \in Events : row[e].status = "PROCESSED" => applied[e] = Steps

\* At no time can two workers both pass the fence of an event: a takeover
\* shuts the previous handler out before its next transaction
\* (assertEventFence, claimExistingRecord).
SingleLiveHandler ==
  \A v, w \in Workers :
    /\ At(v, "handling") /\ Fence(v)
    /\ At(w, "handling") /\ Fence(w)
    /\ worker[v].event = worker[w].event
    => v = w

\* Once an event is PROCESSED its row never changes and no handler
\* transaction of it commits, whatever slow workers still run
\* (markStripeEventFailed, claimExistingRecord).
CompletedQuiescent ==
  [][\A e \in Events : row[e].status = "PROCESSED"
       => row'[e] = row[e] /\ applied'[e] = applied[e]]_vars

\* A failed row that was attempted FlagAfter times and that nobody is
\* working on any more has been brought to the operators' attention, unless
\* a process died: meant for every event, achieved for those without a
\* Payment row (src/lib/payment-reconciliation.ts:35-41).
RepeatedFailuresFlagged ==
  \A e \in Events :
    /\ row[e].status = "FAILED"
    /\ row[e].attemptCount >= FlagAfter
    /\ \A w \in Workers : ~At(w, "idle") => worker[w].event # e
    /\ faults["crash"] = 0
    => e \in flagged

\* Every stored event is processed in the end: also the one whose delivery
\* was answered 200 because it was "in progress elsewhere" in a process
\* that then died, although Stripe does not deliver it again.
EventuallyProcessed ==
  \A e \in Events : row[e].status # "ABSENT" ~> row[e].status = "PROCESSED"

\* The ledger implements the abstract fenced task.
Task == INSTANCE FencedTask WITH
  Tasks <- Events,
  done <- [e \in Events |-> row[e].status = "PROCESSED"],
  owner <- [e \in Events |-> row[e].leaseToken],
  applied <- applied

ImplementsFencedTask == Task!Spec

=============================================================================
