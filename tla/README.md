# Rent-a-4-wheel in TLA+

Rent-a-4-wheel is a marketplace for renting cars: a Next.js server (TypeScript, Prisma, PostgreSQL) that takes
bookings, charges and refunds through Stripe, and runs recovery jobs from a cron schedule; a mobile app uses the same
domain functions. What is hard in it is not any one function but that several processes -- requests, webhooks, cron
jobs -- act on the same reservation and the same money, that every provider call may be lost or answered late, and that
any process may die between two transactions.

This directory specifies that core, model-checks it with TLC and proves the safety part with TLAPS. Paths below are
relative to the repository.

## 1. Inventory

| Component | State it keeps | Operations | Talks to | What is hard | What must hold |
|---|---|---|---|---|---|
| Stripe event ledger: `src/lib/stripe-event-ledger.ts`, `stripe-event-dispatch.ts`, `api/webhooks/stripe` | `StripeEvent`: status, lease token, start, attempts, next retry | deliver, claim, renew, settle, recover, flag | all webhook handlers, the event fence of `financial-locks.ts` | takeovers of slow handlers, crashes, deliveries answered 200 while somebody else works | one handler effective at a time; PROCESSED is final and complete; everything stored is processed |
| Booking: `checkout-hold.ts`, `checkout-service.ts`, `rental-payment.ts`, `stripe-webhook-handlers.ts`, `cleanup.ts`, `reservation-state-machine.ts`, `customer-reservation.ts` | `Reservation`: status, deadline, financial disposition; `Payment`; `BookingDraft` | hold, refresh, check out, pay, fulfil, confirm, expire, cancel, settle | availability, refunds, deposits, admission | a payment that succeeds after its hold lapsed; cancellation and refunds racing fulfilment; drafts out of order | dates are exclusive; confirmed is paid; captured money is accounted for; termination is final |
| Availability: `availability.ts` | none (a query) | `isVehicleAvailable` | booking | a hold stops blocking by the clock, a captured rental never does | the promise of a calendar |
| Refunds: `refund-operations.ts`, `financial-cases.ts` | `Refund`, its `FinancialOperation`, cases | reserve, execute, observe, import | operation engine, webhooks, audit | observations out of order, refunds made by hand, reversals by the bank | balance never exceeded; the ledger settles only as the provider did |
| Operation engine: `financial-operations.ts`, `provider-execution-guard.ts`, `financial-locks.ts` | `FinancialOperation`: state, lease, token, provider id, first attempt, failures; `FinancialDispatch` | claim, decide, dispatch, record, save, fail | Stripe, advisory locks | lost answers, late requests, expired leases, forgotten keys | one provider object per operation; stale results are fenced |
| Recovery jobs: `financial-workers.ts`, `cleanup.ts`, `vercel.json` | cursors by time | recover events, refunds, deposits, rentals, expire, audit | all of the above | poisoned items, overlap with requests | eventual settlement |
| Deposits: `deposit-authorization.ts`, `deposit-release-*.ts` | `SecurityDeposit`, generations, their operations | authorize, renew, observe, supersede, plan, release | engine, booking, trips, cases | an authorization made after its reservation ended, observations of an older generation, a claim between the claim of a release and its dispatch | what counts as held is held; what is not wanted is given back; a disputed deposit is kept |
| Outbox and notices: `outbox.ts`, `notifications.ts`, `notice-*.ts` | `OutboxMessage`: lease, attempts | enqueue, deliver, retry, give up | mail provider | delivered but not recorded | sent once, or surfaced |
| Case resolution: `financial-case-resolution.ts` | `FinancialCase` | propose, verify, resolve | engine, refunds | acting on stale evidence | resolution agrees with the provider |
| Trips: `trip-experience.ts`, `trip-gate.ts`, `condition-reports.ts`, `customer-reservation.ts`, `emergency-override.ts`, `return-financial-authority.ts`, `admin/reservations/[id]/return-review` | reservation status from the keys to completion, reports, override audit | keys, start, return, inspect, complete, review, force | deposits, service cases, calendar | a forced transition next to the ordinary flow, a claim while the trip runs | no trip without a safe vehicle and a deposit; dates stay exclusive |
| Service cases: `service-cases.ts`, `case-decision-authority.ts` | `ServiceCase`, events, who is involved | open, assign, propose, answer, decide, appeal, close, clear | trips, calendar, case resolution | an agent who becomes a party after the assignment; an appeal after the settlement | open means under review; decisions are independent |
| Operations jobs: `operations.ts`, `operations-lease.ts` | `OperationsJob`: state, lease, attempts | claim, exhaust, finish, fail, retry by staff | private files, agreements | overlapping invocations, a lease that runs out in a scan, a crash with the last attempt | a verdict belongs to the scan that finished; every job ends |
| Host finance: `finance-ledger.ts`, `payout-*.ts`, `finance-admin.ts` | double-entry ledger, payout batches, issues | account, batch, transfer, pay, retry, reverse, void, resolve | engine, refunds, Stripe Connect | a refund next to a transfer whose answer was lost; a retried payout followed by news of the old one | nothing sent twice, overdrawn or forgotten |
| Sign-in: `auth-code.ts`, `device-sessions.ts`, `identity-handoff.ts` | codes, sessions | issue, verify, consume | mail, SMS | parallel guesses | attempts bounded, single use |
| Mobile API and clients: `src/lib/mobile`, `packages/mobile-client`, `apps/customer` | idempotency records, local queues | commands, uploads, replay | domain functions | retried mutations | applied once |
| Release control and jurisdictions | feature and jurisdiction switches | open, close | admission checks everywhere | closing in mid-booking | compensation is never blocked |
| Private files: `storage.ts`, `private-storage-guard.ts`, `collaboration-files.ts`, `collaboration-retention.ts`, holds in `community-admin.ts` | `PrivateObject`, `CollaborationFile`, `StorageDeletionJob` | upload, scan, publish, hold, erase, resume | operations jobs, S3, ClamAV | interrupted writes that land late, two jobs that erase the same file, a hold after the planning | erased means gone; held means kept |
| Agreements, marketplace, pricing, conversations, web pages | documents, listings, messages | mostly CRUD and I/O | storage, scanners | little shared protocol state | validation |

`PROJECT.json` lists the components with their sources and status, and the hazards with their lines.

## 2. Modules

| Module | Role | Proofs |
|---|---|---|
| `FencedTask` | abstract: a task taken by a sequence of owners, finished after all effects of one, never touched again | |
| `StripeEventLedger` | the ledger, deliveries, recovery worker, fence; implements `FencedTask` | `StripeEventLedger_proofs` |
| `VehicleCalendar` | abstract: windows of one vehicle are exclusive, a terminated reservation never takes one again | |
| `Booking` | one vehicle from hold to confirmation or end, with drafts; implements `VehicleCalendar` | `Booking_proofs` |
| `RefundPromise` | abstract: reserve, pay once, settle as the provider did | |
| `RefundOperations` | refunds on the operation engine, the provider, webhooks and audit; implements `RefundPromise` | `RefundOperations_proofs` |
| `DepositAuthorizations` | the deposit of one reservation over its generations, and the releases of each | `DepositAuthorizations_proofs` |
| `ServiceCases` | claims, disputes, incidents about the reservations of one vehicle | |
| `Trips` | trips of one vehicle composed with `ServiceCases` and a deposit each | `Trips_proofs` |
| `HostPayouts` | earnings, batches, transfers, bank payouts and reversals of one host | `HostPayouts_proofs` |
| `PrivateFiles` | an attachment from upload to erasure, with the SCAN, DELETE and retention jobs | `PrivateFiles_proofs` |
| `Sums` | lemmas about sums of amounts over finite sets, for the proofs of `RefundOperations` and `HostPayouts` | itself |
| `MC*` | instances for TLC, each with its `.cfg` files | |

`Trips` extends `ServiceCases` and shares its reservations. The other components share no variables: in the code they
meet in function calls, and each module takes what its neighbours may do as an action that can occur at any time the
code allows (a capture is seen any number of times; a refund settles either way; in `DepositAuthorizations` the
reservation is cancelled, refunded, started, completed, disputed and settled, by its parties or by an emergency override,
and in `Trips` the release of the deposit may be executed without the app knowing of it). What a module does assume of a
neighbour is named: that a request does not outlive a trip (`NoAttemptOutlivesTrip`), and in `Trips` that the deposit is
authorized once and does not run out, which is the matter of `DepositAuthorizations`.

### 2.1 StripeEventLedger

One action is one database transaction, or one read outside a transaction. `row` is the `StripeEvent` row; `worker` is
what a request (`Hooks`) or a run of `recoverStripeEvents` (`Crons`) is doing; `applied` counts the transactions
committed under the present claim. A handler is abstracted to `Steps` transactions in a row, each of which checks the
fence (`assertEventFence`) as every `withReservationLock` does, and may renew the lease once as a provider call does.

- `Deliver`, `Redeliver`: `claimStripeEventForProcessing` up to the claim. Staleness is measured *before* the claim and
  kept in `asOf`. A delivery answered 200 changes nothing and is no action.
- `Select`, `Claim`, `ClaimLost`: the worker's query and `claimExistingRecord`. The recovery worker's batch is not
  ordered here: any worker may pause between claim and handler, which covers leases growing old in the batch.
- `Commit`, `Renew`, `LeaseLost`, `HandlerFails`, `MarkProcessed`, `MarkFailed`, `Flag`: `dispatchWithFence`.
- A token is the number of the claim (the code draws a random UUID).
- `Crash`, `Tick` and the constant `MaxFaults` are the environment: errors, crashes and lapsed leases, each bounded.

### 2.2 Booking

Every transaction of these functions holds the vehicle's lock, so an action is a transaction, and what happens between
two transactions of one caller is any other action. A transaction that throws rolls back and is no action.

- `RefreshHold`, `PlaceHold`, `RefuseHold`: `createOrRefreshHold` with the draft's revision rules. A refused hold commits
  the release of the older one because the error is *returned* from the transaction.
- `Checkout`, `CreateRentalPayment`, `CustomerPays`: `checkoutReservation`, `createRentalPayment`, Stripe.
- `ObserveCapture` (with `Fulfilment`) and `Confirm`: the two transactions of `confirmAfterRentalPaymentSuccess`, with
  the deposit attempt between them. Whether the deposit is valid is a nondeterministic choice in `Confirm`.
- `Expire`, `Cancel`, `Settle`, `StaffRefund`, `RefundSucceeds`, `RefundFails`, `Quarantine`, `Tick`, `ChangeSale`,
  `ChangeAdmission`.

Abstractions: `expiresAt` is the time left; all reservations are of one vehicle; DOCUMENTS_REQUIRED stands for the
pre-trip chain from CONFIRMED to READY_TO_START; a refund is the latest refund of the whole amount (parts and reversals
are in `RefundOperations`); the fingerprint of a request is its window; rows from before the migrations are left out.

### 2.3 RefundOperations

- `Reserve`: `reserveRefund`, balance and disposition included.
- `Prepare`, `Claim`, `ClaimRefused`, `Decide`, `Look`, `NotFound`, `ReadFails`, `Dispatch`, `DispatchRefused`, `Record`,
  `Save`, `Fail`: `executeRefundOperation`, `runOperation`, `withOperationGuard`, `dispatchProviderCall`. Each lock wait,
  unlocked read and provider call is a point where others act. `GuardFree` is the session lock a dispatch holds from its
  last check to the saved result.
- `Retrieve`, `Import`, `Apply`: `reconcileRefundStatus`, a read outside the lock and an application under it.
- The provider (external): `Accept`, `Lost`, `LateAccept` (a request that outlived its caller arrives), `PayExternal`,
  `ProviderSettles`, `ProviderReverses`. A key stands for its refund while it is remembered; a forgotten key makes a
  second object, which is what `SingleRefundObject` excludes.

Abstractions: READY stands for READY, RETRY and POLL; FAILED for FAILED and CANCELLED; a lease token is the execution's
name, since an execution has one token at a time; back-off delays are dropped (an operation may be due at once); the
operation row of a dashboard refund stands for "none" until an execution adopts it; case resolution is left out, so
REVIEW is final; a database failure after the provider accepted is covered by `Lost` with `LateAccept` and by `Crash`.

### 2.4 DepositAuthorizations

A generation is one attempt: an operation of kind DEPOSIT and the payment intent it makes. `RefundOperations` shows that
an operation makes one object for all its retries, so here an operation is its generation and keys are left out.

- `Ask`, `NewAttempt`, `Resume`, `AttemptRefused`: `attemptDepositAuthorization`, a read and a transaction; `Renews` and
  `RenewalReleases` are what it does with an attempt that cannot succeed any more.
- `Claim` to `Fail`: `runOperation` for both kinds, with `Sync` (`syncDepositIntent`, the observation of an intent) inside
  `Save`; `Ignored` is its rule for superseded generations, `MustRelease` the release of what comes too late.
- `Recover`, `Compensate`, `CanceledWebhook`: the deposits job, the releases it plans, and the one webhook that matters.
- `RequireRefund` to `AuthorizeSettlement`: the reservation. PRE_TRIP stands for every status up to READY_TO_START.
  `StartTrip` and `CompleteTrip` are those of its parties. `ForceStart` is accepted from any status but the cancelled ones,
  a completed trip included, and looks at the row and at the attempt behind it (`StartAuthority`), not at the releases.
  `ForceComplete` is accepted from any status and plans no release. `forced` remembers, for the properties, which of the
  two a completion was; no action reads it but to keep it.
- `LateAccept`, `Authenticate`, `Elapse`, `AutoCancel`: the customer's bank and the provider.

A call holds the reservation's guard from its last check to the saved result (`GuardFree`). The named assumption
`NoAttemptOutlivesTrip` says that a request which read the row before the start of a trip is over when the trip is, also
one that first gives an expired authorization back and goes on with a new attempt after that: a request lives for
seconds, and a return is inspected by both parties first. The proof of `ReleasePlanned` showed that the second kind has
to be said too. Nothing of the sort is assumed of `ForceComplete`: it may come in the middle of an attempt.

The override is why the properties are stated as they are. `ValidMeansHeld` has one exception, a trip forced back from its
completion while the answer to its release is missing; `AuthorizedWhileWanted` counts a completion by force, but not one by
the parties, among what an authorization may still come about for; `ReleasePlanned` speaks of completions by the parties;
and `EventuallyReleased` leaves what a forced completion keeps to the bank's expiry (`LeftToExpire`). Without any of these
exceptions TLC finds the trace (see the observations).

### 2.5 ServiceCases and Trips

Every action is a transaction under the lock of vehicle and reservation. `ServiceCases` has the commands of
`serviceCaseCommand` that change a state or money (`Open`, `Assign`, `TakeOver`, `Override`, `Transition`, `Appeal`,
`SafetyClear`, `Upload`) and the vehicle's maintenance; `involved` is who has a part in a case of the reservation,
computed by the code from events. `Trips` adds keys, start, cancellation, return, inspection, completion, the return
review, the two forced transitions, the review of a claim's money (`Verify`, `AuthorizeSettlement`) and the release of
the deposit in the steps that can come apart: `SendRelease` under the authority of that moment, `CancelHold` at the provider,
at once or late, and `SaveRelease` when the answer is saved or a later execution reads it. `deposit` is what the app
believes, `hold` what the provider has, and a forced transition may fall between any two. `TripKeepsDeposit` is therefore
about `hold`: no request that takes the deposit is sent during a trip. Documents, identity, agreement and pre-trip reports are one condition that may hold at any time; replies,
notes, deadlines and case versions change nothing that is modelled.

### 2.6 HostPayouts

A transaction holds the guards of the host and the reservations, and a call holds them from the check of its authority to
the saved result, so each is one action; a crash ends it earlier (`Dispatch` without a saved result, then `Read` and
`Unknown`). What was read before the guard is saved by a later action (`Read`, `Save`). `provider[o]` is what Stripe made
of a call, LATE a request still under way. `Account` is `accountReservation`: what a refund changes depends on whether a
transfer may have moved. The lease of an operation may expire at any time. Left out because they can only delay:
eligibility other than refunds and issues, attempts, schedules; left out as arithmetic: journals and adjustments.

### 2.7 PrivateFiles

- The upload: `CreateFile`, `WriteIntent`, `Put` or `PutFails`, `Finalize`, `Publish` or `Quarantine`. From the intent
  to `Finalize` it holds the session lock on the key (`GuardFree`), which ends with its process
  (`UploaderDies`); an interrupted put may still land (`Arrives`).
- The jobs: `Claim`, `Exhaust`, `Fail` (`claimOperationsBatch`, the catch of `runOperations`), `ScanBegin` to `ScanSave`
  (`runScan`), `ClaimErasure` to `FailErasure` (`runCollaborationRetention`, `deletePrivateDocument`), `FinishDelete`. An
  `Erase` is `deletePrivateBytes`, for both jobs that call it. `Stall` is a worker that outlives its lease.
- `ChangeHold`, `Plan`, `StaffRetry` (an operations job in review), `RetryErasure` (a retention that gave up): staff and
  retention policy. A hold stands for everything `fileHeld` looks at.

Abstractions: delays and terms are chance, with the named assumption that a retention term (days) ends after the upload
of the file. Scanner signatures change, so two scans may disagree. Legacy imports, the local and Cloudinary stores and
reads are left out. That the catch of a scan throws in turn is `WorkerDies`.

## 3. Runs

| Run | Instance | Shows |
|---|---|---|
| `ledger` | 1 event, 2 recovery workers, 1 webhook, 2 steps, one error, one crash, one lapse | one live handler; refinement of `FencedTask`; every stored event is processed |
| `ledger_flag` | flagged after 2 attempts, two errors | **finding 1**, below |
| `booking` | 2 customers, 2 reservations, 2 overlapping windows, deadlines of 1; 2 drafts with 2 revisions | all safety of a booking, drafts out of order; refinement of `VehicleCalendar` |
| `booking_live` | 1 customer, 2 reservations | captured money is accounted for in the end |
| `refund` | 1 refund, 2 executions, 1 webhook, lease 1, replay 1, retention 4, 2 crashes | one object; an operation given up keeps its balance and a review |
| `refund_balance` | any 2 of 3 refunds of the whole payment, one made at the dashboard | reserved balance covers what may go out; refinement of `RefundPromise` |
| `refund_live` | 1 refund, 1 execution, 1 crash | settled or handed to staff; the provider prevails |
| `refund_reversal` | 1 refund, 1 execution, 1 webhook | **finding 2**, below |
| `deposits` | 2 generations, 1 execution at a time, 1 incident, any forced starts and completions | valid is held but for one race, unwanted is given back, disputed is kept |
| `trips` | 2 bookings, one claim or dispute and one incident, 1 super administrator, 1 extra turn | reviews, dates, deposit and safety under force, appeal and a release whose answer is lost |
| `private_files` | 2 invocations, 2 attempts, 2 faults | erased means gone, held means kept, verdicts belong to finished scans, jobs end |
| `payouts` | 1 earning of 2, a refund of 1, 2 batches, 2 generations | money out never exceeds money in, nothing is sent twice, debts are recorded |

Why the bounds are enough to mean something. A takeover chain needs three workers: the one who lapsed, the one who took
over and one who measured staleness early. Two overlapping windows and two reservations are the smallest contest for
dates. `booking` explores two halves (constraint `DraftsOrPayments`): two customers who use no drafts, and one customer
with two drafts up to the first payment, since nothing after it reads a draft. In `refund` retention is exactly
`Replay + 2 * Lease + Wire`, the edge of the assumption; counting whole units rounds a lease and a request's time up, so
the discrete model has two units to spare: without the assumption TLC finds a second refund object once `Retention` is 1
in this instance, and none at 2; the assumption is the bound for continuous time. Two refunds that each exhaust the
payment are the tightest balance; the constraint `TwoAtATime` takes any two of three, and next to a dashboard refund an
operation of ours is not retried. In `deposits` two generations are one superseded attempt and its successor, and one
incident is a crash, a lost call, a lapse or a claim at any point. In `trips` the incident and the claim are about the
first booking and the second booking is the one endangered; the release of one deposit is followed to the provider, that of
the first booking (constraint `FirstReleases`), because a deposit meets only its own booking; `MaxTurns` bounds appeals, staff's files and forced
transitions. In `payouts` a refund of half the batch distinguishes a batch reduced in time from a recovery, and a second
batch can take the earnings of a voided one. In `private_files` the second attempt of a job is its last, and two faults
are a lapsed lease and a crash, or a staff retry after one. Symmetry is used only in runs of invariants and step
properties, never with liveness. Deadlock checking is off where the system may stop: a processed ledger, a returned deposit, a
finished trip, paid earnings, a file that is erased or that nobody touches.

Every property of a passing run has a mutant: a plausible error in the code, written as a definition next to the one it
replaces (a dropped token comparison, a stale threshold, a check made too early), under which TLC finds the property
violated. What a theorem states and another property of the same run implies is not checked again: `ProcessedApplied`
and `CompletedQuiescent` follow from the refinement of `FencedTask`, `SettledByProvider` and `ObservedIsFinal` accompany
that of `RefundPromise`, and `NoReopening` that of `VehicleCalendar`.

### Fairness

`src/vercel.json` schedules `financial/stripe-events`, `financial/refunds`, `financial/deposits`,
`financial/reconciliation` (which also expires holds), `operations/scan`, `operations/delete` and `community` (which runs
the retention) every minute and `financial/historical-audit` every fifteen. Hence weak fairness of `Select`,
`ObserveCapture`, `Expire`, `Settle`, `Prepare`, of the claims of jobs in `PrivateFiles`, and of the steps of a running
process; strong fairness of `Retrieve` and of the deposits' `Recover`, because these jobs come back to every row again and
again although somebody is at times busy with it. Leases run out and the clock runs; the provider settles a pending
refund in the end. Nothing is assumed of customers, of Stripe's redeliveries, of an upload's client, or of staff. Crashes
and errors are bounded, otherwise nothing could be promised. `EventuallyReleased` ends at `Reviewed`: what staff must
decide, staff must decide. `Trips` and `HostPayouts` state safety only.

### Findings

1. *A repeatedly failing payment event is not flagged* (`src/lib/stripe-event-dispatch.ts:86`). The failure is written
   first, which takes the row out of PROCESSING; `flagRepeatedProcessingFailure` then locks the reservation inside the
   same event fence (`payment-reconciliation.ts:49`), and the fence throws "Stripe event lease lost". The record is not
   written and the dispatch throws, where `payment-reconciliation.ts:39` says ops "should not have to wait for Stripe's
   ~3-day retry window" and `stripe-event-dispatch.ts:25` "never throws".
2. *A stale refund reading reverses a newer one* (`src/lib/refund-operations.ts:136`). The refund is read outside the
   lock and applied under it without a check of age. A webhook that read "succeeded" before the bank returned the money
   may set a FAILED row back to SUCCEEDED, where `tests/refund-operations.test.ts:132` says an event "never reverses an
   already-terminal refund". `ProviderPrevails` shows that the audit repairs the row in the end; until then the ledger
   counts the money as paid back and may terminate the reservation.

### Observations

Behaviours of the code that the models contain and that no document of the repository contradicts, so no run claims them
to be wrong. A reader of the code may want to know of them.

- *Deposits.* `attemptDepositAuthorization` (l.77) decides on the row's status of the previous generation. If generation 1
  was declined and generation 2 was accepted and recorded but its process died before the save, a retry starts generation
  3 while 2 is live; 2 is released later, as `docs/financial-operations.md:31` expects of superseded intents.
- A claim that arrives after completion finds the release planned. The claim fences the release, and
  `assertSettledReturnEvidence` refuses the settlement because of the READY release: both wait until the authorization
  expires at the provider.
- *Trips.* A claim while the trip runs sets REVIEW; return, settlement and forced completion are then all refused, so the
  trip stays ACTIVE until the review ends some other way.
- After a TERMINATED disposition a return with damage notes can be completed neither by the host nor by the return review,
  while `docs/pr-2-merge-blockers.md:11` has the host retry normal completion after an approved disposition.
- A forced start of a completed trip keeps `endedAt` and the earlier return reports; next to a release that is planned it
  ends with the release in review while the trip is ACTIVE. If that release had already been executed and its answer lost
  (`provider-execution-guard.ts:113`), the row still says `requires_capture`, `assertFinancialTripStart` is satisfied, and
  the trip is ACTIVE without a deposit: the exceptions of `ValidMeansHeld` and `TripKeepsDeposit`.
- A forced completion plans no release, and the deposits job plans none for COMPLETED with an OPEN disposition: only the
  bank's expiry gives that hold back. It does not stop an attempt that has read its row before either, since
  `deposit-authorization.ts:66` and the authority to dispatch do not refuse COMPLETED: an authorization may be made for a
  trip that is over. Forced completion is accepted from CANCELLED with a TERMINATED disposition.
- *Refunds.* A failed full refund leaves its `terminal-refund` row behind, and `requireRefund` returns that row instead of
  making another one (`stripe-webhook-handlers.ts:20`); the payment is handed to staff (`refund-operations.ts:78`).
  `CapturedAccounted` counts a refund whatever became of it, so no property covers this.
- *Payouts.* Generation 1 failed, generation 2 is paid; a redelivered webhook or the historical audit then observes
  generation 1 again, and `payout-operations.ts:30` compares it with the batch's state, not with its generation: it
  raises PAYOUT_DIFFERENCE ("Authoritative payout status changed after paid") although nothing changed. The issue names no
  operation, `resolveFinanceIssue` accepts only PROVIDER_UNCERTAIN, and it stops all payouts of the host. The set
  `differences` of `HostPayouts` records it; TLC finds a behaviour of 20 steps.
- An audit of a failed payout of the current generation sets a REVERSED batch back to PAYOUT_FAILED; a transfer re-read
  between the provider's reversal and its save raises REVERSAL_DIFFERENCE, which nothing resolves; a transfer whose call
  was announced and never made ends in review and can be neither voided nor resumed.
- *Private files.* The upload's last update sets the attachment CLEAN without looking at it and can overwrite a verdict
  INFECTED of a scan that came first; reads still refuse, because they check the object as well
  (`storage.ts`, `privateReadSnapshot`). An interrupted write is never erased by a job: that ends with staff, as
  `docs/OPERATIONS_RUNBOOK.md` has it. A retention in DEAD_LETTER stays there although the DELETE job erased the object
  after it, until staff retry.

## 4. Proofs

Every safety property that a run checks, invariant, step property or refinement, is also a theorem; TLC checks liveness
and the two findings alone. The theorems hold for every value of the constants that satisfies the named assumptions
(`LedgerAssumption`, `BookingAssumption`, `RefundAssumption`, `RetentionAssumption`, `DepositAssumption`, `CaseAssumption`,
`WorkersAssumption`, `AttemptsAssumption`, `PayoutAssumption`, and `FiniteAssumption` where money is added up: the refunds
of a payment, and the earnings and refunds of a host, are finitely many). TLC evaluates the assumptions in every run.

- `StripeEventLedger_proofs`: `TypeCorrect`, `ProcessedMeansApplied`, `OneLiveHandler`, `SettledForGood`,
  `LedgerImplementsFencedTask`. None of these is inductive: that a PROCESSED row was fully applied needs that whoever
  holds the current token has applied exactly its own steps (`HolderApplied`), that tokens are unique and count the
  claims (`TokensUnique`, `TokensCount`, `TokensMinted`), that the holder's row is not settled behind its back
  (`HolderUnsettled`), and that a claimant carries no token yet (`ClaimantFresh`). The clock plays no part: safety rests
  on tokens, leases only decide who may try.
- `Booking_proofs`: `TypeCorrect`, `DatesExclusive`, `PaidWhenConfirmed`, `CapturedMoneyAccounted`, `TerminationIsFinal`,
  `BookingImplementsCalendar`, `DraftsFollowHolds`. Rows depend on each other only through dates, so the invariant is a per-row part
  (`Ledgered`: which payment, refund and disposition go with which status) and `NoDoubleBooking`. A step either gives
  dates up or takes them for one reservation after checking them; that alone carries exclusiveness and the refinement.
  `DraftsFollowHolds` has an invariant of its own, `DraftInv`: a draft may keep pointing at a reservation while a request
  saves other dates in it, and that the hold it points at is then the very hold the request gave up follows only because
  the reservation of a draft is its customer's (`DraftsOwnRows`) and a customer has one hold at most (`OneHold`). A row
  never becomes a hold again and keeps its dates and customer (`Onward`), so no other step matters to a draft.
- `RefundOperations_proofs`: `TypeCorrect`, `OneRefundObject`, `SettledAsAtProvider`, `GivenUpKeepsBalance`,
  `OutcomeIsFinal`, `RefundsKeepPromise`, `NeverOverpaid`. The invariant says per refund how far the ledger may be behind the provider
  (`RowsSound`) and per execution what its program counter implies about key age, lease and request under way
  (`WorkersSound`). `RetentionAssumption`, `Replay + 2 * Lease + Wire <= Retention`, is what makes one object provable:
  a call decided upon at the end of the replay window may be sent at the end of its lease, be renewed once, and still be
  under way. In the code: 23 h + 2 x 2 min + a request's 8 s, against Stripe's 24 h. `NeverOverpaid` (`BalanceCovers`) comes
  from the refinement: `RefundPromise` reserves within the balance, and what is under way or out is part of what is reserved,
  so the sum over the one set is at most the sum over the other.
- `DepositAuthorizations_proofs`: `Inductive`, `TypeCorrect`, `ValidIsHeld`, `AllReleasesPlanned`, `RowGoesForward`,
  `OnlyWantedAuthorizations`, `DisputeKeepsDeposit`. With a forced start no end of a reservation is final, so the argument
  cannot rest on what the reservation is now. It rests on what never goes back: a release exists from the moment it is
  planned, a deadline stays past, and an intent goes from held to canceled only. An intent is canceled only if it has a
  release or has run out (`Doomed`), and whatever has a release is `Dispensable`: superseded, past, or of a reservation that
  is not OPEN before its trip any more, from where nothing leads back. Hence what an execution has seen is still so when it is
  saved (`JobsSound`, `RowSound`), and a call that authorizes is `Permitted` until its result is recorded (`OneCall`: the
  guard has one holder). `ValidMeansHeld` then needs that the row knows of a release once that is executed and saved
  (`ReleaseSeen`), which leaves the one exception, a release nobody has heard of yet. `ReleasePlanned` needs that a completion
  by the parties leaves no attempt behind (`CompletionFinal`), which is where `NoAttemptOutlivesTrip` is used, and that an
  operation knows its intent before it counts as observed (`OpsSound`, `LatestExists`).
- `Trips_proofs`: `TypeCorrect`, `ReviewWhileOutstanding`, `DepositDuringTrip`, `OneBookingAtATime`,
  `DecisionsIndependent`, `SafeStarts`. The inductive invariant is soundness of each case (`CasesSound`: only incidents
  block, and a block is lifted only when closed and serviced), of each booking with its deposit and the fact whether a case
  is outstanding (`RowsSound`), and `DatesExclusive`. A trip step changes one booking and its deposit (`RowStep`), a case
  step changes one case and at most puts its booking under review (`CaseChange`); a step that takes dates has found them
  free. `DepositDuringTrip` needs besides that a hold the row has as HELD is untouched at the provider, and that
  the deposit of an OPEN booking has a release only after the trip had ended once. The run has no agent who works for the host
  (`Affiliates` is empty), so that half of `IndependentDecision` is shown by the theorem alone.
- `PrivateFiles_proofs`: `TypeCorrect`, `ErasureIsReal`, `HoldsKeep`, `VerdictsAccounted`. That nothing lands after an
  erasure needs the order of upload and erasure (`Phases`: an erasure exists only once the upload is over and the erasure
  committed), that a stored object has its bytes (`Kept`), and that the claim extends to workers that have erased but not
  reported yet (`Reported`). That a verdict belongs to a finished scan needs that only the scan whose lease runs can find the
  object SCANNING (`Scanning`). Leases of the retention and of the DELETE job play no part: erasing twice is harmless.
- `HostPayouts_proofs`: `Inductive`, `TypeCorrect`, `FundsAlwaysCovered`, `NeverTransferredTwice`,
  `OverpaymentAlwaysRecorded`, `OnlyWhatIsOwed`, for any earnings, refunds, amounts, batches and generations. The
  invariant relates, per operation, what the row says, what was read and what was applied to what the provider did
  (`CallsSound`: statuses are seen in one order, and nothing is known of a call that was never sent); per batch, its
  state to its transfer and its payouts (`BatchesSound`, `PayoutsSound`: only the payout of the current generation can
  move money); per refund, its state to the batch it is charged to and to its reversal (`ReversalsSound`,
  `ChargesSound`); per item, its amount to the refunds accounted before (`ItemsSound`). `FundsSound` is the strengthening
  of `FundsCovered` that is inductive: what is or will be taken back is at most what was transferred, and while a payout
  may be out nothing is being taken back and the payout is all that is left. Steps of an execution change one operation
  and only forward, so one frame lemma (`Onward`) carries every part through them; what remains per action is the sums
  (`AuthoritySends`, `BooksMove`, `NothingOut`, `OneOut`). That the books record an overpayment is that the parts of the
  refunds charged to each batch add up to the refunds of its earnings (`SumOfParts`).
- `Sums`: the sum of a union, a part, a difference, of functions that differ in one place, of a set split into parts.
  Sums are defined by recursion over a set in an arbitrary order. The induction that facts about them need is done by a
  smallest counterexample: strict inclusion of the subsets of a finite set is well founded (`SmallestSubset`), which
  needs no theorem with an operator parameter.

What the proofs do not show: that the models are the code, and that the assumptions hold of a deployment, Stripe's
retention of idempotency keys and the length of trips above all.

Only model-checked: all liveness (`EventuallyProcessed`, `PaidIsAccounted`, `EventuallySettled`, `ProviderPrevails`,
`EventuallyReleased`, `JobsEnd`), because TLAPS handles neither liveness under fairness nor ENABLED, and the two
violations, which are counterexamples. No module declares a RECURSIVE operator.

## 5. Not modelled, and the plan

Not modelled: the outbox and its 23-hour window, notices, sign-in codes and sessions, idempotency of mobile mutations,
agreement jobs, the resolution of refund and deposit cases (ADOPT, CONFIRM_FAILURE, RELEASE_INVENTORY), trip reviews, the
double-entry journals, chargebacks, adjustments, payout schedules and Connect onboarding, legacy imports of files and the
purges of conversations, cases and reviews. Left out for good: rendering, scanning, pricing arithmetic, validation, CRUD,
pages, styling and client code, which keep no shared protocol state or depend on devices; they are most of the
repository's lines, so the map covers the part of the code that carries its protocols, not the larger part of its text.

What would come next, in this order: that `HostPayouts` implements an abstract account of a host (earned, sent,
recovered) and `DepositAuthorizations` an abstract deposit (held, given back, kept), with the invariants above; an outbox
module with the abstract promise of one delivery per replay window; sign-in codes with parallel guesses; the resolution
of cases on `RefundOperations`.

## 6. Running

    tlc -config StripeEventLedger.cfg MCStripeEventLedger      (likewise the other runs of PROJECT.json)
    tlapm StripeEventLedger_proofs.tla                         (likewise the other *_proofs modules, and Sums)

The largest runs explore about a million states, each in two minutes or less on two cores.
