--------------------------------- MODULE Booking ---------------------------------
(***************************************************************************)
(* The booking of one vehicle, from the checkout hold to the confirmed     *)
(* reservation: src/lib/checkout-hold.ts, checkout-service.ts,             *)
(* availability.ts, reservation-state-machine.ts, rental-payment.ts,       *)
(* stripe-webhook-handlers.ts, cleanup.ts, customer-reservation.ts and the *)
(* parts of refund-operations.ts that decide whether money is kept.        *)
(*                                                                         *)
(* Every one of these runs its transactions under the vehicle's lock       *)
(* (lockReservation, or the same two locks in createOrRefreshHold), so an  *)
(* action is one transaction.  What a caller does between two transactions *)
(* -- Stripe calls, a crash, being overtaken by a webhook or a cron job -- *)
(* is that any other action may come between them, and the second need     *)
(* never come.  A transaction that throws is rolled back and is no action. *)
(*                                                                         *)
(* expiresAt is kept as the time left: 0 is a deadline that has passed,    *)
(* NoDeadline is NULL.  All reservations are of the one vehicle; nothing   *)
(* in this code relates reservations of two vehicles.                      *)
(***************************************************************************)
EXTENDS Integers

CONSTANTS
  Customers, Reservations,
  Windows,          \* pairs <<pickupAt, returnAt>>
  Drafts,           \* booking drafts of the browsers and phones
  DraftOwner,       \* the customer of a draft
  None,             \* NULL, and the draft of a request that names none
  MaxRevision,      \* bound: the revisions a client sends
  HoldTTL,          \* HOLD_DURATION_MINUTES
  CheckoutTTL,      \* CHECKOUT_WINDOW_MINUTES
  RecoveryTTL       \* the 30 minutes of a captured rental without a deposit

ASSUME BookingAssumption ==
  /\ Windows \subseteq Int \X Int
  /\ \A w \in Windows : w[1] < w[2]
  /\ None \notin Customers \cup Reservations \cup Windows \cup Drafts
  /\ DraftOwner \in [Drafts -> Customers]
  /\ MaxRevision \in Nat
  /\ {HoldTTL, CheckoutTTL, RecoveryTTL} \subseteq Nat \ {0}

VARIABLES
  booking,    \* booking[r]: the Reservation row, its rental payment and refund
  draft,      \* draft[d]: the BookingDraft row
  sale,       \* whether the vehicle may be booked: open, blocked or inactive
  admission   \* whether the jurisdiction and the booking feature admit bookings

vars == <<booking, draft, sale, admission>>

-----------------------------------------------------------------------------
NoDeadline == -1

Transient == {"CHECKOUT_HOLD", "AWAITING_PAYMENT"}
Durable == {"PAYMENT_FAILED", "DOCUMENTS_REQUIRED"}
Cancelled == {"CANCELLED_BY_CUSTOMER", "CANCELLED_BY_HOST"}
RecoveryBeforeExpiry == {"CHECKOUT_HOLD", "AWAITING_PAYMENT", "PAYMENT_FAILED"}

\* FULFILLMENT_RECOVERY_STATES: a payment may still fulfil the reservation.
Recovery == {"CHECKOUT_HOLD", "AWAITING_PAYMENT", "PAYMENT_FAILED", "EXPIRED"}
Statuses == {"NONE", "EXPIRED"} \cup Transient \cup Durable \cup Cancelled

Dispositions == {"OPEN", "REFUND_REQUIRED", "TERMINATED", "REVIEW"}

\* payment: "none"; "created", the intent exists; "paid", it succeeded at
\* Stripe; "captured", and the Payment row says so.
\* refund: the latest refund of the whole amount.  mandate: the refund keyed
\* terminal-refund was reserved.  reconciling: a PaymentReconciliation is open.
Bookings ==
  [status : Statuses, expiresAt : Nat \cup {NoDeadline}, disposition : Dispositions,
   customer : Customers \cup {None}, window : Windows \cup {None}, checkedOut : BOOLEAN,
   payment : {"none", "created", "paid", "captured"},
   refund : {"none", "PENDING", "SUCCEEDED", "FAILED"},
   mandate : BOOLEAN, reconciling : BOOLEAN]

NewBooking(c, w) ==
  [status |-> "CHECKOUT_HOLD", expiresAt |-> HoldTTL, disposition |-> "OPEN",
   customer |-> c, window |-> w, checkedOut |-> FALSE, payment |-> "none",
   refund |-> "none", mandate |-> FALSE, reconciling |-> FALSE]

\* A row that is not created yet.
AbsentBooking ==
  [NewBooking(None, None) EXCEPT !.status = "NONE", !.expiresAt = NoDeadline]

\* A draft without a reservation has a fingerprint once it was saved; here
\* the fingerprint of a request is its window.
DraftRows ==
  [revision : 0..MaxRevision, fingerprint : Windows \cup {None},
   reservation : Reservations \cup {None}]

Init ==
  /\ booking = [r \in Reservations |-> AbsentBooking]
  /\ draft = [d \in Drafts |->
                [revision |-> 0, fingerprint |-> None, reservation |-> None]]
  /\ sale = "open"
  /\ admission = TRUE

-----------------------------------------------------------------------------
(* Availability.                                                           *)

Live(r) == booking[r].expiresAt > 0

Overlap(u, v) == u[1] < v[2] /\ v[1] < u[2]

\* The reservations isVehicleAvailable finds in the way.
Blocks(r) ==
  \/ booking[r].status \in Durable
  \/ booking[r].status \in Transient /\ Live(r)

\* isVehicleAvailable for window w, leaving the reservations of S out.
Available(w, S) ==
  /\ admission
  /\ sale = "open"
  /\ \A q \in Reservations \ S : Blocks(q) => ~Overlap(booking[q].window, w)

\* The statement of a single-row update.
Becomes(r, b) == booking' = [booking EXCEPT ![r] = b]

-----------------------------------------------------------------------------
(* Holds: createOrRefreshHold.                                             *)

HoldsOf(c) ==
  {r \in Reservations : booking[r].customer = c /\ booking[r].status = "CHECKOUT_HOLD"}

DraftAcceptsWhilePaying(d, revision, w) ==
  d # None =>
    \/ revision > draft[d].revision
    \/ revision = draft[d].revision /\ draft[d].fingerprint = w

\* The revision of a draft's request is not obsolete, and its reservation is
\* not already being paid for.
DraftAccepts(d, revision, w) ==
  d # None =>
    /\ \/ revision > draft[d].revision
       \/ revision = draft[d].revision /\ draft[d].fingerprint = w
    /\ draft[d].reservation # None => ~booking[draft[d].reservation].checkedOut

\* existingHold: one of the customer's holds, or none.
Existing(c) == IF HoldsOf(c) = {} THEN {{}} ELSE {{r} : r \in HoldsOf(c)}

\* The hold that was found belongs to no other draft.
HoldIsOurs(d, old) ==
  d # None => \A o \in Drafts \ {d} : draft[o].reservation \notin old

SaveDraft(d, revision, w) ==
  draft' = IF d = None THEN draft
           ELSE [draft EXCEPT ![d].revision = revision, ![d].fingerprint = w]

SaveDraftWith(d, revision, w, r) ==
  draft' = IF d = None THEN draft
           ELSE [draft EXCEPT ![d] =
                   [revision |-> revision, fingerprint |-> w, reservation |-> r]]

\* What every request checks before it changes anything.
MayHold(c, d, revision, w, old) ==
  /\ admission
  /\ d # None => DraftOwner[d] = c
  /\ DraftAccepts(d, revision, w)
  /\ HoldIsOurs(d, old)

\* The hold is extended when the same dates are asked for while it lives.
Extends(old, w) == \E r \in old : booking[r].window = w /\ Live(r)

\* When a block was put on the dates, only the draft remembers the request.
RefreshHold(c, d, revision, w) ==
  \E r \in HoldsOf(c) :
    /\ MayHold(c, d, revision, w, {r})
    /\ Extends({r}, w)
    /\ IF Available(w, {r})
       THEN /\ Becomes(r, [booking[r] EXCEPT !.expiresAt = HoldTTL])
            /\ SaveDraftWith(d, revision, w, r)
       ELSE /\ SaveDraft(d, revision, w)
            /\ UNCHANGED booking
    /\ UNCHANGED <<sale, admission>>

GivenUp(b) == [b EXCEPT !.status = "EXPIRED", !.expiresAt = NoDeadline]

\* No hold to extend: an older hold is given up, and the dates are held if
\* they are free.
PlaceHold(c, d, revision, w) ==
  \E old \in Existing(c), r \in Reservations :
    /\ MayHold(c, d, revision, w, old)
    /\ ~Extends(old, w)
    /\ sale # "inactive"
    /\ Available(w, old)
    /\ booking[r].status = "NONE"
    /\ booking' = [q \in Reservations |->
                     IF q = r THEN NewBooking(c, w)
                     ELSE IF q \in old THEN GivenUp(booking[q]) ELSE booking[q]]
    /\ SaveDraftWith(d, revision, w, r)
    /\ UNCHANGED <<sale, admission>>

\* The dates are taken: the older hold is given up all the same, because the
\* refusal is returned, not thrown, and the transaction commits.
RefuseHold(c, d, revision, w) ==
  \E old \in Existing(c) :
    /\ MayHold(c, d, revision, w, old)
    /\ ~Extends(old, w)
    /\ sale # "inactive"
    /\ ~Available(w, old)
    /\ booking' = [q \in Reservations |->
                     IF q \in old THEN GivenUp(booking[q]) ELSE booking[q]]
    /\ SaveDraft(d, revision, w)
    /\ UNCHANGED <<sale, admission>>

-----------------------------------------------------------------------------
(* Checkout and payment.                                                   *)

Checkout(r) ==
  /\ booking[r].status = "CHECKOUT_HOLD"
  /\ booking[r].disposition = "OPEN"
  /\ Live(r)
  /\ Available(booking[r].window, {r})
  /\ Becomes(r, [booking[r] EXCEPT !.status = "AWAITING_PAYMENT",
                                   !.expiresAt = CheckoutTTL, !.checkedOut = TRUE])
  /\ UNCHANGED <<draft, sale, admission>>

CreateRentalPayment(r) ==
  /\ booking[r].status = "AWAITING_PAYMENT"
  /\ booking[r].disposition = "OPEN"
  /\ Live(r)
  /\ admission
  /\ booking[r].payment = "none"
  /\ Becomes(r, [booking[r] EXCEPT !.payment = "created"])
  /\ UNCHANGED <<draft, sale, admission>>

\* Stripe captures the payment: at any time after the intent exists, also
\* when the reservation has expired or was cancelled.
CustomerPays(r) ==
  /\ booking[r].payment = "created"
  /\ Becomes(r, [booking[r] EXCEPT !.payment = "paid"])
  /\ UNCHANGED <<draft, sale, admission>>

\* requireRefund for a captured payment: at most one refund of a payment is
\* ever mandated, and none while the amount is refunded or about to be.
RefundRequired(b) ==
  LET reserve == ~b.mandate /\ b.refund \notin {"PENDING", "SUCCEEDED"}
  IN  [b EXCEPT !.disposition = "REFUND_REQUIRED",
                !.refund = IF reserve THEN "PENDING" ELSE b.refund,
                !.mandate = b.mandate \/ reserve,
                !.reconciling = b.reconciling \/ reserve]

Captured(b) == [b EXCEPT !.payment = "captured"]

RecoverableAnyDisposition(b) == b.status \in Recovery

\* The reservation may still be fulfilled.
Recoverable(b) == b.disposition = "OPEN" /\ b.status \in Recovery

\* The recovery window of a captured rental is over.
Overdue(b) == b.status = "PAYMENT_FAILED" /\ b.expiresAt = 0

\* The deadline of the recovery: the one it has, or a new one.
RecoveryDeadline(b) ==
  IF b.status = "PAYMENT_FAILED" /\ b.expiresAt # NoDeadline
  THEN b.expiresAt ELSE RecoveryTTL

TooLateOnly(r) == Overdue(booking[r])

TooLate(r) == Overdue(booking[r]) \/ ~Available(booking[r].window, {r})

\* What the first transaction of confirmAfterRentalPaymentSuccess makes of a
\* reservation whose payment is seen to have succeeded.
Fulfilment(r) ==
  LET b == Captured(booking[r])
      late == \/ b.status = "EXPIRED"
              \/ b.status = "AWAITING_PAYMENT" /\ b.expiresAt = 0
  IN  IF b.disposition = "REFUND_REQUIRED" THEN RefundRequired(b)
      ELSE IF ~Recoverable(b) THEN b
      ELSE IF ~admission THEN RefundRequired(b)
      ELSE IF TooLate(r) THEN GivenUp(RefundRequired(b))
      ELSE [b EXCEPT !.status = "PAYMENT_FAILED",
                     !.expiresAt = RecoveryDeadline(b),
                     !.reconciling = b.reconciling \/ late]

\* A webhook, the customer's retry or the rental poll sees the success; it
\* may be seen any number of times.
ObserveCapture(r) ==
  /\ booking[r].payment \in {"paid", "captured"}
  /\ Becomes(r, Fulfilment(r))
  /\ UNCHANGED <<draft, sale, admission>>

\* moneyAvailable of financialProjection.
MoneyAvailable(b) == b.payment = "captured" /\ b.refund \notin {"PENDING", "SUCCEEDED"}

\* The last transaction of confirmAfterRentalPaymentSuccess, after the
\* deposit was attempted.  With a valid deposit (or none required) it
\* confirms; without one it changes nothing.
Confirm(r) ==
  LET b == booking[r]
  IN  /\ b.status = "PAYMENT_FAILED"
      /\ b.disposition = "OPEN"
      /\ b.payment = "captured"
      /\ \/ /\ ~admission
            /\ Becomes(r, RefundRequired(b))
         \/ /\ admission
            /\ ~Live(r)
            /\ Becomes(r, GivenUp(RefundRequired(b)))
         \/ /\ admission
            /\ Live(r)
            /\ MoneyAvailable(b)
            /\ Becomes(r, [b EXCEPT !.status = "DOCUMENTS_REQUIRED",
                                    !.expiresAt = NoDeadline, !.reconciling = FALSE])
      /\ UNCHANGED <<draft, sale, admission>>

-----------------------------------------------------------------------------
(* Expiry, cancellation, refunds.                                          *)

ExpireUnrefunded(r) ==
  /\ booking[r].status \in Transient \cup {"PAYMENT_FAILED"}
  /\ booking[r].expiresAt = 0
  /\ booking[r].disposition \in {"OPEN", "REFUND_REQUIRED"}
  /\ Becomes(r, GivenUp(booking[r]))
  /\ UNCHANGED <<draft, sale, admission>>

\* expireStaleReservations.
Expire(r) ==
  LET b == booking[r]
  IN  /\ b.status \in Transient \cup {"PAYMENT_FAILED"}
      /\ b.expiresAt = 0
      /\ b.disposition \in {"OPEN", "REFUND_REQUIRED"}
      /\ Becomes(r, GivenUp(IF b.payment = "captured" THEN RefundRequired(b) ELSE b))
      /\ UNCHANGED <<draft, sale, admission>>

\* The part of transitionReservation that cancels.
Cancellable(b) ==
  /\ b.status \in Transient \cup Durable
  /\ b.disposition # "REVIEW"
  /\ ~b.reconciling

CancelledAs(b, status) ==
  [b EXCEPT !.status = status, !.expiresAt = NoDeadline,
            !.disposition = IF b.status = "DOCUMENTS_REQUIRED"
                            THEN "TERMINATED" ELSE "REFUND_REQUIRED"]

\* By the customer while the pickup lies ahead, or by staff.
Cancel(r) ==
  /\ Cancellable(booking[r])
  /\ \E status \in Cancelled : Becomes(r, CancelledAs(booking[r], status))
  /\ UNCHANGED <<draft, sale, admission>>

\* settleTerminatedReservation, up to the provider calls.
Settle(r) ==
  /\ booking[r].disposition = "REFUND_REQUIRED"
  /\ booking[r].payment = "captured"
  /\ Becomes(r, RefundRequired(booking[r]))
  /\ UNCHANGED <<draft, sale, admission>>

StaffRefundKeepsOpen(r) ==
  /\ booking[r].disposition # "REVIEW"
  /\ MoneyAvailable(booking[r])
  /\ Becomes(r, [booking[r] EXCEPT !.refund = "PENDING"])
  /\ UNCHANGED <<draft, sale, admission>>

\* Staff refund the whole captured amount (issueRefund, reserveRefund).
StaffRefund(r) ==
  /\ booking[r].disposition # "REVIEW"
  /\ MoneyAvailable(booking[r])
  /\ Becomes(r, [booking[r] EXCEPT !.disposition = "REFUND_REQUIRED",
                                   !.refund = "PENDING"])
  /\ UNCHANGED <<draft, sale, admission>>

\* applyRefundObservationTx, with Stripe's final answer.
RefundSucceeds(r) ==
  LET b == [booking[r] EXCEPT !.refund = "SUCCEEDED", !.reconciling = FALSE]
  IN  /\ booking[r].refund = "PENDING"
      /\ Becomes(r, IF b.disposition = "REFUND_REQUIRED"
                    THEN [b EXCEPT !.disposition = "TERMINATED",
                                   !.expiresAt = NoDeadline,
                                   !.status = IF b.status \in Cancelled
                                              THEN b.status ELSE "EXPIRED"]
                    ELSE b)
      /\ UNCHANGED <<draft, sale, admission>>

RefundFails(r) ==
  /\ booking[r].refund = "PENDING"
  /\ Becomes(r, [booking[r] EXCEPT !.refund = "FAILED"])
  /\ UNCHANGED <<draft, sale, admission>>

\* An operation on the reservation's money had no explainable outcome
\* (quarantineOperation, quarantineRefund).
Quarantine(r) ==
  /\ booking[r].payment # "none"
  /\ booking[r].disposition # "REVIEW"
  /\ Becomes(r, [booking[r] EXCEPT !.disposition = "REVIEW"])
  /\ UNCHANGED <<draft, sale, admission>>

-----------------------------------------------------------------------------
(* The environment.                                                        *)

\* A unit of time passes.
Tick ==
  /\ \E r \in Reservations : Live(r)
  /\ booking' = [r \in Reservations |->
                   IF Live(r) THEN [booking[r] EXCEPT !.expiresAt = @ - 1] ELSE booking[r]]
  /\ UNCHANGED <<draft, sale, admission>>

\* Hosts and administrators block the vehicle or take it off the site; the
\* release authority closes and opens the jurisdiction.
ChangeSale ==
  /\ sale' \in {"open", "blocked", "inactive"} \ {sale}
  /\ UNCHANGED <<booking, draft, admission>>

ChangeAdmission ==
  /\ admission' = ~admission
  /\ UNCHANGED <<booking, draft, sale>>

Request(c, d, revision, w) ==
  \/ RefreshHold(c, d, revision, w)
  \/ PlaceHold(c, d, revision, w)
  \/ RefuseHold(c, d, revision, w)

Progress(r) ==
  \/ Checkout(r) \/ CreateRentalPayment(r) \/ CustomerPays(r)
  \/ ObserveCapture(r) \/ Confirm(r)
  \/ Expire(r) \/ Cancel(r) \/ Settle(r) \/ StaffRefund(r)
  \/ RefundSucceeds(r) \/ RefundFails(r) \/ Quarantine(r)

Next ==
  \/ \E c \in Customers, d \in Drafts \cup {None}, revision \in 1..MaxRevision,
        w \in Windows : Request(c, d, revision, w)
  \/ \E r \in Reservations : Progress(r)
  \/ Tick
  \/ ChangeSale
  \/ ChangeAdmission

Spec == Init /\ [][Next]_vars

(***************************************************************************)
(* Fairness: the cron jobs expire holds, poll rental intents, settle and   *)
(* execute refunds every minute (vercel.json), and time passes.  Nothing   *)
(* makes a customer go on, pay or cancel.                                  *)
(***************************************************************************)
Fairness ==
  /\ WF_vars(Tick)
  /\ \A r \in Reservations :
       /\ WF_vars(ObserveCapture(r))
       /\ WF_vars(Expire(r))
       /\ WF_vars(Settle(r))
       /\ WF_vars(RefundSucceeds(r) \/ RefundFails(r))

FairSpec == Spec /\ Fairness

-----------------------------------------------------------------------------
(* Properties.                                                             *)

TypeOK ==
  /\ booking \in [Reservations -> Bookings]
  /\ \A r \in Reservations :
       \/ booking[r] = AbsentBooking
       \/ /\ booking[r].status # "NONE"
          /\ booking[r].customer \in Customers
          /\ booking[r].window \in Windows
  /\ draft \in [Drafts -> DraftRows]
  /\ sale \in {"open", "blocked", "inactive"}
  /\ admission \in BOOLEAN

\* Two reservations that both occupy the vehicle never overlap, although
\* holds lapse by themselves, payments succeed after the hold lapsed and
\* rows are expired late (availability.ts, and the exclusion constraint).
NoDoubleBooking ==
  \A p, q \in Reservations :
    p # q /\ Blocks(p) /\ Blocks(q) => ~Overlap(booking[p].window, booking[q].window)

\* A confirmed, not terminated reservation has money behind it: captured,
\* and not being given back.
ConfirmedIsPaid ==
  \A r \in Reservations :
    booking[r].status = "DOCUMENTS_REQUIRED" /\ booking[r].disposition = "OPEN"
      => MoneyAvailable(booking[r])

\* Money is never kept silently: once captured, an open reservation owns the
\* vehicle (confirmed, or within its recovery), and an expired one has its
\* refund reserved or is under review.
CapturedAccounted ==
  \A r \in Reservations : booking[r].payment = "captured" =>
    /\ booking[r].disposition = "OPEN" => booking[r].status \in Durable
    /\ booking[r].status = "EXPIRED" =>
         booking[r].refund # "none" \/ booking[r].disposition = "REVIEW"

\* The reservation a draft resumes has the dates the draft was last saved
\* with as long as it is a hold or beyond: a save never drifts away from a
\* reservation that is being paid for, nor from a hold that another draft or
\* a refused request touched.
DraftMatchesHold ==
  \A d \in Drafts : draft[d].reservation # None =>
    LET b == booking[draft[d].reservation]
    IN  b.status = "CHECKOUT_HOLD" \/ b.checkedOut => b.window = draft[d].fingerprint

\* Financial termination is one way: a reservation that is not open never
\* opens again, a cancelled one stays cancelled, and neither gets the
\* vehicle back (docs/financial-operations.md:3-7).
NoReopening ==
  [][\A r \in Reservations : booking[r].disposition # "OPEN" =>
       /\ booking'[r].disposition # "OPEN"
       /\ booking[r].status \in Cancelled => booking'[r].status = booking[r].status
       /\ Blocks(r)' => Blocks(r)]_vars

\* What became of a payment Stripe captured: fulfilled, refunded or refused
\* by Stripe, kept by the cancellation policy for staff to decide, or under
\* review.
Accounted(r) ==
  LET b == booking[r]
  IN  /\ b.payment = "captured"
      /\ \/ b.status = "DOCUMENTS_REQUIRED" /\ b.disposition = "OPEN"
         \/ b.refund \in {"SUCCEEDED", "FAILED"}
         \/ b.status \in Cancelled /\ b.disposition = "TERMINATED"
         \/ b.disposition = "REVIEW"

\* Every captured payment is accounted for in the end.
PaidIsAccounted ==
  \A r \in Reservations : booking[r].payment = "paid" ~> Accounted(r)

\* The booking of the vehicle implements its calendar.
Calendar == INSTANCE VehicleCalendar WITH
  occupied <- [r \in Reservations |-> IF Blocks(r) THEN {booking[r].window} ELSE {}],
  terminated <- {r \in Reservations : booking[r].disposition # "OPEN"}

ImplementsCalendar == Calendar!Spec

=============================================================================
