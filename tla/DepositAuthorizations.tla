-------------------------- MODULE DepositAuthorizations --------------------------
(***************************************************************************)
(* The security deposit of one reservation: src/lib/deposit-authorization  *)
(* .ts with deposit-release-plan.ts and deposit-release-ownership.ts, on   *)
(* the engine of provider operations and under the reservation's life.     *)
(*                                                                         *)
(* Each attempt to authorize the deposit is a generation: an operation of  *)
(* kind DEPOSIT that creates one payment intent at the provider.  The      *)
(* deposit's row belongs to the latest generation.  Whatever authorization *)
(* is no longer wanted is given back by a second operation, of kind        *)
(* DEPOSIT_RELEASE, bound to that one intent.  Executions of the two kinds *)
(* run side by side while the reservation is refunded, cancelled, started, *)
(* completed or disputed.                                                  *)
(*                                                                         *)
(* One action is one transaction, one read outside a transaction, or one   *)
(* event at the provider.  A generation stands for its operation and for   *)
(* the intent created by it: RefundOperations shows that an operation      *)
(* creates one object for all its retries, and keeps the time that takes.  *)
(***************************************************************************)
EXTENDS Integers

CONSTANTS
  Generations,   \* bound: attempts to authorize
  Workers,       \* executions of operations: requests and the recovery job
  None,          \* no token
  MaxFailures,   \* the twenty consecutive failures
  MaxIncidents   \* bound: processes that die or are slow, calls that are lost,
                 \* other errors, and claims or disputes

ASSUME DepositAssumption ==
  /\ Generations \in Nat \ {0} /\ MaxFailures \in Nat \ {0}
  /\ MaxIncidents \in Nat
  /\ None \notin Workers

VARIABLES
  reservation,   \* its status, financialDisposition and open claim, and how it
                 \* was completed
  deposit,       \* the SecurityDeposit row
  op,            \* op[k][g]: the operation of kind k on generation g's intent
  worker,        \* worker[w]: what an execution is doing
  intent,        \* intent[g]: g's payment intent at the provider
  past,          \* past[g]: whether its capture_before has gone by
  wire,          \* wire[g]: requests nobody waits for any more, by kind
  incidents      \* how many there were

vars == <<reservation, deposit, op, worker, intent, past, wire, incidents>>

local == <<reservation, deposit, op>>
outside == <<intent, past, wire>>

-----------------------------------------------------------------------------
Gens == 1..Generations
Kinds == {"DEPOSIT", "DEPOSIT_RELEASE"}

\* PRE_TRIP stands for PAYMENT_FAILED up to READY_TO_START and for EXPIRED,
\* ACTIVE for a trip under way or being returned.
Statuses == {"PRE_TRIP", "CANCELLED", "ACTIVE", "COMPLETED"}
Dispositions == {"OPEN", "REFUND_REQUIRED", "TERMINATED", "REVIEW"}
Terminated == {"REFUND_REQUIRED", "TERMINATED"}

\* started: its trip has startedAt.  forced: an EmergencyOverrideRecord says that
\* it was completed by force, which no guard of the code reads.
Reservations == [status : Statuses, disposition : Dispositions, claim : BOOLEAN,
                 started : BOOLEAN, forced : BOOLEAN]

IntentStatuses == {"none", "requires_payment_method", "requires_action",
                   "requires_capture", "canceled"}

\* An intent that holds the customer's money, or may still come to.
Live == {"requires_action", "requires_capture"}

Deposits == {d \in [generation : 0..Generations, intent : 0..Generations,
                    stripeStatus : IntentStatuses] :
               d.intent = 0 <=> d.stripeStatus = "none"}

\* READY stands for READY and RETRY, and for POLL unless what was seen is an
\* authorization that can be captured: that alone is POLL.
OpStates == {"ABSENT", "READY", "RUNNING", "POLL", "OBSERVED", "REVIEW"}

\* identified: the provider's identity is stored.  That of a release is its
\* target, known from the start, and says nothing.
Ops == [state : OpStates, token : Workers \cup {None}, leased : BOOLEAN,
        identified : BOOLEAN, tried : BOOLEAN, failures : 0..MaxFailures]

\* "asking" is an attempt that has read the row; "prepared" has an operation,
\* "claimed" is about to read, "sending" to call, "calling" waits for the
\* answer, "recorded" stored the identity, "read" has read the intent,
\* "failed" and "uncertain" have caught an error.  asked is the generation
\* an attempt has read, again whether it is a retry (until the claim), or
\* whether the authorization was tried before (until the next step).
Jobs == [pc : {"asking", "prepared", "claimed", "sending", "calling", "answered",
               "recorded", "read", "failed", "uncertain"},
         kind : Kinds, gen : 0..Generations, asked : 0..Generations,
         again : BOOLEAN, seen : IntentStatuses]

Idle == [pc |-> "idle"]

NoOp == [state |-> "ABSENT", token |-> None, leased |-> FALSE,
         identified |-> FALSE, tried |-> FALSE, failures |-> 0]

NewOp == [NoOp EXCEPT !.state = "READY"]

Init ==
  /\ reservation = [status |-> "PRE_TRIP", disposition |-> "OPEN", claim |-> FALSE,
                    started |-> FALSE, forced |-> FALSE]
  /\ deposit = [generation |-> 0, intent |-> 0, stripeStatus |-> "none"]
  /\ op = [k \in Kinds |-> [g \in Gens |-> NoOp]]
  /\ worker = [w \in Workers |-> Idle]
  /\ intent = [g \in Gens |-> "none"]
  /\ past = [g \in Gens |-> FALSE]
  /\ wire = [g \in Gens |-> {}]
  /\ incidents = 0

-----------------------------------------------------------------------------
At(w, pc) == worker[w].pc = pc
Goes(w, pc) ==
  worker' = [worker EXCEPT ![w] =
               [worker[w] EXCEPT !.pc = pc, !.again = FALSE, !.seen = "none"]]
Ends(w) == worker' = [worker EXCEPT ![w] = Idle]

With(k, g, o) == [op EXCEPT ![k] = [op[k] EXCEPT ![g] = o]]
Authorizes(w) == worker[w].kind = "DEPOSIT"
OpOf(w) == op[worker[w].kind][worker[w].gen]
Put(w, o) == With(worker[w].kind, worker[w].gen, o)

\* Mutated GuardFree: only the result is saved under the guard.
GuardFreeOfCalls == \A v \in Workers : ~At(v, "recorded")

\* The vehicle's guard is held by a dispatch until its result is saved; every
\* transaction on the reservation waits for it.
GuardFree == \A v \in Workers : worker[v].pc \notin {"calling", "answered", "recorded"}

\* assertCurrentLease.
HoldsLease(w) == OpOf(w).token = w /\ OpOf(w).leased

InReview == \E k \in Kinds, g \in Gens : op[k][g].state = "REVIEW"

\* assertDepositReleaseReviewClear.
ReviewClear ==
  reservation.status \in {"ACTIVE", "COMPLETED"} =>
    ~reservation.claim /\ reservation.disposition # "REVIEW" /\ ~InReview

\* authorizationExpiresAt of the row has gone by.
RowExpired == deposit.intent # 0 /\ past[deposit.intent]
              /\ deposit.stripeStatus \in {"requires_capture", "canceled"}

\* Mutated DepositValid: whether it has expired is left to the provider.
DepositValidByStatus ==
  /\ deposit.generation # 0
  /\ deposit.intent = deposit.generation
  /\ deposit.stripeStatus = "requires_capture"
  /\ op["DEPOSIT"][deposit.generation].state # "REVIEW"

\* financialProjection: depositValid.
DepositValid ==
  /\ deposit.generation # 0
  /\ deposit.intent = deposit.generation
  /\ deposit.stripeStatus = "requires_capture"
  /\ op["DEPOSIT"][deposit.generation].identified
  /\ op["DEPOSIT"][deposit.generation].state # "REVIEW"
  /\ ~RowExpired

-----------------------------------------------------------------------------
(* What was seen, and the releases it asks for: syncDepositIntent and      *)
(* deposit-release-plan.ts.                                                *)

\* ops with a release planned for each intent of S.
Plan(ops, S) ==
  [ops EXCEPT !["DEPOSIT_RELEASE"] =
     [g \in Gens |-> IF g \in S /\ ops["DEPOSIT_RELEASE"][g].state = "ABSENT"
                     THEN NewOp ELSE ops["DEPOSIT_RELEASE"][g]]]

\* Mutated Identified: the intent of the current generation only.
IdentifiedCurrent == {g \in Gens : deposit.intent = g}

Identified == {g \in Gens : op["DEPOSIT"][g].identified}

PlanAll == op' = Plan(op, Identified)

Superseded(g) == deposit.generation # g

MustRelease(g, seen) ==
  /\ seen # "canceled"
  /\ reservation.disposition \in Terminated \/ Superseded(g)

\* Mutated Ignored: the last one to report is believed.
IgnoredNever(g, seen) == FALSE

\* An older generation, or a state the row has left for good.
Ignored(g, seen) ==
  \/ Superseded(g)
  \/ /\ deposit.intent = g
     /\ \/ deposit.stripeStatus = "canceled" /\ seen # "canceled"
        \/ RowExpired /\ seen = "requires_capture"

\* ops are the operations as the same transaction has left them.
Sync(g, seen, ops) ==
  /\ op' = IF MustRelease(g, seen) THEN Plan(ops, {g}) ELSE ops
  /\ deposit' = IF Ignored(g, seen) THEN deposit
                ELSE [deposit EXCEPT !.intent = g, !.stripeStatus = seen]

-----------------------------------------------------------------------------
(* Attempts: attemptDepositAuthorization.                                  *)

\* The row is read: by the confirmation of a payment or a customer's retry.
\* A retry that finds its authorization expired gives that one back first.
Ask(w) ==
  /\ At(w, "idle")
  /\ reservation.status = "PRE_TRIP" /\ reservation.disposition = "OPEN"
  /\ \E retry \in BOOLEAN :
       worker' = [worker EXCEPT ![w] =
         [pc |-> "asking", kind |-> "DEPOSIT",
          gen |-> IF retry /\ RowExpired THEN deposit.intent ELSE 0,
          asked |-> deposit.generation, again |-> retry, seen |-> "none"]]
  /\ UNCHANGED <<local, outside, incidents>>

\* releaseDeposits for the expired intent.
RenewalReleases(w) ==
  /\ At(w, "asking")
  /\ worker[w].gen # 0
  /\ GuardFree
  /\ op' = Plan(op, {worker[w].gen})
  /\ worker' = [worker EXCEPT ![w] =
                  [worker[w] EXCEPT !.pc = "prepared", !.kind = "DEPOSIT_RELEASE"]]
  /\ UNCHANGED <<reservation, deposit, outside, incidents>>

\* A deliberate retry after a terminal outcome, of the generation it has seen.
Renews(w) ==
  /\ worker[w].again
  /\ worker[w].asked = deposit.generation
  /\ deposit.stripeStatus \in {"requires_payment_method", "canceled"}
  /\ op["DEPOSIT"][deposit.generation].identified

StartsAnew(w) == deposit.generation = 0 \/ Renews(w)

Prepared(w, g) ==
  worker' = [worker EXCEPT ![w] = [worker[w] EXCEPT !.pc = "prepared", !.gen = g, !.asked = 0]]

NewAttempt(w) ==
  LET g == deposit.generation + 1
  IN  /\ At(w, "asking") /\ worker[w].gen = 0
      /\ GuardFree
      /\ reservation.disposition = "OPEN" /\ reservation.status # "CANCELLED"
      /\ StartsAnew(w)
      /\ g <= Generations
      /\ op' = With("DEPOSIT", g, NewOp)
      /\ deposit' = [deposit EXCEPT !.generation = g]
      /\ Prepared(w, g)
      /\ UNCHANGED <<reservation, outside, incidents>>

\* The latest attempt is resumed.
Resume(w) ==
  /\ At(w, "asking") /\ worker[w].gen = 0
  /\ GuardFree
  /\ reservation.disposition = "OPEN" /\ reservation.status # "CANCELLED"
  /\ ~StartsAnew(w)
  /\ Prepared(w, deposit.generation)
  /\ UNCHANGED <<local, outside, incidents>>

\* "Reservation financially terminated"; or the bound is reached.
AttemptRefused(w) ==
  /\ At(w, "asking") /\ worker[w].gen = 0
  /\ GuardFree
  /\ \/ reservation.disposition # "OPEN" \/ reservation.status = "CANCELLED"
     \/ StartsAnew(w) /\ deposit.generation = Generations
  /\ Ends(w)
  /\ UNCHANGED <<local, outside, incidents>>

-----------------------------------------------------------------------------
(* Executions: recoverDeposits and runOperation, for both kinds.           *)

\* Mutated Due: what is under way is left to whoever claimed it.
DueUnclaimed(k, g) ==
  /\ op[k][g].state \in {"READY", "POLL"}
  /\ k = "DEPOSIT" => reservation.disposition = "OPEN" \/ op[k][g].tried

Due(k, g) ==
  /\ op[k][g].state \in {"READY", "POLL", "RUNNING"}
  /\ ~op[k][g].leased
  /\ k = "DEPOSIT" => reservation.disposition = "OPEN" \/ op[k][g].tried

Recover(w, k, g) ==
  /\ At(w, "idle")
  /\ Due(k, g)
  /\ worker' = [worker EXCEPT ![w] =
       [pc |-> "prepared", kind |-> k, gen |-> g, asked |-> 0, again |-> FALSE,
        seen |-> "none"]]
  /\ UNCHANGED <<local, outside, incidents>>

\* releaseDeposits after an execution or a settlement: a second chance for
\* what syncDepositIntent has to plan anyway.
Compensate(g) ==
  /\ GuardFree
  /\ op["DEPOSIT"][g].identified
  /\ reservation.disposition \in Terminated \/ Superseded(g)
  /\ op["DEPOSIT_RELEASE"][g].state = "ABSENT"
  /\ op' = Plan(op, {g})
  /\ UNCHANGED <<reservation, deposit, worker, outside, incidents>>

\* checkDepositReleaseOwnership and the claim, two transactions under the same
\* lock; what comes between them may as well come after the second.
Claimable(w) ==
  /\ OpOf(w).state # "REVIEW" /\ ~OpOf(w).leased
  /\ ~Authorizes(w) => ReviewClear

Claim(w) ==
  /\ At(w, "prepared")
  /\ GuardFree
  /\ Claimable(w)
  /\ op' = Put(w, [OpOf(w) EXCEPT !.state = "RUNNING", !.token = w, !.leased = TRUE,
                                  !.tried = Authorizes(w)])
  /\ worker' = [worker EXCEPT ![w] =
                  [worker[w] EXCEPT !.pc = "claimed", !.again = OpOf(w).tried]]
  /\ UNCHANGED <<reservation, deposit, outside, incidents>>

\* A retry whose release is done by now goes on, everybody else gives up.
EndsUnlessReleased(w) ==
  IF worker[w].asked # 0 /\ OpOf(w).state = "OBSERVED"
  THEN worker' = [worker EXCEPT ![w] =
         [worker[w] EXCEPT !.pc = "asking", !.kind = "DEPOSIT", !.gen = 0,
                           !.again = TRUE, !.seen = "none"]]
  ELSE Ends(w)

ClaimRefused(w) ==
  /\ At(w, "prepared")
  /\ GuardFree
  /\ ~Claimable(w)
  /\ EndsUnlessReleased(w)
  /\ UNCHANGED <<local, outside, incidents>>

\* Whether the outcome must be discovered before anything else: the replay
\* window may be over, and a terminated reservation makes no authorization.
MustDiscover(w) == reservation.disposition # "OPEN"
MayDiscover(w) == worker[w].again \/ MustDiscover(w)

\* The provider is going to be called: for an authorization because nothing
\* came of it yet, for a release because the intent was read and is not over.
Decide(w) ==
  /\ At(w, "claimed")
  /\ IF Authorizes(w)
     THEN ~OpOf(w).identified /\ ~MustDiscover(w)
     ELSE intent[worker[w].gen] # "canceled"
  /\ Goes(w, "sending")
  /\ UNCHANGED <<local, outside, incidents>>

\* Mutated Found: the intent need not have been found.
FoundAny(w) == OpOf(w).identified \/ MayDiscover(w)

\* The intent of an authorization is retrieved, or discovered by its key.
Found(w) == OpOf(w).identified \/ (MayDiscover(w) /\ intent[worker[w].gen] # "none")

Look(w) ==
  LET seen == intent[worker[w].gen]
  IN  /\ At(w, "claimed")
      /\ IF Authorizes(w) THEN Found(w) ELSE seen = "canceled"
      /\ worker' = [worker EXCEPT ![w] =
                      [worker[w] EXCEPT !.pc = "read", !.again = FALSE, !.seen = seen]]
      /\ UNCHANGED <<local, outside, incidents>>

\* "unresolved prior deposit attempt", "unknown beyond safe replay window".
NotFound(w) ==
  /\ At(w, "claimed")
  /\ Authorizes(w) /\ ~OpOf(w).identified
  /\ MayDiscover(w)
  /\ intent[worker[w].gen] = "none"
  /\ Goes(w, "uncertain")
  /\ UNCHANGED <<local, outside, incidents>>

ReleaseAuthorized(g) ==
  \/ reservation.disposition \in Terminated
  \/ reservation.status \in {"COMPLETED", "CANCELLED"}
  \/ Superseded(g)
  \/ deposit.intent = g /\ RowExpired

\* Mutated StillClear: the check made before the claim is enough.
StillClearSinceClaim(w) == TRUE

StillClear(w) == ~Authorizes(w) => ReviewClear

\* assertDispatchAuthority.
Authorized(w) ==
  IF Authorizes(w)
  THEN /\ reservation.disposition = "OPEN"
       /\ reservation.status # "CANCELLED"
       /\ ~Superseded(worker[w].gen)
  ELSE ReleaseAuthorized(worker[w].gen)

Dispatch(w) ==
  /\ At(w, "sending")
  /\ GuardFree
  /\ HoldsLease(w) /\ StillClear(w) /\ Authorized(w)
  /\ Goes(w, "calling")
  /\ UNCHANGED <<local, outside, incidents>>

\* No authority: an uncertain outcome.  A lost lease or a review is a failure.
DispatchRefused(w) ==
  /\ At(w, "sending")
  /\ GuardFree
  /\ HoldsLease(w) /\ StillClear(w) /\ ~Authorized(w)
  /\ Goes(w, "uncertain")
  /\ UNCHANGED <<local, outside, incidents>>

-----------------------------------------------------------------------------
(* The provider.                                                           *)

\* What a request of kind k leads to, for an intent in status s.
Outcomes(k, s) ==
  IF k = "DEPOSIT_RELEASE" THEN {"canceled"}
  ELSE IF s = "none" THEN {"requires_payment_method"} \cup Live
  ELSE {s}

Accept(w) ==
  /\ At(w, "calling")
  /\ \E s \in Outcomes(worker[w].kind, intent[worker[w].gen]) :
       /\ intent' = [intent EXCEPT ![worker[w].gen] = s]
       /\ worker' = [worker EXCEPT ![w] = [worker[w] EXCEPT !.pc = "answered", !.seen = s]]
  /\ UNCHANGED <<local, past, wire, incidents>>

\* The call fails or times out; the request may still be under way.
Lost(w) ==
  LET g == worker[w].gen
  IN  /\ At(w, "calling")
      /\ incidents < MaxIncidents
      /\ \E late \in {wire[g], wire[g] \cup {worker[w].kind}} : wire' = [wire EXCEPT ![g] = late]
      /\ incidents' = incidents + 1
      /\ Goes(w, "failed")
      /\ UNCHANGED <<local, intent, past>>

LateAccept(g) ==
  /\ \E k \in wire[g] : \E s \in Outcomes(k, intent[g]) :
       /\ intent' = [intent EXCEPT ![g] = s]
       /\ wire' = [wire EXCEPT ![g] = @ \ {k}]
  /\ UNCHANGED <<local, worker, past, incidents>>

Becomes(g, s) ==
  /\ intent' = [intent EXCEPT ![g] = s]
  /\ UNCHANGED <<local, worker, past, wire, incidents>>

\* The customer authenticates, or does not.
Authenticate(g) ==
  /\ intent[g] = "requires_action"
  /\ Becomes(g, "requires_capture") \/ Becomes(g, "requires_payment_method")

\* An authorization runs out, and the provider cancels it.
Elapse(g) ==
  /\ intent[g] = "requires_capture" /\ ~past[g]
  /\ past' = [past EXCEPT ![g] = TRUE]
  /\ UNCHANGED <<local, worker, intent, wire, incidents>>

AutoCancel(g) == intent[g] = "requires_capture" /\ past[g] /\ Becomes(g, "canceled")

\* handleDepositAuthorizationCanceled: what it retrieves is final.
CanceledWebhook(g) ==
  /\ GuardFree
  /\ intent[g] = "canceled" /\ deposit.intent = g
  /\ Sync(g, "canceled", op)
  /\ UNCHANGED <<reservation, worker, outside, incidents>>

-----------------------------------------------------------------------------
(* Saving the result of an execution, or its failure.                      *)

\* The proof of acceptance is committed on its own, under the guard.
Record(w) ==
  /\ At(w, "answered")
  /\ op' = Put(w, [OpOf(w) EXCEPT !.identified = Authorizes(w)])
  /\ worker' = [worker EXCEPT ![w] = [worker[w] EXCEPT !.pc = "recorded"]]
  /\ UNCHANGED <<reservation, deposit, outside, incidents>>

SavedState(k, seen) ==
  IF k = "DEPOSIT_RELEASE" \/ seen = "canceled" THEN "OBSERVED"
  ELSE IF seen = "requires_capture" THEN "POLL" ELSE "READY"

SavedOp(w) == [OpOf(w) EXCEPT !.state = SavedState(worker[w].kind, worker[w].seen),
                              !.token = None, !.leased = FALSE,
                              !.identified = Authorizes(w), !.failures = 0]

Saved(w) ==
  IF worker[w].asked # 0
  THEN worker' = [worker EXCEPT ![w] =
         [worker[w] EXCEPT !.pc = "asking", !.kind = "DEPOSIT", !.gen = 0,
                           !.again = TRUE, !.seen = "none"]]
  ELSE Ends(w)

Save(w) ==
  /\ At(w, "recorded") \/ (At(w, "read") /\ GuardFree)
  /\ HoldsLease(w)
  /\ Sync(worker[w].gen, worker[w].seen, Put(w, SavedOp(w)))
  /\ Saved(w)
  /\ UNCHANGED <<reservation, outside, incidents>>

\* The lease was lost under the guard.
SaveRefused(w) ==
  /\ At(w, "recorded")
  /\ ~HoldsLease(w)
  /\ Goes(w, "failed")
  /\ UNCHANGED <<local, outside, incidents>>

GivesUp(w) == At(w, "uncertain") \/ OpOf(w).failures >= MaxFailures - 1

\* It has caught an error, or is going to: the lease was lost, or a review of
\* the trip holds the release back.
Failing(w) ==
  \/ At(w, "failed") \/ At(w, "uncertain")
  \/ At(w, "sending") /\ ~StillClear(w)
  \/ (At(w, "sending") \/ At(w, "read")) /\ ~HoldsLease(w)

\* Any read, wait for the guard, dispatch or save may fail besides.
Hindered(w) ==
  /\ worker[w].pc \in {"claimed", "sending", "read"}
  /\ incidents < MaxIncidents

\* A failure counts; uncertain outcomes and persistent failures are for staff:
\* quarantineOperation puts the reservation under review.
Fail(w) ==
  /\ GuardFree
  /\ \/ Failing(w) /\ incidents' = incidents
     \/ ~Failing(w) /\ Hindered(w) /\ incidents' = incidents + 1
  /\ IF OpOf(w).token = w
     THEN /\ op' = Put(w, [OpOf(w) EXCEPT !.state = IF GivesUp(w) THEN "REVIEW" ELSE "READY",
                             !.token = None, !.leased = FALSE, !.failures = @ + 1])
          /\ reservation' = IF GivesUp(w) THEN [reservation EXCEPT !.disposition = "REVIEW"]
                            ELSE reservation
     ELSE UNCHANGED <<op, reservation>>
  /\ EndsUnlessReleased(w)
  /\ UNCHANGED <<deposit, outside>>

\* The execution that holds the lease is still going.
Held(k, g) == \E w \in Workers : op[k][g].token = w /\ ~At(w, "idle")
                                /\ worker[w].kind = k /\ worker[w].gen = g

\* A lease runs out, under a slow execution too, but not under a call: the
\* client gives up much earlier.
Lapse(k, g) ==
  /\ op[k][g].leased
  /\ \A w \in Workers : worker[w].pc \in {"calling", "answered"} => op[k][g].token # w
  /\ IF Held(k, g) THEN incidents < MaxIncidents /\ incidents' = incidents + 1 ELSE incidents' = incidents
  /\ op' = With(k, g, [op[k][g] EXCEPT !.leased = FALSE])
  /\ UNCHANGED <<reservation, deposit, worker, outside>>

\* The process dies, its locks are released, its request may go on.
Crash(w) ==
  /\ ~At(w, "idle")
  /\ incidents < MaxIncidents
  /\ incidents' = incidents + 1
  /\ Ends(w)
  /\ \/ /\ At(w, "calling")
        /\ wire' = [wire EXCEPT ![worker[w].gen] = @ \cup {worker[w].kind}]
     \/ UNCHANGED wire
  /\ UNCHANGED <<local, intent, past>>

-----------------------------------------------------------------------------
(* The reservation around its deposit.                                     *)

Ordains(status, disposition) ==
  reservation' = [reservation EXCEPT !.status = status, !.disposition = disposition]

Transitions(status, forced) ==
  reservation' = [reservation EXCEPT !.status = status, !.forced = forced,
                                     !.started = @ \/ status = "ACTIVE"]

\* requireRefund, or a full refund by staff.
RequireRefund ==
  /\ GuardFree
  /\ reservation.status = "PRE_TRIP" /\ reservation.disposition = "OPEN"
  /\ Ordains("PRE_TRIP", "REFUND_REQUIRED")
  /\ UNCHANGED <<deposit, op, worker, outside, incidents>>

\* applyRefundObservationTx: all captured money has been returned.
FullyRefunded ==
  /\ GuardFree
  /\ reservation.status \in {"PRE_TRIP", "CANCELLED"}
  /\ reservation.disposition = "REFUND_REQUIRED"
  /\ Ordains(reservation.status, "TERMINATED")
  /\ PlanAll
  /\ UNCHANGED <<deposit, worker, outside, incidents>>

Cancel ==
  /\ GuardFree
  /\ reservation.status = "PRE_TRIP"
  /\ reservation.disposition \in {"OPEN", "REFUND_REQUIRED"}
  /\ ~reservation.claim /\ ~InReview
  /\ \E d \in Terminated : Ordains("CANCELLED", d)
  /\ PlanAll
  /\ UNCHANGED <<deposit, worker, outside, incidents>>

\* assertFinancialTripStart: the row and the attempt behind it, not the releases.
StartAuthority ==
  /\ reservation.disposition = "OPEN"
  /\ ~reservation.claim
  /\ DepositValid

StartTrip ==
  /\ GuardFree
  /\ reservation.status = "PRE_TRIP"
  /\ StartAuthority
  /\ Transitions("ACTIVE", FALSE)
  /\ UNCHANGED <<deposit, op, worker, outside, incidents>>

\* performEmergencyOverride: FORCE_START_TRIP, of a completed trip too.
ForceStart ==
  /\ GuardFree
  /\ reservation.status # "CANCELLED"
  /\ StartAuthority
  /\ Transitions("ACTIVE", FALSE)
  /\ UNCHANGED <<deposit, op, worker, outside, incidents>>

\* assertSettledReturnEvidence: no operation is under way or unresolved.
SettledEvidence ==
  /\ ~reservation.claim
  /\ \A k \in Kinds, g \in Gens :
       \/ op[k][g].state = "ABSENT"
       \/ op[k][g].state \in {"OBSERVED", "POLL"} /\ op[k][g].token = None

\* assertReturnFinancialAuthority.
ReturnAuthority ==
  /\ reservation.disposition \in {"OPEN", "TERMINATED"}
  /\ SettledEvidence

\* A return is inspected by both parties, which takes longer than a request that
\* has read its row before the start, also one that gives an expired
\* authorization back first.
NoAttemptOutlivesTrip ==
  \A w \in Workers : ~At(w, "idle") => ~At(w, "asking") /\ worker[w].asked = 0

\* tripCommand: complete.
CompleteTrip ==
  /\ GuardFree
  /\ NoAttemptOutlivesTrip
  /\ reservation.status = "ACTIVE"
  /\ ReturnAuthority
  /\ Transitions("COMPLETED", FALSE)
  /\ PlanAll
  /\ UNCHANGED <<deposit, worker, outside, incidents>>

\* performEmergencyOverride: FORCE_COMPLETE_TRIP, from any status and at any
\* moment, and without a plan to release.
ForceComplete ==
  /\ GuardFree
  /\ ReturnAuthority
  /\ Transitions("COMPLETED", reservation.status = "COMPLETED" => reservation.forced)
  /\ UNCHANGED <<deposit, op, worker, outside, incidents>>

\* createServiceCase for a claim or dispute: the review outlives it.
OpenClaim ==
  /\ GuardFree
  /\ incidents < MaxIncidents
  /\ ~reservation.claim
  /\ reservation' = [reservation EXCEPT !.claim = TRUE, !.disposition = "REVIEW"]
  /\ incidents' = incidents + 1
  /\ UNCHANGED <<deposit, op, worker, outside>>

CloseClaim ==
  /\ GuardFree
  /\ reservation.claim
  /\ reservation' = [reservation EXCEPT !.claim = FALSE]
  /\ UNCHANGED <<deposit, op, worker, outside, incidents>>

\* resolveFinancialCase: AUTHORIZE_SETTLEMENT of a verified case.  A trip that
\* never started and was completed all the same is settled by neither branch.
AuthorizeSettlement ==
  /\ GuardFree
  /\ reservation.disposition = "REVIEW"
  /\ ~reservation.claim
  /\ \/ /\ reservation.started /\ reservation.status \in {"ACTIVE", "COMPLETED"}
        /\ SettledEvidence
        /\ Ordains(reservation.status, "TERMINATED")
     \/ /\ ~reservation.started
        /\ reservation.status \in {"PRE_TRIP", "CANCELLED"}
        /\ ~InReview
        /\ Ordains(reservation.status, "REFUND_REQUIRED")
  /\ UNCHANGED <<deposit, op, worker, outside, incidents>>

-----------------------------------------------------------------------------
Attempt(w) == NewAttempt(w) \/ Resume(w) \/ AttemptRefused(w) \/ RenewalReleases(w)

Step(w) ==
  \/ Attempt(w) \/ Claim(w) \/ ClaimRefused(w)
  \/ Decide(w) \/ Look(w) \/ NotFound(w)
  \/ Dispatch(w) \/ DispatchRefused(w) \/ Accept(w) \/ Lost(w)
  \/ Record(w) \/ Save(w) \/ SaveRefused(w) \/ Fail(w)

Provider(g) == LateAccept(g) \/ Authenticate(g) \/ Elapse(g) \/ AutoCancel(g)

Reservation ==
  \/ RequireRefund \/ FullyRefunded \/ Cancel \/ StartTrip \/ CompleteTrip
  \/ ForceStart \/ ForceComplete
  \/ OpenClaim \/ CloseClaim \/ AuthorizeSettlement

Next ==
  \/ \E w \in Workers : Ask(w) \/ Step(w) \/ Crash(w)
  \/ \E w \in Workers, k \in Kinds, g \in Gens : Recover(w, k, g)
  \/ \E g \in Gens : Provider(g) \/ CanceledWebhook(g) \/ Compensate(g)
  \/ \E k \in Kinds, g \in Gens : Lapse(k, g)
  \/ Reservation

Spec == Init /\ [][Next]_vars

\* An execution goes on unless its process dies, leases run out, and the job of
\* each minute comes back to every operation that is due.
Fairness ==
  /\ \A w \in Workers : WF_vars(Step(w))
  /\ \A k \in Kinds, g \in Gens :
       WF_vars(Lapse(k, g)) /\ SF_vars(\E w \in Workers : Recover(w, k, g))

FairSpec == Spec /\ Fairness

-----------------------------------------------------------------------------
(* Properties.                                                             *)

TypeOK ==
  /\ reservation \in Reservations
  /\ deposit \in Deposits
  /\ op \in [Kinds -> [Gens -> Ops]]
  /\ worker \in [Workers -> Jobs \cup {Idle}]
  /\ intent \in [Gens -> IntentStatuses]
  /\ past \in [Gens -> BOOLEAN]
  /\ wire \in [Gens -> SUBSET Kinds]
  /\ incidents \in 0..MaxIncidents

\* The authorization an open reservation is waiting for or relies on.
Wanted(g) == /\ deposit.generation = g
             /\ reservation.disposition = "OPEN"
             /\ reservation.status \in {"PRE_TRIP", "ACTIVE"}

\* The release of g has begun, and nobody has seen its outcome.
ReleaseUnsettled(g) == op["DEPOSIT_RELEASE"][g].state \in {"READY", "RUNNING"}

\* A deposit that passes for valid, and lets the trip start, is held at the
\* provider: also when the provider has given it up and the app has not heard
\* of it (financial-projection.ts, deposit-authorization.ts l.36-37).  The one
\* exception is a completed trip that is forced back while the answer to its
\* release is missing: the start looks at the row and at the attempt, not at
\* the release (financial-locks.ts l.43-51, provider-execution-guard.ts l.103-
\* 115).
ValidMeansHeld ==
  \A g \in Gens :
    Wanted(g) /\ DepositValid =>
      \/ intent[g] = "requires_capture"
      \/ reservation.status = "ACTIVE" /\ ReleaseUnsettled(g)

\* However late an observation is saved, the row never goes back to an earlier
\* attempt, nor from an authorization that was given up to one that is held
\* (deposit-authorization.ts l.33-37).
RowNeverGoesBack ==
  [][/\ deposit'.intent >= deposit.intent
     /\ deposit'.intent = deposit.intent /\ deposit.stripeStatus = "canceled"
          => deposit'.stripeStatus = "canceled"]_vars

\* A trip completed by force may leave behind an attempt that had read its row
\* before; neither deposit-authorization.ts l.66 nor the authority to dispatch
\* looks at the completion.
Permitted(g) == /\ deposit.generation = g
                /\ reservation.disposition = "OPEN"
                /\ reservation.status # "CANCELLED"
                /\ reservation.status = "COMPLETED" => reservation.forced

\* No authorization comes about for a reservation that is terminated, under
\* review, cancelled or properly completed at that very moment, nor for an older
\* attempt: the guard keeps termination out of a call, and only a request that
\* was given up may still arrive later (provider-execution-guard.ts l.73 and
\* l.103-112).
AuthorizedWhileWanted ==
  [][\A g \in Gens : intent[g] = "none" /\ intent'[g] # "none"
                       => Permitted(g) \/ "DEPOSIT" \in wire[g]]_vars

\* A terminated reservation and a trip completed by its parties have a release
\* for every intent they ever learned of, also of one that became known after
\* the termination.  A completion by force plans none (deposit-authorization.ts
\* l.32, deposit-release-plan.ts l.14-18, emergency-override.ts l.83-95).
ReleasePlanned ==
  (\/ /\ reservation.status \in {"PRE_TRIP", "CANCELLED"}
      /\ reservation.disposition = "TERMINATED"
   \/ /\ reservation.status = "COMPLETED" /\ ~reservation.forced
      /\ reservation.disposition # "REVIEW")
  => \A g \in Gens : op["DEPOSIT"][g].identified =>
       op["DEPOSIT_RELEASE"][g].state # "ABSENT" \/ intent[g] = "canceled"

\* No request to release is made while a claim or dispute of a started trip is
\* open, however long ago the release was claimed (return-financial-authority
\* .ts l.43-49).
DisputedDepositKept ==
  [][reservation.claim /\ reservation.status \in {"ACTIVE", "COMPLETED"} =>
       \A w \in Workers :
         worker'[w].pc = "calling" /\ worker'[w].kind = "DEPOSIT_RELEASE" =>
           worker'[w] = worker[w]]_vars

\* In the hands of staff.
Reviewed == reservation.disposition = "REVIEW" \/ InReview

Unwanted(g) == intent[g] \in Live /\ ~Wanted(g)

\* Nothing releases the deposit of an open trip that was completed by force: it
\* is left to the bank's expiry.
LeftToExpire ==
  /\ reservation.status = "COMPLETED" /\ reservation.forced
  /\ reservation.disposition = "OPEN"

\* Authorizations that nobody wants are all given back in the end, by the app
\* or because they run out, unless staff have to decide or have completed the
\* trip by force (deposit-authorization.ts l.115-128, financial-workers.ts l.74-
\* 92).
EventuallyReleased ==
  (\E g \in Gens : Unwanted(g))
    ~> (\A g \in Gens : ~Unwanted(g)) \/ Reviewed \/ LeftToExpire

=============================================================================
