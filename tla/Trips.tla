--------------------------------- MODULE Trips ---------------------------------
(***************************************************************************)
(* The trips of one vehicle, from the handover of the keys to the return:  *)
(* src/lib/trip-experience.ts, customer-reservation.ts, trip-gate.ts, the  *)
(* admin's return-review route and emergency-override.ts, on transition-   *)
(* Reservation, and composed with the claims, disputes and incidents of    *)
(* ServiceCases, with the part of financial-case-resolution.ts that        *)
(* settles them.                                                           *)
(*                                                                         *)
(* Every action is one transaction under the lock of the vehicle and the   *)
(* reservation.  A forced transition reads the status before it locks: if  *)
(* the status has changed by then the update fails and nothing happens.    *)
(* How a booking is paid, refunded and gets its deposit is the matter of   *)
(* Booking, RefundOperations and DepositAuthorizations; here one deposit   *)
(* is authorized at the confirmation and does not run out, and the app and *)
(* the provider may disagree about its release: a request to cancel it may *)
(* arrive late, and its answer may be lost.  The webhook that may tell the *)
(* row of it earlier is left to DepositAuthorizations.                     *)
(***************************************************************************)
EXTENDS ServiceCases

VARIABLES
  keys,       \* keys[r]: the keys were handed over
  returned,   \* returned[r]: what both accepted return reports say
  deposit,    \* deposit[r]: its row, and the release of it
  hold        \* hold[r]: the customer's money at the provider

tripVars == <<keys, returned, deposit, hold>>
vars == <<caseVars, tripVars>>

-----------------------------------------------------------------------------
\* The host and the customer each save and accept a report once; the inspection
\* is there with the second of them, damaged if one of them has damage notes.
Inspections == {"NONE", "CLEAN", "DAMAGED"}

\* The row: RELEASING passes for held with a release that is planned, QUARANTINED
\* with one that staff have to review.
Deposits == {"NONE", "HELD", "RELEASING", "QUARANTINED", "RELEASED"}
Held == {"HELD", "RELEASING", "QUARANTINED"}

\* Of an ASKED hold a request to cancel it was sent that may be under way still.
Holds == {"NONE", "KEPT", "ASKED", "CANCELED"}
Terminated == {"REFUND_REQUIRED", "TERMINATED"}

\* reservation_no_overlap_when_blocking.
Blocking == {"PRE_TRIP"} \cup Operational

Init ==
  /\ CaseInit
  /\ keys = [r \in Reservations |-> FALSE]
  /\ returned = [r \in Reservations |-> "NONE"]
  /\ deposit = [r \in Reservations |-> "NONE"]
  /\ hold = [r \in Reservations |-> "NONE"]

-----------------------------------------------------------------------------
Is(r, status) == booking[r].status = status

\* Mutated Free: a new booking looks for others, the database does not.
FreeWhenBooked(r) ==
  Is(r, "FREE") => \A q \in Reservations \ {r} : booking[q].status \notin Blocking

\* The database refuses a second blocking booking for the same dates.
Free(r) == \A q \in Reservations \ {r} : booking[q].status \notin Blocking

\* transitionReservation: under review or terminated, a booking cannot reopen.
StillOpen(r) == booking[r].disposition = "OPEN"

\* Mutated StartAuthority: the vehicle is safe if this booking's cases are.
StartAuthorityOwnCases(r) ==
  /\ Outstanding(r) = {}
  /\ ~\E c \in Cases : Opened(c) /\ Concerns[c] = r /\ case[c].safety = "BLOCKED"
  /\ StillOpen(r)
  /\ deposit[r] \in Held

\* assertFinancialTripStart.
StartAuthority(r) ==
  /\ Outstanding(r) = {}
  /\ ~Blocked
  /\ StillOpen(r)
  /\ deposit[r] \in Held

\* assertSettledReturnEvidence, but for the financial case.
Settled(r) == Outstanding(r) = {} /\ deposit[r] \notin {"RELEASING", "QUARANTINED"}

\* assertReturnFinancialAuthority.
ReturnAuthority(r) ==
  /\ Settled(r)
  /\ booking[r].review \in {"NONE", "RESOLVED"}
  /\ booking[r].disposition \in {"OPEN", "TERMINATED"}

\* assertNoUnresolvedFinancialReview.
ReviewClear(r) ==
  /\ Outstanding(r) = {}
  /\ booking[r].review \in {"NONE", "RESOLVED"}
  /\ booking[r].disposition # "REVIEW"
  /\ deposit[r] # "QUARANTINED"

Becomes(r, status) == booking' = [booking EXCEPT ![r].status = status]

\* planAllDepositReleases.
PlanRelease(r) ==
  deposit' = [deposit EXCEPT ![r] = IF @ = "HELD" THEN "RELEASING" ELSE @]

-----------------------------------------------------------------------------
(* Before the trip.                                                        *)

\* A booking is paid and confirmed: isVehicleAvailable, finalizeBooking.
Book(r) ==
  /\ Is(r, "FREE")
  /\ Free(r) /\ ~Blocked
  /\ Becomes(r, "PRE_TRIP")
  /\ deposit' = [deposit EXCEPT ![r] = "HELD"]
  /\ hold' = [hold EXCEPT ![r] = "KEPT"]
  /\ UNCHANGED <<case, involved, turns, keys, returned>>

\* evaluateTripStartGate.  Documents, agreement, identity and the pre-trip
\* reports may be complete at any time and are left out.
Gate(r) ==
  /\ Is(r, "PRE_TRIP")
  /\ ~Blocked
  /\ StillOpen(r)
  /\ deposit[r] \in Held

ReleaseKeys(r) ==
  /\ Gate(r)
  /\ keys' = [keys EXCEPT ![r] = TRUE]
  /\ UNCHANGED <<caseVars, returned, deposit, hold>>

\* startCustomerTrip: the whole chain of statuses.
Start(r) ==
  /\ Gate(r) /\ keys[r]
  /\ StartAuthority(r)
  /\ booking' = [booking EXCEPT ![r].status = "ACTIVE", ![r].started = TRUE]
  /\ UNCHANGED <<case, involved, turns, tripVars>>

\* transitionReservation to a cancelled status.
Cancel(r) ==
  /\ Is(r, "PRE_TRIP") /\ ~booking[r].started
  /\ ReviewClear(r)
  /\ booking' = [booking EXCEPT ![r].status = "CANCELLED", ![r].disposition = "TERMINATED"]
  /\ PlanRelease(r)
  /\ UNCHANGED <<case, involved, turns, keys, returned, hold>>

\* The refund of a settled pre-trip booking is complete.
FullyRefunded(r) ==
  /\ booking[r].status \in {"PRE_TRIP", "CANCELLED"} /\ ~booking[r].started
  /\ booking[r].disposition = "REFUND_REQUIRED"
  /\ booking' = [booking EXCEPT ![r].status = "CANCELLED", ![r].disposition = "TERMINATED"]
  /\ PlanRelease(r)
  /\ UNCHANGED <<case, involved, turns, keys, returned, hold>>

-----------------------------------------------------------------------------
(* The return: tripCommand and the return-review route.                    *)

BeginReturn(r) ==
  /\ Is(r, "ACTIVE") /\ StillOpen(r)
  /\ Becomes(r, "RETURN_IN_PROGRESS")
  /\ UNCHANGED <<case, involved, turns, tripVars>>

\* saveConditionReport and acceptConditionReport, up to the second report.
Inspect(r) ==
  /\ Is(r, "RETURN_IN_PROGRESS")
  /\ returned[r] = "NONE"
  /\ \E condition \in {"CLEAN", "DAMAGED"} :
       returned' = [returned EXCEPT ![r] = condition]
  /\ UNCHANGED <<caseVars, keys, deposit, hold>>

\* Damage puts the return in dispute and plans no release of the deposit.
Complete(r) ==
  /\ Is(r, "RETURN_IN_PROGRESS") /\ booking[r].started
  /\ returned[r] # "NONE"
  /\ ReturnAuthority(r)
  /\ IF returned[r] = "DAMAGED"
     THEN /\ StillOpen(r)
          /\ booking' = [booking EXCEPT ![r].status = "DISPUTED", ![r].ended = TRUE]
          /\ UNCHANGED deposit
     ELSE /\ booking' = [booking EXCEPT ![r].status = "COMPLETED", ![r].ended = TRUE]
          /\ PlanRelease(r)
  /\ UNCHANGED <<case, involved, turns, keys, returned, hold>>

ReviewReturn(r) ==
  /\ Is(r, "DISPUTED") /\ booking[r].ended
  /\ StillOpen(r)
  /\ Becomes(r, "UNDER_CLAIM_REVIEW")
  /\ UNCHANGED <<case, involved, turns, tripVars>>

CompleteNoCharge(r) ==
  /\ booking[r].status \in {"DISPUTED", "UNDER_CLAIM_REVIEW"} /\ booking[r].ended
  /\ ReturnAuthority(r)
  /\ Becomes(r, "COMPLETED")
  /\ PlanRelease(r)
  /\ UNCHANGED <<case, involved, turns, keys, returned, hold>>

-----------------------------------------------------------------------------
(* performEmergencyOverride: from any status, past the gate but not past   *)
(* the money, the cases or the dates.                                      *)

ForceStart(r) ==
  /\ booking[r].status \notin {"FREE", "CANCELLED"}
  /\ StartAuthority(r)
  /\ Free(r)
  /\ Turn
  /\ booking' = [booking EXCEPT ![r].status = "ACTIVE", ![r].started = TRUE]
  /\ UNCHANGED <<case, involved, tripVars>>

\* Mutated ForceComplete: ends a trip that there never was.
ForceCompleteEnds(r) ==
  /\ booking[r].status # "FREE"
  /\ ReturnAuthority(r)
  /\ Turn
  /\ booking' = [booking EXCEPT ![r].status = "COMPLETED", ![r].ended = TRUE]
  /\ UNCHANGED <<case, involved, tripVars>>

\* The end of the trip is set if there was a trip; no release is planned.
ForceComplete(r) ==
  /\ booking[r].status # "FREE"
  /\ ReturnAuthority(r)
  /\ Turn
  /\ booking' = [booking EXCEPT ![r].status = "COMPLETED", ![r].ended = booking[r].started]
  /\ UNCHANGED <<case, involved, tripVars>>

-----------------------------------------------------------------------------
(* resolveFinancialCase for the review of a claim or dispute.              *)

\* ADOPT: the payment is verified at the provider.
Verify(r) ==
  /\ booking[r].review = "OPEN"
  /\ booking' = [booking EXCEPT ![r].review = "VERIFIED"]
  /\ UNCHANGED <<case, involved, turns, tripVars>>

Settles(r, disposition) ==
  booking' = [booking EXCEPT ![r].disposition = disposition, ![r].review = "RESOLVED"]

\* AUTHORIZE_SETTLEMENT: without a charge when the trip is being or has been
\* returned, with a refund when there was no trip.
AuthorizeSettlement(r) ==
  /\ booking[r].review = "VERIFIED"
  /\ \/ /\ booking[r].started
        /\ booking[r].status \in (Operational \ {"ACTIVE"}) \cup {"COMPLETED"}
        /\ Settled(r)
        /\ Settles(r, "TERMINATED")
     \/ /\ ~booking[r].started
        /\ booking[r].status \in {"PRE_TRIP", "CANCELLED"}
        /\ Outstanding(r) = {} /\ deposit[r] # "QUARANTINED"
        /\ Settles(r, "REFUND_REQUIRED")
  /\ UNCHANGED <<case, involved, turns, tripVars>>

-----------------------------------------------------------------------------
(* The release of the deposit.                                             *)

\* syncDepositIntent and releaseDeposits for a terminated booking.
PlanTerminated(r) ==
  /\ deposit[r] = "HELD"
  /\ booking[r].disposition \in Terminated
  /\ PlanRelease(r)
  /\ UNCHANGED <<caseVars, keys, returned, hold>>

\* assertDepositReleaseReviewClear: until then the release waits.
ReleaseDue(r) ==
  /\ deposit[r] = "RELEASING"
  /\ booking[r].started \/ booking[r].status \in Operational \cup {"COMPLETED"} => ReviewClear(r)

\* The provider is asked to cancel only what it still holds.
Dispatchable(r) == ReleaseDue(r) /\ hold[r] # "CANCELED"

\* Mutated ReleaseAuthority: it was there when the release was planned.
ReleaseAuthorityPlanned(r) == TRUE

\* assertDispatchAuthority.
ReleaseAuthority(r) ==
  \/ booking[r].status \in {"COMPLETED", "CANCELLED"}
  \/ booking[r].disposition \in Terminated

SendRelease(r) ==
  /\ Dispatchable(r) /\ ReleaseAuthority(r)
  /\ hold' = [hold EXCEPT ![r] = "ASKED"]
  /\ UNCHANGED <<caseVars, keys, returned, deposit>>

\* No authority at the dispatch is an uncertain outcome: quarantineOperation.
ReleaseRefused(r) ==
  /\ Dispatchable(r) /\ ~ReleaseAuthority(r)
  /\ deposit' = [deposit EXCEPT ![r] = "QUARANTINED"]
  /\ booking' = [booking EXCEPT ![r].disposition = "REVIEW"]
  /\ UNCHANGED <<case, involved, turns, keys, returned, hold>>

\* The request arrives: at once, or long after the app has given it up.
CancelHold(r) ==
  /\ hold[r] = "ASKED"
  /\ hold' = [hold EXCEPT ![r] = "CANCELED"]
  /\ UNCHANGED <<caseVars, keys, returned, deposit>>

\* The answer is saved, or a later execution reads that it was canceled.
SaveRelease(r) ==
  /\ ReleaseDue(r) /\ hold[r] = "CANCELED"
  /\ deposit' = [deposit EXCEPT ![r] = "RELEASED"]
  /\ UNCHANGED <<caseVars, keys, returned, hold>>

-----------------------------------------------------------------------------
TripStep ==
  \E r \in Reservations :
    \/ Book(r) \/ ReleaseKeys(r) \/ Start(r)
    \/ Cancel(r) \/ FullyRefunded(r)
    \/ BeginReturn(r) \/ Inspect(r) \/ Complete(r) \/ ReviewReturn(r) \/ CompleteNoCharge(r)
    \/ ForceStart(r) \/ ForceComplete(r)
    \/ Verify(r) \/ AuthorizeSettlement(r)
    \/ PlanTerminated(r) \/ SendRelease(r) \/ ReleaseRefused(r)
    \/ CancelHold(r) \/ SaveRelease(r)

Next == TripStep \/ (CaseStep /\ UNCHANGED tripVars)

Spec == Init /\ [][Next]_vars

-----------------------------------------------------------------------------
(* Properties.                                                             *)

TypeOK ==
  /\ CaseTypeOK
  /\ \A r \in Reservations : booking[r].ended => booking[r].started
  /\ keys \in [Reservations -> BOOLEAN]
  /\ returned \in [Reservations -> Inspections]
  /\ deposit \in [Reservations -> Deposits]
  /\ hold \in [Reservations -> Holds]

\* While a claim or dispute is open its reservation stays under review, also
\* after an appeal against a case whose money was settled long ago: no
\* cancellation, completion or settlement gets past it (service-cases.ts l.63-
\* 64 and l.178-180, financial-case-resolution.ts l.121-123).
OutstandingMeansReview ==
  \A r \in Reservations :
    Outstanding(r) # {} => booking[r].disposition = "REVIEW" /\ booking[r].review \in {"OPEN", "VERIFIED"}

\* No trip gives up its deposit while it is under way, also not one that was
\* completed and forced back before its release was sent: the money it has can
\* only be lost by a request sent after an earlier return and before the forced
\* start (provider-execution-guard.ts l.71, financial-locks.ts l.48-50).
TripKeepsDeposit ==
  [][\A r \in Reservations :
       booking'[r].status = "ACTIVE" /\ hold'[r] # "KEPT" =>
         hold[r] # "KEPT" /\ booking[r].ended]_vars

\* However a completed trip is brought back, two bookings never have the
\* vehicle at the same dates (emergency-override.ts l.79-84, the exclusion
\* constraint of 20260916190000_payment_deposit_refund_consistency).
DatesExclusive ==
  \A q, r \in Reservations :
    booking[q].status \in Blocking /\ booking[r].status \in Blocking => q = r

\* No trip starts, by force or not, on a vehicle that an incident of whatever
\* booking took off the road, until that incident is closed and an inspection
\* or repair has followed it (financial-locks.ts l.47, service-cases.ts l.124-
\* 127).
SafeToDrive ==
  [][\A r \in Reservations :
       ~Is(r, "ACTIVE") /\ booking'[r].status = "ACTIVE" =>
         \A c \in Cases :
           Opened(c) /\ case[c].safety # "NONE" => case[c].state = "CLOSED" /\ case[c].serviced]_vars

=============================================================================
