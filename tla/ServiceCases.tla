------------------------------ MODULE ServiceCases ------------------------------
(***************************************************************************)
(* Claims, disputes and incidents about the reservations of one vehicle:   *)
(* src/lib/service-cases.ts with case-decision-authority.ts.               *)
(*                                                                         *)
(* A claim or dispute puts its reservation under financial REVIEW.  That   *)
(* outlives the case: Trips has the separate settlement that ends it.  An  *)
(* incident may block the vehicle until it is closed and the vehicle was   *)
(* serviced.  Whoever decides a case must have no part in any case of the  *)
(* reservation.                                                            *)
(*                                                                         *)
(* Every action is one transaction under the lock of the reservation.  A   *)
(* command that was sent for an older version of the case is refused and   *)
(* changes nothing, so versions are left out; replies, internal notes,     *)
(* escalations and deadlines only add events and are left out as well.     *)
(* A file counts from its first transaction, whatever the scan says later. *)
(***************************************************************************)
EXTENDS Integers

CONSTANTS
  Reservations,  \* bookings of one vehicle for overlapping dates
  Cases,         \* bound: claims, disputes and incidents
  Concerns,      \* Concerns[c]: the reservation of case c
  KindsOf,       \* KindsOf[c]: the kinds case c may be of
  Agents,        \* claims agents
  SuperAdmins,
  Affiliates,    \* staff who work or once worked for the vehicle's host
  NoOne,
  MaxTurns       \* bound: appeals, files that staff add to a case, and emergency
                 \* overrides

Kinds == {"CLAIM", "DISPUTE", "INCIDENT"}
Parties == {"CUSTOMER", "HOST"}
Staff == Agents \cup SuperAdmins

ASSUME CaseAssumption ==
  /\ Concerns \in [Cases -> Reservations]
  /\ KindsOf \in [Cases -> SUBSET Kinds]
  /\ Affiliates \subseteq Staff
  /\ Parties \cap Staff = {} /\ NoOne \notin Staff
  /\ MaxTurns \in Nat

VARIABLES
  booking,    \* booking[r]: the row of reservation r, with its trip
  case,       \* case[c]: the ServiceCase row
  involved,   \* involved[r]: staff who opened or added to a case of r
  turns       \* how many of these there were

caseVars == <<booking, case, involved, turns>>

-----------------------------------------------------------------------------
\* PRE_TRIP stands for CONFIRMED up to READY_TO_START, CANCELLED also for
\* EXPIRED, FREE for a checkout that has not been paid.
Operational == {"ACTIVE", "RETURN_IN_PROGRESS", "DISPUTED", "UNDER_CLAIM_REVIEW"}
Statuses == {"FREE", "PRE_TRIP", "CANCELLED", "COMPLETED"} \cup Operational
Dispositions == {"OPEN", "REVIEW", "REFUND_REQUIRED", "TERMINATED"}

\* review is the financial case collaboration-review:<reservation>.
Bookings == [status : Statuses, disposition : Dispositions,
             started : BOOLEAN, ended : BOOLEAN,
             review : {"NONE", "OPEN", "VERIFIED", "RESOLVED"}]

\* UNDER_REVIEW stands for everything from EVIDENCE_SUBMITTED up to
\* RESPONSIBILITY_DECISION, RESPONSE_REQUESTED and UNDER_REVIEW, TRIAGED and
\* ASSISTANCE_COORDINATED; ANSWERED for ACCEPTED and DISPUTED; DECIDED for
\* RESOLVED as well.
States == {"REPORTED", "UNDER_REVIEW", "PROPOSED_SETTLEMENT", "ANSWERED", "DECIDED", "CLOSED"}

\* safety is BLOCKED while safetyBlock is set, CLEARED once the event of that
\* action is there.
ServiceCase == [kind : Kinds, state : States, assigned : Staff \cup {NoOne},
                appealed : SUBSET Parties, serviced : BOOLEAN,
                safety : {"NONE", "BLOCKED", "CLEARED"}]

Unopened == [kind |-> "NONE"]

caseStates(kind) ==
  CASE kind = "CLAIM" ->
         [REPORTED |-> "UNDER_REVIEW", UNDER_REVIEW |-> "PROPOSED_SETTLEMENT",
          PROPOSED_SETTLEMENT |-> "ANSWERED", ANSWERED |-> "DECIDED", DECIDED |-> "CLOSED"]
    [] OTHER ->
         [REPORTED |-> "UNDER_REVIEW", UNDER_REVIEW |-> "DECIDED", DECIDED |-> "CLOSED"]

CaseInit ==
  /\ booking = [r \in Reservations |->
       [status |-> "FREE", disposition |-> "OPEN", started |-> FALSE, ended |-> FALSE,
        review |-> "NONE"]]
  /\ case = [c \in Cases |-> Unopened]
  /\ involved = [r \in Reservations |-> {}]
  /\ turns = 0

-----------------------------------------------------------------------------
Opened(c) == case[c].kind # "NONE"
Financial(c) == case[c].kind \in {"CLAIM", "DISPUTE"}
Decided(c) == case[c].state \in {"DECIDED", "CLOSED"}

\* Claims and disputes that are not closed.
Outstanding(r) ==
  {c \in Cases : Concerns[c] = r /\ Financial(c) /\ case[c].state # "CLOSED"}

\* Blocks of the vehicle, whatever reservation they come from.
Blocked == \E c \in Cases : Opened(c) /\ case[c].safety = "BLOCKED"

\* independentCaseActor.
Independent(u, r) == u \in Staff /\ u \notin Affiliates /\ u \notin involved[r]

\* Mutated UnderReview: an appeal is about the case, not about the money.
UnderReviewOnce(r) ==
  IF booking[r].review = "NONE"
  THEN [booking[r] EXCEPT !.disposition = "REVIEW", !.review = "OPEN"]
  ELSE booking[r]

\* The reservation a claim or dispute is raised about, at first or on appeal.
UnderReview(r) == [booking[r] EXCEPT !.disposition = "REVIEW", !.review = "OPEN"]

Turn == turns < MaxTurns /\ turns' = turns + 1

Revise(c, new) == case' = [case EXCEPT ![c] = new]

-----------------------------------------------------------------------------
(* createServiceCase.                                                      *)

Open(c, by, kind) ==
  LET r == Concerns[c]
  IN  /\ ~Opened(c)
      /\ kind \in KindsOf[c]
      /\ booking[r].status # "FREE"
      /\ kind = "CLAIM" => by # "CUSTOMER" /\ booking[r].started
      /\ \E safety \in {"NONE", "BLOCKED"} :
           /\ safety = "BLOCKED" => kind = "INCIDENT"
           /\ Revise(c, [kind |-> kind, state |-> "REPORTED", assigned |-> NoOne,
                         appealed |-> {}, serviced |-> FALSE, safety |-> safety])
      /\ involved' = [involved EXCEPT ![r] = @ \cup ({by} \cap Staff)]
      /\ booking' = IF kind \in {"CLAIM", "DISPUTE"}
                    THEN [booking EXCEPT ![r] = UnderReview(r)]
                    ELSE booking
      /\ UNCHANGED turns

-----------------------------------------------------------------------------
(* caseCommand.                                                            *)

\* An agent is assigned once; both must be independent.
Assign(c, by, u) ==
  /\ Opened(c)
  /\ Independent(by, Concerns[c]) /\ Independent(u, Concerns[c])
  /\ case[c].assigned = NoOne
  /\ Revise(c, [case[c] EXCEPT !.assigned = u])
  /\ UNCHANGED <<booking, involved, turns>>

TakeOver(c, u) ==
  /\ Opened(c) /\ ~Decided(c)
  /\ u \in SuperAdmins /\ Independent(u, Concerns[c])
  /\ case[c].assigned # u
  /\ Revise(c, [case[c] EXCEPT !.assigned = u])
  /\ UNCHANGED <<booking, involved, turns>>

\* The exceptional decision of a super administrator.
Override(c, u) ==
  /\ Opened(c) /\ ~Decided(c) /\ Financial(c)
  /\ u \in SuperAdmins /\ Independent(u, Concerns[c])
  /\ case[c].assigned = u
  /\ Revise(c, [case[c] EXCEPT !.state = "DECIDED"])
  /\ UNCHANGED <<booking, involved, turns>>

\* A host submits the evidence of a claim, the customer answers a proposal.
PartyStep(c, by) ==
  /\ case[c].kind = "CLAIM"
  /\ \/ by = "HOST" /\ case[c].state = "REPORTED"
     \/ by = "CUSTOMER" /\ case[c].state = "PROPOSED_SETTLEMENT"

\* Mutated AgentStep: the independence was checked when the case was assigned.
AgentStepAsAssigned(c, by) ==
  /\ by \in Staff
  /\ case[c].assigned = by
  /\ ~(case[c].kind = "CLAIM" /\ case[c].state = "PROPOSED_SETTLEMENT")

AgentStep(c, by) ==
  /\ Independent(by, Concerns[c])
  /\ case[c].assigned = by
  /\ ~(case[c].kind = "CLAIM" /\ case[c].state = "PROPOSED_SETTLEMENT")

\* The financial review and the block of the vehicle stay as they are.
Transition(c, by) ==
  /\ Opened(c) /\ case[c].state # "CLOSED"
  /\ PartyStep(c, by) \/ AgentStep(c, by)
  /\ Revise(c, [case[c] EXCEPT !.state = caseStates(case[c].kind)[@]])
  /\ UNCHANGED <<booking, involved, turns>>

\* Each party may appeal once.
Appeal(c, by) ==
  LET r == Concerns[c]
  IN  /\ Opened(c) /\ Decided(c) /\ Financial(c)
      /\ by \notin case[c].appealed
      /\ Revise(c, [case[c] EXCEPT !.state = "UNDER_REVIEW", !.assigned = NoOne,
                                   !.appealed = @ \cup {by}])
      /\ booking' = [booking EXCEPT ![r] = UnderReview(r)]
      /\ Turn
      /\ UNCHANGED involved

SafetyClear(c, u) ==
  /\ case[c].kind = "INCIDENT" /\ case[c].safety = "BLOCKED"
  /\ case[c].state = "CLOSED" /\ case[c].serviced
  /\ Independent(u, Concerns[c])
  /\ case[c].assigned = u
  /\ Revise(c, [case[c] EXCEPT !.safety = "CLEARED"])
  /\ UNCHANGED <<booking, involved, turns>>

-----------------------------------------------------------------------------
(* Around the cases.                                                       *)

\* uploadCollaborationFile by staff: whoever adds evidence cannot decide.
Upload(c, u) ==
  /\ Opened(c) /\ ~Decided(c)
  /\ u \in Staff \ involved[Concerns[c]]
  /\ involved' = [involved EXCEPT ![Concerns[c]] = @ \cup {u}]
  /\ Turn
  /\ UNCHANGED <<booking, case>>

\* An inspection or repair is recorded, for the incidents so far.
Maintain ==
  /\ \E c \in Cases : Opened(c) /\ case[c].safety = "BLOCKED" /\ ~case[c].serviced
  /\ case' = [c \in Cases |->
       IF Opened(c) /\ case[c].safety = "BLOCKED" THEN [case[c] EXCEPT !.serviced = TRUE]
       ELSE case[c]]
  /\ UNCHANGED <<booking, involved, turns>>

CaseStep ==
  \/ \E c \in Cases, by \in Parties \cup Staff :
       \/ \E kind \in Kinds : Open(c, by, kind)
       \/ Transition(c, by)
  \/ \E c \in Cases, by \in Parties : Appeal(c, by)
  \/ \E c \in Cases, u \in Staff :
       \/ \E by \in Staff : Assign(c, by, u)
       \/ TakeOver(c, u) \/ Override(c, u) \/ SafetyClear(c, u) \/ Upload(c, u)
  \/ Maintain

-----------------------------------------------------------------------------
(* Properties.                                                             *)

CaseTypeOK ==
  /\ booking \in [Reservations -> Bookings]
  /\ case \in [Cases -> ServiceCase \cup {Unopened}]
  /\ involved \in [Reservations -> SUBSET Staff]
  /\ turns \in 0..MaxTurns

\* Nobody decides who works for the host, or opened or added to any case of
\* the reservation, also when that came after the assignment (case-decision-
\* authority.ts l.13-21).
IndependentDecision ==
  [][\A c \in Cases :
       /\ Opened(c) /\ ~Decided(c)
       /\ case'[c].state = "DECIDED"
       => case[c].assigned \notin Affiliates \cup involved[Concerns[c]]]_caseVars

=============================================================================
