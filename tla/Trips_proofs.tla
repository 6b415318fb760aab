----------------------------- MODULE Trips_proofs -----------------------------
(***************************************************************************)
(* Theorems of Trips and ServiceCases, for every number of bookings,       *)
(* cases, agents and forced transitions.                                   *)
(*                                                                         *)
(* A trip step changes one booking with its deposit (RowStep), a case step *)
(* changes cases and at most puts their booking under review (CaseChange). *)
(* The inductive invariant is soundness of every row and case, and the     *)
(* exclusive dates, which only a step that takes them can disturb.         *)
(***************************************************************************)
EXTENDS Trips, TLAPS

-----------------------------------------------------------------------------
\* Only claims are proposed and answered, only incidents block, and a block is
\* lifted only once the incident is closed and the vehicle was serviced.
CaseSound(k) ==
  k.kind # "NONE" =>
    /\ k.kind # "CLAIM" => k.state \notin {"PROPOSED_SETTLEMENT", "ANSWERED"}
    /\ k.safety # "NONE" => k.kind = "INCIDENT"
    /\ k.safety = "CLEARED" => k.state = "CLOSED" /\ k.serviced

CasesSound == \A c \in Cases : CaseSound(case[c])

\* A booking b with deposit d and hold h; outstanding says whether it has an open
\* claim or dispute.  Without a planned release nobody asks for the hold, and an
\* open booking has one only after a return.
RowSound(b, d, h, outstanding) ==
  /\ b \in Bookings
  /\ d \in Deposits /\ h \in Holds
  /\ b.ended => b.started
  /\ d = "HELD" => h = "KEPT"
  /\ b.disposition = "OPEN" /\ d \notin {"NONE", "HELD"} => b.ended
  /\ b.status = "ACTIVE" =>
       /\ b.started /\ b.disposition \in {"OPEN", "REVIEW"}
       /\ h = "KEPT" \/ b.ended
  /\ outstanding => b.disposition = "REVIEW" /\ b.review \in {"OPEN", "VERIFIED"}

RowsSound == \A r \in Reservations : RowSound(booking[r], deposit[r], hold[r], Outstanding(r) # {})

\* The inductive invariant.
IInv ==
  /\ TypeOK
  /\ CasesSound
  /\ RowsSound
  /\ DatesExclusive

USE CaseAssumption

-----------------------------------------------------------------------------
(* Trip steps.                                                             *)

\* The step takes no hold from a trip under way.
Keeps(r) ==
  booking'[r].status = "ACTIVE" /\ hold'[r] # "KEPT" => hold[r] # "KEPT" /\ booking[r].ended

RowStep(r) ==
  /\ booking' = [booking EXCEPT ![r] = booking'[r]]
  /\ deposit' = [deposit EXCEPT ![r] = deposit'[r]]
  /\ hold' = [hold EXCEPT ![r] = hold'[r]]
  /\ RowSound(booking'[r], deposit'[r], hold'[r], Outstanding(r) # {})
  /\ Keeps(r)
  /\ booking'[r].status \in Blocking => booking[r].status \in Blocking \/ Free(r)
  /\ UNCHANGED <<case, involved>>
  /\ turns' \in 0..MaxTurns
  /\ keys' \in [Reservations -> BOOLEAN]
  /\ returned' \in [Reservations -> Inspections]

LEMMA Types ==
  ASSUME IInv
  PROVE  /\ booking \in [Reservations -> Bookings]
         /\ case \in [Cases -> ServiceCase \cup {Unopened}]
         /\ involved \in [Reservations -> SUBSET Staff]
         /\ turns \in 0..MaxTurns
         /\ keys \in [Reservations -> BOOLEAN]
         /\ returned \in [Reservations -> Inspections]
         /\ deposit \in [Reservations -> Deposits]
         /\ hold \in [Reservations -> Holds]
  BY DEF IInv, TypeOK, CaseTypeOK

\* What planAllDepositReleases leaves.
LEMMA PlannedRelease ==
  ASSUME IInv, NEW r \in Reservations, PlanRelease(r)
  PROVE  /\ deposit' = [deposit EXCEPT ![r] = deposit'[r]]
         /\ deposit'[r] \in Deposits
         /\ deposit[r] \in Held => deposit'[r] \in Held
         /\ deposit'[r] # "HELD"
         /\ deposit'[r] = "NONE" <=> deposit[r] = "NONE"
  BY Types DEF PlanRelease, Deposits, Held

LEMMA Turned ==
  ASSUME IInv, Turn
  PROVE  turns' \in 0..MaxTurns
  BY Types DEF Turn

\* The row after its return.
LEMMA CompletedRow ==
  ASSUME IInv, NEW r \in Reservations, NEW ended \in BOOLEAN,
         booking'[r] = [booking[r] EXCEPT !.status = "COMPLETED", !.ended = ended]
  PROVE  /\ booking'[r] \in Bookings
         /\ booking'[r].status = "COMPLETED" /\ booking'[r].ended = ended
         /\ booking'[r].started = booking[r].started
         /\ booking'[r].disposition = booking[r].disposition
         /\ booking'[r].review = booking[r].review
<1>1. PICK b \in Bookings : b = booking[r]
  BY Types
<1>2. "COMPLETED" \in Statuses
  BY DEF Statuses
<1>3. PICK n : n = [b EXCEPT !.status = "COMPLETED", !.ended = ended]
  OBVIOUS
<1>4. /\ n \in Bookings
      /\ n.status = "COMPLETED" /\ n.ended = ended /\ n.started = b.started
      /\ n.disposition = b.disposition /\ n.review = b.review
  BY <1>2, <1>3 DEF Bookings
<1> QED
  BY <1>1, <1>3, <1>4

LEMMA BeforeTrip ==
  ASSUME IInv, NEW r \in Reservations,
         Book(r) \/ ReleaseKeys(r) \/ Start(r) \/ Cancel(r) \/ FullyRefunded(r)
  PROVE  RowStep(r)
<1> USE Types DEF RowStep, Keeps
<1>0. RowSound(booking[r], deposit[r], hold[r], Outstanding(r) # {})
  BY DEF IInv, RowsSound
<1>1. CASE Book(r)
  BY <1>0, <1>1 DEF Book, Is, Becomes, RowSound, Bookings, Statuses, Operational, Deposits,
     Holds, Free
<1>2. CASE ReleaseKeys(r)
  BY <1>0, <1>2 DEF ReleaseKeys, RowSound, caseVars
<1>3. CASE Start(r)
  BY <1>0, <1>3 DEF Start, Gate, Is, StartAuthority, StillOpen, Held, RowSound, Bookings,
     Statuses, Operational, tripVars, Blocking
<1>4. CASE Cancel(r)
  BY <1>0, <1>4, PlannedRelease DEF Cancel, ReviewClear, Is, RowSound, Bookings, Statuses,
     Operational, Dispositions, Blocking
<1>5. CASE FullyRefunded(r)
  BY <1>0, <1>5, PlannedRelease DEF FullyRefunded, RowSound, Bookings, Statuses, Operational,
     Dispositions, Blocking
<1> QED
  BY <1>1, <1>2, <1>3, <1>4, <1>5

LEMMA DuringReturn ==
  ASSUME IInv, NEW r \in Reservations,
         BeginReturn(r) \/ Inspect(r) \/ Complete(r) \/ ReviewReturn(r) \/ CompleteNoCharge(r)
  PROVE  RowStep(r)
<1> USE Types DEF RowStep, Keeps
<1>0. RowSound(booking[r], deposit[r], hold[r], Outstanding(r) # {})
  BY DEF IInv, RowsSound
<1>1. CASE BeginReturn(r)
  BY <1>0, <1>1 DEF BeginReturn, Is, StillOpen, Becomes, RowSound, Bookings, Statuses,
     Operational, tripVars, Blocking
<1>2. CASE Inspect(r)
  BY <1>0, <1>2 DEF Inspect, Inspections, RowSound, caseVars
<1>3. CASE Complete(r)
  <2>1. CASE returned[r] = "DAMAGED"
    BY <1>0, <1>3, <2>1 DEF Complete, Is, StillOpen, RowSound, Bookings, Statuses,
       Operational, Blocking
  <2>2. CASE returned[r] # "DAMAGED"
    <3>1. /\ booking' = [booking EXCEPT ![r] = booking'[r]]
          /\ booking'[r] = [booking[r] EXCEPT !.status = "COMPLETED", !.ended = TRUE]
      BY <1>3, <2>2 DEF Complete
    <3>2. /\ booking'[r] \in Bookings
          /\ booking'[r].status = "COMPLETED" /\ booking'[r].ended
          /\ booking'[r].started = booking[r].started
          /\ booking'[r].disposition = booking[r].disposition
          /\ booking'[r].review = booking[r].review
      BY <3>1, CompletedRow
    <3>3. booking[r].started /\ PlanRelease(r) /\ UNCHANGED <<case, involved, turns, keys, returned, hold>>
      BY <1>3, <2>2 DEF Complete
    <3>4. RowSound(booking'[r], deposit'[r], hold[r], Outstanding(r) # {})
      BY <1>0, <3>1, <3>2, <3>3, PlannedRelease DEF RowSound
    <3> QED
      BY <3>1, <3>2, <3>3, <3>4, PlannedRelease DEF Blocking, Operational
  <2> QED
    BY <2>1, <2>2
<1>4. CASE ReviewReturn(r)
  BY <1>0, <1>4 DEF ReviewReturn, Is, Becomes, RowSound, Bookings, Statuses, Operational,
     tripVars, Blocking
<1>5. CASE CompleteNoCharge(r)
  BY <1>0, <1>5, PlannedRelease DEF CompleteNoCharge, Becomes, RowSound, Bookings, Statuses,
     Operational, Blocking
<1> QED
  BY <1>1, <1>2, <1>3, <1>4, <1>5

LEMMA Forced ==
  ASSUME IInv, NEW r \in Reservations, ForceStart(r) \/ ForceComplete(r)
  PROVE  RowStep(r)
<1> USE Types, Turned DEF RowStep, Keeps
<1>0. RowSound(booking[r], deposit[r], hold[r], Outstanding(r) # {})
  BY DEF IInv, RowsSound
<1>1. CASE ForceStart(r)
  BY <1>0, <1>1 DEF ForceStart, StartAuthority, StillOpen, Held, RowSound, Bookings, Statuses,
     Operational, tripVars
<1>2. CASE ForceComplete(r)
  <2>1. /\ booking' = [booking EXCEPT ![r] = booking'[r]]
        /\ booking'[r] = [booking[r] EXCEPT !.status = "COMPLETED", !.ended = booking[r].started]
    BY <1>2 DEF ForceComplete
  <2>2. /\ booking'[r] \in Bookings
        /\ booking'[r].status = "COMPLETED" /\ booking'[r].ended = booking[r].started
        /\ booking'[r].started = booking[r].started
        /\ booking'[r].disposition = booking[r].disposition
        /\ booking'[r].review = booking[r].review
    <3>1. booking[r].started \in BOOLEAN
      BY DEF Bookings
    <3> QED
      BY <2>1, <3>1, CompletedRow
  <2>3. RowSound(booking'[r], deposit[r], hold[r], Outstanding(r) # {})
    BY <1>0, <2>1, <2>2 DEF RowSound
  <2> QED
    BY <1>2, <2>1, <2>2, <2>3 DEF ForceComplete, tripVars, Blocking, Operational
<1> QED
  BY <1>1, <1>2

LEMMA Settlement ==
  ASSUME IInv, NEW r \in Reservations,
         \/ Verify(r) \/ AuthorizeSettlement(r) \/ PlanTerminated(r)
         \/ SendRelease(r) \/ ReleaseRefused(r)
         \/ CancelHold(r) \/ SaveRelease(r)
  PROVE  RowStep(r)
<1> USE Types DEF RowStep, Keeps
<1>0. RowSound(booking[r], deposit[r], hold[r], Outstanding(r) # {})
  BY DEF IInv, RowsSound
<1>1. CASE Verify(r)
  BY <1>0, <1>1 DEF Verify, RowSound, Bookings, tripVars
<1>2. CASE AuthorizeSettlement(r)
  BY <1>0, <1>2 DEF AuthorizeSettlement, Settles, Settled, RowSound, Bookings, Dispositions,
     Operational, tripVars
<1>3. CASE PlanTerminated(r)
  BY <1>0, <1>3, PlannedRelease DEF PlanTerminated, Terminated, RowSound, caseVars
<1>4. CASE SendRelease(r)
  BY <1>0, <1>4 DEF SendRelease, Dispatchable, ReleaseDue, ReleaseAuthority, Terminated,
     RowSound, Holds, caseVars
<1>5. CASE ReleaseRefused(r)
  BY <1>0, <1>5 DEF ReleaseRefused, Dispatchable, ReleaseDue, ReleaseAuthority, RowSound,
     Bookings, Dispositions, Deposits
<1>6. CASE CancelHold(r)
  BY <1>0, <1>6 DEF CancelHold, RowSound, Holds, caseVars
<1>7. CASE SaveRelease(r)
  BY <1>0, <1>7 DEF SaveRelease, ReleaseDue, RowSound, Deposits, caseVars
<1> QED
  BY <1>1, <1>2, <1>3, <1>4, <1>5, <1>6, <1>7

LEMMA TripStepRow ==
  ASSUME IInv, TripStep
  PROVE  \E r \in Reservations : RowStep(r)
  BY BeforeTrip, DuringReturn, Forced, Settlement DEF TripStep

LEMMA TripStepInv ==
  ASSUME IInv, TripStep
  PROVE  IInv'
<1>1. PICK r \in Reservations : RowStep(r)
  BY TripStepRow
<1>2. \A q \in Reservations : Outstanding(q)' = Outstanding(q)
  BY <1>1 DEF RowStep, Outstanding, Financial
<1>3. RowsSound'
  BY <1>1, <1>2, Types DEF RowStep, RowsSound, IInv
<1>4. TypeOK'
  BY <1>1, <1>3, Types DEF RowStep, RowsSound, RowSound, TypeOK, CaseTypeOK
<1>5. CasesSound'
  BY <1>1 DEF RowStep, CasesSound, IInv
<1>6. DatesExclusive'
  BY <1>1, Types DEF RowStep, DatesExclusive, Free, IInv
<1> QED
  BY <1>3, <1>4, <1>5, <1>6 DEF IInv

-----------------------------------------------------------------------------
(* Case steps.                                                             *)

\* The rows change at most by going under review, and the claims and disputes
\* that are open become more only with them.
CaseChange ==
  /\ case' \in [Cases -> ServiceCase \cup {Unopened}]
  /\ CasesSound'
  /\ \A r \in Reservations :
       \/ booking'[r] = booking[r] /\ Outstanding(r)' \subseteq Outstanding(r)
       \/ booking'[r] = UnderReview(r)
  /\ booking' \in [Reservations -> Bookings]
  /\ involved' \in [Reservations -> SUBSET Staff]
  /\ turns' \in 0..MaxTurns

\* The step of a command that only revises one case, which stays sound, of its
\* kind, and closed if it was.
RevisesOne(c) ==
  /\ Opened(c)
  /\ case' = [case EXCEPT ![c] = case'[c]]
  /\ case'[c] \in ServiceCase
  /\ CaseSound(case'[c])
  /\ case'[c].kind = case[c].kind
  /\ case[c].state = "CLOSED" => case'[c].state = "CLOSED"
  /\ UNCHANGED <<booking, involved, turns>>

LEMMA OpenedCase ==
  ASSUME IInv, NEW c \in Cases, Opened(c)
  PROVE  case[c] \in ServiceCase /\ CaseSound(case[c])
  BY Types DEF Opened, Unopened, IInv, CasesSound

LEMMA Revised ==
  ASSUME IInv, NEW c \in Cases, RevisesOne(c)
  PROVE  CaseChange
<1>1. case' \in [Cases -> ServiceCase \cup {Unopened}]
  BY Types DEF RevisesOne
<1>2. CasesSound'
  BY Types DEF RevisesOne, IInv, CasesSound
<1>3. \A r \in Reservations : Outstanding(r)' \subseteq Outstanding(r)
  BY Types DEF RevisesOne, Outstanding, Financial
<1> QED
  BY <1>1, <1>2, <1>3, Types DEF RevisesOne, CaseChange

\* What a Transition leads to.
LEMMA NextState ==
  ASSUME NEW k \in ServiceCase, CaseSound(k), k.state # "CLOSED"
  PROVE  /\ caseStates(k.kind)[k.state] \in States
         /\ k.kind # "CLAIM" =>
              caseStates(k.kind)[k.state] \notin {"PROPOSED_SETTLEMENT", "ANSWERED"}
<1>1. CASE k.kind = "CLAIM"
  BY <1>1 DEF caseStates, States, ServiceCase
<1>2. CASE k.kind # "CLAIM"
  BY <1>2 DEF caseStates, States, ServiceCase, CaseSound, Kinds
<1> QED
  BY <1>1, <1>2

LEMMA Commands ==
  ASSUME IInv, NEW c \in Cases, NEW u \in Staff,
         \/ \E by \in Staff : Assign(c, by, u)
         \/ TakeOver(c, u) \/ Override(c, u) \/ SafetyClear(c, u)
  PROVE  RevisesOne(c)
<1> USE Types DEF RevisesOne, Revise
<1>0. Opened(c) => case[c] \in ServiceCase /\ CaseSound(case[c])
  BY OpenedCase
<1>1. CASE \E by \in Staff : Assign(c, by, u)
  BY <1>0, <1>1 DEF Assign, ServiceCase, CaseSound
<1>2. CASE TakeOver(c, u)
  BY <1>0, <1>2 DEF TakeOver, ServiceCase, CaseSound
<1>3. CASE Override(c, u)
  BY <1>0, <1>3 DEF Override, Decided, Financial, ServiceCase, CaseSound, States
<1>4. CASE SafetyClear(c, u)
  BY <1>0, <1>4 DEF SafetyClear, Opened, ServiceCase, CaseSound
<1> QED
  BY <1>1, <1>2, <1>3, <1>4

LEMMA Advancing ==
  ASSUME IInv, NEW c \in Cases, NEW by \in Parties \cup Staff, Transition(c, by)
  PROVE  RevisesOne(c)
  BY OpenedCase, NextState, Types DEF Transition, Revise, RevisesOne, ServiceCase, CaseSound

LEMMA ReviewRow ==
  ASSUME IInv, NEW r \in Reservations
  PROVE  /\ UnderReview(r) \in Bookings
         /\ UnderReview(r).disposition = "REVIEW" /\ UnderReview(r).review = "OPEN"
         /\ UnderReview(r).status = booking[r].status
         /\ UnderReview(r).started = booking[r].started
         /\ UnderReview(r).ended = booking[r].ended
<1>1. booking[r] \in Bookings
  BY Types
<1>2. ASSUME NEW b \in Bookings
      PROVE  LET n == [b EXCEPT !.disposition = "REVIEW", !.review = "OPEN"]
             IN  /\ n \in Bookings
                 /\ n.disposition = "REVIEW" /\ n.review = "OPEN"
                 /\ n.status = b.status /\ n.started = b.started /\ n.ended = b.ended
  BY DEF Bookings, Dispositions
<1> QED
  BY <1>1, <1>2 DEF UnderReview

LEMMA Opening ==
  ASSUME IInv, NEW c \in Cases, NEW by \in Parties \cup Staff, NEW kind \in Kinds,
         Open(c, by, kind)
  PROVE  CaseChange
<1> DEFINE r == Concerns[c]
<1>0. r \in Reservations
  OBVIOUS
<1>1. case'[c] \in ServiceCase /\ CaseSound(case'[c]) /\ case'[c].kind = kind
  BY Types DEF Open, Revise, ServiceCase, States, CaseSound
<1>2. case' = [case EXCEPT ![c] = case'[c]]
  BY Types DEF Open, Revise
<1>3. case' \in [Cases -> ServiceCase \cup {Unopened}] /\ CasesSound'
  BY <1>1, <1>2, Types DEF IInv, CasesSound
<1>4. \A q \in Reservations : q # r => Outstanding(q)' \subseteq Outstanding(q)
  BY <1>2, Types DEF Outstanding, Financial
<1>5. CASE kind \in {"CLAIM", "DISPUTE"}
  <2>1. booking' = [booking EXCEPT ![r] = UnderReview(r)]
    BY <1>5 DEF Open
  <2> QED
    BY <1>0, <1>3, <1>4, <2>1, ReviewRow, Types DEF Open, CaseChange
<1>6. CASE kind \notin {"CLAIM", "DISPUTE"}
  <2>1. Outstanding(r)' \subseteq Outstanding(r)
    BY <1>1, <1>2, <1>6, Types DEF Outstanding, Financial
  <2> QED
    BY <1>0, <1>3, <1>4, <1>6, <2>1, Types DEF Open, CaseChange
<1> QED
  BY <1>5, <1>6

LEMMA Appealing ==
  ASSUME IInv, NEW c \in Cases, NEW by \in Parties, Appeal(c, by)
  PROVE  CaseChange
<1> DEFINE r == Concerns[c]
<1>0. r \in Reservations
  OBVIOUS
<1>1. case[c] \in ServiceCase /\ CaseSound(case[c])
  BY OpenedCase DEF Appeal
<1>2. case' = [case EXCEPT ![c] = case'[c]]
  BY Types DEF Appeal, Revise
<1>3. case'[c] \in ServiceCase /\ CaseSound(case'[c])
  BY <1>1, Types DEF Appeal, Revise, Financial, ServiceCase, States, CaseSound
<1>4. case' \in [Cases -> ServiceCase \cup {Unopened}] /\ CasesSound'
  BY <1>2, <1>3, Types DEF IInv, CasesSound
<1>5. \A q \in Reservations : q # r => Outstanding(q)' \subseteq Outstanding(q)
  BY <1>2, Types DEF Outstanding, Financial
<1>6. booking' = [booking EXCEPT ![r] = UnderReview(r)]
  BY DEF Appeal
<1>7. turns' \in 0..MaxTurns
  BY Turned DEF Appeal
<1> QED
  BY <1>0, <1>4, <1>5, <1>6, <1>7, ReviewRow, Types DEF Appeal, CaseChange

LEMMA Uploading ==
  ASSUME IInv, NEW c \in Cases, NEW u \in Staff, Upload(c, u)
  PROVE  CaseChange
<1>1. turns' \in 0..MaxTurns
  BY Turned DEF Upload
<1>2. \A r \in Reservations : Outstanding(r)' = Outstanding(r)
  BY DEF Upload, Outstanding, Financial
<1> QED
  BY <1>1, <1>2, Types DEF Upload, CaseChange, IInv, CasesSound

LEMMA Maintaining ==
  ASSUME IInv, Maintain
  PROVE  CaseChange
<1>1. \A c \in Cases : /\ case'[c] \in ServiceCase \cup {Unopened}
                       /\ CaseSound(case'[c])
                       /\ case'[c].kind = case[c].kind
                       /\ Opened(c) => case'[c].state = case[c].state
  <2> SUFFICES ASSUME NEW c \in Cases
               PROVE  /\ case'[c] \in ServiceCase \cup {Unopened}
                      /\ CaseSound(case'[c])
                      /\ case'[c].kind = case[c].kind
                      /\ Opened(c) => case'[c].state = case[c].state
    OBVIOUS
  <2>1. CASE Opened(c) /\ case[c].safety = "BLOCKED"
    <3>1. case'[c] = [case[c] EXCEPT !.serviced = TRUE]
      BY <2>1 DEF Maintain
    <3> QED
      BY <2>1, <3>1, OpenedCase DEF ServiceCase, CaseSound
  <2>2. CASE ~(Opened(c) /\ case[c].safety = "BLOCKED")
    <3>1. case'[c] = case[c]
      BY <2>2 DEF Maintain
    <3> QED
      BY <3>1, Types DEF IInv, CasesSound
  <2> QED
    BY <2>1, <2>2
<1>2. case' \in [Cases -> ServiceCase \cup {Unopened}]
  BY <1>1 DEF Maintain
<1>3. \A r \in Reservations : Outstanding(r)' \subseteq Outstanding(r)
  BY <1>1 DEF Outstanding, Financial, Opened
<1> QED
  BY <1>1, <1>2, <1>3, Types DEF Maintain, CaseChange, CasesSound

LEMMA CaseStepChange ==
  ASSUME IInv, CaseStep
  PROVE  CaseChange
<1>1. ASSUME NEW c \in Cases, NEW by \in Parties \cup Staff,
             (\E kind \in Kinds : Open(c, by, kind)) \/ Transition(c, by)
      PROVE  CaseChange
  BY <1>1, Opening, Advancing, Revised
<1>2. ASSUME NEW c \in Cases, NEW by \in Parties, Appeal(c, by)
      PROVE  CaseChange
  BY <1>2, Appealing
<1>3. ASSUME NEW c \in Cases, NEW u \in Staff,
             \/ \E by \in Staff : Assign(c, by, u)
             \/ TakeOver(c, u) \/ Override(c, u) \/ SafetyClear(c, u) \/ Upload(c, u)
      PROVE  CaseChange
  BY <1>3, Commands, Revised, Uploading
<1> QED
  BY <1>1, <1>2, <1>3, Maintaining DEF CaseStep

LEMMA CaseStepInv ==
  ASSUME IInv, CaseStep, UNCHANGED tripVars
  PROVE  IInv'
<1>1. CaseChange
  BY CaseStepChange
<1>2. /\ UNCHANGED <<keys, returned, deposit, hold>>
      /\ \A r \in Reservations : booking'[r].status = booking[r].status
  BY <1>1, ReviewRow DEF CaseChange, tripVars
<1>3. RowsSound'
  <2> SUFFICES ASSUME NEW r \in Reservations
               PROVE  RowSound(booking'[r], deposit'[r], hold'[r], Outstanding(r)' # {})
    BY DEF RowsSound
  <2>0. RowSound(booking[r], deposit[r], hold[r], Outstanding(r) # {})
    BY DEF IInv, RowsSound
  <2>1. CASE booking'[r] = booking[r] /\ Outstanding(r)' \subseteq Outstanding(r)
    BY <1>2, <2>0, <2>1 DEF RowSound
  <2>2. CASE booking'[r] = UnderReview(r)
    BY <1>2, <2>0, <2>2, ReviewRow DEF RowSound
  <2> QED
    BY <1>1, <2>1, <2>2 DEF CaseChange
<1>4. TypeOK'
  BY <1>1, <1>2, <1>3, Types DEF CaseChange, RowsSound, RowSound, TypeOK, CaseTypeOK
<1>5. CasesSound'
  BY <1>1 DEF CaseChange
<1>6. DatesExclusive'
  BY <1>2 DEF IInv, DatesExclusive
<1> QED
  BY <1>3, <1>4, <1>5, <1>6 DEF IInv

-----------------------------------------------------------------------------
(* The inductive invariant.                                                *)

LEMMA InitInv == Init => IInv
<1> SUFFICES ASSUME Init PROVE IInv
  OBVIOUS
<1> USE DEF Init, CaseInit
<1>1. \A c \in Cases : case[c].kind = "NONE"
  BY DEF Unopened
<1>2. \A r \in Reservations : Outstanding(r) = {}
  BY <1>1 DEF Outstanding, Financial
<1>3. CasesSound
  BY <1>1 DEF CasesSound, CaseSound
<1>4. \A r \in Reservations : booking[r] \in Bookings
  BY DEF Bookings, Statuses, Dispositions
<1>5. RowsSound
  BY <1>2, <1>4 DEF RowsSound, RowSound, Deposits, Holds
<1>6. TypeOK
  BY <1>4 DEF TypeOK, CaseTypeOK, Inspections, Deposits, Holds
<1>7. DatesExclusive
  BY DEF DatesExclusive, Blocking, Operational
<1> QED
  BY <1>3, <1>5, <1>6, <1>7 DEF IInv

LEMMA Stutter ==
  ASSUME IInv, UNCHANGED vars
  PROVE  IInv'
<1> USE DEF vars, caseVars, tripVars
<1>1. \A r \in Reservations : Outstanding(r)' = Outstanding(r)
  BY DEF Outstanding, Financial
<1>2. TypeOK'
  BY Types DEF IInv, TypeOK, CaseTypeOK
<1> QED
  BY <1>1, <1>2 DEF IInv, CasesSound, RowsSound, DatesExclusive

LEMMA NextInv == IInv /\ [Next]_vars => IInv'
  BY TripStepInv, CaseStepInv, Stutter DEF Next

LEMMA Inductive == Spec => []IInv
  BY InitInv, NextInv, PTL DEF Spec

-----------------------------------------------------------------------------
(* Theorems.                                                               *)

\* Every variable keeps its type, and a trip ends only after it started.
THEOREM TypeCorrect == Spec => []TypeOK
<1>1. IInv => TypeOK
  BY DEF IInv
<1> QED
  BY <1>1, Inductive, PTL

\* A booking with an open claim or dispute is under review, for any number of
\* cases and appeals (service-cases.ts l.63-64, l.178-180).
THEOREM ReviewWhileOutstanding == Spec => []OutstandingMeansReview
<1>1. IInv => OutstandingMeansReview
  BY DEF IInv, RowsSound, RowSound, OutstandingMeansReview
<1> QED
  BY <1>1, Inductive, PTL

\* However often a trip is completed and brought back, it gives up no deposit
\* while it is under way, and starts without it only where a release was sent
\* after an earlier return (provider-execution-guard.ts l.71).
THEOREM DepositDuringTrip == Spec => TripKeepsDeposit
<1>1. ASSUME IInv, TripStep, NEW r \in Reservations
      PROVE  Keeps(r)
  <2>1. PICK q \in Reservations : RowStep(q)
    BY <1>1, TripStepRow
  <2>2. CASE r # q
    BY <1>1, <2>1, <2>2, Types DEF RowStep, Keeps, IInv, RowsSound, RowSound
  <2> QED
    BY <2>1, <2>2 DEF RowStep
<1>2. ASSUME IInv, CaseStep, UNCHANGED tripVars, NEW r \in Reservations
      PROVE  Keeps(r)
  BY <1>2, CaseStepChange, ReviewRow DEF CaseChange, tripVars, Keeps, IInv, RowsSound, RowSound
<1>3. IInv /\ [Next]_vars => [\A r \in Reservations : Keeps(r)]_vars
  BY <1>1, <1>2 DEF Next
<1> QED
  BY <1>3, Inductive, PTL DEF Spec, TripKeepsDeposit, Keeps

\* No two bookings of the vehicle for these dates block it, whatever overrides
\* and completions come between (emergency-override.ts l.79-84).
THEOREM OneBookingAtATime == Spec => []DatesExclusive
<1>1. IInv => DatesExclusive
  BY DEF IInv
<1> QED
  BY <1>1, Inductive, PTL

\* Only an agent who is still independent when the step is taken decides a case
\* (case-decision-authority.ts l.13-21).
THEOREM DecisionsIndependent == Spec => IndependentDecision
<1> DEFINE Decides(c) == Opened(c) /\ ~Decided(c) /\ case'[c].state = "DECIDED"
<1>1. ASSUME IInv, CaseStep, NEW c \in Cases, Decides(c)
      PROVE  case[c].assigned \notin Affiliates \cup involved[Concerns[c]]
  <2>1. case[c] \in ServiceCase /\ CaseSound(case[c]) /\ case[c].state \notin {"DECIDED", "CLOSED"}
    BY <1>1, OpenedCase DEF Decided
  <2>2. ASSUME NEW d \in Cases, NEW new, Revise(d, new), d # c
        PROVE  FALSE
    BY <1>1, <2>1, <2>2 DEF Revise, Decided
  <2>3. ASSUME NEW d \in Cases, NEW by \in Parties \cup Staff, Transition(d, by)
        PROVE  Independent(case[c].assigned, Concerns[c])
    <3>1. d = c
      BY <2>2, <2>3 DEF Transition
    <3>2. case'[c].state = caseStates(case[c].kind)[case[c].state]
      BY <1>1, <2>1, <2>3, <3>1, Types DEF Transition, Revise, ServiceCase
    <3>3. ~PartyStep(c, by)
      BY <1>1, <3>2 DEF PartyStep, caseStates
    <3> QED
      BY <2>3, <3>1, <3>3 DEF Transition, AgentStep
  <2>4. ASSUME NEW d \in Cases, NEW u \in Staff, Override(d, u)
        PROVE  Independent(case[c].assigned, Concerns[c])
    BY <2>2, <2>4 DEF Override
  <2>5. ASSUME NEW d \in Cases, NEW by \in Parties \cup Staff, NEW kind \in Kinds,
               Open(d, by, kind)
        PROVE  FALSE
    BY <1>1, <2>2, <2>5, Types DEF Open
  <2>6. ASSUME NEW d \in Cases, NEW by \in Parties, Appeal(d, by)
        PROVE  FALSE
    BY <1>1, <2>2, <2>6, Types DEF Appeal, Revise, Unopened, Opened, Decided
  <2>7. ASSUME NEW d \in Cases, NEW u \in Staff,
               \/ \E by \in Staff : Assign(d, by, u)
               \/ TakeOver(d, u) \/ SafetyClear(d, u) \/ Upload(d, u)
        PROVE  FALSE
    <3>1. ASSUME \E by \in Staff : Assign(d, by, u)
          PROVE  case'[c].state = case[c].state
      BY <2>1, <2>2, <3>1, Types DEF Assign, Revise, ServiceCase
    <3>2. ASSUME TakeOver(d, u)
          PROVE  case'[c].state = case[c].state
      BY <2>1, <2>2, <3>2, Types DEF TakeOver, Revise, ServiceCase
    <3>3. ASSUME SafetyClear(d, u)
          PROVE  FALSE
      BY <2>1, <2>2, <3>3 DEF SafetyClear
    <3>4. ASSUME Upload(d, u)
          PROVE  case'[c].state = case[c].state
      BY <3>4 DEF Upload
    <3> QED
      BY <1>1, <2>1, <2>7, <3>1, <3>2, <3>3, <3>4
  <2>8. CASE Maintain
    <3>1. case'[c].state = case[c].state
      BY <2>1, <2>8 DEF Maintain, ServiceCase
    <3> QED
      BY <1>1, <2>1, <3>1
  <2> QED
    BY <1>1, <2>3, <2>4, <2>5, <2>6, <2>7, <2>8 DEF CaseStep, Independent
<1>2. ASSUME IInv, TripStep
      PROVE  UNCHANGED case
  BY <1>2, TripStepRow DEF RowStep
<1>3. IInv /\ [Next]_vars
      => [\A c \in Cases :
            /\ Opened(c) /\ ~Decided(c)
            /\ case'[c].state = "DECIDED"
            => case[c].assigned \notin Affiliates \cup involved[Concerns[c]]]_caseVars
  BY <1>1, <1>2 DEF Next, vars, Decided
<1> QED
  BY <1>3, Inductive, PTL DEF Spec, IndependentDecision

\* A trip starts only when every incident that blocked the vehicle is closed
\* and was followed by a service (financial-locks.ts l.47).
THEOREM SafeStarts == Spec => SafeToDrive
<1> DEFINE Starts(r) == ~Is(r, "ACTIVE") /\ booking'[r].status = "ACTIVE"
           Safe == \A c \in Cases :
             Opened(c) /\ case[c].safety # "NONE" => case[c].state = "CLOSED" /\ case[c].serviced
<1>1. ASSUME IInv, ~Blocked
      PROVE  Safe
  BY <1>1, OpenedCase DEF Blocked, Opened, ServiceCase, CaseSound
<1>2. ASSUME IInv, TripStep, NEW r \in Reservations, Starts(r)
      PROVE  Safe
  <2>1. PICK q \in Reservations :
          \/ Book(q) \/ ReleaseKeys(q) \/ Start(q)
          \/ Cancel(q) \/ FullyRefunded(q)
          \/ BeginReturn(q) \/ Inspect(q) \/ Complete(q) \/ ReviewReturn(q) \/ CompleteNoCharge(q)
          \/ ForceStart(q) \/ ForceComplete(q)
          \/ Verify(q) \/ AuthorizeSettlement(q)
          \/ PlanTerminated(q) \/ SendRelease(q) \/ ReleaseRefused(q)
          \/ CancelHold(q) \/ SaveRelease(q)
    BY <1>2 DEF TripStep
  <2>2. Start(q) \/ ForceStart(q)
    <3>1. Book(q) \/ ReleaseKeys(q) \/ Cancel(q) \/ FullyRefunded(q) => FALSE
      BY <1>2, Types DEF Book, ReleaseKeys, Cancel, FullyRefunded, Becomes, Is, caseVars, Bookings
    <3>2. BeginReturn(q) \/ Inspect(q) \/ ReviewReturn(q) \/ CompleteNoCharge(q) => FALSE
      BY <1>2, Types DEF BeginReturn, Inspect, ReviewReturn, CompleteNoCharge, Becomes, Is,
         caseVars, Bookings
    <3>3. Complete(q) => FALSE
      <4>1. CASE returned[q] = "DAMAGED"
        BY <1>2, <4>1, Types DEF Complete, Is, Bookings
      <4>2. CASE returned[q] # "DAMAGED"
        BY <1>2, <4>2, Types DEF Complete, Is, Bookings
      <4> QED
        BY <4>1, <4>2
    <3>4. ForceComplete(q) => FALSE
      BY <1>2, Types DEF ForceComplete, Is, Bookings
    <3>5. Verify(q) \/ AuthorizeSettlement(q) => FALSE
      <4>1. ASSUME NEW disposition, Settles(q, disposition)
            PROVE  booking'[r].status = booking[r].status
        BY <1>2, <4>1, Types DEF Settles, Bookings
      <4>2. ASSUME Verify(q)
            PROVE  booking'[r].status = booking[r].status
        BY <1>2, <4>2, Types DEF Verify, Bookings
      <4> QED
        BY <1>2, <4>1, <4>2 DEF AuthorizeSettlement, Is
    <3>6. \/ PlanTerminated(q) \/ SendRelease(q) \/ ReleaseRefused(q)
          \/ CancelHold(q) \/ SaveRelease(q)
          => FALSE
      <4>1. ReleaseRefused(q) => FALSE
        BY <1>2, Types DEF ReleaseRefused, Is, Bookings
      <4> QED
        BY <1>2, <4>1 DEF PlanTerminated, SendRelease, CancelHold, SaveRelease, Is, caseVars
    <3> QED
      BY <2>1, <3>1, <3>2, <3>3, <3>4, <3>5, <3>6
  <2> QED
    BY <1>1, <1>2, <2>2 DEF Start, ForceStart, StartAuthority
<1>3. ASSUME IInv, CaseStep
      PROVE  \A r \in Reservations : booking'[r].status = booking[r].status
  BY <1>3, CaseStepChange, ReviewRow DEF CaseChange
<1>4. IInv /\ [Next]_vars => [\A r \in Reservations : Starts(r) => Safe]_vars
  BY <1>2, <1>3 DEF Next, Is
<1> QED
  BY <1>4, Inductive, PTL DEF Spec, SafeToDrive

=============================================================================
