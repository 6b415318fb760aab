------------------------ MODULE RefundOperations_proofs ------------------------
(***************************************************************************)
(* Theorems about RefundOperations, for any refunds, workers, webhook      *)
(* handlers, leases and windows that satisfy its assumptions.              *)
(***************************************************************************)
EXTENDS RefundOperations, Sums

\* What a call may be late: Dispatch renews the lease of a claim that was
\* within the replay window.
Slack == Replay + 2 * Lease - 1

\* A token is held for a pending refund that is being executed.
TokensSound ==
  \A f \in Refunds :
    op[f].token # None => op[f].state = "RUNNING" /\ refund[f].status = "PENDING"

\* A refund that was not reserved here was recorded with its identity.
ExternalIdentified ==
  \A f \in External : refund[f].status # "ABSENT" => refund[f].identified

ObservedSound ==
  \A f \in Refunds :
    op[f].state = "OBSERVED" => refund[f].status \in {"SUCCEEDED", "FAILED"}

\* One worker at a time is past its dispatch, with its token in place.
GuardExclusive ==
  \A v, w \in Workers :
    worker[v].pc \in Guarding /\ worker[w].pc \in Guarding => v = w

GuardHoldsToken ==
  \A w \in Workers : worker[w].pc \in Guarding => op[worker[w].refund].token = w

\* An operation that was ever claimed has a row.
StartedSound ==
  \A f \in Refunds : op[f].age # NotStarted \/ op[f].token # None => refund[f].status # "ABSENT"

\* The refunds of others are never asked for: their identity is known.
ExternalKnown ==
  \A w \in Workers :
    worker[w].pc # "idle" /\ worker[w].refund \in External =>
      /\ op[worker[w].refund].identified
      /\ worker[w].pc \notin {"sending", "calling", "answered", "recorded"}
      /\ worker[w].pc # "prepared" => worker[w].identified

\* While its lease lasts, a worker is within the windows.
ClaimInTime ==
  \A w \in Workers :
    /\ worker[w].pc = "claimed" /\ HoldsLease(w, worker[w].refund) =>
         /\ op[worker[w].refund].age >= 0
         /\ worker[w].first => op[worker[w].refund].age + op[worker[w].refund].lease <= Lease
    /\ worker[w].pc = "sending" /\ HoldsLease(w, worker[w].refund) =>
         /\ op[worker[w].refund].age >= 0
         /\ op[worker[w].refund].age + op[worker[w].refund].lease <= Replay + Lease
    /\ worker[w].pc = "calling" =>
         /\ op[worker[w].refund].age >= 0
         /\ op[worker[w].refund].age + op[worker[w].refund].lease <= Slack

RequestsInTime ==
  \A f \in Refunds :
    wire[f] > 0 => f \notin External /\ op[f].age >= 0 /\ op[f].age + wire[f] <= Slack + Wire

\* A key is no older than its operation.
KeysCovered ==
  \A f \in Refunds :
    /\ money[f].objects <= 1
    /\ money[f].objects = 0 <=> money[f].status = "none"
    /\ f \notin External /\ money[f].objects # 0 =>
         op[f].age >= 0 /\ money[f].keyAge <= op[f].age

\* What may become of an object, and so what an observation may have been.
MayBecome(s, m) ==
  \/ s = m
  \/ s = "none"
  \/ s = "pending" /\ m \in {"succeeded", "failed"}
  \/ s = "succeeded" /\ m = "failed"

ObservationsSound ==
  /\ \A w \in Workers :
       worker[w].pc \in {"answered", "recorded", "read"} =>
         /\ worker[w].seen \in ProviderStatuses
         /\ MayBecome(worker[w].seen, money[worker[w].refund].status)
  /\ \A h \in Hooks :
       hook[h].pc = "read" => MayBecome(hook[h].seen, money[hook[h].refund].status)

\* failures is bounded because the worker saw the count it adds to.
FailuresCounted ==
  /\ \A f \in Refunds : op[f].state # "REVIEW" => op[f].failures < MaxFailures
  /\ \A w \in Workers :
       worker[w].pc \notin {"idle", "prepared"} /\ op[worker[w].refund].token = w =>
         op[worker[w].refund].failures = worker[w].failures

RowsSound ==
  /\ TokensSound
  /\ ObservedSound
  /\ ReviewHoldsBalance
  /\ StartedSound
  /\ RequestsInTime
  /\ KeysCovered
  /\ SettledByProvider
  /\ ExternalIdentified

WorkersSound ==
  /\ FailuresCounted
  /\ GuardExclusive
  /\ GuardHoldsToken
  /\ ExternalKnown
  /\ ClaimInTime
  /\ ObservationsSound

\* The inductive invariant.
IInv == TypeOK /\ RowsSound /\ WorkersSound

USE RefundAssumption, RetentionAssumption
USE DEF Horizon, NotStarted, OpStates, RefundStatuses, ProviderStatuses, Dispositions,
        RefundRows, Ops, Money, Busy, Reading, Idle, Guarding, GuardFree, HoldsLease,
        MayBecome, Slack, At

-----------------------------------------------------------------------------
(* The rows that the operations write.                                     *)

BusyWorkers == [Workers -> {Idle} \cup Busy]

\* What the rows of a refund are.
LEMMA RowTypes ==
  ASSUME TypeOK, NEW f \in Refunds
  PROVE  refund[f] \in RefundRows /\ op[f] \in Ops /\ money[f] \in Money
  BY Zenon DEF TypeOK

LEMMA BusyWorker ==
  ASSUME TypeOK, NEW w \in Workers, worker[w].pc # "idle"
  PROVE  worker[w] \in Busy /\ worker[w].refund \in Refunds
  BY DEF TypeOK

LEMMA MovesWorker ==
  ASSUME TypeOK, NEW w \in Workers, NEW k \in Busy, worker' = [worker EXCEPT ![w] = k]
  PROVE  worker' \in BusyWorkers
  BY DEF TypeOK, BusyWorkers

LEMMA MovesOp ==
  ASSUME TypeOK, NEW f \in Refunds, NEW o \in Ops, op' = [op EXCEPT ![f] = o]
  PROVE  op' \in [Refunds -> Ops]
  BY DEF TypeOK

LEMMA GoesWorker ==
  ASSUME TypeOK, NEW w \in Workers, worker[w] \in Busy, NEW p,
         p \in {"prepared", "claimed", "sending", "calling", "answered", "recorded",
                "read", "failing", "uncertain"},
         Goes(w, p)
  PROVE  worker' \in BusyWorkers
<1>1. [worker[w] EXCEPT !.pc = p] \in Busy
  OBVIOUS
<1> QED
  BY <1>1, MovesWorker DEF Goes

LEMMA EndsWorker ==
  ASSUME TypeOK, NEW w \in Workers, Ends(w)
  PROVE  worker' \in BusyWorkers
  BY DEF TypeOK, BusyWorkers, Ends

LEMMA ClaimedFields ==
  ASSUME NEW o \in Ops, NEW w \in Workers
  PROVE  LET c == ClaimedOp(o, w)
         IN  /\ c \in Ops
             /\ c.state = "RUNNING" /\ c.token = w /\ c.lease = Lease
             /\ c.age = IF o.age = NotStarted THEN 0 ELSE o.age
             /\ c.identified = o.identified /\ c.failures = o.failures
<1>1. /\ (IF o.age = NotStarted THEN 0 ELSE o.age) \in NotStarted..Horizon
      /\ Lease \in 0..Lease
  OBVIOUS
<1>2. ClaimedOp(o, w) \in Ops
  BY <1>1, Zenon DEF ClaimedOp
<1> QED
  BY <1>2 DEF ClaimedOp

LEMMA FailedFields ==
  ASSUME NEW o \in Ops, NEW k, o.failures < MaxFailures
  PROVE  LET c == FailedOp(o, k)
         IN  /\ c \in Ops
             /\ c.state = IF GivesUp(k) THEN "REVIEW" ELSE "READY"
             /\ c.token = None /\ c.lease = 0 /\ c.age = o.age
             /\ c.identified = o.identified /\ c.failures = o.failures + 1
<1>1. /\ (IF GivesUp(k) THEN "REVIEW" ELSE "READY") \in OpStates
      /\ o.failures + 1 \in 0..MaxFailures /\ 0 \in 0..Lease
  OBVIOUS
<1>2. FailedOp(o, k) \in Ops
  BY <1>1, Zenon DEF FailedOp
<1> QED
  BY <1>2 DEF FailedOp

LEMMA SavedFields ==
  ASSUME NEW o \in Ops, NEW seen
  PROVE  LET c == SavedOp(o, seen)
         IN  /\ c \in Ops
             /\ c.state = IF seen = "pending" THEN "READY" ELSE "OBSERVED"
             /\ c.token = None /\ c.lease = 0 /\ c.age = o.age
             /\ c.identified /\ c.failures = 0
<1>1. /\ (IF seen = "pending" THEN "READY" ELSE "OBSERVED") \in OpStates
      /\ 0 \in 0..Lease /\ 0 \in 0..MaxFailures
  OBVIOUS
<1>2. SavedOp(o, seen) \in Ops
  BY <1>1, Zenon DEF SavedOp
<1> QED
  BY <1>2 DEF SavedOp

LEMMA ObservedFields ==
  ASSUME NEW o \in Ops, NEW seen
  PROVE  LET c == ObservedOp(o, seen)
         IN  /\ c \in Ops
             /\ seen = "pending" => c = o
             /\ seen # "pending" =>
                  /\ c.state = "OBSERVED" /\ c.token = None /\ c.lease = 0
                  /\ c.identified /\ c.failures = 0
             /\ c.age = o.age
<1>1. CASE seen = "pending"
  BY <1>1 DEF ObservedOp
<1>2. CASE seen # "pending"
  <2>1. 0 \in 0..Lease /\ 0 \in 0..MaxFailures
    OBVIOUS
  <2>2. ObservedOp(o, seen) \in Ops
    BY <1>2, <2>1, Zenon DEF ObservedOp
  <2> QED
    BY <1>2, <2>2 DEF ObservedOp
<1> QED
  BY <1>1, <1>2

LEMMA LaterFields ==
  ASSUME NEW o \in Ops
  PROVE  LET c == OpLater(o)
         IN  /\ c \in Ops
             /\ c.state = o.state /\ c.token = o.token
             /\ c.identified = o.identified /\ c.failures = o.failures
             /\ c.lease = IF o.lease = 0 THEN 0 ELSE o.lease - 1
             /\ c.age = IF o.age = NotStarted \/ o.age = Horizon THEN o.age ELSE o.age + 1
<1>1. /\ Less(o.lease) \in 0..Lease
      /\ (IF o.age = NotStarted THEN NotStarted ELSE Older(o.age)) \in NotStarted..Horizon
  BY DEF Less, Older
<1>2. OpLater(o) \in Ops
  BY <1>1 DEF OpLater, Less, Older
<1> QED
  BY <1>2 DEF OpLater, Less, Older

LEMMA MoneyLaterFields ==
  ASSUME NEW m \in Money
  PROVE  LET c == MoneyLater(m)
         IN  /\ c \in Money
             /\ c.status = m.status /\ c.objects = m.objects
             /\ c.keyAge = IF m.objects = 0 THEN 0
                           ELSE IF m.keyAge = Horizon THEN Horizon ELSE m.keyAge + 1
  BY DEF MoneyLater, Older

-----------------------------------------------------------------------------
(* The steps.                                                              *)

\* Rows that a step leaves alone stay sound.
LEMMA RowsUntouched ==
  ASSUME RowsSound, UNCHANGED <<refund, op, money, wire, disposition>>
  PROVE  RowsSound'
BY DEF RowsSound, TokensSound, ObservedSound, ReviewHoldsBalance, StartedSound, RequestsInTime,
       KeysCovered, SettledByProvider, ExternalIdentified

\* And so do executions and observations.
LEMMA WorkersUntouched ==
  ASSUME WorkersSound, UNCHANGED <<op, worker, hook, money>>
  PROVE  WorkersSound'
BY DEF WorkersSound, FailuresCounted, GuardExclusive, GuardHoldsToken, ExternalKnown,
       ClaimInTime, ObservationsSound

LEMMA ReserveKeeps ==
  ASSUME IInv, NEW f \in Refunds, Reserve(f)
  PROVE  IInv'
<1>1. TypeOK'
  <2>1. refund[f] \in RefundRows
    BY RowTypes DEF IInv
  <2>2. [refund[f] EXCEPT !.status = "PENDING"] \in RefundRows
    BY <2>1
  <2>3. /\ refund \in [Refunds -> RefundRows]
        /\ refund' = [refund EXCEPT ![f] = [refund[f] EXCEPT !.status = "PENDING"]]
    BY DEF IInv, TypeOK, Reserve
  <2>4. refund' \in [Refunds -> RefundRows]
    BY <2>2, <2>3, Zenon
  <2>5. disposition' \in Dispositions
    BY DEF IInv, TypeOK, Reserve
  <2> QED
    BY <2>4, <2>5 DEF IInv, TypeOK, Reserve
<1>2. RowsSound'
  <2>1. TokensSound'
    BY DEF IInv, RowsSound, TokensSound, Reserve
  <2>2. ObservedSound'
    BY DEF IInv, RowsSound, ObservedSound, Reserve
  <2>3. ReviewHoldsBalance'
    BY DEF IInv, RowsSound, ReviewHoldsBalance, Reserve
  <2>4. StartedSound'
    BY DEF IInv, RowsSound, StartedSound, Reserve
  <2>5. RequestsInTime'
    BY DEF IInv, RowsSound, RequestsInTime, Reserve
  <2>6. KeysCovered'
    BY DEF IInv, RowsSound, KeysCovered, Reserve
  <2>7. SettledByProvider'
    BY DEF IInv, RowsSound, SettledByProvider, Reserve
  <2>8. ExternalIdentified'
    BY DEF IInv, RowsSound, ExternalIdentified, Reserve
  <2> QED
    BY <2>1, <2>2, <2>3, <2>4, <2>5, <2>6, <2>7, <2>8 DEF RowsSound
<1>3. WorkersSound'
  <2>1. FailuresCounted'
    BY DEF IInv, WorkersSound, FailuresCounted, Reserve
  <2>2. GuardExclusive'
    BY DEF IInv, WorkersSound, GuardExclusive, Reserve
  <2>3. GuardHoldsToken'
    BY DEF IInv, WorkersSound, GuardHoldsToken, Reserve
  <2>4. ExternalKnown'
    BY DEF IInv, WorkersSound, ExternalKnown, Reserve
  <2>5. ClaimInTime'
    BY DEF IInv, WorkersSound, ClaimInTime, Reserve
  <2>6. ObservationsSound'
    BY DEF IInv, WorkersSound, ObservationsSound, Reserve
  <2> QED
    BY <2>1, <2>2, <2>3, <2>4, <2>5, <2>6 DEF WorkersSound
<1> QED
  BY <1>1, <1>2, <1>3 DEF IInv

LEMMA LateAcceptKeeps ==
  ASSUME IInv, NEW f \in Refunds, LateAccept(f)
  PROVE  IInv'
<1>1. TypeOK'
  BY DEF IInv, TypeOK, LateAccept, Accepted, Created
<1>2. RowsSound'
  <2>1. TokensSound'
    BY DEF IInv, RowsSound, TokensSound, LateAccept, Accepted, Created
  <2>2. ObservedSound'
    BY DEF IInv, RowsSound, ObservedSound, LateAccept, Accepted, Created
  <2>3. ReviewHoldsBalance'
    BY DEF IInv, RowsSound, ReviewHoldsBalance, LateAccept, Accepted, Created
  <2>4. StartedSound'
    BY DEF IInv, RowsSound, StartedSound, LateAccept, Accepted, Created
  <2>5. RequestsInTime'
    BY DEF IInv, RowsSound, RequestsInTime, LateAccept, Accepted, Created
  <2>6. KeysCovered'
    BY DEF IInv, TypeOK, RowsSound, StartedSound, RequestsInTime, KeysCovered, LateAccept,
       Accepted, Created
  <2>7. SettledByProvider'
    BY DEF IInv, TypeOK, RowsSound, StartedSound, RequestsInTime, KeysCovered, SettledByProvider,
       LateAccept, Accepted, Created
  <2>8. ExternalIdentified'
    BY DEF IInv, RowsSound, ExternalIdentified, LateAccept, Accepted, Created
  <2> QED
    BY <2>1, <2>2, <2>3, <2>4, <2>5, <2>6, <2>7, <2>8 DEF RowsSound
<1>3. WorkersSound'
  <2>1. FailuresCounted'
    BY DEF IInv, WorkersSound, FailuresCounted, LateAccept, Accepted, Created
  <2>2. GuardExclusive'
    BY DEF IInv, WorkersSound, GuardExclusive, LateAccept, Accepted, Created
  <2>3. GuardHoldsToken'
    BY DEF IInv, WorkersSound, GuardHoldsToken, LateAccept, Accepted, Created
  <2>4. ExternalKnown'
    BY DEF IInv, WorkersSound, ExternalKnown, LateAccept, Accepted, Created
  <2>5. ClaimInTime'
    BY DEF IInv, WorkersSound, ClaimInTime, LateAccept, Accepted, Created
  <2>6. ObservationsSound'
    BY DEF IInv, TypeOK, WorkersSound, FailuresCounted, GuardExclusive, GuardHoldsToken,
       ExternalKnown, ClaimInTime, ObservationsSound, RowsSound, TokensSound, ObservedSound,
       ReviewHoldsBalance, StartedSound, RequestsInTime, KeysCovered, SettledByProvider,
       ExternalIdentified, LateAccept, Accepted, Created
  <2> QED
    BY <2>1, <2>2, <2>3, <2>4, <2>5, <2>6 DEF WorkersSound
<1> QED
  BY <1>1, <1>2, <1>3 DEF IInv

LEMMA PayExternalKeeps ==
  ASSUME IInv, NEW f \in Refunds, PayExternal(f)
  PROVE  IInv'
<1>1. TypeOK'
  BY DEF IInv, TypeOK, PayExternal, Created
<1>2. RowsSound'
  <2>1. TokensSound'
    BY DEF IInv, RowsSound, TokensSound, PayExternal, Created
  <2>2. ObservedSound'
    BY DEF IInv, RowsSound, ObservedSound, PayExternal, Created
  <2>3. ReviewHoldsBalance'
    BY DEF IInv, RowsSound, ReviewHoldsBalance, PayExternal, Created
  <2>4. StartedSound'
    BY DEF IInv, RowsSound, StartedSound, PayExternal, Created
  <2>5. RequestsInTime'
    BY DEF IInv, RowsSound, RequestsInTime, PayExternal, Created
  <2>6. KeysCovered'
    BY DEF IInv, RowsSound, KeysCovered, PayExternal, Created
  <2>7. SettledByProvider'
    BY DEF IInv, TypeOK, RowsSound, StartedSound, RequestsInTime, KeysCovered, SettledByProvider,
       PayExternal, Created
  <2>8. ExternalIdentified'
    BY DEF IInv, RowsSound, ExternalIdentified, PayExternal, Created
  <2> QED
    BY <2>1, <2>2, <2>3, <2>4, <2>5, <2>6, <2>7, <2>8 DEF RowsSound
<1>3. WorkersSound'
  <2>1. FailuresCounted'
    BY DEF IInv, WorkersSound, FailuresCounted, PayExternal, Created
  <2>2. GuardExclusive'
    BY DEF IInv, WorkersSound, GuardExclusive, PayExternal, Created
  <2>3. GuardHoldsToken'
    BY DEF IInv, WorkersSound, GuardHoldsToken, PayExternal, Created
  <2>4. ExternalKnown'
    BY DEF IInv, WorkersSound, ExternalKnown, PayExternal, Created
  <2>5. ClaimInTime'
    BY DEF IInv, WorkersSound, ClaimInTime, PayExternal, Created
  <2>6. ObservationsSound'
    BY DEF IInv, TypeOK, WorkersSound, FailuresCounted, GuardExclusive, GuardHoldsToken,
       ExternalKnown, ClaimInTime, ObservationsSound, RowsSound, TokensSound, ObservedSound,
       ReviewHoldsBalance, StartedSound, RequestsInTime, KeysCovered, SettledByProvider,
       ExternalIdentified, PayExternal, Created
  <2> QED
    BY <2>1, <2>2, <2>3, <2>4, <2>5, <2>6 DEF WorkersSound
<1> QED
  BY <1>1, <1>2, <1>3 DEF IInv

LEMMA BecomesKeeps ==
  ASSUME IInv, NEW f \in Refunds, NEW s \in ProviderStatuses, Becomes(f, s),
         money[f].status # "none", MayBecome(money[f].status, s)
  PROVE  IInv'
<1>1. TypeOK'
  <2>1. money[f] \in Money
    BY RowTypes DEF IInv
  <2>2. [money[f] EXCEPT !.status = s] \in Money
    BY <2>1
  <2>3. money \in [Refunds -> Money] /\ money' = [money EXCEPT ![f] = [money[f] EXCEPT !.status = s]]
    BY DEF IInv, TypeOK, Becomes
  <2>4. money' \in [Refunds -> Money]
    BY <2>2, <2>3, Zenon
  <2> QED
    BY <2>4 DEF IInv, TypeOK, Becomes
<1>2. RowsSound'
  <2>1. TokensSound'
    BY DEF IInv, RowsSound, TokensSound, Becomes
  <2>2. ObservedSound'
    BY DEF IInv, RowsSound, ObservedSound, Becomes
  <2>3. ReviewHoldsBalance'
    BY DEF IInv, RowsSound, ReviewHoldsBalance, Becomes
  <2>4. StartedSound'
    BY DEF IInv, RowsSound, StartedSound, Becomes
  <2>5. RequestsInTime'
    BY DEF IInv, RowsSound, RequestsInTime, Becomes
  <2>6. KeysCovered'
    BY DEF IInv, RowsSound, KeysCovered, Becomes
  <2>7. SettledByProvider'
    BY DEF IInv, RowsSound, SettledByProvider, Becomes
  <2>8. ExternalIdentified'
    BY DEF IInv, RowsSound, ExternalIdentified, Becomes
  <2> QED
    BY <2>1, <2>2, <2>3, <2>4, <2>5, <2>6, <2>7, <2>8 DEF RowsSound
<1>3. WorkersSound'
  <2>1. FailuresCounted'
    BY DEF IInv, WorkersSound, FailuresCounted, Becomes
  <2>2. GuardExclusive'
    BY DEF IInv, WorkersSound, GuardExclusive, Becomes
  <2>3. GuardHoldsToken'
    BY DEF IInv, WorkersSound, GuardHoldsToken, Becomes
  <2>4. ExternalKnown'
    BY DEF IInv, WorkersSound, ExternalKnown, Becomes
  <2>5. ClaimInTime'
    BY DEF IInv, WorkersSound, ClaimInTime, Becomes
  <2>6. ObservationsSound'
    BY DEF IInv, WorkersSound, ObservationsSound, Becomes
  <2> QED
    BY <2>1, <2>2, <2>3, <2>4, <2>5, <2>6 DEF WorkersSound
<1> QED
  BY <1>1, <1>2, <1>3 DEF IInv

LEMMA ProviderKeeps ==
  ASSUME IInv, NEW f \in Refunds, ProviderSettles(f) \/ ProviderReverses(f)
  PROVE  IInv'
<1>1. CASE Becomes(f, "succeeded") /\ money[f].status = "pending"
  BY <1>1, BecomesKeeps
<1>2. CASE Becomes(f, "failed") /\ money[f].status \in {"pending", "succeeded"}
  BY <1>2, BecomesKeeps
<1> QED
  BY <1>1, <1>2 DEF ProviderSettles, ProviderReverses

LEMMA PrepareKeeps ==
  ASSUME IInv, NEW w \in Workers, NEW f \in Refunds, Prepare(w, f)
  PROVE  IInv'
<1>1. TypeOK'
  <2>1. Prepared(f) \in Busy
    BY DEF Prepared
  <2>2. worker' \in BusyWorkers
    BY <2>1, MovesWorker DEF IInv, Prepare
  <2>3. PICK known \in BOOLEAN :
          op' = [op EXCEPT ![f] = [op[f] EXCEPT !.identified = op[f].identified \/ known]]
    BY DEF IInv, TypeOK, Prepare
  <2>4. (op[f].identified \/ known) \in BOOLEAN /\ op[f] \in Ops
    BY DEF IInv, TypeOK
  <2>5. [op[f] EXCEPT !.identified = op[f].identified \/ known] \in Ops
    BY <2>4, Zenon
  <2> QED
    BY <2>2, <2>3, <2>5, MovesOp DEF IInv, TypeOK, BusyWorkers, Prepare
<1>2. RowsSound'
  <2>1. TokensSound'
    BY DEF IInv, RowsSound, TokensSound, Prepare, Prepared
  <2>2. ObservedSound'
    BY DEF IInv, RowsSound, ObservedSound, Prepare, Prepared
  <2>3. ReviewHoldsBalance'
    BY DEF IInv, RowsSound, ReviewHoldsBalance, Prepare, Prepared
  <2>4. StartedSound'
    BY DEF IInv, RowsSound, StartedSound, Prepare, Prepared
  <2>5. RequestsInTime'
    BY DEF IInv, RowsSound, RequestsInTime, Prepare, Prepared
  <2>6. KeysCovered'
    BY DEF IInv, RowsSound, KeysCovered, Prepare, Prepared
  <2>7. SettledByProvider'
    BY DEF IInv, RowsSound, SettledByProvider, Prepare, Prepared
  <2>8. ExternalIdentified'
    BY DEF IInv, RowsSound, ExternalIdentified, Prepare, Prepared
  <2> QED
    BY <2>1, <2>2, <2>3, <2>4, <2>5, <2>6, <2>7, <2>8 DEF RowsSound
<1>3. WorkersSound'
  <2>1. ExternalKnown'
    <3>1. PICK known \in {(f \in External), refund[f].identified} :
            op' = [op EXCEPT ![f] = [op[f] EXCEPT !.identified = op[f].identified \/ known]]
      BY DEF Prepare
    <3>2. f \in External => known
      BY <3>1 DEF IInv, RowsSound, ExternalIdentified, Prepare
    <3>3. op'[f].identified = (op[f].identified \/ known)
      BY <3>1 DEF IInv, TypeOK
    <3>4. \A g \in Refunds : op[g].identified => op'[g].identified
      BY <3>1, <3>3 DEF IInv, TypeOK
    <3>5. worker'[w].refund = f /\ worker'[w].pc = "prepared"
          /\ \A v \in Workers \ {w} : worker'[v] = worker[v]
      BY DEF IInv, TypeOK, Prepare, Prepared
    <3> QED
      BY <3>2, <3>3, <3>4, <3>5 DEF IInv, TypeOK, WorkersSound, ExternalKnown
  <2>2. FailuresCounted' /\ GuardExclusive' /\ GuardHoldsToken' /\ ClaimInTime'
        /\ ObservationsSound'
    <3>1. FailuresCounted'
      BY DEF IInv, WorkersSound, FailuresCounted, Prepare, Prepared
    <3>2. GuardExclusive'
      BY DEF IInv, WorkersSound, GuardExclusive, Prepare, Prepared
    <3>3. GuardHoldsToken'
      BY DEF IInv, WorkersSound, GuardHoldsToken, Prepare, Prepared
    <3>4. ClaimInTime'
      BY DEF IInv, WorkersSound, ClaimInTime, Prepare, Prepared
    <3>5. ObservationsSound'
      BY DEF IInv, WorkersSound, ObservationsSound, Prepare, Prepared
    <3> QED
      BY <3>1, <3>2, <3>3, <3>4, <3>5
  <2> QED
    BY <2>1, <2>2 DEF WorkersSound
<1> QED
  BY <1>1, <1>2, <1>3 DEF IInv

LEMMA ClaimKeeps ==
  ASSUME IInv, NEW w \in Workers, Claim(w)
  PROVE  IInv'
<1> DEFINE f == worker[w].refund
           k == Claimant(worker[w], op[f])
<1>c. worker[w] \in Busy /\ f \in Refunds /\ op[f] \in Ops
  BY BusyWorker DEF IInv, TypeOK, Claim
<1>d. /\ op' = [op EXCEPT ![f] = ClaimedOp(op[f], w)]
      /\ ClaimedOp(op[f], w) \in Ops
  BY <1>c, ClaimedFields DEF Claim
<1>e. /\ op'[f].state = "RUNNING" /\ op'[f].token = w /\ op'[f].lease = Lease
      /\ op'[f].age = IF op[f].age = NotStarted THEN 0 ELSE op[f].age
      /\ op'[f].identified = op[f].identified /\ op'[f].failures = op[f].failures
      /\ \A g \in Refunds \ {f} : op'[g] = op[g]
  BY <1>c, <1>d, ClaimedFields DEF IInv, TypeOK
<1>f. /\ worker'[w].pc = "claimed" /\ worker'[w].refund = f
      /\ (worker'[w].first => op[f].age = NotStarted)
      /\ (op[f].identified => worker'[w].identified)
      /\ worker'[w].failures = op[f].failures
      /\ \A v \in Workers \ {w} : worker'[v] = worker[v]
  BY <1>c DEF IInv, TypeOK, Claim, Claimant
<1> HIDE DEF f
<1>1. TypeOK'
  <2>1. Claimant(worker[w], op[f]) \in Busy
    <3>1. (op[f].age = NotStarted) \in BOOLEAN
      OBVIOUS
    <3> QED
      BY <1>c, <3>1, Zenon DEF Claimant, f
  <2>2. worker' \in BusyWorkers
    BY <2>1, MovesWorker DEF IInv, Claim, f
  <2>3. op' \in [Refunds -> Ops]
    BY <1>c, <1>d, MovesOp DEF IInv
  <2> QED
    BY <2>2, <2>3 DEF IInv, TypeOK, BusyWorkers, Claim
<1>2. RowsSound'
  <2>1. TokensSound'
    BY DEF IInv, RowsSound, TokensSound, Claim, ClaimedOp, Claimant, Claimable
  <2>2. ObservedSound'
    BY DEF IInv, RowsSound, ObservedSound, Claim, ClaimedOp, Claimant, Claimable
  <2>3. ReviewHoldsBalance'
    BY DEF IInv, RowsSound, ReviewHoldsBalance, Claim, ClaimedOp, Claimant, Claimable
  <2>4. StartedSound'
    BY DEF IInv, RowsSound, StartedSound, Claim, ClaimedOp, Claimant, Claimable
  <2>5. RequestsInTime'
    BY DEF IInv, RowsSound, RequestsInTime, Claim, ClaimedOp, Claimant, Claimable
  <2>6. KeysCovered'
    BY DEF IInv, RowsSound, KeysCovered, Claim, ClaimedOp, Claimant, Claimable
  <2>7. SettledByProvider'
    BY DEF IInv, RowsSound, SettledByProvider, Claim, ClaimedOp, Claimant, Claimable
  <2>8. ExternalIdentified'
    BY DEF IInv, RowsSound, ExternalIdentified, Claim, ClaimedOp, Claimant, Claimable
  <2> QED
    BY <2>1, <2>2, <2>3, <2>4, <2>5, <2>6, <2>7, <2>8 DEF RowsSound
<1>3. WorkersSound'
  <2>1. ClaimInTime'
    <3>1. \A v \in Workers \ {w} : \A g \in Refunds :
            op'[g].token = v => op'[g] = op[g]
      BY <1>e
    <3>2. \A v \in Workers \ {w} :
            worker[v].pc # "idle" => worker[v].refund \in Refunds
      BY DEF IInv, TypeOK
    <3>3. \A v \in Workers : worker[v].pc # "calling"
      BY DEF Claim
    <3>4. op'[f].age + op'[f].lease <= Lease \/ op[f].age # NotStarted
      BY <1>e, <1>c
    <3>5. op'[f].age >= 0
      BY <1>e, <1>c
    <3>6. ASSUME NEW v \in Workers \ {w}
          PROVE  ClaimInTime!(v)'
      BY <3>1, <3>2, <3>3, <1>f DEF IInv, WorkersSound, ClaimInTime
    <3>7. ClaimInTime!(w)'
      BY <1>f, <3>4, <3>5
    <3> QED
      BY <3>6, <3>7 DEF ClaimInTime
  <2>2. FailuresCounted' /\ GuardExclusive' /\ GuardHoldsToken' /\ ObservationsSound'
    <3>1. FailuresCounted'
      BY DEF IInv, WorkersSound, FailuresCounted, Claim, ClaimedOp, Claimant, Claimable
    <3>2. GuardExclusive'
      BY DEF IInv, WorkersSound, GuardExclusive, Claim, ClaimedOp, Claimant, Claimable
    <3>3. GuardHoldsToken'
      BY DEF IInv, WorkersSound, GuardHoldsToken, Claim, ClaimedOp, Claimant, Claimable
    <3>4. ObservationsSound'
      <4>1. UNCHANGED <<hook, money>>
        BY DEF Claim
      <4>2. \A v \in Workers :
              worker'[v].pc \in {"answered", "recorded", "read"} => worker'[v] = worker[v]
        BY <1>f
      <4> QED
        BY <4>1, <4>2 DEF IInv, WorkersSound, ObservationsSound
    <3> QED
      BY <3>1, <3>2, <3>3, <3>4
  <2>3. ExternalKnown'
    BY <1>c, <1>e, <1>f DEF IInv, TypeOK, WorkersSound, ExternalKnown, Claim, f
  <2> QED
    BY <2>1, <2>2, <2>3 DEF WorkersSound
<1> QED
  BY <1>1, <1>2, <1>3 DEF IInv

LEMMA ClaimRefusedKeeps ==
  ASSUME IInv, NEW w \in Workers, ClaimRefused(w)
  PROVE  IInv'
<1>1. TypeOK'
  BY DEF IInv, TypeOK, ClaimRefused, Ends
<1>2. RowsSound'
  BY RowsUntouched DEF IInv, ClaimRefused, Ends
<1>3. WorkersSound'
  <2>1. FailuresCounted'
    BY DEF IInv, WorkersSound, FailuresCounted, ClaimRefused, Ends
  <2>2. GuardExclusive'
    BY DEF IInv, WorkersSound, GuardExclusive, ClaimRefused, Ends
  <2>3. GuardHoldsToken'
    BY DEF IInv, WorkersSound, GuardHoldsToken, ClaimRefused, Ends
  <2>4. ExternalKnown'
    BY DEF IInv, WorkersSound, ExternalKnown, ClaimRefused, Ends
  <2>5. ClaimInTime'
    BY DEF IInv, WorkersSound, ClaimInTime, ClaimRefused, Ends
  <2>6. ObservationsSound'
    BY DEF IInv, WorkersSound, ObservationsSound, ClaimRefused, Ends
  <2> QED
    BY <2>1, <2>2, <2>3, <2>4, <2>5, <2>6 DEF WorkersSound
<1> QED
  BY <1>1, <1>2, <1>3 DEF IInv

LEMMA DecideKeeps ==
  ASSUME IInv, NEW w \in Workers, Decide(w)
  PROVE  IInv'
<1>1. TypeOK'
  <2>1. worker' \in BusyWorkers
    BY BusyWorker, GoesWorker DEF IInv, Decide
  <2> QED
    BY <2>1 DEF IInv, TypeOK, BusyWorkers, Decide, Goes
<1>2. RowsSound'
  BY RowsUntouched DEF IInv, Decide, Replayable, Goes
<1>3. WorkersSound'
  <2>1. FailuresCounted'
    BY DEF IInv, WorkersSound, FailuresCounted, Decide, Replayable, Goes
  <2>2. GuardExclusive'
    BY DEF IInv, WorkersSound, GuardExclusive, Decide, Replayable, Goes
  <2>3. GuardHoldsToken'
    BY DEF IInv, WorkersSound, GuardHoldsToken, Decide, Replayable, Goes
  <2>4. ExternalKnown'
    BY DEF IInv, WorkersSound, ExternalKnown, Decide, Replayable, Goes
  <2>5. ClaimInTime'
    BY DEF IInv, TypeOK, WorkersSound, ClaimInTime, Decide, Replayable, Goes
  <2>6. ObservationsSound'
    BY DEF IInv, WorkersSound, ObservationsSound, Decide, Replayable, Goes
  <2> QED
    BY <2>1, <2>2, <2>3, <2>4, <2>5, <2>6 DEF WorkersSound
<1> QED
  BY <1>1, <1>2, <1>3 DEF IInv

LEMMA NotFoundKeeps ==
  ASSUME IInv, NEW w \in Workers, NotFound(w)
  PROVE  IInv'
<1>1. TypeOK'
  <2>1. worker' \in BusyWorkers
    BY BusyWorker, GoesWorker DEF IInv, NotFound
  <2> QED
    BY <2>1 DEF IInv, TypeOK, BusyWorkers, NotFound, Goes
<1>2. RowsSound'
  BY RowsUntouched DEF IInv, NotFound, Goes
<1>3. WorkersSound'
  <2>1. FailuresCounted'
    BY DEF IInv, WorkersSound, FailuresCounted, NotFound, Goes
  <2>2. GuardExclusive'
    BY DEF IInv, WorkersSound, GuardExclusive, NotFound, Goes
  <2>3. GuardHoldsToken'
    BY DEF IInv, WorkersSound, GuardHoldsToken, NotFound, Goes
  <2>4. ExternalKnown'
    BY DEF IInv, WorkersSound, ExternalKnown, NotFound, Goes
  <2>5. ClaimInTime'
    BY DEF IInv, WorkersSound, ClaimInTime, NotFound, Goes
  <2>6. ObservationsSound'
    BY DEF IInv, WorkersSound, ObservationsSound, NotFound, Goes
  <2> QED
    BY <2>1, <2>2, <2>3, <2>4, <2>5, <2>6 DEF WorkersSound
<1> QED
  BY <1>1, <1>2, <1>3 DEF IInv

LEMMA ReadFailsKeeps ==
  ASSUME IInv, NEW w \in Workers, ReadFails(w)
  PROVE  IInv'
<1>1. TypeOK'
  <2>1. worker' \in BusyWorkers
    BY BusyWorker, GoesWorker DEF IInv, ReadFails
  <2> QED
    BY <2>1 DEF IInv, TypeOK, BusyWorkers, ReadFails, Goes
<1>2. RowsSound'
  BY RowsUntouched DEF IInv, ReadFails, Goes
<1>3. WorkersSound'
  <2>1. FailuresCounted'
    BY DEF IInv, WorkersSound, FailuresCounted, ReadFails, Goes
  <2>2. GuardExclusive'
    BY DEF IInv, WorkersSound, GuardExclusive, ReadFails, Goes
  <2>3. GuardHoldsToken'
    BY DEF IInv, WorkersSound, GuardHoldsToken, ReadFails, Goes
  <2>4. ExternalKnown'
    BY DEF IInv, WorkersSound, ExternalKnown, ReadFails, Goes
  <2>5. ClaimInTime'
    BY DEF IInv, WorkersSound, ClaimInTime, ReadFails, Goes
  <2>6. ObservationsSound'
    BY DEF IInv, WorkersSound, ObservationsSound, ReadFails, Goes
  <2> QED
    BY <2>1, <2>2, <2>3, <2>4, <2>5, <2>6 DEF WorkersSound
<1> QED
  BY <1>1, <1>2, <1>3 DEF IInv

LEMMA LookKeeps ==
  ASSUME IInv, NEW w \in Workers, Look(w)
  PROVE  IInv'
<1>1. TypeOK'
  <2>1. worker' \in BusyWorkers
    <3>1. worker[w] \in Busy /\ worker[w].refund \in Refunds
      BY BusyWorker DEF IInv, Look
    <3>2. money[worker[w].refund] \in Money
      BY <3>1, RowTypes DEF IInv
    <3>3. [worker[w] EXCEPT !.pc = "read", !.seen = money[worker[w].refund].status] \in Busy
      BY <3>1, <3>2
    <3> QED
      BY <3>3, MovesWorker DEF IInv, Look
  <2> QED
    BY <2>1 DEF IInv, TypeOK, BusyWorkers, Look
<1>2. RowsSound'
  BY RowsUntouched DEF IInv, Look
<1>3. WorkersSound'
  <2>1. FailuresCounted'
    BY DEF IInv, WorkersSound, FailuresCounted, Look
  <2>2. GuardExclusive'
    BY DEF IInv, WorkersSound, GuardExclusive, Look
  <2>3. GuardHoldsToken'
    BY DEF IInv, WorkersSound, GuardHoldsToken, Look
  <2>4. ExternalKnown'
    BY DEF IInv, WorkersSound, ExternalKnown, Look
  <2>5. ClaimInTime'
    BY DEF IInv, WorkersSound, ClaimInTime, Look
  <2>6. ObservationsSound'
    BY DEF IInv, TypeOK, WorkersSound, ObservationsSound, Look
  <2> QED
    BY <2>1, <2>2, <2>3, <2>4, <2>5, <2>6 DEF WorkersSound
<1> QED
  BY <1>1, <1>2, <1>3 DEF IInv

LEMMA DispatchKeeps ==
  ASSUME IInv, NEW w \in Workers, Dispatch(w)
  PROVE  IInv'
<1>1. TypeOK'
  <2>1. worker' \in BusyWorkers
    BY BusyWorker, GoesWorker DEF IInv, Dispatch
  <2>2. worker[w].refund \in Refunds /\ op[worker[w].refund] \in Ops
    BY BusyWorker DEF IInv, TypeOK, Dispatch
  <2>3. [op[worker[w].refund] EXCEPT !.lease = Lease] \in Ops
    BY <2>2
  <2> QED
    BY <2>1, <2>2, <2>3, MovesOp DEF IInv, TypeOK, BusyWorkers, Dispatch
<1>2. RowsSound'
  <2>1. TokensSound'
    BY DEF IInv, RowsSound, TokensSound, Dispatch, Authorized, Goes
  <2>2. ObservedSound'
    BY DEF IInv, RowsSound, ObservedSound, Dispatch, Authorized, Goes
  <2>3. ReviewHoldsBalance'
    BY DEF IInv, RowsSound, ReviewHoldsBalance, Dispatch, Authorized, Goes
  <2>4. StartedSound'
    BY DEF IInv, RowsSound, StartedSound, Dispatch, Authorized, Goes
  <2>5. RequestsInTime'
    BY DEF IInv, RowsSound, RequestsInTime, Dispatch, Authorized, Goes
  <2>6. KeysCovered'
    BY DEF IInv, RowsSound, KeysCovered, Dispatch, Authorized, Goes
  <2>7. SettledByProvider'
    BY DEF IInv, RowsSound, SettledByProvider, Dispatch, Authorized, Goes
  <2>8. ExternalIdentified'
    BY DEF IInv, RowsSound, ExternalIdentified, Dispatch, Authorized, Goes
  <2> QED
    BY <2>1, <2>2, <2>3, <2>4, <2>5, <2>6, <2>7, <2>8 DEF RowsSound
<1>3. WorkersSound'
  <2>1. FailuresCounted'
    BY DEF IInv, WorkersSound, FailuresCounted, Dispatch, Authorized, Goes
  <2>2. GuardExclusive'
    BY DEF IInv, WorkersSound, GuardExclusive, Dispatch, Authorized, Goes
  <2>3. GuardHoldsToken'
    BY DEF IInv, WorkersSound, GuardHoldsToken, Dispatch, Authorized, Goes
  <2>4. ExternalKnown'
    BY DEF IInv, WorkersSound, ExternalKnown, Dispatch, Authorized, Goes
  <2>5. ClaimInTime'
    BY DEF IInv, TypeOK, WorkersSound, ClaimInTime, Dispatch, Authorized, Goes
  <2>6. ObservationsSound'
    BY DEF IInv, WorkersSound, ObservationsSound, Dispatch, Authorized, Goes
  <2> QED
    BY <2>1, <2>2, <2>3, <2>4, <2>5, <2>6 DEF WorkersSound
<1> QED
  BY <1>1, <1>2, <1>3 DEF IInv

LEMMA DispatchRefusedKeeps ==
  ASSUME IInv, NEW w \in Workers, DispatchRefused(w)
  PROVE  IInv'
<1>0. PICK p \in {"failing", "uncertain"} : Goes(w, p)
  BY DEF DispatchRefused
<1>a. worker[w] \in Busy /\ worker[w].pc = "sending"
  BY BusyWorker DEF IInv, DispatchRefused
<1>b. UNCHANGED <<refund, op, money, wire, hook, disposition>>
  BY DEF DispatchRefused
<1>1. TypeOK'
  <2>1. worker' \in BusyWorkers
    BY BusyWorker, GoesWorker DEF IInv, DispatchRefused
  <2> QED
    BY <2>1 DEF IInv, TypeOK, BusyWorkers, DispatchRefused
<1>2. RowsSound'
  BY RowsUntouched DEF IInv, DispatchRefused, Goes
<1>3. WorkersSound'
  <2>1. /\ \A v \in Workers : /\ worker'[v].refund = worker[v].refund
                              /\ worker'[v].failures = worker[v].failures
                              /\ worker[v].identified => worker'[v].identified
        /\ \A v \in Workers \ {w} : worker'[v] = worker[v]
        /\ worker'[w].pc = p
    BY <1>0, <1>a DEF IInv, TypeOK, Goes
  <2>2. FailuresCounted' /\ ExternalKnown'
    <3>1. FailuresCounted'
      BY <2>1, <1>a, <1>b DEF IInv, TypeOK, WorkersSound, FailuresCounted
    <3>2. ASSUME NEW v \in Workers, worker'[v].pc # "idle", worker'[v].refund \in External
          PROVE  /\ op'[worker'[v].refund].identified
                 /\ worker'[v].pc \notin {"sending", "calling", "answered", "recorded"}
                 /\ worker'[v].pc # "prepared" => worker'[v].identified
      <4>1. worker[v].pc # "idle" /\ worker[v].refund \in External
        BY <3>2, <2>1, <1>a
      <4> QED
        BY <4>1, <3>2, <2>1, <1>a, <1>b DEF IInv, WorkersSound, ExternalKnown
    <3> QED
      BY <3>1, <3>2 DEF ExternalKnown
  <2>3. GuardExclusive' /\ GuardHoldsToken' /\ ClaimInTime' /\ ObservationsSound'
    <3>1. \A v \in Workers :
            worker'[v].pc \in Guarding \cup {"claimed", "sending", "read"} =>
              worker'[v] = worker[v]
      BY <2>1
    <3>2. GuardExclusive' /\ GuardHoldsToken'
      BY <3>1, <1>b DEF IInv, WorkersSound, GuardExclusive, GuardHoldsToken
    <3>3. ClaimInTime'
      BY <3>1, <1>b DEF IInv, WorkersSound, ClaimInTime
    <3>4. ObservationsSound'
      BY <3>1, <1>b DEF IInv, WorkersSound, ObservationsSound
    <3> QED
      BY <3>2, <3>3, <3>4
  <2> QED
    BY <2>2, <2>3 DEF WorkersSound
<1> QED
  BY <1>1, <1>2, <1>3 DEF IInv

LEMMA AcceptKeeps ==
  ASSUME IInv, NEW w \in Workers, Accept(w)
  PROVE  IInv'
<1>1. TypeOK'
  <2> DEFINE f == worker[w].refund
  <2>1. PICK m \in Accepted(money[f]) :
          /\ money' = [money EXCEPT ![f] = m]
          /\ worker' = [worker EXCEPT ![w] =
                          [worker[w] EXCEPT !.pc = "answered", !.seen = m.status]]
    BY DEF Accept
  <2>2. worker[w] \in Busy /\ f \in Refunds /\ money[f] \in Money
    BY BusyWorker DEF IInv, TypeOK, Accept
  <2>3. m \in Money /\ m.status \in ProviderStatuses
    BY <2>2 DEF IInv, TypeOK, RowsSound, KeysCovered, Accepted, Created
  <2>4. [worker[w] EXCEPT !.pc = "answered", !.seen = m.status] \in Busy
    BY <2>2, <2>3
  <2> QED
    BY <2>1, <2>2, <2>3, <2>4, MovesWorker DEF IInv, TypeOK, BusyWorkers, Accept
<1>2. RowsSound'
  <2>1. TokensSound'
    BY DEF IInv, RowsSound, TokensSound, Accept, Accepted, Created
  <2>2. ObservedSound'
    BY DEF IInv, RowsSound, ObservedSound, Accept, Accepted, Created
  <2>3. ReviewHoldsBalance'
    BY DEF IInv, RowsSound, ReviewHoldsBalance, Accept, Accepted, Created
  <2>4. StartedSound'
    BY DEF IInv, RowsSound, StartedSound, Accept, Accepted, Created
  <2>5. RequestsInTime'
    BY DEF IInv, RowsSound, RequestsInTime, Accept, Accepted, Created
  <2>6. KeysCovered'
    BY DEF IInv, TypeOK, RowsSound, TokensSound, ObservedSound, ReviewHoldsBalance, StartedSound,
       RequestsInTime, SettledByProvider, ExternalIdentified, KeysCovered, WorkersSound,
       FailuresCounted, GuardExclusive, GuardHoldsToken, ExternalKnown, ClaimInTime,
       ObservationsSound, Accept, Accepted, Created
  <2>7. SettledByProvider'
    BY DEF IInv, TypeOK, RowsSound, TokensSound, ObservedSound, ReviewHoldsBalance, StartedSound,
       RequestsInTime, KeysCovered, ExternalIdentified, SettledByProvider, WorkersSound,
       FailuresCounted, GuardExclusive, GuardHoldsToken, ExternalKnown, ClaimInTime,
       ObservationsSound, Accept, Accepted, Created
  <2>8. ExternalIdentified'
    BY DEF IInv, RowsSound, ExternalIdentified, Accept, Accepted, Created
  <2> QED
    BY <2>1, <2>2, <2>3, <2>4, <2>5, <2>6, <2>7, <2>8 DEF RowsSound
<1>3. WorkersSound'
  <2>1. FailuresCounted'
    BY DEF IInv, WorkersSound, FailuresCounted, Accept, Accepted, Created
  <2>2. GuardExclusive'
    BY DEF IInv, WorkersSound, GuardExclusive, Accept, Accepted, Created
  <2>3. GuardHoldsToken'
    BY DEF IInv, WorkersSound, GuardHoldsToken, Accept, Accepted, Created
  <2>4. ExternalKnown'
    BY DEF IInv, WorkersSound, ExternalKnown, Accept, Accepted, Created
  <2>5. ClaimInTime'
    BY DEF IInv, WorkersSound, ClaimInTime, Accept, Accepted, Created
  <2>6. ObservationsSound'
    <3>0. PICK f \in Refunds : f = worker[w].refund /\ f \notin External
      BY BusyWorker DEF IInv, WorkersSound, ExternalKnown, Accept
    <3>1. money[f].objects # 0 => money[f].keyAge <= Retention
      <4>1. op[f].age + op[f].lease <= Slack /\ op[f].age \in Int /\ op[f].lease \in Nat
        BY <3>0, RowTypes DEF IInv, WorkersSound, ClaimInTime, Accept
      <4>2. money[f].objects # 0 => money[f].keyAge <= op[f].age
        BY <3>0 DEF IInv, RowsSound, KeysCovered
      <4>3. money[f].keyAge \in Int
        BY RowTypes DEF IInv
      <4> QED
        BY <4>1, <4>2, <4>3
    <3>2. PICK m \in Accepted(money[f]) :
            /\ money' = [money EXCEPT ![f] = m]
            /\ worker' = [worker EXCEPT ![w] =
                            [worker[w] EXCEPT !.pc = "answered", !.seen = m.status]]
      BY <3>0 DEF Accept
    <3>3. /\ m = money[f] \/ money[f].status = "none"
          /\ m.status \in ProviderStatuses
      BY <3>1, <3>2, RowTypes DEF IInv, RowsSound, KeysCovered, Accepted, Created
    <3>4. /\ worker'[w].seen = m.status /\ worker'[w].refund = f
          /\ \A v \in Workers \ {w} : worker'[v] = worker[v]
      BY <3>0, <3>2, BusyWorker DEF IInv, TypeOK, Accept
    <3>5. money'[f] = m /\ \A g \in Refunds \ {f} : money'[g] = money[g]
      BY <3>2 DEF IInv, TypeOK
    <3>6. \A g \in Refunds, s \in ProviderStatuses \cup {"none"} :
            MayBecome(s, money[g].status) => MayBecome(s, money'[g].status)
      BY <3>3, <3>5
    <3>7. \A v \in Workers \ {w} : worker[v].pc # "idle" => worker[v].refund \in Refunds
      BY BusyWorker DEF IInv
    <3>8. ASSUME NEW v \in Workers, worker'[v].pc \in {"answered", "recorded", "read"}
          PROVE  /\ worker'[v].seen \in ProviderStatuses
                 /\ MayBecome(worker'[v].seen, money'[worker'[v].refund].status)
      BY <3>3, <3>4, <3>5, <3>6, <3>7, <3>8 DEF IInv, WorkersSound, ObservationsSound
    <3>9. ASSUME NEW h \in Hooks, hook'[h].pc = "read"
          PROVE  MayBecome(hook'[h].seen, money'[hook'[h].refund].status)
      <4>1. hook' = hook
        BY DEF Accept
      <4>2. hook[h] \in Reading
        BY <3>9, <4>1 DEF IInv, TypeOK
      <4> QED
        BY <3>6, <3>9, <4>1, <4>2 DEF IInv, WorkersSound, ObservationsSound
    <3> QED
      BY <3>8, <3>9 DEF ObservationsSound
  <2> QED
    BY <2>1, <2>2, <2>3, <2>4, <2>5, <2>6 DEF WorkersSound
<1> QED
  BY <1>1, <1>2, <1>3 DEF IInv

LEMMA LostKeeps ==
  ASSUME IInv, NEW w \in Workers, Lost(w)
  PROVE  IInv'
<1>1. TypeOK'
  <2>1. worker' \in BusyWorkers
    BY BusyWorker, GoesWorker DEF IInv, Lost
  <2> QED
    BY <2>1 DEF IInv, TypeOK, BusyWorkers, Lost
<1>2. RowsSound'
  <2>1. TokensSound'
    BY DEF IInv, RowsSound, TokensSound, Lost, Goes
  <2>2. ObservedSound'
    BY DEF IInv, RowsSound, ObservedSound, Lost, Goes
  <2>3. ReviewHoldsBalance'
    BY DEF IInv, RowsSound, ReviewHoldsBalance, Lost, Goes
  <2>4. StartedSound'
    BY DEF IInv, RowsSound, StartedSound, Lost, Goes
  <2>5. RequestsInTime'
    BY DEF IInv, TypeOK, RowsSound, TokensSound, ObservedSound, ReviewHoldsBalance, StartedSound,
       KeysCovered, SettledByProvider, ExternalIdentified, RequestsInTime, WorkersSound,
       FailuresCounted, GuardExclusive, GuardHoldsToken, ExternalKnown, ClaimInTime,
       ObservationsSound, Lost, Goes
  <2>6. KeysCovered'
    BY DEF IInv, RowsSound, KeysCovered, Lost, Goes
  <2>7. SettledByProvider'
    BY DEF IInv, RowsSound, SettledByProvider, Lost, Goes
  <2>8. ExternalIdentified'
    BY DEF IInv, RowsSound, ExternalIdentified, Lost, Goes
  <2> QED
    BY <2>1, <2>2, <2>3, <2>4, <2>5, <2>6, <2>7, <2>8 DEF RowsSound
<1>3. WorkersSound'
  <2>1. FailuresCounted'
    BY DEF IInv, WorkersSound, FailuresCounted, Lost, Goes
  <2>2. GuardExclusive'
    BY DEF IInv, WorkersSound, GuardExclusive, Lost, Goes
  <2>3. GuardHoldsToken'
    BY DEF IInv, WorkersSound, GuardHoldsToken, Lost, Goes
  <2>4. ExternalKnown'
    BY DEF IInv, WorkersSound, ExternalKnown, Lost, Goes
  <2>5. ClaimInTime'
    BY DEF IInv, WorkersSound, ClaimInTime, Lost, Goes
  <2>6. ObservationsSound'
    BY DEF IInv, WorkersSound, ObservationsSound, Lost, Goes
  <2> QED
    BY <2>1, <2>2, <2>3, <2>4, <2>5, <2>6 DEF WorkersSound
<1> QED
  BY <1>1, <1>2, <1>3 DEF IInv

LEMMA RecordKeeps ==
  ASSUME IInv, NEW w \in Workers, Record(w)
  PROVE  IInv'
<1>1. TypeOK'
  <2>1. worker' \in BusyWorkers
    BY BusyWorker, GoesWorker DEF IInv, Record
  <2>2. worker[w].refund \in Refunds /\ op[worker[w].refund] \in Ops
    BY BusyWorker DEF IInv, TypeOK, Record
  <2>3. [op[worker[w].refund] EXCEPT !.identified = TRUE] \in Ops
    BY <2>2
  <2> QED
    BY <2>1, <2>2, <2>3, MovesOp DEF IInv, TypeOK, BusyWorkers, Record
<1>2. RowsSound'
  <2>1. TokensSound'
    BY DEF IInv, RowsSound, TokensSound, Record, Goes
  <2>2. ObservedSound'
    BY DEF IInv, RowsSound, ObservedSound, Record, Goes
  <2>3. ReviewHoldsBalance'
    BY DEF IInv, RowsSound, ReviewHoldsBalance, Record, Goes
  <2>4. StartedSound'
    BY DEF IInv, RowsSound, StartedSound, Record, Goes
  <2>5. RequestsInTime'
    BY DEF IInv, RowsSound, RequestsInTime, Record, Goes
  <2>6. KeysCovered'
    BY DEF IInv, RowsSound, KeysCovered, Record, Goes
  <2>7. SettledByProvider'
    BY DEF IInv, RowsSound, SettledByProvider, Record, Goes
  <2>8. ExternalIdentified'
    BY DEF IInv, RowsSound, ExternalIdentified, Record, Goes
  <2> QED
    BY <2>1, <2>2, <2>3, <2>4, <2>5, <2>6, <2>7, <2>8 DEF RowsSound
<1>3. WorkersSound'
  <2>1. FailuresCounted'
    BY DEF IInv, WorkersSound, FailuresCounted, Record, Goes
  <2>2. GuardExclusive'
    BY DEF IInv, WorkersSound, GuardExclusive, Record, Goes
  <2>3. GuardHoldsToken'
    BY DEF IInv, WorkersSound, GuardHoldsToken, Record, Goes
  <2>4. ExternalKnown'
    BY DEF IInv, WorkersSound, ExternalKnown, Record, Goes
  <2>5. ClaimInTime'
    <3>1. \A v \in Workers : /\ worker'[v].pc \in {"claimed", "sending", "calling"} =>
                                  worker'[v] = worker[v]
      BY DEF Record, Goes
    <3>2. \A f \in Refunds : /\ op'[f].age = op[f].age /\ op'[f].lease = op[f].lease
                             /\ op'[f].token = op[f].token
      BY RowTypes DEF IInv, TypeOK, Record
    <3>3. \A v \in Workers : worker[v].pc # "idle" => worker[v].refund \in Refunds
      BY BusyWorker DEF IInv
    <3> QED
      BY <3>1, <3>2, <3>3 DEF IInv, WorkersSound, ClaimInTime
  <2>6. ObservationsSound'
    BY DEF IInv, WorkersSound, ObservationsSound, Record, Goes
  <2> QED
    BY <2>1, <2>2, <2>3, <2>4, <2>5, <2>6 DEF WorkersSound
<1> QED
  BY <1>1, <1>2, <1>3 DEF IInv

LEMMA CrashKeeps ==
  ASSUME IInv, NEW w \in Workers, Crash(w)
  PROVE  IInv'
<1>1. TypeOK'
  <2>1. worker' \in BusyWorkers
    BY EndsWorker DEF IInv, Crash
  <2>2. wire' \in [Refunds -> 0..Wire]
    BY BusyWorker DEF IInv, TypeOK, Crash
  <2> QED
    BY <2>1, <2>2 DEF IInv, TypeOK, BusyWorkers, Crash
<1>2. RowsSound'
  <2>1. CASE worker[w].pc = "calling"
    <3>1. worker[w].refund \in Refunds \ External
      BY <2>1, BusyWorker DEF IInv, WorkersSound, ExternalKnown
    <3> QED
      <4>1. RequestsInTime'
        <5>0. PICK f \in Refunds : f = worker[w].refund /\ f \notin External
          BY <3>1
        <5>1. /\ op[f].age >= 0 /\ op[f].age + op[f].lease <= Slack
              /\ op[f].lease \in Nat /\ op[f].age \in Int
          BY <2>1, <5>0 DEF IInv, TypeOK, WorkersSound, ClaimInTime
        <5>2. PICK left \in {wire[f], Wire} : wire' = [wire EXCEPT ![f] = left]
          BY <2>1, <5>0 DEF Crash
        <5>3. \A g \in Refunds : wire'[g] = IF g = f THEN left ELSE wire[g]
          BY <5>2 DEF IInv, TypeOK
        <5>4. op' = op
          BY DEF Crash
        <5>5. ASSUME NEW g \in Refunds \ {f} PROVE RequestsInTime!(g)'
          BY <5>3, <5>4 DEF IInv, RowsSound, RequestsInTime
        <5>6. RequestsInTime!(f)'
          BY <5>0, <5>1, <5>2, <5>3, <5>4 DEF IInv, RowsSound, RequestsInTime
        <5> QED
          BY <5>5, <5>6 DEF RequestsInTime
      <4>2. UNCHANGED <<refund, op, money, disposition>>
        BY DEF Crash
      <4> QED
        BY <4>1, <4>2 DEF IInv, RowsSound, TokensSound, ObservedSound, ReviewHoldsBalance, StartedSound, RequestsInTime,
     KeysCovered, SettledByProvider, ExternalIdentified
  <2>2. CASE worker[w].pc # "calling"
    BY <2>2, RowsUntouched DEF IInv, Crash
  <2> QED
    BY <2>1, <2>2
<1>3. WorkersSound'
  <2>1. FailuresCounted'
    BY DEF IInv, WorkersSound, FailuresCounted, Crash, Ends
  <2>2. GuardExclusive'
    BY DEF IInv, WorkersSound, GuardExclusive, Crash, Ends
  <2>3. GuardHoldsToken'
    BY DEF IInv, WorkersSound, GuardHoldsToken, Crash, Ends
  <2>4. ExternalKnown'
    BY DEF IInv, WorkersSound, ExternalKnown, Crash, Ends
  <2>5. ClaimInTime'
    BY DEF IInv, WorkersSound, ClaimInTime, Crash, Ends
  <2>6. ObservationsSound'
    BY DEF IInv, WorkersSound, ObservationsSound, Crash, Ends
  <2> QED
    BY <2>1, <2>2, <2>3, <2>4, <2>5, <2>6 DEF WorkersSound
<1> QED
  BY <1>1, <1>2, <1>3 DEF IInv

LEMMA RetrieveKeeps ==
  ASSUME IInv, NEW h \in Hooks, NEW f \in Refunds, Retrieve(h, f)
  PROVE  IInv'
<1>1. TypeOK'
  BY DEF IInv, TypeOK, Retrieve
<1>2. RowsSound'
  BY RowsUntouched DEF IInv, Retrieve
<1>3. WorkersSound'
  <2>1. FailuresCounted'
    BY DEF IInv, WorkersSound, FailuresCounted, Retrieve
  <2>2. GuardExclusive'
    BY DEF IInv, WorkersSound, GuardExclusive, Retrieve
  <2>3. GuardHoldsToken'
    BY DEF IInv, WorkersSound, GuardHoldsToken, Retrieve
  <2>4. ExternalKnown'
    BY DEF IInv, WorkersSound, ExternalKnown, Retrieve
  <2>5. ClaimInTime'
    BY DEF IInv, WorkersSound, ClaimInTime, Retrieve
  <2>6. ObservationsSound'
    BY DEF IInv, WorkersSound, ObservationsSound, Retrieve
  <2> QED
    BY <2>1, <2>2, <2>3, <2>4, <2>5, <2>6 DEF WorkersSound
<1> QED
  BY <1>1, <1>2, <1>3 DEF IInv

LEMMA ImportKeeps ==
  ASSUME IInv, NEW h \in Hooks, Import(h)
  PROVE  IInv'
<1>1. TypeOK'
  BY DEF IInv, TypeOK, Import
<1>2. RowsSound'
  <2>1. TokensSound'
    BY DEF IInv, RowsSound, TokensSound, Import
  <2>2. ObservedSound'
    BY DEF IInv, RowsSound, ObservedSound, Import
  <2>3. ReviewHoldsBalance'
    BY DEF IInv, RowsSound, ReviewHoldsBalance, Import
  <2>4. StartedSound'
    BY DEF IInv, RowsSound, StartedSound, Import
  <2>5. RequestsInTime'
    BY DEF IInv, RowsSound, RequestsInTime, Import
  <2>6. KeysCovered'
    BY DEF IInv, RowsSound, KeysCovered, Import
  <2>7. SettledByProvider'
    BY DEF IInv, RowsSound, SettledByProvider, Import
  <2>8. ExternalIdentified'
    BY DEF IInv, RowsSound, ExternalIdentified, Import
  <2> QED
    BY <2>1, <2>2, <2>3, <2>4, <2>5, <2>6, <2>7, <2>8 DEF RowsSound
<1>3. WorkersSound'
  <2>1. FailuresCounted'
    BY DEF IInv, WorkersSound, FailuresCounted, Import
  <2>2. GuardExclusive'
    BY DEF IInv, WorkersSound, GuardExclusive, Import
  <2>3. GuardHoldsToken'
    BY DEF IInv, WorkersSound, GuardHoldsToken, Import
  <2>4. ExternalKnown'
    BY DEF IInv, WorkersSound, ExternalKnown, Import
  <2>5. ClaimInTime'
    BY DEF IInv, WorkersSound, ClaimInTime, Import
  <2>6. ObservationsSound'
    BY DEF IInv, WorkersSound, ObservationsSound, Import
  <2> QED
    BY <2>1, <2>2, <2>3, <2>4, <2>5, <2>6 DEF WorkersSound
<1> QED
  BY <1>1, <1>2, <1>3 DEF IInv

LEMMA HookCrashKeeps ==
  ASSUME IInv, NEW h \in Hooks, HookCrash(h)
  PROVE  IInv'
<1>1. TypeOK'
  BY DEF IInv, TypeOK, HookCrash
<1>2. RowsSound'
  BY RowsUntouched DEF IInv, HookCrash
<1>3. WorkersSound'
  <2>1. FailuresCounted'
    BY DEF IInv, WorkersSound, FailuresCounted, HookCrash
  <2>2. GuardExclusive'
    BY DEF IInv, WorkersSound, GuardExclusive, HookCrash
  <2>3. GuardHoldsToken'
    BY DEF IInv, WorkersSound, GuardHoldsToken, HookCrash
  <2>4. ExternalKnown'
    BY DEF IInv, WorkersSound, ExternalKnown, HookCrash
  <2>5. ClaimInTime'
    BY DEF IInv, WorkersSound, ClaimInTime, HookCrash
  <2>6. ObservationsSound'
    BY DEF IInv, WorkersSound, ObservationsSound, HookCrash
  <2> QED
    BY <2>1, <2>2, <2>3, <2>4, <2>5, <2>6 DEF WorkersSound
<1> QED
  BY <1>1, <1>2, <1>3 DEF IInv

\* What is left of the workers when f is no longer executed, or goes on as it was.
LEMMA ReleasedWorkers ==
  ASSUME IInv, NEW f \in Refunds,
         \A g \in Refunds \ {f} : op'[g] = op[g],
         op'[f] = op[f] \/ op'[f].token = None,
         op[f].identified => op'[f].identified,
         op'[f].state # "REVIEW" => op'[f].failures < MaxFailures,
         \A v \in Workers : worker'[v] = worker[v] \/ worker'[v] = Idle,
         \A v \in Workers : worker'[v].pc \in Guarding => op'[worker[v].refund].token = v,
         \A h \in Hooks : hook'[h] = hook[h] \/ hook'[h] = Idle,
         money' = money
  PROVE  WorkersSound'
<1>0. \A v \in Workers :
        worker[v].pc # "idle" => worker[v].refund \in Refunds
  BY DEF IInv, TypeOK
<1>a. \A v \in Workers : worker'[v].pc # "idle" => worker'[v] = worker[v]
  OBVIOUS
<1>b. \A g \in Refunds, v \in Workers : op'[g].token = v => op'[g] = op[g]
  OBVIOUS
<1>1. FailuresCounted'
  <2>1. \A g \in Refunds : op'[g].state # "REVIEW" => op'[g].failures < MaxFailures
    BY DEF IInv, WorkersSound, FailuresCounted
  <2>2. ASSUME NEW v \in Workers, worker'[v].pc \notin {"idle", "prepared"},
               op'[worker'[v].refund].token = v
        PROVE  op'[worker'[v].refund].failures = worker'[v].failures
    BY <2>2, <1>0, <1>a, <1>b DEF IInv, WorkersSound, FailuresCounted
  <2> QED
    BY <2>1, <2>2 DEF FailuresCounted
<1>2. GuardExclusive' /\ GuardHoldsToken'
  BY <1>0, <1>a DEF IInv, WorkersSound, GuardExclusive, GuardHoldsToken
<1>3. ExternalKnown'
  <2>1. \A g \in Refunds : op[g].identified => op'[g].identified
    OBVIOUS
  <2> QED
    BY <1>0, <1>a, <2>1 DEF IInv, WorkersSound, ExternalKnown
<1>4. ClaimInTime'
  <2>1. \A v \in Workers : worker'[v].pc = "calling" =>
          worker[v].refund \in Refunds /\ op'[worker[v].refund].token = v
    BY <1>0, <1>a
  <2> QED
    BY <1>0, <1>a, <1>b, <2>1 DEF IInv, WorkersSound, ClaimInTime
<1>5. ObservationsSound'
  BY <1>a DEF IInv, WorkersSound, ObservationsSound
<1> QED
  BY <1>1, <1>2, <1>3, <1>4, <1>5 DEF WorkersSound

\* An observation, and with it perhaps the result of an execution, is stored.
LEMMA ObservationRows ==
  ASSUME IInv, NEW f \in Refunds, NEW seen \in ProviderStatuses,
         MayBecome(seen, money[f].status), refund[f].status # "ABSENT",
         \A g \in Refunds \ {f} : op'[g] = op[g],
         op'[f].age = op[f].age,
         seen # "pending" => op'[f].state = "OBSERVED" /\ op'[f].token = None,
         seen = "pending" => op'[f] = op[f] \/ (op'[f].state = "READY" /\ op'[f].token = None),
         refund' = [refund EXCEPT ![f] = Applied(f, seen)],
         disposition' = DispositionAfter(f, seen),
         UNCHANGED <<money, wire>>
  PROVE  /\ RowsSound'
         /\ refund' \in [Refunds -> RefundRows]
         /\ disposition' \in Dispositions
<1>1. /\ \A g \in Refunds \ {f} : refund'[g] = refund[g]
      /\ refund'[f] = Applied(f, seen)
  BY DEF IInv, TypeOK
<1>2. /\ seen = "succeeded" => refund'[f].status = "SUCCEEDED"
      /\ seen = "failed" => refund'[f].status = "FAILED"
      /\ seen = "pending" => refund'[f].status = refund[f].status
  BY <1>1 DEF Applied, RowStatus
<1>3. Applied(f, seen) \in RefundRows
  <2>1. [status |-> RowStatus(seen), identified |-> TRUE] \in RefundRows
    BY DEF RowStatus
  <2>2. refund[f] \in RefundRows
    BY DEF IInv, TypeOK
  <2> QED
    BY <2>1, <2>2 DEF Applied
<1>4. refund' \in [Refunds -> RefundRows]
  BY <1>3 DEF IInv, TypeOK
<1>5. /\ disposition' \in Dispositions
      /\ disposition = "REVIEW" => disposition' = "REVIEW"
  BY DEF IInv, TypeOK, DispositionAfter
<1>6. TokensSound' /\ ObservedSound' /\ StartedSound'
  BY <1>1, <1>2 DEF IInv, RowsSound, TokensSound, ObservedSound, StartedSound
<1>7. ReviewHoldsBalance'
  BY <1>1, <1>2, <1>5 DEF IInv, RowsSound, ReviewHoldsBalance
<1>8. RequestsInTime' /\ KeysCovered'
  <2>1. \A g \in Refunds : op'[g].age = op[g].age
    OBVIOUS
  <2> QED
    BY <2>1 DEF IInv, RowsSound, RequestsInTime, KeysCovered
<1>9. SettledByProvider'
  BY <1>1, <1>2 DEF IInv, RowsSound, SettledByProvider
<1>10. ExternalIdentified'
  <2>1. refund[f].identified => Applied(f, seen).identified
    BY DEF Applied
  <2> QED
    BY <1>1, <1>2, <2>1 DEF IInv, RowsSound, ExternalIdentified
<1> QED
  BY <1>4, <1>5, <1>6, <1>7, <1>8, <1>9, <1>10 DEF RowsSound

LEMMA SaveKeeps ==
  ASSUME IInv, NEW w \in Workers, Save(w)
  PROVE  IInv'
<1>0. PICK f \in Refunds : f = worker[w].refund /\ op[f] \in Ops /\ worker[w] \in Busy
  BY BusyWorker DEF IInv, TypeOK, Save
<1> DEFINE seen == worker[w].seen
<1>1. seen \in ProviderStatuses /\ MayBecome(seen, money[f].status)
  BY <1>0 DEF IInv, WorkersSound, ObservationsSound, Save
<1>2. CASE HoldsLease(w, f) /\ ApplyTx(f, SavedOp(op[f], seen), seen) /\ Ends(w)
  <2> DEFINE o == ObservedOp(SavedOp(op[f], seen), seen)
  <2>1. SavedOp(op[f], seen) \in Ops /\ o \in Ops
    BY <1>0, SavedFields, ObservedFields
  <2>2. /\ o.token = None /\ o.age = op[f].age /\ o.identified /\ o.failures = 0
        /\ o.state = IF seen = "pending" THEN "READY" ELSE "OBSERVED"
    BY <1>0, <2>1, SavedFields, ObservedFields
  <2>3. op' = [op EXCEPT ![f] = o]
    BY <1>2 DEF ApplyTx
  <2>4. op'[f] = o /\ \A g \in Refunds \ {f} : op'[g] = op[g]
    BY <2>3 DEF IInv, TypeOK
  <2>5. /\ worker'[w] = Idle /\ \A v \in Workers \ {w} : worker'[v] = worker[v]
        /\ worker' \in BusyWorkers
    BY <1>2, EndsWorker DEF IInv, TypeOK, Ends
  <2>6. refund[f].status # "ABSENT"
    BY <1>2 DEF IInv, RowsSound, TokensSound
  <2> HIDE DEF o
  <2>7. RowsSound' /\ refund' \in [Refunds -> RefundRows] /\ disposition' \in Dispositions
    <3>1. /\ refund' = [refund EXCEPT ![f] = Applied(f, seen)]
          /\ disposition' = DispositionAfter(f, seen)
          /\ UNCHANGED <<money, wire>>
      BY <1>2 DEF ApplyTx, Save
    <3>2. /\ \A g \in Refunds \ {f} : op'[g] = op[g]
          /\ op'[f].age = op[f].age
          /\ seen # "pending" => op'[f].state = "OBSERVED" /\ op'[f].token = None
          /\ seen = "pending" => op'[f].state = "READY" /\ op'[f].token = None
      BY <2>2, <2>4
    <3> HIDE DEF seen
    <3> QED
      BY <1>1, <2>6, <3>1, <3>2, ObservationRows
  <2>8. \A v \in Workers \ {w} : worker[v].pc \notin Guarding
    BY DEF IInv, WorkersSound, GuardExclusive, Save
  <2>9. WorkersSound'
    BY <2>2, <2>4, <2>5, <2>8, ReleasedWorkers DEF Save
  <2>10. TypeOK'
    BY <2>1, <2>3, <2>5, <2>7, MovesOp DEF IInv, TypeOK, BusyWorkers, Save
  <2> QED
    BY <2>7, <2>9, <2>10 DEF IInv
<1>3. CASE ~HoldsLease(w, f) /\ Goes(w, "failing") /\ UNCHANGED <<refund, op, disposition>>
  <2>1. UNCHANGED <<refund, op, disposition, money, wire, hook, crashes>>
    BY <1>3 DEF Save
  <2>2. /\ worker'[w].pc = "failing" /\ worker'[w].refund = f
        /\ worker'[w].failures = worker[w].failures
        /\ worker[w].identified => worker'[w].identified
        /\ \A v \in Workers \ {w} : worker'[v] = worker[v]
        /\ worker' \in BusyWorkers
    BY <1>0, <1>3, GoesWorker DEF IInv, TypeOK, Goes
  <2>3. TypeOK'
    BY <2>1, <2>2 DEF IInv, TypeOK, BusyWorkers
  <2>4. RowsSound'
    BY <2>1, RowsUntouched DEF IInv
  <2>5. worker[w].pc \in {"recorded", "read"}
    BY DEF Save
  <2>6. FailuresCounted'
    BY <1>0, <2>1, <2>2, <2>5 DEF IInv, WorkersSound, FailuresCounted
  <2>7. ExternalKnown'
    BY <1>0, <2>1, <2>2, <2>5 DEF IInv, WorkersSound, ExternalKnown
  <2>8. GuardExclusive' /\ GuardHoldsToken' /\ ClaimInTime' /\ ObservationsSound'
    BY <2>1, <2>2, <2>5 DEF IInv, WorkersSound, GuardExclusive, GuardHoldsToken, ClaimInTime,
       ObservationsSound
  <2> QED
    BY <2>3, <2>4, <2>6, <2>7, <2>8 DEF IInv, WorkersSound
<1> QED
  BY <1>0, <1>2, <1>3 DEF Save

LEMMA ApplyKeeps ==
  ASSUME IInv, NEW h \in Hooks, Apply(h)
  PROVE  IInv'
<1>0. PICK f \in Refunds : f = hook[h].refund /\ op[f] \in Ops
  BY DEF IInv, TypeOK, Apply
<1> DEFINE seen == hook[h].seen
           o == ObservedOp(op[f], seen)
<1>1. seen \in ProviderStatuses /\ MayBecome(seen, money[f].status)
  BY <1>0 DEF IInv, TypeOK, WorkersSound, ObservationsSound, Apply
<1>2. /\ o \in Ops /\ o.age = op[f].age
      /\ seen = "pending" => o = op[f]
      /\ seen # "pending" => o.state = "OBSERVED" /\ o.token = None /\ o.identified
                             /\ o.failures = 0
  BY <1>0, ObservedFields
<1>3. op' = [op EXCEPT ![f] = o]
  BY <1>0 DEF Apply, ApplyTx
<1>4. op'[f] = o /\ \A g \in Refunds \ {f} : op'[g] = op[g]
  BY <1>3 DEF IInv, TypeOK
<1> HIDE DEF o
<1>5. RowsSound' /\ refund' \in [Refunds -> RefundRows] /\ disposition' \in Dispositions
  <2>1. /\ refund' = [refund EXCEPT ![f] = Applied(f, seen)]
        /\ disposition' = DispositionAfter(f, seen)
        /\ refund[f].status # "ABSENT"
        /\ UNCHANGED <<money, wire>>
    BY <1>0 DEF Apply, ApplyTx
  <2>2. /\ \A g \in Refunds \ {f} : op'[g] = op[g]
        /\ op'[f].age = op[f].age
        /\ seen # "pending" => op'[f].state = "OBSERVED" /\ op'[f].token = None
        /\ seen = "pending" => op'[f] = op[f]
    BY <1>2, <1>4
  <2> HIDE DEF seen
  <2> QED
    BY <1>1, <2>1, <2>2, ObservationRows
<1>6. \A g \in Hooks : hook'[g] = hook[g] \/ hook'[g] = Idle
  BY DEF IInv, TypeOK, Apply
<1>7. op[f].state # "REVIEW" => op[f].failures < MaxFailures
  BY DEF IInv, WorkersSound, FailuresCounted
<1>8. worker' = worker /\ money' = money /\ \A v \in Workers : worker[v].pc \notin Guarding
  BY DEF Apply
<1>9. op[f].identified => o.identified
  BY <1>2
<1>10. o.state # "REVIEW" => o.failures < MaxFailures
  BY <1>2, <1>7
<1>11. WorkersSound'
  BY <1>2, <1>4, <1>6, <1>8, <1>9, <1>10, ReleasedWorkers
<1>12. TypeOK'
  <2>1. hook' \in [Hooks -> {Idle} \cup Reading]
    BY DEF IInv, TypeOK, Apply
  <2> QED
    BY <1>2, <1>3, <1>5, <2>1, MovesOp DEF IInv, TypeOK, Apply
<1> QED
  BY <1>5, <1>11, <1>12 DEF IInv

LEMMA FailKeeps ==
  ASSUME IInv, NEW w \in Workers, Fail(w)
  PROVE  IInv'
<1>0. PICK f \in Refunds : f = worker[w].refund /\ op[f] \in Ops
  BY BusyWorker DEF IInv, TypeOK, Fail
<1>1. /\ worker'[w] = Idle /\ \A v \in Workers \ {w} : worker'[v] = worker[v]
      /\ worker' \in BusyWorkers
  BY EndsWorker DEF IInv, TypeOK, Fail, Ends
<1>2. \A v \in Workers : worker[v].pc \notin Guarding
  BY DEF Fail
<1>3. CASE op[f].token = w
  <2> DEFINE o == FailedOp(op[f], worker[w])
  <2>1. /\ op[f].state = "RUNNING" /\ refund[f].status = "PENDING"
        /\ op[f].failures < MaxFailures /\ op[f].failures = worker[w].failures
    BY <1>0, <1>3 DEF IInv, RowsSound, TokensSound, WorkersSound, FailuresCounted, Fail
  <2>2. /\ o \in Ops
        /\ o.state = IF GivesUp(worker[w]) THEN "REVIEW" ELSE "READY"
        /\ o.token = None /\ o.age = op[f].age /\ (op[f].identified => o.identified)
        /\ o.failures = op[f].failures + 1
    BY <1>0, <2>1, FailedFields
  <2>3. o.state # "REVIEW" => o.failures < MaxFailures
    BY <2>1, <2>2 DEF GivesUp, IInv, TypeOK
  <2>4. op' = [op EXCEPT ![f] = o] /\ disposition' = Quarantined(worker[w])
    BY <1>0, <1>3 DEF Fail
  <2>5. op'[f] = o /\ \A g \in Refunds \ {f} : op'[g] = op[g]
    BY <2>4 DEF IInv, TypeOK
  <2>6. /\ o.state = "REVIEW" => disposition' = "REVIEW"
        /\ disposition' \in {disposition, "REVIEW"}
    BY <2>2, <2>4 DEF Quarantined
  <2>7. UNCHANGED <<refund, money, wire, hook, crashes>>
    BY DEF Fail
  <2> HIDE DEF o
  <2>8. WorkersSound'
    BY <1>1, <1>2, <2>2, <2>3, <2>5, <2>7, ReleasedWorkers
  <2>9. TokensSound' /\ ObservedSound' /\ StartedSound' /\ ReviewHoldsBalance'
    BY <2>1, <2>2, <2>5, <2>6, <2>7 DEF IInv, RowsSound, TokensSound, ObservedSound,
       StartedSound, ReviewHoldsBalance
  <2>10. \A g \in Refunds : op'[g].age = op[g].age
    BY <2>2, <2>5
  <2>11. RequestsInTime' /\ KeysCovered' /\ SettledByProvider' /\ ExternalIdentified'
    BY <2>7, <2>10 DEF IInv, RowsSound, RequestsInTime, KeysCovered, SettledByProvider,
       ExternalIdentified
  <2>12. TypeOK'
    BY <1>1, <2>2, <2>4, <2>6, <2>7, MovesOp DEF IInv, TypeOK, BusyWorkers
  <2> QED
    BY <2>8, <2>9, <2>11, <2>12 DEF IInv, RowsSound
<1>4. CASE op[f].token # w
  <2>1. UNCHANGED <<refund, op, disposition, money, wire, hook, crashes>>
    BY <1>0, <1>4 DEF Fail
  <2>2. op[f].state # "REVIEW" => op[f].failures < MaxFailures
    BY DEF IInv, WorkersSound, FailuresCounted
  <2>3. WorkersSound'
    BY <1>1, <1>2, <2>1, <2>2, ReleasedWorkers
  <2>4. RowsSound'
    BY <2>1 DEF IInv, RowsSound, TokensSound, ObservedSound, ReviewHoldsBalance, StartedSound,
       RequestsInTime, KeysCovered, SettledByProvider, ExternalIdentified
  <2>5. TypeOK'
    BY <1>1, <2>1 DEF IInv, TypeOK, BusyWorkers
  <2> QED
    BY <2>3, <2>4, <2>5 DEF IInv
<1> QED
  BY <1>3, <1>4

\* A remaining time that passes stays within its bound.
LEMMA LessInRange ==
  ASSUME NEW t \in 0..Wire
  PROVE  Less(t) \in 0..Wire
<1>1. Wire \in Nat
  OBVIOUS
<1>2. CASE t = 0
  BY <1>2 DEF Less
<1>3. CASE t # 0
  BY <1>1, <1>3 DEF Less
<1> QED
  BY <1>2, <1>3

\* Time passes for leases, requests and keys alike.
LEMMA TickKeeps ==
  ASSUME IInv, Tick
  PROVE  IInv'
<1>1. \A f \in Refunds : /\ op[f] \in Ops /\ op'[f] = OpLater(op[f])
                         /\ money[f] \in Money /\ money'[f] = MoneyLater(money[f])
                         /\ wire[f] \in 0..Wire /\ wire'[f] = Less(wire[f])
  BY DEF IInv, TypeOK, Tick
<1>2. \A f \in Refunds :
        /\ op'[f] \in Ops /\ op'[f].state = op[f].state /\ op'[f].token = op[f].token
        /\ op[f].identified => op'[f].identified
        /\ op'[f].failures = op[f].failures
        /\ op'[f].lease = IF op[f].lease = 0 THEN 0 ELSE op[f].lease - 1
        /\ op'[f].age = IF op[f].age = NotStarted \/ op[f].age = Horizon THEN op[f].age
                        ELSE op[f].age + 1
  BY <1>1, LaterFields
<1>3. \A f \in Refunds :
        /\ money'[f] \in Money /\ money'[f].status = money[f].status
        /\ money'[f].objects = money[f].objects
        /\ money'[f].keyAge = IF money[f].objects = 0 THEN 0
                              ELSE IF money[f].keyAge = Horizon THEN Horizon
                              ELSE money[f].keyAge + 1
  BY <1>1, MoneyLaterFields
<1>4. UNCHANGED <<refund, worker, hook, disposition, crashes>>
  BY DEF Tick
<1>5. TypeOK'
  <2>1. op' \in [Refunds -> Ops]
    BY <1>2 DEF Tick
  <2>2. money' \in [Refunds -> Money]
    BY <1>3 DEF Tick
  <2>3. wire' \in [Refunds -> 0..Wire]
    <3>1. \A f \in Refunds : Less(wire[f]) \in 0..Wire
      BY <1>1, LessInRange
    <3> QED
      BY <3>1 DEF Tick
  <2> QED
    BY <1>4, <2>1, <2>2, <2>3 DEF IInv, TypeOK
<1>6. TokensSound' /\ ObservedSound' /\ StartedSound' /\ ReviewHoldsBalance'
  BY <1>2, <1>4 DEF IInv, RowsSound, TokensSound, ObservedSound, StartedSound,
     ReviewHoldsBalance
<1>7. RequestsInTime'
  BY <1>1, <1>2 DEF IInv, RowsSound, RequestsInTime, Less
<1>8. KeysCovered'
  <2>1. \A f \in Refunds : op[f].age \in NotStarted..Horizon /\ money[f].keyAge \in 0..Horizon
    BY <1>1
  <2> QED
    BY <1>2, <1>3, <2>1 DEF IInv, RowsSound, KeysCovered
<1>9. SettledByProvider' /\ ExternalIdentified'
  BY <1>3, <1>4 DEF IInv, RowsSound, SettledByProvider, ExternalIdentified
<1>10. \A w \in Workers : worker[w].pc # "idle" => worker[w].refund \in Refunds
  BY DEF IInv, TypeOK
<1>11. FailuresCounted' /\ ExternalKnown' /\ GuardExclusive' /\ GuardHoldsToken'
  BY <1>2, <1>4, <1>10 DEF IInv, WorkersSound, FailuresCounted, ExternalKnown, GuardExclusive,
     GuardHoldsToken
<1>12. ClaimInTime'
  <2>1. \A f \in Refunds : /\ op[f].lease \in 0..Lease /\ op[f].age \in NotStarted..Horizon
    BY <1>1
  <2>2. \A w \in Workers : worker[w].pc = "calling" => op[worker[w].refund].lease > 0
    BY DEF Tick, InTime
  <2>3. ASSUME NEW w \in Workers, worker[w].pc # "idle" PROVE ClaimInTime!(w)'
    BY <1>2, <1>4, <1>10, <2>1, <2>2, <2>3 DEF IInv, WorkersSound, ClaimInTime
  <2>4. ASSUME NEW w \in Workers, worker[w].pc = "idle" PROVE ClaimInTime!(w)'
    BY <1>4, <2>4
  <2> QED
    BY <2>3, <2>4 DEF ClaimInTime
<1>13. ObservationsSound'
  <2>1. \A h \in Hooks : hook[h].pc = "read" => hook[h].refund \in Refunds
    BY DEF IInv, TypeOK
  <2> QED
    BY <1>3, <1>4, <1>10, <2>1 DEF IInv, WorkersSound, ObservationsSound
<1> QED
  BY <1>5, <1>6, <1>7, <1>8, <1>9, <1>11, <1>12, <1>13 DEF IInv, RowsSound, WorkersSound

-----------------------------------------------------------------------------
(* The theorems.                                                           *)

LEMMA InitSound == Init => IInv
<1> SUFFICES ASSUME Init PROVE IInv
  OBVIOUS
<1>1. NewOp \in Ops
  BY DEF NewOp
<1>2. TypeOK
  BY <1>1 DEF Init, TypeOK
<1>3. RowsSound
  BY DEF Init, NewOp, RowsSound, TokensSound, ObservedSound, ReviewHoldsBalance, StartedSound,
     RequestsInTime, KeysCovered, SettledByProvider, ExternalIdentified
<1>4. WorkersSound
  BY DEF Init, NewOp, WorkersSound, FailuresCounted, GuardExclusive, GuardHoldsToken,
     ExternalKnown, ClaimInTime, ObservationsSound
<1> QED
  BY <1>2, <1>3, <1>4 DEF IInv

LEMMA StepSound == IInv /\ [Next]_vars => IInv'
<1> SUFFICES ASSUME IInv, [Next]_vars PROVE IInv'
  OBVIOUS
<1>1. ASSUME NEW f \in Refunds,
             \/ Reserve(f) \/ LateAccept(f) \/ PayExternal(f)
             \/ ProviderSettles(f) \/ ProviderReverses(f)
      PROVE  IInv'
  BY <1>1, ReserveKeeps, LateAcceptKeeps, PayExternalKeeps, ProviderKeeps
<1>2. ASSUME NEW w \in Workers, WorkerStep(w) \/ Crash(w) \/ \E f \in Refunds : Prepare(w, f)
      PROVE  IInv'
  BY <1>2, PrepareKeeps, ClaimKeeps, ClaimRefusedKeeps, DecideKeeps, LookKeeps, NotFoundKeeps,
     ReadFailsKeeps, DispatchKeeps, DispatchRefusedKeeps, AcceptKeeps, LostKeeps, RecordKeeps,
     SaveKeeps, FailKeeps, CrashKeeps DEF WorkerStep
<1>3. ASSUME NEW h \in Hooks,
             Import(h) \/ Apply(h) \/ HookCrash(h) \/ \E f \in Refunds : Retrieve(h, f)
      PROVE  IInv'
  BY <1>3, RetrieveKeeps, ImportKeeps, ApplyKeeps, HookCrashKeeps
<1>4. CASE UNCHANGED vars
  <2>1. TypeOK'
    BY <1>4 DEF vars, IInv, TypeOK
  <2>2. RowsSound'
    BY <1>4, RowsUntouched DEF vars, IInv
  <2>3. WorkersSound'
    BY <1>4, WorkersUntouched DEF vars, IInv
  <2> QED
    BY <2>1, <2>2, <2>3 DEF IInv
<1> QED
  BY <1>1, <1>2, <1>3, <1>4, TickKeeps DEF Next

LEMMA Invariance == Spec => []IInv
  BY InitSound, StepSound, PTL DEF Spec

\* The rows, executions and objects have their types.
THEOREM TypeCorrect == Spec => []TypeOK
  BY Invariance, PTL DEF IInv

\* However many workers execute an operation, and however late their requests
\* arrive, the provider makes one refund of it.
THEOREM OneRefundObject == Spec => []SingleRefundObject
<1>1. IInv => SingleRefundObject
  BY DEF IInv, RowsSound, KeysCovered, SingleRefundObject
<1> QED
  BY <1>1, Invariance, PTL

\* The ledger settles a refund only as the provider did.
THEOREM SettledAsAtProvider == Spec => []SettledByProvider
<1>1. IInv => SettledByProvider
  BY DEF IInv, RowsSound
<1> QED
  BY <1>1, Invariance, PTL

\* What was given up for staff keeps its share of the balance.
THEOREM GivenUpKeepsBalance == Spec => []ReviewHoldsBalance
<1>1. IInv => ReviewHoldsBalance
  BY DEF IInv, RowsSound
<1> QED
  BY <1>1, Invariance, PTL

\* The operations that a step leaves alone, and those it may change.
LEMMA ObservedStays ==
  ASSUME IInv, [Next]_vars, NEW f \in Refunds, op[f].state = "OBSERVED"
  PROVE  op'[f].state = "OBSERVED"
<1>0. op[f].token = None /\ refund[f].status \in {"SUCCEEDED", "FAILED"} /\ op[f] \in Ops
  BY DEF IInv, TypeOK, RowsSound, TokensSound, ObservedSound
<1>1. ASSUME NEW w \in Workers, WorkerStep(w)
      PROVE  op'[f].state = "OBSERVED"
  <2>0. worker[w].pc # "idle" => worker[w].refund \in Refunds
    BY DEF IInv, TypeOK
  <2>1. CASE Claim(w)
    <3>1. worker[w].refund # f
      BY <1>0, <2>1 DEF Claim, Claimable
    <3> QED
      BY <2>0, <2>1, <3>1 DEF Claim, IInv, TypeOK
  <2>2. CASE Dispatch(w) \/ Record(w)
    <3>1. PICK g \in Refunds : g = worker[w].refund /\ op[g] \in Ops
      BY <2>0, <2>2 DEF Dispatch, Record, IInv, TypeOK
    <3>2. CASE Dispatch(w)
      <4>1. op' = [op EXCEPT ![g] = [op[g] EXCEPT !.lease = Lease]]
        BY <3>1, <3>2 DEF Dispatch
      <4>2. [op[g] EXCEPT !.lease = Lease].state = op[g].state
        BY <3>1
      <4> QED
        BY <1>0, <4>1, <4>2 DEF IInv, TypeOK
    <3>3. CASE Record(w)
      <4>1. op' = [op EXCEPT ![g] = [op[g] EXCEPT !.identified = TRUE]]
        BY <3>1, <3>3 DEF Record
      <4>2. [op[g] EXCEPT !.identified = TRUE].state = op[g].state
        BY <3>1
      <4> QED
        BY <1>0, <4>1, <4>2 DEF IInv, TypeOK
    <3> QED
      BY <2>2, <3>2, <3>3
  <2>3. CASE Save(w)
    <3>1. CASE HoldsLease(w, worker[w].refund)
      BY <1>0, <2>0, <2>3, <3>1 DEF Save, ApplyTx, IInv, TypeOK
    <3>2. CASE ~HoldsLease(w, worker[w].refund)
      BY <2>3, <3>2 DEF Save
    <3> QED
      BY <3>1, <3>2
  <2>4. CASE Fail(w)
    <3>1. CASE op[worker[w].refund].token = w
      BY <1>0, <2>0, <2>4, <3>1 DEF Fail, IInv, TypeOK
    <3>2. CASE op[worker[w].refund].token # w
      BY <2>4, <3>2 DEF Fail
    <3> QED
      BY <3>1, <3>2
  <2>5. CASE \/ ClaimRefused(w) \/ Decide(w) \/ Look(w) \/ NotFound(w) \/ ReadFails(w)
             \/ DispatchRefused(w) \/ Accept(w) \/ Lost(w)
    BY <2>5 DEF ClaimRefused, Decide, Look, NotFound, ReadFails, DispatchRefused, Accept, Lost
  <2> QED
    BY <1>1, <2>1, <2>2, <2>3, <2>4, <2>5 DEF WorkerStep
<1>2. ASSUME NEW w \in Workers, NEW g \in Refunds, Prepare(w, g)
      PROVE  op'[f].state = "OBSERVED"
  BY <1>0, <1>2 DEF Prepare, IInv, TypeOK
<1>3. ASSUME NEW h \in Hooks, Apply(h)
      PROVE  op'[f].state = "OBSERVED"
  <2>1. PICK g \in Refunds : g = hook[h].refund /\ op[g] \in Ops
    BY <1>3 DEF IInv, TypeOK, Apply
  <2>2. op' = [op EXCEPT ![g] = ObservedOp(op[g], hook[h].seen)]
    BY <1>3, <2>1 DEF Apply, ApplyTx
  <2>3. ObservedOp(op[g], hook[h].seen).state \in {op[g].state, "OBSERVED"}
    BY <2>1, ObservedFields
  <2> QED
    BY <2>2, <2>3 DEF IInv, TypeOK
<1>4. CASE Tick
  BY <1>0, <1>4, LaterFields DEF Tick
<1>5. CASE \/ UNCHANGED vars
           \/ \E g \in Refunds : \/ Reserve(g) \/ LateAccept(g) \/ PayExternal(g)
                                 \/ ProviderSettles(g) \/ ProviderReverses(g)
           \/ \E w \in Workers : Crash(w)
           \/ \E h \in Hooks : \/ Import(h) \/ HookCrash(h)
                               \/ \E g \in Refunds : Retrieve(h, g)
  BY <1>5 DEF vars, Reserve, LateAccept, PayExternal, ProviderSettles, ProviderReverses, Becomes,
     Crash, Import, HookCrash, Retrieve
<1> QED
  BY <1>1, <1>2, <1>3, <1>4, <1>5 DEF Next

\* Nothing reopens an operation once its outcome is known.
THEOREM OutcomeIsFinal == Spec => ObservedIsFinal
<1>1. IInv /\ [Next]_vars =>
        [\A f \in Refunds : op[f].state = "OBSERVED" => op'[f].state = "OBSERVED"]_vars
  BY ObservedStays
<1> QED
  BY <1>1, Invariance, PTL DEF Spec, ObservedIsFinal

-----------------------------------------------------------------------------
(* The refinement.                                                         *)

\* What a step of the promise changes, one refund at a time.
LEMMA PromiseStutters ==
  ASSUME IInv, IInv', \A f \in Refunds : refund'[f].status = refund[f].status,
         \A f \in Refunds : money'[f].status = money[f].status
  PROVE  UNCHANGED Promise!vars
  BY DEF Promise!vars

LEMMA PromisePays ==
  ASSUME IInv, NEW f \in Refunds, money[f].objects = 0, NEW m \in Created,
         money' = [money EXCEPT ![f] = m], UNCHANGED refund,
         refund[f].status = "PENDING" \/ f \in External
  PROVE  Promise!Next
<1> DEFINE p == m.status
<1>1. \A g \in Refunds : money'[g] = IF g = f THEN m ELSE money[g]
  BY DEF IInv, TypeOK
<1>2. money[f].status = "none" /\ p \in {"pending", "succeeded"}
  BY DEF IInv, RowsSound, KeysCovered, Created
<1>3. \A g \in Refunds : money'[g].status = IF g = f THEN p ELSE money[g].status
  BY <1>1
<1> HIDE DEF p
<1>4. Promise!Pay(f)
  <2>1. [g \in Refunds |-> money[g].status]' = [[g \in Refunds |-> money[g].status] EXCEPT ![f] = p]
    BY <1>3
  <2> QED
    BY <1>2, <2>1 DEF Promise!Pay
<1> QED
  BY <1>4 DEF Promise!Next

\* A request that arrives while its key is remembered pays once.
LEMMA PromiseAccepts ==
  ASSUME IInv, IInv', NEW f \in Refunds \ External, NEW m \in Accepted(money[f]),
         money' = [money EXCEPT ![f] = m], UNCHANGED refund,
         op[f].age >= 0, op[f].age <= Retention
  PROVE  [Promise!Next]_(Promise!vars)
<1>0. money[f] \in Money /\ op[f] \in Ops
  BY DEF IInv, TypeOK
<1>1. CASE money[f].objects = 0
  <2>1. m \in Created
    BY <1>1 DEF Accepted
  <2>2. refund[f].status = "PENDING"
    BY <1>1, <1>0 DEF IInv, TypeOK, RowsSound, StartedSound, KeysCovered, SettledByProvider
  <2> QED
    BY <1>1, <2>1, <2>2, PromisePays
<1>2. CASE money[f].objects # 0
  <2>1. money[f].keyAge <= Retention
    BY <1>0, <1>2 DEF IInv, RowsSound, KeysCovered
  <2>2. m = money[f]
    BY <1>2, <2>1 DEF Accepted
  <2>3. \A g \in Refunds : money'[g].status = money[g].status
    BY <2>2 DEF IInv, TypeOK
  <2> QED
    BY <2>3, PromiseStutters
<1> QED
  BY <1>1, <1>2

LEMMA PromiseMoves ==
  ASSUME IInv, NEW f \in Refunds, NEW s,
         \/ money[f].status = "pending" /\ s \in {"succeeded", "failed"}
         \/ money[f].status = "succeeded" /\ s = "failed",
         Becomes(f, s)
  PROVE  Promise!Next
<1>1. money[f] \in Money /\ money' = [money EXCEPT ![f] = [money[f] EXCEPT !.status = s]]
      /\ UNCHANGED refund
  BY DEF IInv, TypeOK, Becomes
<1>2. [money[f] EXCEPT !.status = s].status = s
  BY <1>1
<1>3. \A g \in Refunds : money'[g].status = IF g = f THEN s ELSE money[g].status
  BY <1>1, <1>2 DEF IInv, TypeOK
<1>4. [g \in Refunds |-> money[g].status]' = [[g \in Refunds |-> money[g].status] EXCEPT ![f] = s]
  BY <1>3
<1>5. Promise!Move(f)
  BY <1>1, <1>4 DEF Promise!Move
<1> QED
  BY <1>5 DEF Promise!Next

\* An observation, however old, settles a row as the provider did.
LEMMA PromiseSettles ==
  ASSUME IInv, IInv', NEW f \in Refunds, refund[f].status # "ABSENT",
         NEW seen \in ProviderStatuses, MayBecome(seen, money[f].status),
         refund' = [refund EXCEPT ![f] = Applied(f, seen)], UNCHANGED money
  PROVE  [Promise!Next]_(Promise!vars)
<1> DEFINE s == Applied(f, seen).status
<1>0. refund[f] \in RefundRows /\ money[f] \in Money
  BY DEF IInv, TypeOK
<1>1. \A g \in Refunds : refund'[g].status = IF g = f THEN s ELSE refund[g].status
  BY DEF IInv, TypeOK
<1>2. CASE s = refund[f].status
  BY <1>1, <1>2, PromiseStutters
<1>3. CASE s # refund[f].status
  <2>1. \/ s = "SUCCEEDED" /\ money[f].status \in {"succeeded", "failed"}
        \/ s = "FAILED" /\ money[f].status = "failed"
    BY <1>0, <1>3 DEF Applied, RowStatus
  <2> HIDE DEF s
  <2>2. [g \in Refunds |-> refund[g].status]' = [[g \in Refunds |-> refund[g].status] EXCEPT ![f] = s]
    BY <1>1
  <2>3. Promise!Settle(f)
    BY <2>1, <2>2 DEF Promise!Settle
  <2> QED
    BY <2>3 DEF Promise!Next
<1> QED
  BY <1>2, <1>3

\* A refund enters the ledger when it is reserved or imported.
LEMMA PromiseReserves ==
  ASSUME IInv, NEW f \in Refunds, refund[f].status = "ABSENT",
         NEW row, row.status = "PENDING",
         refund' = [refund EXCEPT ![f] = row], UNCHANGED money,
         \/ f \notin External /\ Fits(Held \cup {f})
         \/ f \in External /\ money[f].status # "none"
  PROVE  Promise!Next
<1>1. \A g \in Refunds : refund'[g].status = IF g = f THEN "PENDING" ELSE refund[g].status
  BY DEF IInv, TypeOK
<1>2. [g \in Refunds |-> refund[g].status]'
        = [[g \in Refunds |-> refund[g].status] EXCEPT ![f] = "PENDING"]
  BY <1>1
<1>3. Held = {g \in Refunds : Promise!Reserved(g)}
  BY DEF Held, Promise!Reserved
<1>4. CASE f \notin External /\ Fits(Held \cup {f})
  BY <1>2, <1>3, <1>4 DEF Promise!Reserve, Promise!Next
<1>5. CASE f \in External /\ money[f].status # "none"
  BY <1>2, <1>5 DEF Promise!Import, Promise!Next
<1> QED
  BY <1>4, <1>5

LEMMA PromiseInit == Init => Promise!Init
  BY DEF Init, Promise!Init

LEMMA PromiseStep ==
  ASSUME IInv, IInv', [Next]_vars
  PROVE  [Promise!Next]_(Promise!vars)
<1>1. ASSUME NEW f \in Refunds, Reserve(f)
      PROVE  Promise!Next
  <2>1. refund[f] \in RefundRows
    BY DEF IInv, TypeOK
  <2>2. [refund[f] EXCEPT !.status = "PENDING"].status = "PENDING"
    BY <2>1
  <2> QED
    BY <1>1, <2>2, PromiseReserves DEF Reserve
<1>2. ASSUME NEW f \in Refunds, LateAccept(f)
      PROVE  [Promise!Next]_(Promise!vars)
  <2>1. wire[f] > 0 /\ wire[f] \in Nat /\ op[f] \in Ops
    BY <1>2 DEF LateAccept, IInv, TypeOK
  <2>2. f \notin External /\ op[f].age >= 0 /\ op[f].age + wire[f] <= Slack + Wire
    BY <2>1 DEF IInv, RowsSound, RequestsInTime
  <2>3. op[f].age <= Retention
    BY <2>1, <2>2
  <2>4. PICK m \in Accepted(money[f]) : money' = [money EXCEPT ![f] = m]
    BY <1>2 DEF LateAccept
  <2> QED
    BY <1>2, <2>2, <2>3, <2>4, PromiseAccepts DEF LateAccept
<1>3. ASSUME NEW f \in Refunds, PayExternal(f)
      PROVE  Promise!Next
  BY <1>3, PromisePays DEF PayExternal
<1>4. ASSUME NEW f \in Refunds, ProviderSettles(f) \/ ProviderReverses(f)
      PROVE  Promise!Next
  BY <1>4, PromiseMoves DEF ProviderSettles, ProviderReverses
<1>5. ASSUME NEW w \in Workers, Accept(w)
      PROVE  [Promise!Next]_(Promise!vars)
  <2>1. PICK f \in Refunds : f = worker[w].refund /\ op[f] \in Ops
    BY <1>5 DEF Accept, IInv, TypeOK
  <2>2. f \notin External /\ op[f].age >= 0 /\ op[f].age + op[f].lease <= Slack
    BY <1>5, <2>1 DEF Accept, IInv, WorkersSound, ExternalKnown, ClaimInTime
  <2>3. op[f].age <= Retention
    BY <2>1, <2>2
  <2>4. PICK m \in Accepted(money[f]) : money' = [money EXCEPT ![f] = m]
    BY <1>5, <2>1 DEF Accept
  <2> QED
    BY <1>5, <2>2, <2>3, <2>4, PromiseAccepts DEF Accept
<1>6. ASSUME NEW w \in Workers, Save(w)
      PROVE  [Promise!Next]_(Promise!vars)
  <2>1. PICK f \in Refunds : f = worker[w].refund /\ op[f] \in Ops
    BY <1>6 DEF Save, IInv, TypeOK
  <2>2. CASE HoldsLease(w, f)
    <3>1. refund' = [refund EXCEPT ![f] = Applied(f, worker[w].seen)] /\ UNCHANGED money
      BY <1>6, <2>1, <2>2 DEF Save, ApplyTx
    <3>2. worker[w].seen \in ProviderStatuses /\ MayBecome(worker[w].seen, money[f].status)
      BY <1>6, <2>1 DEF Save, IInv, WorkersSound, ObservationsSound
    <3>3. refund[f].status # "ABSENT"
      BY <2>1, <2>2 DEF IInv, RowsSound, StartedSound
    <3> QED
      BY <3>1, <3>2, <3>3, PromiseSettles
  <2>3. CASE ~HoldsLease(w, f)
    BY <1>6, <2>1, <2>3, PromiseStutters DEF Save
  <2> QED
    BY <2>2, <2>3
<1>7. ASSUME NEW h \in Hooks, Import(h)
      PROVE  Promise!Next
  <2>1. PICK f \in Refunds : f = hook[h].refund
    BY <1>7 DEF Import, IInv, TypeOK
  <2>2. hook[h].seen \in ProviderStatuses
    BY <1>7 DEF Import, IInv, TypeOK
  <2>3. money[f].status # "none" /\ refund[f].status = "ABSENT"
    BY <1>7, <2>1, <2>2 DEF Import, IInv, TypeOK, WorkersSound, ObservationsSound
  <2>4. f \in External
    BY <2>3 DEF IInv, TypeOK, RowsSound, KeysCovered, StartedSound
  <2>5. PICK row \in RefundRows : row.status = "PENDING" /\ refund' = [refund EXCEPT ![f] = row]
    BY <1>7, <2>1 DEF Import
  <2> QED
    BY <1>7, <2>3, <2>4, <2>5, PromiseReserves DEF Import
<1>8. ASSUME NEW h \in Hooks, Apply(h)
      PROVE  [Promise!Next]_(Promise!vars)
  <2>1. PICK f \in Refunds : f = hook[h].refund
    BY <1>8 DEF Apply, IInv, TypeOK
  <2>2. hook[h].seen \in ProviderStatuses /\ MayBecome(hook[h].seen, money[f].status)
    BY <1>8, <2>1 DEF Apply, IInv, TypeOK, WorkersSound, ObservationsSound
  <2>3. refund' = [refund EXCEPT ![f] = Applied(f, hook[h].seen)] /\ UNCHANGED money
    BY <1>8, <2>1 DEF Apply, ApplyTx
  <2> QED
    BY <1>8, <2>1, <2>2, <2>3, PromiseSettles DEF Apply
<1>9. CASE Tick
  <2>1. \A f \in Refunds : money'[f].status = money[f].status
    BY <1>9, MoneyLaterFields DEF Tick, IInv, TypeOK
  <2> QED
    BY <1>9, <2>1, PromiseStutters DEF Tick
<1>10. CASE \/ UNCHANGED vars
            \/ \E w \in Workers :
                 \/ \E f \in Refunds : Prepare(w, f)
                 \/ Claim(w) \/ ClaimRefused(w) \/ Decide(w) \/ Look(w) \/ NotFound(w)
                 \/ ReadFails(w) \/ Dispatch(w) \/ DispatchRefused(w) \/ Lost(w)
                 \/ Record(w) \/ Fail(w) \/ Crash(w)
            \/ \E h \in Hooks : HookCrash(h) \/ \E f \in Refunds : Retrieve(h, f)
  <2>1. UNCHANGED <<refund, money>>
    BY <1>10 DEF vars, Prepare, Claim, ClaimRefused, Decide, Look, NotFound, ReadFails, Dispatch,
       DispatchRefused, Lost, Record, Fail, Crash, HookCrash, Retrieve
  <2> QED
    BY ZenonT(60), <2>1, PromiseStutters
<1> QED
  BY <1>1, <1>2, <1>3, <1>4, <1>5, <1>6, <1>7, <1>8, <1>9, <1>10 DEF Next, WorkerStep

\* With any number of workers, hooks and refunds, refunding keeps its promise.
THEOREM RefundsKeepPromise == Spec => ImplementsRefundPromise
<1>1. Init => Promise!Init
  BY PromiseInit
<1>2. IInv /\ IInv' /\ [Next]_vars => [Promise!Next]_(Promise!vars)
  BY PromiseStep
<1> QED
  BY <1>1, <1>2, Invariance, PTL DEF Spec, ImplementsRefundPromise, Promise!Spec

-----------------------------------------------------------------------------
(* The balance.                                                            *)

\* The refunds that count in the ledger and have not failed at the provider.
\* A stale observation may make a failed refund count again, so that what
\* counts in the ledger alone need not fit.
Live == {f \in Refunds \ External : f \in Held /\ money[f].status # "failed"}

\* A part of what fits fits.
LEMMA PartFits ==
  ASSUME NEW T \in SUBSET Refunds, Fits(T), NEW S \in SUBSET T
  PROVE  Fits(S)
<1>1. IsFiniteSet(T) /\ IsFiniteSet(S)
  BY FiniteAssumption, FS_Subset
<1>2. SumFunctionOnSet(Amount, S) <= SumFunctionOnSet(Amount, T)
  BY <1>1, SumOfSubset
<1>3. SumFunctionOnSet(Amount, S) \in Nat /\ SumFunctionOnSet(Amount, T) \in Nat
  BY <1>1, SumIsNat
<1> QED
  BY <1>2, <1>3 DEF Fits

\* Nothing that the promise allows but a reservation, which checks the sum,
\* adds to them: what failed stays failed.
LEMMA LiveKeepsFitting ==
  ASSUME IInv, [Promise!Next]_(Promise!vars), Fits(Live)
  PROVE  Fits(Live)'
<1> DEFINE s == [g \in Refunds |-> refund[g].status]
           m == [g \in Refunds |-> money[g].status]
<1>1. Live \in SUBSET Refunds /\ Live' \in SUBSET Refunds
  BY DEF Live
<1>2. SUFFICES Fits(Live')
  BY DEF Fits
<1>3. CASE UNCHANGED <<s, m>>
  <2>1. \A g \in Refunds : refund'[g].status = refund[g].status /\ money'[g].status = money[g].status
    <3>1. \A g \in Refunds : s'[g] = s[g] /\ m'[g] = m[g]
      BY <1>3
    <3> QED
      BY <3>1
  <2>2. Live' \subseteq Live
    BY <2>1 DEF Live, Held
  <2> QED
    BY <1>1, <2>2, PartFits
<1>4. ASSUME NEW f \in Refunds, Promise!Reserve(f)
      PROVE  Fits(Live')
  <2>1. s' = [s EXCEPT ![f] = "PENDING"] /\ m' = m /\ f \notin External
    BY <1>4 DEF Promise!Reserve
  <2>2. \A g \in Refunds : refund'[g].status = IF g = f THEN "PENDING" ELSE refund[g].status
    <3>1. \A g \in Refunds : s'[g] = IF g = f THEN "PENDING" ELSE s[g]
      BY <2>1
    <3> QED
      BY <3>1
  <2>3. Live' \subseteq Held \cup {f}
    BY <2>2 DEF Live, Held
  <2>4. Fits(Held \cup {f}) /\ Held \cup {f} \in SUBSET Refunds
    <3>1. Held = {g \in Refunds : Promise!Reserved(g)}
      BY DEF Held, Promise!Reserved
    <3> QED
      BY <1>4, <3>1 DEF Promise!Reserve
  <2> QED
    BY <2>3, <2>4, PartFits
<1>5. ASSUME NEW f \in Refunds, Promise!Import(f)
      PROVE  Fits(Live')
  <2>1. s' = [s EXCEPT ![f] = "PENDING"] /\ m' = m /\ f \in External
    BY <1>5 DEF Promise!Import
  <2>2. \A g \in Refunds : refund'[g].status = IF g = f THEN "PENDING" ELSE refund[g].status
    <3>1. \A g \in Refunds : s'[g] = IF g = f THEN "PENDING" ELSE s[g]
      BY <2>1
    <3> QED
      BY <3>1
  <2>3. \A g \in Refunds : money'[g].status = money[g].status
    <3>1. \A g \in Refunds : m'[g] = m[g]
      BY <2>1
    <3> QED
      BY <3>1
  <2>4. Live' \subseteq Live
    BY <2>1, <2>2, <2>3 DEF Live, Held
  <2> QED
    BY <1>1, <2>4, PartFits
<1>6. ASSUME NEW f \in Refunds, Promise!Pay(f) \/ Promise!Move(f)
      PROVE  Fits(Live')
  <2>1. PICK x : m' = [m EXCEPT ![f] = x]
    BY <1>6 DEF Promise!Pay, Promise!Move
  <2>2. s' = s /\ m[f] \in {"none", "pending", "succeeded"}
    BY <1>6 DEF Promise!Pay, Promise!Move
  <2>3. \A g \in Refunds : refund'[g].status = refund[g].status
    <3>1. \A g \in Refunds : s'[g] = s[g]
      BY <2>2
    <3> QED
      BY <3>1
  <2>4. \A g \in Refunds : g # f => money'[g].status = money[g].status
    <3>1. \A g \in Refunds : g # f => m'[g] = m[g]
      BY <2>1
    <3> QED
      BY <3>1
  <2>5. money[f].status # "failed"
    BY <2>2
  <2>6. Live' \subseteq Live
    BY <2>3, <2>4, <2>5 DEF Live, Held
  <2> QED
    BY <1>1, <2>6, PartFits
<1>7. ASSUME NEW f \in Refunds, Promise!Settle(f)
      PROVE  Fits(Live')
  <2>1. PICK x : s' = [s EXCEPT ![f] = x]
    BY <1>7 DEF Promise!Settle
  <2>2. m' = m /\ s[f] # "ABSENT"
    BY <1>7 DEF Promise!Settle
  <2>3. \A g \in Refunds : g # f => refund'[g].status = refund[g].status
    <3>1. \A g \in Refunds : g # f => s'[g] = s[g]
      BY <2>1
    <3> QED
      BY <3>1
  <2>4. \A g \in Refunds : money'[g].status = money[g].status
    <3>1. \A g \in Refunds : m'[g] = m[g]
      BY <2>2
    <3> QED
      BY <3>1
  <2>5. refund[f].status = "FAILED" => money[f].status = "failed"
    BY DEF IInv, RowsSound, SettledByProvider
  <2>6. refund[f].status # "ABSENT" /\ refund[f].status \in RefundStatuses
    BY <2>2 DEF IInv, TypeOK
  <2>7. Live' \subseteq Live
    BY <2>3, <2>4, <2>5, <2>6 DEF Live, Held
  <2> QED
    BY <1>1, <2>7, PartFits
<1> QED
  BY <1>3, <1>4, <1>5, <1>6, <1>7 DEF Promise!Next, Promise!vars

\* What may go out counts in the ledger: a request was reserved, and a refund
\* that counts no more has failed at the provider.
LEMMA OutgoingIsLive ==
  ASSUME IInv
  PROVE  Outgoing \subseteq Live
<1> SUFFICES ASSUME NEW f \in Outgoing
             PROVE  f \in Live
  OBVIOUS
<1>1. f \in Refunds \ External /\ money[f].status # "failed"
  BY DEF Outgoing
<1>2. refund[f] \in RefundRows /\ op[f] \in Ops /\ money[f] \in Money
  BY <1>1, RowTypes DEF IInv
<1>3. op[f].age # NotStarted \/ op[f].token # None
  <2>1. CASE money[f].status # "none"
    BY <1>1, <1>2, <2>1 DEF IInv, RowsSound, KeysCovered
  <2>2. CASE wire[f] > 0
    BY <1>1, <1>2, <2>2 DEF IInv, RowsSound, RequestsInTime
  <2>3. ASSUME NEW w \in Workers, At(w, "calling"), worker[w].refund = f
        PROVE  op[f].age # NotStarted
    BY <1>1, <1>2, <2>3 DEF IInv, WorkersSound, ClaimInTime
  <2> QED
    BY <2>1, <2>2, <2>3 DEF Outgoing
<1>4. refund[f].status # "ABSENT"
  BY <1>1, <1>3 DEF IInv, RowsSound, StartedSound
<1>5. refund[f].status # "FAILED"
  BY <1>1 DEF IInv, RowsSound, SettledByProvider
<1> QED
  BY <1>1, <1>2, <1>4, <1>5 DEF Live, Held

\* The customer is never paid back more than was captured: what is paid, under
\* way or may be paid by a late request was reserved against the balance, and a
\* share that is freed has failed for good.
THEOREM NeverOverpaid == Spec => []BalanceCovers
<1>1. Init => Fits(Live)
  <2>1. SumFunctionOnSet(Amount, {}) = 0
    BY SumOfNone
  <2>2. Fits({})
    BY <2>1 DEF Fits
  <2>3. ASSUME Init PROVE Live = {}
    BY <2>3 DEF Init, Live, Held
  <2> QED
    BY <2>2, <2>3
<1>2. IInv /\ IInv' /\ Fits(Live) /\ [Next]_vars => Fits(Live)'
  BY PromiseStep, LiveKeepsFitting
<1>3. IInv /\ Fits(Live) => BalanceCovers
  <2>1. Live \in SUBSET Refunds
    BY DEF Live
  <2> QED
    BY <2>1, OutgoingIsLive, PartFits DEF BalanceCovers
<1> QED
  BY <1>1, <1>2, <1>3, Invariance, PTL DEF Spec

=============================================================================
