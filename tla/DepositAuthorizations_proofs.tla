---------------------- MODULE DepositAuthorizations_proofs ----------------------
(***************************************************************************)
(* What DepositAuthorizations guarantees for any number of attempts,       *)
(* executions, failures and incidents.                                     *)
(***************************************************************************)
EXTENDS DepositAuthorizations, TLAPS

-----------------------------------------------------------------------------
(* The inductive invariant.                                                *)

Exists(g) == intent[g] # "none"

HasRelease(g) == op["DEPOSIT_RELEASE"][g].state # "ABSENT"

\* Only what has a release, or has run out, is ever canceled.
Doomed(g) == HasRelease(g) \/ past[g]

\* Nothing that is still needed before the trip has a release.
Dispensable(g) ==
  \/ g < deposit.generation
  \/ reservation.disposition # "OPEN"
  \/ reservation.status # "PRE_TRIP"
  \/ past[g]

\* What was seen of g's intent can have changed in one way only.
StillSo(g, seen) ==
  /\ Exists(g)
  /\ seen = "requires_capture" => intent[g] \in {"requires_capture", "canceled"}
  /\ seen = "canceled" => intent[g] = "canceled"

\* An execution works on an operation that exists, and a release on an intent
\* that does; what it has read or was answered is still so.
JobSound(w, job) ==
  /\ job.pc = "asking" =>
       /\ job.kind = "DEPOSIT"
       /\ job.gen # 0 => Exists(job.gen) /\ job.gen <= deposit.generation /\ past[job.gen]
  /\ job.pc # "asking" =>
       /\ job.gen \in Gens
       /\ op[job.kind][job.gen].state # "ABSENT"
       /\ job.kind = "DEPOSIT_RELEASE" => Exists(job.gen)
  /\ job.pc \in {"answered", "recorded", "read"} =>
       /\ job.seen # "none" /\ StillSo(job.gen, job.seen)
       /\ job.kind = "DEPOSIT_RELEASE" => job.seen = "canceled"
  /\ job.pc = "sending" /\ job.kind = "DEPOSIT" =>
       LET o == op["DEPOSIT"][job.gen]
       IN  o.token = w /\ o.leased => ~o.identified
  /\ job.pc \in {"calling", "answered"} =>
       /\ op[job.kind][job.gen].token = w /\ op[job.kind][job.gen].leased
       /\ job.kind = "DEPOSIT" => Permitted(job.gen)

JobsSound == \A w \in Workers : worker[w] # Idle => JobSound(w, worker[w])

Guarding(job) == job.pc \in {"calling", "answered", "recorded"}

\* The guard has one holder.
OneCall ==
  \A v, w \in Workers : Guarding(worker[v]) /\ Guarding(worker[w]) => v = w

OpSound(k, g) ==
  LET o == op[k][g]
  IN  /\ o.token # None => o.state = "RUNNING"
      /\ o.leased => o.state # "ABSENT"
      /\ o.state # "REVIEW" => o.failures < MaxFailures
      /\ o.state # "ABSENT" => g <= deposit.generation
      /\ k = "DEPOSIT" /\ o.state \in {"OBSERVED", "POLL"} => o.identified
      /\ o.identified => k = "DEPOSIT" /\ o.state # "ABSENT" /\ Exists(g)
      /\ k = "DEPOSIT_RELEASE" /\ o.state # "ABSENT" =>
           o.state # "POLL" /\ Exists(g) /\ Dispensable(g)
      /\ o.state = "REVIEW" => reservation.disposition # "OPEN"

OpsSound == \A k \in Kinds, g \in Gens : OpSound(k, g)

IntentSound(g) ==
  /\ intent[g] = "canceled" => Doomed(g)
  /\ "DEPOSIT_RELEASE" \in wire[g] => HasRelease(g)

IntentsSound == \A g \in Gens : IntentSound(g)

\* The row speaks of an intent that exists, of its generation or an older one.
RowSound ==
  deposit.intent # 0 =>
    /\ deposit.intent <= deposit.generation
    /\ StillSo(deposit.intent, deposit.stripeStatus)

\* The row knows of the release of its own generation.
ReleaseSeen ==
  \A g \in Gens :
    op["DEPOSIT_RELEASE"][g].state = "OBSERVED" /\ deposit.generation = g =>
      deposit.intent = g /\ deposit.stripeStatus = "canceled"

\* The latest attempt has its operation.
LatestExists ==
  deposit.generation # 0 => op["DEPOSIT"][deposit.generation].state # "ABSENT"

Planned(g) ==
  op["DEPOSIT"][g].identified =>
    op["DEPOSIT_RELEASE"][g].state # "ABSENT" \/ intent[g] = "canceled"

Completed == reservation.status = "COMPLETED" /\ ~reservation.forced

\* A completion by the parties leaves no attempt behind: every operation has its
\* intent, every intent its release, and nobody is about to begin another.
CompletionFinal ==
  Completed =>
    /\ \A w \in Workers : worker[w] # Idle => worker[w].pc # "asking" /\ worker[w].asked = 0
    /\ \A g \in Gens : Planned(g) /\ (op["DEPOSIT"][g].state # "ABSENT" => op["DEPOSIT"][g].identified)

IInv == /\ TypeOK /\ JobsSound /\ OneCall /\ OpsSound
        /\ IntentsSound /\ RowSound /\ ReleaseSeen /\ LatestExists
        /\ CompletionFinal /\ ReleasePlanned

-----------------------------------------------------------------------------
(* Operators of the model.                                                 *)

OpTable == [Kinds -> [Gens -> Ops]]

LEMMA KindsAre == "DEPOSIT" \in Kinds /\ "DEPOSIT_RELEASE" \in Kinds
BY DEF Kinds

LEMMA NewOpIsOp == NoOp \in Ops /\ NewOp \in Ops /\ NewOp.state = "READY"
                   /\ NewOp.token = None /\ ~NewOp.leased /\ ~NewOp.identified
                   /\ NewOp.failures = 0
<1>1. NoOp \in Ops /\ NewOp = [NoOp EXCEPT !.state = "READY"]
  BY DepositAssumption DEF NoOp, NewOp, Ops, OpStates
<1> QED
  BY <1>1 DEF NoOp, Ops, OpStates

LEMMA WithPuts ==
  ASSUME op \in OpTable, NEW k \in Kinds, NEW g \in Gens, NEW o \in Ops
  PROVE  /\ With(k, g, o) \in OpTable
         /\ With(k, g, o)[k][g] = o
         /\ \A j \in Kinds, h \in Gens :
              j # k \/ h # g => With(k, g, o)[j][h] = op[j][h]
BY DEF With, OpTable

LEMMA PlanAdds ==
  ASSUME NEW ops \in OpTable, NEW S \in SUBSET Gens
  PROVE  /\ Plan(ops, S) \in OpTable
         /\ Plan(ops, S)["DEPOSIT"] = ops["DEPOSIT"]
         /\ \A g \in Gens :
              Plan(ops, S)["DEPOSIT_RELEASE"][g] =
                IF g \in S /\ ops["DEPOSIT_RELEASE"][g].state = "ABSENT"
                THEN NewOp ELSE ops["DEPOSIT_RELEASE"][g]
BY NewOpIsOp DEF Plan, OpTable, Kinds

\* The empty token belongs to nobody.
LEMMA NoneIsNobody == \A w \in Workers : w # None
BY DepositAssumption

-----------------------------------------------------------------------------
(* What the steps leave alone.                                             *)

\* What no step takes back.
Onward ==
  /\ \A g \in Gens : /\ Exists(g) => intent'[g] # "none"
                     /\ intent[g] = "requires_capture"
                          => intent'[g] \in {"requires_capture", "canceled"}
                     /\ intent[g] = "canceled" => intent'[g] = "canceled"
                     /\ past[g] => past'[g]
  /\ \A k \in Kinds, g \in Gens : op[k][g].state # "ABSENT" => op'[k][g].state # "ABSENT"
  /\ deposit.generation <= deposit'.generation
  /\ reservation.disposition # "OPEN" => reservation'.disposition # "OPEN"
  /\ reservation.status # "PRE_TRIP" => reservation'.status # "PRE_TRIP"

\* A step that is not v's own, as v's execution sees it.
Spares(v) ==
  /\ worker'[v] = worker[v]
  /\ \A k \in Kinds, g \in Gens :
       op'[k][g] # op[k][g] => ~(op'[k][g].token = v /\ op'[k][g].leased)
  /\ worker[v].pc \in {"calling", "answered"} =>
       /\ reservation' = reservation /\ deposit' = deposit
       /\ op'[worker[v].kind][worker[v].gen] = op[worker[v].kind][worker[v].gen]

LEMMA DoomedStays ==
  ASSUME Onward, NEW g \in Gens
  PROVE  (HasRelease(g) => HasRelease(g)') /\ (Doomed(g) => Doomed(g)')
BY KindsAre DEF Doomed, HasRelease, Onward

LEMMA DispensableStays ==
  ASSUME TypeOK, TypeOK', Onward, NEW g \in Gens, Dispensable(g)
  PROVE  Dispensable(g)'
BY DEF Dispensable, Onward, TypeOK, Deposits, Gens

LEMMA StillSoStays ==
  ASSUME TypeOK, Onward, NEW g \in Gens, NEW seen, StillSo(g, seen)
  PROVE  StillSo(g, seen)'
BY DEF StillSo, Onward, Exists

LEMMA SparedStaysSound ==
  ASSUME TypeOK, TypeOK', Onward, NEW v \in Workers, Spares(v),
         NEW job \in Jobs, worker[v] = job, JobSound(v, job)
  PROVE  JobSound(v, job)'
<1>1. job.gen \in 0..Generations /\ job.kind \in Kinds
  BY DEF Jobs
<1>2. \A g \in Gens : Exists(g) => Exists(g)'
  BY DEF Onward, Exists
<1>3. 0 \notin Gens /\ (job.gen # 0 => job.gen \in Gens)
  BY <1>1, DepositAssumption DEF Gens
<1>4. job.pc = "asking" =>
        /\ job.kind = "DEPOSIT"
        /\ job.gen # 0 => Exists(job.gen)' /\ job.gen <= deposit'.generation /\ past'[job.gen]
  BY <1>1, <1>2, <1>3 DEF JobSound, Onward, TypeOK, Deposits
<1>5. job.pc # "asking" =>
         /\ job.gen \in Gens
         /\ op'[job.kind][job.gen].state # "ABSENT"
         /\ job.kind = "DEPOSIT_RELEASE" => Exists(job.gen)'
  BY <1>1, <1>2 DEF JobSound, Onward
<1>6. job.pc \in {"answered", "recorded", "read"} =>
         /\ job.seen # "none" /\ StillSo(job.gen, job.seen)'
         /\ job.kind = "DEPOSIT_RELEASE" => job.seen = "canceled"
  BY StillSoStays DEF JobSound
<1>7. job.pc = "sending" /\ job.kind = "DEPOSIT" =>
         LET o == op'["DEPOSIT"][job.gen]
         IN  o.token = v /\ o.leased => ~o.identified
  BY KindsAre DEF JobSound, Spares
<1>8. job.pc \in {"calling", "answered"} =>
         /\ op'[job.kind][job.gen].token = v /\ op'[job.kind][job.gen].leased
         /\ job.kind = "DEPOSIT" => Permitted(job.gen)'
  <2>1. SUFFICES ASSUME job.pc \in {"calling", "answered"}
                 PROVE  /\ op'[job.kind][job.gen].token = v /\ op'[job.kind][job.gen].leased
                        /\ job.kind = "DEPOSIT" => Permitted(job.gen)'
    OBVIOUS
  <2>2. reservation' = reservation /\ deposit' = deposit
        /\ op'[job.kind][job.gen] = op[job.kind][job.gen]
    BY <2>1 DEF Spares
  <2>3. job.kind = "DEPOSIT" => Permitted(job.gen)'
    BY <2>1, <2>2 DEF JobSound, Permitted
  <2> QED
    BY <2>1, <2>2, <2>3 DEF JobSound
<1> QED
  BY <1>1, <1>4, <1>5, <1>6, <1>7, <1>8 DEF JobSound, Permitted, StillSo, Exists

\* One execution moves, or none.
LEMMA JobsStaySound ==
  ASSUME TypeOK, TypeOK', JobsSound, Onward, NEW w,
         \A v \in Workers : v # w => Spares(v),
         w \in Workers /\ worker'[w] # Idle => JobSound(w, worker[w])'
  PROVE  JobsSound'
<1> SUFFICES ASSUME NEW v \in Workers, worker'[v] # Idle
             PROVE  JobSound(v, worker[v])'
  BY DEF JobsSound
<1>1. CASE v = w
  BY <1>1
<1>2. CASE v # w
  <2>1. worker'[v] = worker[v]
    BY <1>2 DEF Spares
  <2>2. worker[v] \in Jobs /\ JobSound(v, worker[v])
    BY <2>1 DEF JobsSound, TypeOK
  <2>3. PICK job \in Jobs : worker[v] = job
    BY <2>2
  <2>4. JobSound(v, job)'
    BY <1>2, <2>2, <2>3, SparedStaysSound
  <2> QED
    BY <2>1, <2>3, <2>4 DEF JobSound
<1> QED
  BY <1>1, <1>2

LEMMA OneCallStays ==
  ASSUME OneCall, NEW w,
         \A v \in Workers : v # w => worker'[v] = worker[v],
         w \in Workers /\ Guarding(worker'[w]) => Guarding(worker[w]) \/ GuardFree
  PROVE  OneCall'
BY DEF OneCall, Guarding, GuardFree

LEMMA OpStaysSound ==
  ASSUME TypeOK, TypeOK', Onward, NEW k \in Kinds, NEW g \in Gens,
         OpSound(k, g), op'[k][g] = op[k][g]
  PROVE  OpSound(k, g)'
<1>1. Exists(g) => Exists(g)'
  BY DEF Onward, Exists
<1>2. g <= deposit.generation => g <= deposit'.generation
  BY DEF Onward, TypeOK, Deposits, Gens
<1>3. /\ Dispensable(g) => Dispensable(g)'
      /\ reservation.disposition # "OPEN" => reservation'.disposition # "OPEN"
  BY DispensableStays DEF Onward
<1> QED
  BY <1>1, <1>2, <1>3 DEF OpSound

LEMMA IntentStaysSound ==
  ASSUME TypeOK, TypeOK', Onward, NEW g \in Gens, IntentSound(g),
         intent'[g] = "canceled" => intent[g] = "canceled" \/ Doomed(g),
         "DEPOSIT_RELEASE" \in wire'[g] =>
           "DEPOSIT_RELEASE" \in wire[g] \/ HasRelease(g)
  PROVE  IntentSound(g)'
BY DoomedStays DEF IntentSound

LEMMA RowStaysSound ==
  ASSUME TypeOK, TypeOK', Onward, RowSound,
         deposit'.intent = deposit.intent, deposit'.stripeStatus = deposit.stripeStatus
  PROVE  RowSound'
<1> SUFFICES ASSUME deposit.intent # 0
             PROVE  /\ deposit.intent <= deposit'.generation
                    /\ StillSo(deposit.intent, deposit.stripeStatus)'
  BY DEF RowSound, StillSo, Exists
<1>1. PICK g \in Gens : g = deposit.intent
  BY DEF TypeOK, Deposits, Gens
<1>2. PICK seen \in IntentStatuses : seen = deposit.stripeStatus
  BY DEF TypeOK, Deposits
<1>3. StillSo(g, seen)'
  BY <1>1, <1>2, StillSoStays DEF RowSound
<1>4. deposit.intent <= deposit'.generation
  BY DEF RowSound, Onward, TypeOK, Deposits
<1> QED
  BY <1>1, <1>2, <1>3, <1>4 DEF StillSo, Exists

-----------------------------------------------------------------------------
(* Steps of one execution that change nothing but the execution.           *)

LEMMA WorkerMoves ==
  ASSUME IInv, NEW w \in Workers, NEW job \in Jobs \cup {Idle},
         worker' = [worker EXCEPT ![w] = job],
         UNCHANGED <<local, intent, past>>,
         incidents' \in 0..MaxIncidents,
         wire' \in [Gens -> SUBSET Kinds],
         \A g \in Gens : "DEPOSIT_RELEASE" \in wire'[g] =>
           "DEPOSIT_RELEASE" \in wire[g] \/ HasRelease(g),
         job # Idle => JobSound(w, job),
         Guarding(job) => Guarding(worker[w]) \/ GuardFree,
         Completed /\ job # Idle => job.pc # "asking" /\ job.asked = 0
  PROVE  IInv'
<1>1. TypeOK'
  BY DEF IInv, TypeOK, local
<1>2. Onward
  BY DEF IInv, Onward, Exists, local, TypeOK, Deposits
<1>3. \A v \in Workers : v # w => Spares(v)
  BY DEF IInv, Spares, local, TypeOK
<1>4. worker'[w] = job
  BY DEF IInv, TypeOK
<1>5. job # Idle => JobSound(w, job)'
  BY DEF JobSound, local, Permitted, StillSo, Exists
<1>6. JobsSound'
  <2>1. worker'[w] # Idle => JobSound(w, worker[w])'
    BY <1>4, <1>5 DEF JobSound
  <2> QED
    BY <1>1, <1>2, <1>3, <2>1, JobsStaySound DEF IInv
<1>7. OneCall'
  BY <1>3, <1>4, OneCallStays DEF IInv, Spares
<1>8. OpsSound'
  BY <1>1, <1>2, OpStaysSound DEF IInv, OpsSound, local
<1>9. IntentsSound'
  BY <1>1, <1>2, IntentStaysSound DEF IInv, IntentsSound
<1>10. RowSound'
  BY <1>1, <1>2, RowStaysSound DEF IInv, local
<1>11. ReleaseSeen' /\ LatestExists'
  BY DEF IInv, ReleaseSeen, LatestExists, local
<1>12. CompletionFinal' /\ ReleasePlanned'
  BY <1>3, <1>4 DEF IInv, CompletionFinal, Completed, ReleasePlanned, Planned, local, Spares
<1> QED
  BY <1>1, <1>6, <1>7, <1>8, <1>9, <1>10, <1>11, <1>12 DEF IInv

LEMMA JobAtWork ==
  ASSUME IInv, NEW w \in Workers, worker[w].pc # "idle"
  PROVE  worker[w] \in Jobs /\ JobSound(w, worker[w]) /\ worker[w] # Idle
BY DEF IInv, TypeOK, JobsSound, Idle

LEMMA IdleIsNoJob == Idle \notin Jobs /\ Idle.pc = "idle"
BY DEF Idle, Jobs

\* The operation an execution works on.
LEMMA OpAtWork ==
  ASSUME IInv, NEW w \in Workers, worker[w].pc # "idle", worker[w].pc # "asking"
  PROVE  /\ worker[w].kind \in Kinds /\ worker[w].gen \in Gens
         /\ OpOf(w) = op[worker[w].kind][worker[w].gen] /\ OpOf(w) \in Ops
         /\ OpOf(w).state # "ABSENT" /\ OpSound(worker[w].kind, worker[w].gen)
<1>1. worker[w] \in Jobs /\ JobSound(w, worker[w])
  BY JobAtWork
<1> QED
  BY <1>1 DEF JobSound, Jobs, OpOf, IInv, TypeOK, OpsSound

LEMMA AskKeeps ==
  ASSUME IInv, NEW w \in Workers, Ask(w)
  PROVE  IInv'
<1>1. PICK retry \in BOOLEAN :
        worker' = [worker EXCEPT ![w] =
         [pc |-> "asking", kind |-> "DEPOSIT",
          gen |-> IF retry /\ RowExpired THEN deposit.intent ELSE 0,
          asked |-> deposit.generation, again |-> retry, seen |-> "none"]]
  BY DEF Ask
<1> DEFINE job == [pc |-> "asking", kind |-> "DEPOSIT",
          gen |-> IF retry /\ RowExpired THEN deposit.intent ELSE 0,
          asked |-> deposit.generation, again |-> retry, seen |-> "none"]
<1>2. deposit.intent \in 0..Generations /\ deposit.generation \in 0..Generations
  BY DEF IInv, TypeOK, Deposits
<1>3. job \in Jobs
  BY <1>2, DepositAssumption DEF Jobs, Kinds, IntentStatuses
<1>4. deposit.intent # 0 => Exists(deposit.intent) /\ deposit.intent <= deposit.generation
  BY DEF IInv, RowSound, StillSo
<1>5. JobSound(w, job)
  BY <1>4 DEF JobSound, RowExpired
<1>6. ~Guarding(job) /\ ~Completed
  BY DEF Guarding, Ask, Completed
<1>7. UNCHANGED <<local, intent, past>> /\ incidents' \in 0..MaxIncidents /\ wire' = wire
  BY DEF Ask, outside, IInv, TypeOK
<1> HIDE DEF job
<1> QED
  BY <1>1, <1>3, <1>5, <1>6, <1>7, WorkerMoves DEF IInv, TypeOK, job

LEMMA EndsKeeps ==
  ASSUME IInv, NEW w \in Workers, Ends(w),
         UNCHANGED <<local, intent, past>>,
         incidents' \in 0..MaxIncidents,
         wire' \in [Gens -> SUBSET Kinds],
         \A g \in Gens : "DEPOSIT_RELEASE" \in wire'[g] =>
           "DEPOSIT_RELEASE" \in wire[g] \/ HasRelease(g)
  PROVE  IInv'
BY WorkerMoves DEF Ends, Guarding, Idle

LEMMA GoesKeeps ==
  ASSUME IInv, NEW w \in Workers,
         NEW pc \in {"sending", "calling", "failed", "uncertain"}, Goes(w, pc),
         worker[w].pc \notin {"idle", "asking"},
         UNCHANGED <<local, intent, past>>,
         incidents' \in 0..MaxIncidents,
         wire' \in [Gens -> SUBSET Kinds],
         \A g \in Gens : "DEPOSIT_RELEASE" \in wire'[g] =>
           "DEPOSIT_RELEASE" \in wire[g] \/ HasRelease(g),
         pc = "sending" /\ Authorizes(w) => ~OpOf(w).identified,
         pc = "calling" => /\ GuardFree /\ HoldsLease(w)
                           /\ Authorizes(w) => Permitted(worker[w].gen)
  PROVE  IInv'
<1> DEFINE job == [worker[w] EXCEPT !.pc = pc, !.again = FALSE, !.seen = "none"]
<1>1. worker[w] \in Jobs /\ JobSound(w, worker[w]) /\ worker[w] # Idle
  BY JobAtWork
<1>2. /\ job \in Jobs /\ job.pc = pc /\ job.kind = worker[w].kind /\ job.gen = worker[w].gen
      /\ job.asked = worker[w].asked
  BY <1>1 DEF Jobs, IntentStatuses
<1>3. pc = "sending" /\ job.kind = "DEPOSIT" =>
        LET o == op["DEPOSIT"][job.gen]
        IN  o.token = w /\ o.leased => ~o.identified
  BY <1>2 DEF Authorizes, OpOf
<1>4. pc = "calling" =>
        /\ op[job.kind][job.gen].token = w /\ op[job.kind][job.gen].leased
        /\ job.kind = "DEPOSIT" => Permitted(job.gen)
  BY <1>2 DEF Authorizes, OpOf, HoldsLease
<1>5. JobSound(w, job)
  BY <1>1, <1>2, <1>3, <1>4 DEF JobSound
<1>6. Guarding(job) => GuardFree
  BY <1>2 DEF Guarding
<1>7. Completed => job.pc # "asking" /\ job.asked = 0
  BY <1>1, <1>2 DEF IInv, CompletionFinal, Completed
<1>8. worker' = [worker EXCEPT ![w] = job]
  BY DEF Goes
<1> HIDE DEF job
<1> QED
  BY <1>2, <1>5, <1>6, <1>7, <1>8, WorkerMoves

LEMMA ResumeKeeps ==
  ASSUME IInv, NEW w \in Workers, Resume(w)
  PROVE  IInv'
<1> DEFINE job == [worker[w] EXCEPT !.pc = "prepared", !.gen = deposit.generation, !.asked = 0]
<1>1. worker[w] \in Jobs /\ JobSound(w, worker[w]) /\ worker[w].pc = "asking"
  BY JobAtWork DEF Resume, At
<1>2. deposit.generation \in Gens
  BY DEF Resume, StartsAnew, IInv, TypeOK, Deposits, Gens
<1>3. /\ job \in Jobs /\ job.pc = "prepared" /\ job.kind = "DEPOSIT"
      /\ job.gen = deposit.generation /\ job.asked = 0
  <2>1. PICK j \in Jobs : worker[w] = j
    BY <1>1
  <2>2. PICK g \in Gens : deposit.generation = g
    BY <1>2
  <2>3. job = [j EXCEPT !.pc = "prepared", !.gen = g, !.asked = 0]
    BY <2>1, <2>2
  <2>4. g \in 0..Generations /\ 0 \in 0..Generations
    BY DepositAssumption DEF Gens
  <2>5. j.kind = "DEPOSIT"
    BY <1>1, <2>1 DEF JobSound
  <2> QED
    BY <2>2, <2>3, <2>4, <2>5 DEF Jobs
<1>4. op["DEPOSIT"][deposit.generation].state # "ABSENT"
  BY <1>2, DepositAssumption DEF IInv, LatestExists, Gens
<1>5. JobSound(w, job) /\ ~Guarding(job)
  BY <1>2, <1>3, <1>4 DEF JobSound, Guarding
<1>6. worker' = [worker EXCEPT ![w] = job]
  BY DEF Resume, Prepared
<1>7. UNCHANGED <<local, intent, past>> /\ incidents' \in 0..MaxIncidents /\ wire' = wire
      /\ wire' \in [Gens -> SUBSET Kinds]
  BY DEF Resume, outside, IInv, TypeOK
<1> HIDE DEF job
<1> QED
  BY <1>3, <1>5, <1>6, <1>7, WorkerMoves

LEMMA RecoverKeeps ==
  ASSUME IInv, NEW w \in Workers, NEW k \in Kinds, NEW g \in Gens, Recover(w, k, g)
  PROVE  IInv'
<1> DEFINE job == [pc |-> "prepared", kind |-> k, gen |-> g, asked |-> 0, again |-> FALSE,
                   seen |-> "none"]
<1>1. job \in Jobs
  BY DepositAssumption DEF Jobs, Gens, IntentStatuses
<1>2. op[k][g].state # "ABSENT" /\ OpSound(k, g)
  BY DEF Recover, Due, IInv, OpsSound
<1>3. JobSound(w, job) /\ ~Guarding(job)
  BY <1>2 DEF JobSound, OpSound, Guarding
<1>4. UNCHANGED <<local, intent, past>> /\ incidents' \in 0..MaxIncidents /\ wire' = wire
      /\ wire' \in [Gens -> SUBSET Kinds] /\ worker' = [worker EXCEPT ![w] = job]
  BY DEF Recover, outside, IInv, TypeOK
<1>5. job.pc # "asking" /\ job.asked = 0
  OBVIOUS
<1> HIDE DEF job
<1> QED
  BY <1>1, <1>3, <1>4, <1>5, WorkerMoves

\* A retry that goes on as an attempt: never after the completion of the trip.
AskingAgain(w) == [worker[w] EXCEPT !.pc = "asking", !.kind = "DEPOSIT", !.gen = 0,
                                    !.again = TRUE, !.seen = "none"]

LEMMA AskingAgainSound ==
  ASSUME IInv, NEW w \in Workers, worker[w].pc # "idle", worker[w].asked # 0
  PROVE  /\ AskingAgain(w) \in Jobs /\ AskingAgain(w) # Idle
         /\ AskingAgain(w).pc = "asking" /\ AskingAgain(w).kind = "DEPOSIT"
         /\ AskingAgain(w).gen = 0
         /\ ~Completed
<1>1. worker[w] \in Jobs /\ worker[w] # Idle
  BY JobAtWork
<1>2. PICK job \in Jobs : worker[w] = job
  BY <1>1
<1>3. AskingAgain(w) = [job EXCEPT !.pc = "asking", !.kind = "DEPOSIT", !.gen = 0,
                                   !.again = TRUE, !.seen = "none"]
  BY <1>2 DEF AskingAgain
<1>4. 0 \in 0..Generations /\ "none" \in IntentStatuses
  BY DepositAssumption DEF IntentStatuses
<1>5. AskingAgain(w) \in Jobs /\ AskingAgain(w).pc = "asking" /\ AskingAgain(w).kind = "DEPOSIT"
      /\ AskingAgain(w).gen = 0
  BY <1>3, <1>4, KindsAre DEF Jobs
<1> QED
  BY <1>1, <1>5, IdleIsNoJob DEF IInv, CompletionFinal, Completed

LEMMA ClaimRefusedKeeps ==
  ASSUME IInv, NEW w \in Workers, ClaimRefused(w)
  PROVE  IInv'
<1>1. UNCHANGED <<local, intent, past>> /\ incidents' \in 0..MaxIncidents /\ wire' = wire
      /\ wire' \in [Gens -> SUBSET Kinds] /\ worker[w].pc = "prepared"
  BY DEF ClaimRefused, outside, At, IInv, TypeOK
<1>2. CASE Ends(w)
  BY <1>1, <1>2, EndsKeeps
<1>3. CASE worker[w].asked # 0 /\ worker' = [worker EXCEPT ![w] = AskingAgain(w)]
  <2>1. JobSound(w, AskingAgain(w)) /\ ~Guarding(AskingAgain(w))
    BY <1>1, <1>3, AskingAgainSound DEF JobSound, Guarding
  <2> QED
    BY <1>1, <1>3, <2>1, AskingAgainSound, WorkerMoves
<1> QED
  BY <1>2, <1>3 DEF ClaimRefused, EndsUnlessReleased, AskingAgain

LEMMA LookKeeps ==
  ASSUME IInv, NEW w \in Workers, Look(w)
  PROVE  IInv'
<1> DEFINE job == [worker[w] EXCEPT !.pc = "read", !.again = FALSE, !.seen = intent[worker[w].gen]]
<1>1. worker[w] \in Jobs /\ JobSound(w, worker[w]) /\ worker[w] # Idle /\ worker[w].pc = "claimed"
  BY JobAtWork DEF Look, At
<1>2. /\ worker[w].kind \in Kinds /\ worker[w].gen \in Gens
      /\ OpOf(w) = op[worker[w].kind][worker[w].gen]
      /\ OpSound(worker[w].kind, worker[w].gen)
  BY <1>1, OpAtWork
<1>3. /\ Exists(worker[w].gen)
      /\ worker[w].kind = "DEPOSIT_RELEASE" => intent[worker[w].gen] = "canceled"
  BY <1>1, <1>2 DEF Look, Found, OpSound, Exists, Authorizes
<1>4. /\ job \in Jobs /\ job.pc = "read" /\ job.kind = worker[w].kind
      /\ job.gen = worker[w].gen /\ job.asked = worker[w].asked /\ job.seen = intent[job.gen]
  BY <1>1, <1>2 DEF Jobs, IInv, TypeOK
<1>5. JobSound(w, job) /\ ~Guarding(job)
  BY <1>1, <1>3, <1>4 DEF JobSound, Guarding, StillSo, Exists
<1>6. UNCHANGED <<local, intent, past>> /\ incidents' \in 0..MaxIncidents /\ wire' = wire
      /\ wire' \in [Gens -> SUBSET Kinds] /\ worker' = [worker EXCEPT ![w] = job]
  BY DEF Look, outside, IInv, TypeOK
<1>7. Completed => job.pc # "asking" /\ job.asked = 0
  BY <1>1, <1>4 DEF IInv, CompletionFinal, Completed
<1> HIDE DEF job
<1> QED
  BY <1>4, <1>5, <1>6, <1>7, WorkerMoves

LEMMA DispatchKeeps ==
  ASSUME IInv, NEW w \in Workers, Dispatch(w)
  PROVE  IInv'
<1>1. worker[w].pc = "sending" /\ GuardFree /\ HoldsLease(w) /\ Authorized(w) /\ Goes(w, "calling")
  BY DEF Dispatch, At
<1>2. worker[w] \in Jobs /\ JobSound(w, worker[w]) /\ worker[w].kind \in Kinds
      /\ worker[w].gen \in Gens /\ OpOf(w) = op[worker[w].kind][worker[w].gen]
      /\ OpOf(w) \in Ops /\ OpOf(w).state # "ABSENT" /\ OpSound(worker[w].kind, worker[w].gen)
  BY <1>1, JobAtWork, OpAtWork
<1>3. ASSUME Authorizes(w)
      PROVE  Permitted(worker[w].gen)
  <2>1. ~OpOf(w).identified
    BY <1>1, <1>2, <1>3 DEF JobSound, HoldsLease, Authorizes
  <2>2. ~Completed
    BY <1>2, <1>3, <2>1 DEF IInv, CompletionFinal, Authorizes
  <2> QED
    BY <1>1, <1>3, <2>2 DEF Authorized, Superseded, Permitted, Completed
<1>4. UNCHANGED <<local, intent, past>> /\ incidents' \in 0..MaxIncidents /\ wire' = wire
      /\ wire' \in [Gens -> SUBSET Kinds]
  BY DEF Dispatch, outside, IInv, TypeOK
<1> QED
  BY <1>1, <1>3, <1>4, GoesKeeps

\* The other steps of an execution that only read.
LEMMA ReadOnlyKeeps ==
  ASSUME IInv, NEW w \in Workers,
         \/ AttemptRefused(w) \/ Decide(w) \/ NotFound(w) \/ DispatchRefused(w) \/ SaveRefused(w)
  PROVE  IInv'
<1>1. UNCHANGED <<local, intent, past>> /\ incidents' \in 0..MaxIncidents /\ wire' = wire
      /\ wire' \in [Gens -> SUBSET Kinds]
  BY DEF AttemptRefused, Decide, NotFound, DispatchRefused, SaveRefused, outside, IInv, TypeOK
<1>2. CASE AttemptRefused(w)
  BY <1>1, <1>2, EndsKeeps DEF AttemptRefused
<1>3. CASE Decide(w)
  <2>1. Goes(w, "sending") /\ worker[w].pc = "claimed"
    BY <1>3 DEF Decide, At
  <2>2. Authorizes(w) => ~OpOf(w).identified
    BY <1>3 DEF Decide
  <2> QED
    BY <1>1, <2>1, <2>2, GoesKeeps
<1>4. CASE NotFound(w)
  BY <1>1, <1>4, GoesKeeps DEF NotFound, At
<1>5. CASE DispatchRefused(w)
  BY <1>1, <1>5, GoesKeeps DEF DispatchRefused, At
<1>6. CASE SaveRefused(w)
  BY <1>1, <1>6, GoesKeeps DEF SaveRefused, At
<1> QED
  BY <1>2, <1>3, <1>4, <1>5, <1>6

\* A request that stays under way: to authorize, or to release what has a
\* release.
LEMMA WireStaysSound ==
  ASSUME IInv, NEW w \in Workers, worker[w].pc = "calling",
         wire' = [wire EXCEPT ![worker[w].gen] = wire[worker[w].gen] \cup {worker[w].kind}]
  PROVE  /\ wire' \in [Gens -> SUBSET Kinds]
         /\ \A g \in Gens : "DEPOSIT_RELEASE" \in wire'[g] =>
              "DEPOSIT_RELEASE" \in wire[g] \/ HasRelease(g)
<1>1. JobSound(w, worker[w]) /\ worker[w].kind \in Kinds /\ worker[w].gen \in Gens
  BY JobAtWork, OpAtWork
<1>2. worker[w].kind = "DEPOSIT_RELEASE" => HasRelease(worker[w].gen)
  BY <1>1 DEF JobSound, HasRelease
<1>3. wire \in [Gens -> SUBSET Kinds]
  BY DEF IInv, TypeOK
<1> QED
  BY <1>1, <1>2, <1>3

LEMMA LostKeeps ==
  ASSUME IInv, NEW w \in Workers, Lost(w)
  PROVE  IInv'
<1>1. worker[w].pc = "calling" /\ Goes(w, "failed") /\ UNCHANGED <<local, intent, past>>
      /\ incidents < MaxIncidents /\ incidents' = incidents + 1
  BY DEF Lost, At
<1>2. incidents' \in 0..MaxIncidents
  BY <1>1, DepositAssumption DEF IInv, TypeOK
<1>3. \/ wire' = [wire EXCEPT ![worker[w].gen] = wire[worker[w].gen]]
      \/ wire' = [wire EXCEPT ![worker[w].gen] = wire[worker[w].gen] \cup {worker[w].kind}]
  BY DEF Lost
<1>4. CASE wire' = [wire EXCEPT ![worker[w].gen] = wire[worker[w].gen]]
  <2>1. wire' = wire /\ wire \in [Gens -> SUBSET Kinds]
    BY <1>4 DEF IInv, TypeOK
  <2> QED
    BY <1>1, <1>2, <2>1, GoesKeeps
<1>5. CASE wire' = [wire EXCEPT ![worker[w].gen] = wire[worker[w].gen] \cup {worker[w].kind}]
  BY <1>1, <1>2, <1>5, WireStaysSound, GoesKeeps
<1> QED
  BY <1>3, <1>4, <1>5

LEMMA CrashKeeps ==
  ASSUME IInv, NEW w \in Workers, Crash(w)
  PROVE  IInv'
<1>1. Ends(w) /\ UNCHANGED <<local, intent, past>>
      /\ incidents < MaxIncidents /\ incidents' = incidents + 1
  BY DEF Crash
<1>2. incidents' \in 0..MaxIncidents
  BY <1>1, DepositAssumption DEF IInv, TypeOK
<1>3. CASE wire' = wire
  BY <1>1, <1>2, <1>3, EndsKeeps DEF IInv, TypeOK
<1>4. CASE /\ worker[w].pc = "calling"
           /\ wire' = [wire EXCEPT ![worker[w].gen] = wire[worker[w].gen] \cup {worker[w].kind}]
  BY <1>1, <1>2, <1>4, WireStaysSound, EndsKeeps
<1> QED
  BY <1>3, <1>4 DEF Crash, At

-----------------------------------------------------------------------------
(* Steps of the provider.                                                  *)

\* An intent moves, under a call of w or on its own.
LEMMA IntentMoves ==
  ASSUME IInv, NEW w, NEW g \in Gens, NEW s \in IntentStatuses,
         UNCHANGED <<local, past, incidents>>,
         intent' = [intent EXCEPT ![g] = s],
         wire' \in [Gens -> SUBSET Kinds], \A h \in Gens : wire'[h] \subseteq wire[h],
         worker' \in [Workers -> Jobs \cup {Idle}],
         \A v \in Workers : v # w => worker'[v] = worker[v],
         w \in Workers /\ Onward => /\ worker'[w] # Idle /\ JobSound(w, worker[w])'
                                   /\ Guarding(worker[w]) /\ worker'[w].pc # "asking"
                                   /\ worker'[w].asked = worker[w].asked /\ worker[w] # Idle,
         Exists(g) => s # "none",
         intent[g] = "requires_capture" => s \in {"requires_capture", "canceled"},
         intent[g] = "canceled" => s = "canceled",
         s = "canceled" => intent[g] = "canceled" \/ Doomed(g)
  PROVE  IInv'
<1>1. TypeOK'
  BY DEF IInv, TypeOK, local
<1>2. Onward
  BY DEF IInv, Onward, Exists, local, TypeOK, Deposits
<1>3. \A v \in Workers : v # w => Spares(v)
  BY DEF Spares, local
<1>4. JobsSound'
  BY <1>1, <1>2, <1>3, JobsStaySound DEF IInv
<1>5. OneCall'
  BY <1>2, OneCallStays DEF IInv
<1>6. OpsSound'
  BY <1>1, <1>2, OpStaysSound DEF IInv, OpsSound, local
<1>7. IntentsSound'
  <2> SUFFICES ASSUME NEW h \in Gens
               PROVE  IntentSound(h)'
    BY DEF IntentsSound
  <2>1. intent'[h] = "canceled" => intent[h] = "canceled" \/ Doomed(h)
    BY DEF IInv, TypeOK
  <2> QED
    BY <1>1, <1>2, <2>1, IntentStaysSound DEF IInv, IntentsSound
<1>8. RowSound'
  BY <1>1, <1>2, RowStaysSound DEF IInv, local
<1>9. \A h \in Gens : Planned(h) => Planned(h)'
  BY <1>2 DEF Planned, Onward, local
<1>10. CompletionFinal' /\ LatestExists' /\ ReleaseSeen'
  BY <1>2, <1>9 DEF IInv, CompletionFinal, Completed, LatestExists, ReleaseSeen, local
<1>11. ReleasePlanned'
  BY <1>9 DEF IInv, ReleasePlanned, Planned, local
<1> QED
  BY <1>1, <1>4, <1>5, <1>6, <1>7, <1>8, <1>10, <1>11 DEF IInv

\* What a request leads to is a status of an intent, and nothing but a release
\* or time gives an authorization up.
LEMMA OutcomeOf ==
  ASSUME NEW k \in Kinds, NEW t \in IntentStatuses, NEW s \in Outcomes(k, t)
  PROVE  /\ s \in IntentStatuses /\ s # "none"
         /\ t = "requires_capture" => s \in {"requires_capture", "canceled"}
         /\ t = "canceled" => s = "canceled"
         /\ s = "canceled" => t = "canceled" \/ k = "DEPOSIT_RELEASE"
         /\ k = "DEPOSIT_RELEASE" => s = "canceled"
BY DEF Outcomes, Kinds, IntentStatuses, Live

LEMMA AcceptKeeps ==
  ASSUME IInv, NEW w \in Workers, Accept(w)
  PROVE  IInv'
<1> DEFINE g == worker[w].gen
           k == worker[w].kind
<1>1. worker[w].pc = "calling" /\ worker[w] \in Jobs /\ JobSound(w, worker[w])
      /\ worker[w].kind \in Kinds /\ worker[w].gen \in Gens /\ worker[w] # Idle
  BY JobAtWork, OpAtWork DEF Accept, At
<1>2. PICK s \in Outcomes(worker[w].kind, intent[worker[w].gen]) :
        /\ intent' = [intent EXCEPT ![worker[w].gen] = s]
        /\ worker' = [worker EXCEPT ![w] = [worker[w] EXCEPT !.pc = "answered", !.seen = s]]
  BY DEF Accept
<1>3. intent[worker[w].gen] \in IntentStatuses
  BY <1>1 DEF IInv, TypeOK
<1>4. /\ s \in IntentStatuses /\ s # "none"
      /\ intent[g] = "requires_capture" => s \in {"requires_capture", "canceled"}
      /\ intent[g] = "canceled" => s = "canceled"
      /\ s = "canceled" => intent[g] = "canceled" \/ k = "DEPOSIT_RELEASE"
      /\ k = "DEPOSIT_RELEASE" => s = "canceled"
  BY <1>1, <1>3, OutcomeOf
<1>5. s = "canceled" => intent[g] = "canceled" \/ Doomed(g)
  BY <1>1, <1>4 DEF JobSound, Doomed, HasRelease
<1>6. PICK job \in Jobs : job = [worker[w] EXCEPT !.pc = "answered", !.seen = s]
  BY <1>1, <1>4 DEF Jobs
<1>7. /\ job.pc = "answered" /\ job.seen = s /\ job.kind = k /\ job.gen = g
      /\ job.asked = worker[w].asked
  BY <1>1, <1>6 DEF Jobs
<1>8. worker'[w] = job /\ worker' \in [Workers -> Jobs \cup {Idle}]
      /\ \A v \in Workers : v # w => worker'[v] = worker[v]
  BY <1>2, <1>6 DEF IInv, TypeOK
<1>9. intent'[g] = s
  BY <1>1, <1>2 DEF IInv, TypeOK
<1>10. UNCHANGED <<local, past, incidents>> /\ wire' = wire /\ wire' \in [Gens -> SUBSET Kinds]
  BY DEF Accept, IInv, TypeOK
<1>11. ASSUME Onward
       PROVE  JobSound(w, job)'
  BY <1>1, <1>4, <1>7, <1>9, <1>10, <1>11
     DEF JobSound, StillSo, Exists, Permitted, local
<1>12. Guarding(worker[w]) /\ job # Idle
  BY <1>1, <1>7 DEF Guarding, Idle
<1>13. intent' = [intent EXCEPT ![g] = s] /\ (Exists(g) => s # "none")
  BY <1>2, <1>4
<1>14. Onward => worker'[w] # Idle /\ JobSound(w, worker[w])'
                           /\ Guarding(worker[w]) /\ worker'[w].pc # "asking"
                           /\ worker'[w].asked = worker[w].asked /\ worker[w] # Idle
  BY <1>1, <1>7, <1>8, <1>11, <1>12 DEF JobSound
<1> HIDE DEF g, k
<1>15. g \in Gens
  BY <1>1 DEF g
<1> QED
  BY <1>4, <1>5, <1>8, <1>10, <1>13, <1>14, <1>15, IntentMoves

LEMMA ProviderKeeps ==
  ASSUME IInv, NEW g \in Gens, LateAccept(g) \/ Authenticate(g) \/ AutoCancel(g)
  PROVE  IInv'
<1>1. worker' = worker /\ worker \in [Workers -> Jobs \cup {Idle}]
      /\ UNCHANGED <<local, past, incidents>>
      /\ intent[g] \in IntentStatuses /\ wire \in [Gens -> SUBSET Kinds]
  BY DEF LateAccept, Authenticate, AutoCancel, Becomes, IInv, TypeOK
<1>2. ASSUME NEW s \in IntentStatuses, s # "none",
             intent' = [intent EXCEPT ![g] = s],
             wire' \in [Gens -> SUBSET Kinds], \A h \in Gens : wire'[h] \subseteq wire[h],
             intent[g] = "requires_capture" => s \in {"requires_capture", "canceled"},
             intent[g] = "canceled" => s = "canceled",
             s = "canceled" => intent[g] = "canceled" \/ Doomed(g)
      PROVE  IInv'
  <2>1. None \notin Workers /\ \A v \in Workers : worker'[v] = worker[v]
    BY <1>1, DepositAssumption
  <2> QED
    BY <1>1, <1>2, <2>1, IntentMoves
<1>3. CASE LateAccept(g)
  <2>1. PICK k \in wire[g] : \E s \in Outcomes(k, intent[g]) :
           /\ intent' = [intent EXCEPT ![g] = s]
           /\ wire' = [wire EXCEPT ![g] = wire[g] \ {k}]
    BY <1>3 DEF LateAccept
  <2>2. PICK s \in Outcomes(k, intent[g]) :
           /\ intent' = [intent EXCEPT ![g] = s]
           /\ wire' = [wire EXCEPT ![g] = wire[g] \ {k}]
    BY <2>1
  <2>3. k \in Kinds
    BY <1>1, <2>1
  <2>4. /\ s \in IntentStatuses /\ s # "none"
        /\ intent[g] = "requires_capture" => s \in {"requires_capture", "canceled"}
        /\ intent[g] = "canceled" => s = "canceled"
        /\ s = "canceled" => intent[g] = "canceled" \/ k = "DEPOSIT_RELEASE"
    BY <1>1, <2>3, OutcomeOf
  <2>5. k = "DEPOSIT_RELEASE" => Doomed(g)
    BY <2>1 DEF IInv, IntentsSound, IntentSound, Doomed
  <2>6. wire' \in [Gens -> SUBSET Kinds] /\ \A h \in Gens : wire'[h] \subseteq wire[h]
    BY <1>1, <2>2
  <2> QED
    BY <1>2, <2>2, <2>4, <2>5, <2>6
<1>4. CASE Authenticate(g)
  <2>1. wire' \in [Gens -> SUBSET Kinds] /\ \A h \in Gens : wire'[h] \subseteq wire[h]
    BY <1>1, <1>4 DEF Authenticate, Becomes
  <2>2. PICK s \in {"requires_capture", "requires_payment_method"} :
          intent' = [intent EXCEPT ![g] = s]
    BY <1>4 DEF Authenticate, Becomes
  <2> QED
    BY <1>2, <1>4, <2>1, <2>2 DEF Authenticate, IntentStatuses
<1>5. CASE AutoCancel(g)
  <2>1. wire' \in [Gens -> SUBSET Kinds] /\ \A h \in Gens : wire'[h] \subseteq wire[h]
    BY <1>1, <1>5 DEF AutoCancel, Becomes
  <2>2. Doomed(g) /\ intent' = [intent EXCEPT ![g] = "canceled"] /\ "canceled" \in IntentStatuses
    BY <1>5 DEF AutoCancel, Becomes, Doomed, IntentStatuses
  <2> QED
    BY <1>2, <2>1, <2>2
<1> QED
  BY <1>3, <1>4, <1>5

LEMMA ElapseKeeps ==
  ASSUME IInv, NEW g \in Gens, Elapse(g)
  PROVE  IInv'
<1>1. /\ UNCHANGED <<local, worker, intent, wire, incidents>>
      /\ past' = [past EXCEPT ![g] = TRUE]
  BY DEF Elapse
<1>2. TypeOK'
  BY <1>1 DEF IInv, TypeOK, local
<1>3. Onward
  BY <1>1 DEF IInv, Onward, Exists, local, TypeOK, Deposits
<1>4. \A v \in Workers : Spares(v)
  BY <1>1 DEF Spares, local
<1>5. JobsSound'
  BY <1>2, <1>3, <1>4, NoneIsNobody, JobsStaySound DEF IInv
<1>6. OneCall'
  BY <1>1 DEF IInv, OneCall
<1>7. OpsSound'
  BY <1>1, <1>2, <1>3, OpStaysSound DEF IInv, OpsSound, local
<1>8. IntentsSound'
  BY <1>1, <1>2, <1>3, IntentStaysSound DEF IInv, IntentsSound
<1>9. RowSound'
  BY <1>1, <1>2, <1>3, RowStaysSound DEF IInv, local
<1>10. ReleaseSeen' /\ CompletionFinal' /\ LatestExists' /\ ReleasePlanned'
  BY <1>1 DEF IInv, ReleaseSeen, CompletionFinal, Completed, LatestExists, ReleasePlanned,
     Planned, local
<1> QED
  BY <1>2, <1>5, <1>6, <1>7, <1>8, <1>9, <1>10 DEF IInv

-----------------------------------------------------------------------------
(* Steps of the reservation, under a guard that nobody holds.              *)

\* The reservation moves on, with or without releases for what it has learned of.
LEMMA ReservationMoves ==
  ASSUME IInv, GuardFree, reservation' \in Reservations,
         \/ op' = op
         \/ PlanAll /\ (reservation'.disposition # "OPEN" \/ reservation'.status # "PRE_TRIP"),
         UNCHANGED <<deposit, worker, intent, past, wire>>,
         incidents' \in 0..MaxIncidents,
         reservation.disposition # "OPEN" => reservation'.disposition # "OPEN",
         reservation.status # "PRE_TRIP" => reservation'.status # "PRE_TRIP",
         Completed' /\ ~Completed =>
           PlanAll /\ NoAttemptOutlivesTrip /\ SettledEvidence,
         ReleasePlanned'
  PROVE  IInv'
<1>1. op' \in OpTable /\ op'["DEPOSIT"] = op["DEPOSIT"]
      /\ \A g \in Gens : \/ op'["DEPOSIT_RELEASE"][g] = op["DEPOSIT_RELEASE"][g]
                         \/ /\ op["DEPOSIT_RELEASE"][g].state = "ABSENT"
                            /\ op'["DEPOSIT_RELEASE"][g] = NewOp
                            /\ op["DEPOSIT"][g].identified
                            /\ \/ reservation'.disposition # "OPEN"
                               \/ reservation'.status # "PRE_TRIP"
  <2>1. op \in OpTable
    BY DEF IInv, TypeOK, OpTable
  <2>2. Identified \in SUBSET Gens
    BY DEF Identified
  <2> QED
    BY <2>1, <2>2, PlanAdds DEF PlanAll, Identified, OpTable
<1>2. TypeOK'
  BY <1>1 DEF IInv, TypeOK, OpTable
<1>3. \A k \in Kinds, g \in Gens : op'[k][g] = op[k][g] \/ op'[k][g] = NewOp
  BY <1>1 DEF Kinds
<1>4. Onward
  BY <1>3, NewOpIsOp DEF IInv, Onward, Exists, TypeOK, Deposits
<1>5. \A v \in Workers : Spares(v)
  BY <1>3, NewOpIsOp DEF Spares, GuardFree
<1>6. JobsSound'
  BY <1>2, <1>4, <1>5, NoneIsNobody, JobsStaySound DEF IInv
<1>7. OneCall'
  BY DEF IInv, OneCall
<1>8. OpsSound'
  <2> SUFFICES ASSUME NEW k \in Kinds, NEW g \in Gens
               PROVE  OpSound(k, g)'
    BY DEF OpsSound
  <2>1. OpSound(k, g) /\ OpSound("DEPOSIT", g)
    BY KindsAre DEF IInv, OpsSound
  <2>2. CASE op'[k][g] = op[k][g]
    BY <1>2, <1>4, <2>1, <2>2, OpStaysSound DEF IInv
  <2>3. CASE op'[k][g] # op[k][g]
    <3>1. /\ k = "DEPOSIT_RELEASE" /\ op'[k][g] = NewOp /\ op["DEPOSIT"][g].identified
          /\ Dispensable(g)'
      BY <1>1, <2>3 DEF Kinds, Dispensable
    <3>2. Exists(g)' /\ g <= deposit.generation
      BY <2>1, <3>1 DEF OpSound, Exists
    <3> QED
      BY <3>1, <3>2, NewOpIsOp, DepositAssumption DEF OpSound
  <2> QED
    BY <2>2, <2>3
<1>9. IntentsSound'
  BY <1>2, <1>4, IntentStaysSound DEF IInv, IntentsSound
<1>10. RowSound' /\ LatestExists' /\ ReleaseSeen'
  BY <1>1, <1>2, <1>4, NewOpIsOp, RowStaysSound DEF IInv, LatestExists, ReleaseSeen
<1>11. CompletionFinal'
  <2>1. CASE Completed' /\ Completed
    BY <1>1, <2>1, NewOpIsOp DEF IInv, CompletionFinal, Completed, Planned
  <2>2. CASE Completed' /\ ~Completed
    <3>1. \A w \in Workers : worker[w] # Idle => worker[w].pc # "asking" /\ worker[w].asked = 0
      BY <2>2, IdleIsNoJob DEF NoAttemptOutlivesTrip, At, IInv, TypeOK, Jobs, Idle
    <3>2. \A g \in Gens : op["DEPOSIT"][g].state # "ABSENT" => op["DEPOSIT"][g].identified
      BY <2>2, KindsAre DEF SettledEvidence, IInv, OpsSound, OpSound
    <3>3. \A g \in Gens : op["DEPOSIT"][g].identified => op'["DEPOSIT_RELEASE"][g].state # "ABSENT"
      <4>1. op \in OpTable /\ Identified \in SUBSET Gens
        BY DEF IInv, TypeOK, OpTable, Identified
      <4> QED
        BY <2>2, <4>1, PlanAdds, NewOpIsOp DEF PlanAll, Identified
    <3> QED
      BY <1>1, <3>1, <3>2, <3>3 DEF CompletionFinal, Completed, Planned
  <2> QED
    BY <2>1, <2>2 DEF CompletionFinal, Completed
<1> QED
  BY <1>2, <1>6, <1>7, <1>8, <1>9, <1>10, <1>11 DEF IInv

LEMMA PlanAllPlans ==
  ASSUME IInv, PlanAll
  PROVE  ReleasePlanned'
<1>1. op \in OpTable /\ Identified \in SUBSET Gens
  BY DEF IInv, TypeOK, OpTable, Identified
<1>2. \A g \in Gens : op'["DEPOSIT"][g].identified => op'["DEPOSIT_RELEASE"][g].state # "ABSENT"
  BY <1>1, PlanAdds, NewOpIsOp DEF PlanAll, Identified
<1> QED
  BY <1>2 DEF ReleasePlanned

LEMMA ReservationKeeps ==
  ASSUME IInv, Reservation
  PROVE  IInv'
<1>1. reservation \in Reservations
  BY DEF IInv, TypeOK
<1>2. CASE RequireRefund \/ StartTrip \/ ForceStart
  <2>1. /\ reservation' \in Reservations
        /\ \/ /\ reservation'.status = "PRE_TRIP" /\ reservation.status = "PRE_TRIP"
              /\ reservation'.disposition = "REFUND_REQUIRED"
           \/ reservation'.status = "ACTIVE" /\ reservation'.disposition = "OPEN"
        /\ reservation.disposition = "OPEN"
    BY <1>1, <1>2 DEF RequireRefund, StartTrip, ForceStart, StartAuthority, Ordains, Transitions,
       Reservations, Statuses, Dispositions
  <2>2. ReleasePlanned' /\ ~Completed'
    BY <2>1 DEF ReleasePlanned, Completed
  <2>3. GuardFree /\ op' = op /\ UNCHANGED <<deposit, worker, intent, past, wire>>
        /\ incidents' \in 0..MaxIncidents
    BY <1>2 DEF RequireRefund, StartTrip, ForceStart, outside, IInv, TypeOK
  <2> QED
    BY <2>1, <2>2, <2>3, ReservationMoves
<1>3. CASE FullyRefunded \/ Cancel
  <2>1. /\ reservation' \in Reservations /\ reservation'.status \in {"PRE_TRIP", "CANCELLED"}
        /\ reservation'.disposition \in Terminated
        /\ reservation.status \in {"PRE_TRIP", "CANCELLED"}
        /\ reservation.status # "PRE_TRIP" => reservation'.status # "PRE_TRIP"
    BY <1>1, <1>3 DEF FullyRefunded, Cancel, Ordains, Reservations, Statuses, Dispositions, Terminated
  <2>2. PlanAll /\ GuardFree /\ UNCHANGED <<deposit, worker, intent, past, wire>>
        /\ incidents' \in 0..MaxIncidents
    BY <1>3 DEF FullyRefunded, Cancel, outside, IInv, TypeOK
  <2> QED
    BY <2>1, <2>2, PlanAllPlans, ReservationMoves DEF Terminated, Completed
<1>4. CASE CompleteTrip
  <2>1. /\ reservation' \in Reservations /\ reservation'.status = "COMPLETED"
        /\ reservation'.disposition = reservation.disposition
    BY <1>1, <1>4 DEF CompleteTrip, Transitions, Reservations, Statuses
  <2>2. /\ PlanAll /\ GuardFree /\ UNCHANGED <<deposit, worker, intent, past, wire>>
        /\ NoAttemptOutlivesTrip /\ SettledEvidence /\ incidents' \in 0..MaxIncidents
    BY <1>4 DEF CompleteTrip, ReturnAuthority, outside, IInv, TypeOK
  <2> QED
    BY <2>1, <2>2, PlanAllPlans, ReservationMoves
<1>5. CASE OpenClaim \/ CloseClaim
  <2>1. /\ reservation' \in Reservations /\ reservation'.status = reservation.status
        /\ reservation'.disposition \in {"REVIEW", reservation.disposition}
        /\ reservation'.forced = reservation.forced
    BY <1>1, <1>5 DEF OpenClaim, CloseClaim, Reservations, Dispositions
  <2>2. GuardFree /\ op' = op /\ UNCHANGED <<deposit, worker, intent, past, wire>>
        /\ incidents' \in 0..MaxIncidents
    BY <1>5, DepositAssumption DEF OpenClaim, CloseClaim, outside, IInv, TypeOK
  <2>3. ReleasePlanned'
    BY <2>1, <2>2 DEF IInv, ReleasePlanned
  <2> QED
    BY <2>1, <2>2, <2>3, ReservationMoves DEF Completed
<1>6. CASE AuthorizeSettlement
  <2>1. /\ reservation.disposition = "REVIEW" /\ reservation'.status = reservation.status
        /\ reservation' \in Reservations /\ reservation'.forced = reservation.forced
        /\ \/ /\ reservation.status \in {"ACTIVE", "COMPLETED"}
              /\ reservation'.disposition = "TERMINATED"
           \/ /\ reservation.status \in {"PRE_TRIP", "CANCELLED"}
              /\ reservation'.disposition = "REFUND_REQUIRED"
    BY <1>1, <1>6 DEF AuthorizeSettlement, Ordains, Reservations, Dispositions
  <2>2. GuardFree /\ op' = op /\ UNCHANGED <<deposit, worker, intent, past, wire>>
        /\ incidents' \in 0..MaxIncidents
    BY <1>6 DEF AuthorizeSettlement, outside, IInv, TypeOK
  <2>3. ReleasePlanned'
    BY <2>1, <2>2 DEF IInv, ReleasePlanned, CompletionFinal, Completed, Planned
  <2> QED
    BY <2>1, <2>2, <2>3, ReservationMoves DEF Completed
<1>7. CASE ForceComplete
  <2>1. /\ reservation' \in Reservations /\ reservation'.status = "COMPLETED"
        /\ reservation'.disposition = reservation.disposition
        /\ Completed' => Completed
    BY <1>1, <1>7 DEF ForceComplete, Transitions, Reservations, Statuses, Completed
  <2>2. GuardFree /\ op' = op /\ UNCHANGED <<deposit, worker, intent, past, wire>>
        /\ incidents' \in 0..MaxIncidents
    BY <1>7 DEF ForceComplete, outside, IInv, TypeOK
  <2>3. ReleasePlanned'
    BY <2>1, <2>2 DEF IInv, ReleasePlanned, Completed
  <2> QED
    BY <2>1, <2>2, <2>3, ReservationMoves
<1> QED
  BY <1>2, <1>3, <1>4, <1>5, <1>6, <1>7 DEF Reservation

-----------------------------------------------------------------------------
(* Steps that change an operation.                                         *)

\* An execution of w, or nobody's step, writes operations.
LEMMA OpMoves ==
  ASSUME IInv, NEW w,
         UNCHANGED <<intent, past, wire>>,
         op' \in OpTable, deposit' \in Deposits, reservation' \in Reservations,
         worker' \in [Workers -> Jobs \cup {Idle}], incidents' \in 0..MaxIncidents,
         Onward,
         \A v \in Workers : v # w => Spares(v),
         w \in Workers => /\ worker'[w] # Idle => JobSound(w, worker[w])'
                          /\ Guarding(worker'[w]) => Guarding(worker[w]) \/ GuardFree,
         \A k \in Kinds, g \in Gens : op'[k][g] = op[k][g] \/ OpSound(k, g)',
         RowSound', ReleaseSeen', LatestExists', CompletionFinal', ReleasePlanned'
  PROVE  IInv'
<1>1. TypeOK'
  BY DEF IInv, TypeOK, OpTable
<1>2. JobsSound'
  BY <1>1, JobsStaySound DEF IInv
<1>3. OneCall'
  BY OneCallStays DEF IInv, Spares
<1>4. OpsSound'
  <2> SUFFICES ASSUME NEW k \in Kinds, NEW g \in Gens, op'[k][g] = op[k][g]
               PROVE  OpSound(k, g)'
    BY DEF OpsSound
  <2> QED
    BY <1>1, OpStaysSound DEF IInv, OpsSound
<1>5. IntentsSound'
  BY <1>1, IntentStaysSound DEF IInv, IntentsSound
<1> QED
  BY <1>1, <1>2, <1>3, <1>4, <1>5 DEF IInv

\* What completion and termination promise survives a step that identifies no
\* intent and starts no attempt.
LEMMA PromisesStay ==
  ASSUME IInv, UNCHANGED intent, reservation'.status = reservation.status,
         reservation'.forced = reservation.forced,
         reservation'.disposition \in {reservation.disposition, "REVIEW"},
         \A k \in Kinds, g \in Gens : op[k][g].state # "ABSENT" => op'[k][g].state # "ABSENT",
         \A g \in Gens : /\ op'["DEPOSIT"][g].identified <=> op["DEPOSIT"][g].identified
                         /\ op'["DEPOSIT"][g].state # "ABSENT" => op["DEPOSIT"][g].state # "ABSENT",
         \A w \in Workers : \/ worker'[w] = worker[w]
                            \/ worker'[w] = Idle
                            \/ ~Completed
                            \/ /\ worker'[w].pc # "asking" /\ worker[w] # Idle
                               /\ worker'[w].asked = worker[w].asked
  PROVE  CompletionFinal' /\ ReleasePlanned'
<1>1. \A g \in Gens : Planned(g) => Planned(g)'
  BY KindsAre DEF Planned
<1> QED
  BY <1>1 DEF IInv, CompletionFinal, Completed, ReleasePlanned, Planned

\* Planning releases for intents that exist changes nothing else.
LEMMA PlanIsQuiet ==
  ASSUME IInv, NEW S \in SUBSET Gens, op' = Plan(op, S),
         \A g \in S : Exists(g) /\ g <= deposit.generation /\ Dispensable(g),
         UNCHANGED <<intent, past, wire, reservation, deposit>>
  PROVE  /\ op' \in OpTable /\ op'["DEPOSIT"] = op["DEPOSIT"]
         /\ \A k \in Kinds, g \in Gens : op'[k][g] = op[k][g] \/ (op'[k][g] = NewOp /\ g \in S)
         /\ Onward /\ LatestExists' /\ ReleaseSeen'
         /\ \A k \in Kinds, g \in Gens : op'[k][g] = op[k][g] \/ OpSound(k, g)'
<1>1. op \in OpTable
  BY DEF IInv, TypeOK, OpTable
<1>2. /\ op' \in OpTable /\ op'["DEPOSIT"] = op["DEPOSIT"]
      /\ \A g \in Gens : op'["DEPOSIT_RELEASE"][g] =
                IF g \in S /\ op["DEPOSIT_RELEASE"][g].state = "ABSENT"
                THEN NewOp ELSE op["DEPOSIT_RELEASE"][g]
  BY <1>1, PlanAdds
<1>3. \A k \in Kinds, g \in Gens :
        \/ op'[k][g] = op[k][g]
        \/ op'[k][g] = NewOp /\ g \in S /\ k = "DEPOSIT_RELEASE" /\ op[k][g].state = "ABSENT"
  BY <1>2 DEF Kinds
<1>4. Onward
  BY <1>3, NewOpIsOp DEF IInv, Onward, Exists, TypeOK, Deposits
<1>5. LatestExists' /\ ReleaseSeen'
  BY <1>2, NewOpIsOp DEF IInv, LatestExists, ReleaseSeen
<1>6. ASSUME NEW k \in Kinds, NEW g \in Gens, op'[k][g] # op[k][g]
      PROVE  OpSound(k, g)'
  <2>1. op'[k][g] = NewOp /\ g <= deposit.generation /\ k = "DEPOSIT_RELEASE"
        /\ Exists(g) /\ Dispensable(g)
    BY <1>3, <1>6
  <2>2. Exists(g)' /\ Dispensable(g)'
    BY <2>1 DEF Exists, Dispensable
  <2> QED
    BY <2>1, <2>2, NewOpIsOp, DepositAssumption DEF OpSound
<1> QED
  BY <1>2, <1>3, <1>4, <1>5, <1>6

LEMMA RenewalReleasesKeeps ==
  ASSUME IInv, NEW w \in Workers, RenewalReleases(w)
  PROVE  IInv'
<1> DEFINE job == [worker[w] EXCEPT !.pc = "prepared", !.kind = "DEPOSIT_RELEASE"]
<1>1. worker[w] \in Jobs /\ JobSound(w, worker[w]) /\ worker[w] # Idle /\ worker[w].pc = "asking"
      /\ GuardFree
  BY JobAtWork DEF RenewalReleases, At
<1>2. worker[w].gen \in Gens /\ Exists(worker[w].gen)
  BY <1>1, DepositAssumption DEF RenewalReleases, JobSound, Jobs, Gens
<1>3. worker[w].gen <= deposit.generation /\ Dispensable(worker[w].gen)
  BY <1>1, <1>2, DepositAssumption DEF JobSound, Gens, Dispensable
<1>4. worker' = [worker EXCEPT ![w] = job] /\ op' = Plan(op, {worker[w].gen})
      /\ UNCHANGED <<reservation, deposit, intent, past, wire, incidents>>
  BY DEF RenewalReleases, outside
<1>5. /\ op' \in OpTable /\ op'["DEPOSIT"] = op["DEPOSIT"]
      /\ \A k \in Kinds, g \in Gens : op'[k][g] = op[k][g] \/ op'[k][g] = NewOp
      /\ Onward /\ LatestExists' /\ ReleaseSeen'
      /\ \A k \in Kinds, g \in Gens : op'[k][g] = op[k][g] \/ OpSound(k, g)'
  <2>1. {worker[w].gen} \in SUBSET Gens
    BY <1>2
  <2> QED
    BY <1>2, <1>3, <1>4, <2>1, PlanIsQuiet
<1>6. PICK j \in Jobs : worker[w] = j
  BY <1>1
<1>7. /\ job \in Jobs /\ job.pc = "prepared" /\ job.kind = "DEPOSIT_RELEASE"
      /\ job.gen = worker[w].gen
  BY <1>6, KindsAre DEF Jobs
<1>8. worker'[w] = job /\ worker' \in [Workers -> Jobs \cup {Idle}]
      /\ \A v \in Workers : v # w => worker'[v] = worker[v]
  BY <1>4, <1>7 DEF IInv, TypeOK
<1>9. op \in OpTable /\ op'["DEPOSIT_RELEASE"][worker[w].gen].state # "ABSENT"
  <2>1. op \in OpTable /\ {worker[w].gen} \in SUBSET Gens
    BY <1>2 DEF IInv, TypeOK, OpTable
  <2>2. Plan(op, {worker[w].gen})["DEPOSIT_RELEASE"][worker[w].gen] =
          IF op["DEPOSIT_RELEASE"][worker[w].gen].state = "ABSENT"
          THEN NewOp ELSE op["DEPOSIT_RELEASE"][worker[w].gen]
    BY <1>2, <2>1, PlanAdds
  <2> QED
    BY <1>4, <2>1, <2>2, NewOpIsOp
<1>10. JobSound(w, job)'
  BY <1>2, <1>4, <1>7, <1>8, <1>9 DEF JobSound, Exists
<1>11. \A v \in Workers : v # w => Spares(v)
  BY <1>1, <1>5, <1>8, NewOpIsOp DEF Spares, GuardFree
<1>12. RowSound'
  BY <1>4 DEF IInv, RowSound, StillSo, Exists
<1>13. \A k \in Kinds, g \in Gens : op[k][g].state # "ABSENT" => op'[k][g].state # "ABSENT"
  BY <1>5 DEF Onward
<1>14. ~Completed
  BY <1>1 DEF IInv, CompletionFinal, Completed
<1>15. CompletionFinal' /\ ReleasePlanned'
  BY <1>4, <1>5, <1>13, <1>14, PromisesStay
<1>16. job # Idle /\ ~Guarding(job) /\ JobSound(w, worker[w])'
  BY <1>7, <1>8, <1>10 DEF Guarding, Idle, JobSound
<1>17. deposit' \in Deposits /\ reservation' \in Reservations /\ incidents' \in 0..MaxIncidents
  BY <1>4 DEF IInv, TypeOK
<1> HIDE DEF job
<1> QED
  BY <1>4, <1>5, <1>8, <1>11, <1>12, <1>15, <1>16, <1>17, OpMoves

LEMMA CompensateKeeps ==
  ASSUME IInv, NEW g \in Gens, Compensate(g)
  PROVE  IInv'
<1>1. op' = Plan(op, {g}) /\ {g} \in SUBSET Gens /\ GuardFree
      /\ UNCHANGED <<reservation, deposit, worker, intent, past, wire, incidents>>
  BY DEF Compensate, outside
<1>2. Exists(g) /\ g <= deposit.generation /\ Dispensable(g)
  <2>1. OpSound("DEPOSIT", g) /\ op["DEPOSIT"][g].identified
        /\ deposit.generation \in 0..Generations
    BY KindsAre DEF Compensate, IInv, OpsSound, TypeOK, Deposits
  <2>2. Exists(g) /\ g <= deposit.generation
    BY <2>1 DEF OpSound
  <2> QED
    BY <2>1, <2>2 DEF Compensate, Dispensable, Terminated, Superseded, Gens
<1>3. /\ op' \in OpTable /\ op'["DEPOSIT"] = op["DEPOSIT"]
      /\ \A k \in Kinds, h \in Gens : op'[k][h] = op[k][h] \/ op'[k][h] = NewOp
      /\ Onward /\ LatestExists' /\ ReleaseSeen'
      /\ \A k \in Kinds, h \in Gens : op'[k][h] = op[k][h] \/ OpSound(k, h)'
  BY <1>1, <1>2, PlanIsQuiet
<1>4. \A v \in Workers : v # None => Spares(v)
  BY <1>1, <1>3, NewOpIsOp DEF Spares, GuardFree
<1>5. RowSound'
  BY <1>1 DEF IInv, RowSound, StillSo, Exists
<1>6. \A k \in Kinds, h \in Gens : op[k][h].state # "ABSENT" => op'[k][h].state # "ABSENT"
  BY <1>3 DEF Onward
<1>7. CompletionFinal' /\ ReleasePlanned'
  BY <1>1, <1>3, <1>6, PromisesStay
<1>8. /\ deposit' \in Deposits /\ reservation' \in Reservations /\ incidents' \in 0..MaxIncidents
      /\ worker' \in [Workers -> Jobs \cup {Idle}]
  BY <1>1 DEF IInv, TypeOK
<1> QED
  BY <1>1, <1>3, <1>4, <1>5, <1>7, <1>8, NoneIsNobody, OpMoves

\* One operation is written.
LEMMA OpWritten ==
  ASSUME IInv, NEW k \in Kinds, NEW g \in Gens, NEW o \in Ops, op' = With(k, g, o),
         UNCHANGED <<intent, past, deposit>>,
         reservation'.status = reservation.status,
         reservation.disposition # "OPEN" => reservation'.disposition # "OPEN",
         g <= deposit.generation,
         /\ o.state # "ABSENT"
         /\ o.token # None => o.state = "RUNNING"
         /\ o.state # "REVIEW" => o.failures < MaxFailures
         /\ k = "DEPOSIT" /\ o.state \in {"OBSERVED", "POLL"} => o.identified
         /\ o.identified => k = "DEPOSIT" /\ Exists(g)
         /\ k = "DEPOSIT_RELEASE" => Exists(g) /\ Dispensable(g) /\ o.state # "POLL"
         /\ o.state = "REVIEW" => reservation'.disposition # "OPEN"
         /\ o.state = "OBSERVED" => op[k][g].state = "OBSERVED"
  PROVE  /\ op' \in OpTable /\ op'[k][g] = o
         /\ \A j \in Kinds, h \in Gens : j # k \/ h # g => op'[j][h] = op[j][h]
         /\ Onward /\ LatestExists' /\ ReleaseSeen'
         /\ \A j \in Kinds, h \in Gens : op'[j][h] = op[j][h] \/ OpSound(j, h)'
         /\ \A j \in Kinds, h \in Gens : op[j][h].state # "ABSENT" => op'[j][h].state # "ABSENT"
<1>1. op \in OpTable
  BY DEF IInv, TypeOK, OpTable
<1>2. /\ op' \in OpTable /\ op'[k][g] = o
      /\ \A j \in Kinds, h \in Gens : j # k \/ h # g => op'[j][h] = op[j][h]
  BY <1>1, WithPuts
<1>3. \A j \in Kinds, h \in Gens : op[j][h].state # "ABSENT" => op'[j][h].state # "ABSENT"
  <2> SUFFICES ASSUME NEW j \in Kinds, NEW h \in Gens, op[j][h].state # "ABSENT"
               PROVE  op'[j][h].state # "ABSENT"
    OBVIOUS
  <2>1. CASE j = k /\ h = g
    BY <1>2, <2>1
  <2>2. CASE j # k \/ h # g
    BY <1>2, <2>2
  <2> QED
    BY <2>1, <2>2
<1>4. Onward
  BY <1>3 DEF IInv, Onward, Exists, TypeOK, Deposits
<1>5. LatestExists'
  BY <1>3, KindsAre DEF IInv, LatestExists, TypeOK, Deposits, Gens
<1>6. OpSound(k, g)'
  <2>1. Dispensable(g) => Dispensable(g)'
    BY DEF Dispensable
  <2> QED
    BY <1>2, <2>1 DEF OpSound, Exists
<1>8. ReleaseSeen'
  <2>1. \A h \in Gens : op'["DEPOSIT_RELEASE"][h].state = "OBSERVED"
                         => op["DEPOSIT_RELEASE"][h].state = "OBSERVED"
    BY <1>2, KindsAre
  <2> QED
    BY <2>1 DEF IInv, ReleaseSeen
<1>7. \A j \in Kinds, h \in Gens : op'[j][h] = op[j][h] \/ OpSound(j, h)'
  <2> SUFFICES ASSUME NEW j \in Kinds, NEW h \in Gens, op'[j][h] # op[j][h]
               PROVE  OpSound(j, h)'
    OBVIOUS
  <2> QED
    BY <1>2, <1>6
<1> QED
  BY <1>2, <1>3, <1>4, <1>5, <1>7, <1>8

LEMMA ClaimKeeps ==
  ASSUME IInv, NEW w \in Workers, Claim(w)
  PROVE  IInv'
<1> DEFINE next == [worker[w] EXCEPT !.pc = "claimed", !.again = OpOf(w).tried]
           k == worker[w].kind
           g == worker[w].gen
           o == [OpOf(w) EXCEPT !.state = "RUNNING", !.token = w, !.leased = TRUE,
                                !.tried = Authorizes(w)]
<1>1. /\ worker[w] \in Jobs /\ JobSound(w, worker[w]) /\ worker[w] # Idle
      /\ worker[w].pc = "prepared" /\ GuardFree
  BY JobAtWork DEF Claim, At
<1>2. /\ k \in Kinds /\ g \in Gens /\ OpOf(w) = op[k][g] /\ OpOf(w) \in Ops
      /\ OpOf(w).state # "ABSENT" /\ OpSound(k, g)
  BY <1>1, OpAtWork
<1>3. op' = With(k, g, o) /\ worker' = [worker EXCEPT ![w] = next]
      /\ UNCHANGED <<reservation, deposit, intent, past, wire, incidents>>
      /\ OpOf(w).state # "REVIEW" /\ ~OpOf(w).leased
  BY DEF Claim, Put, outside, Claimable
<1>4. PICK p \in Ops : OpOf(w) = p
  BY <1>2
<1>5. /\ o \in Ops /\ o.state = "RUNNING" /\ o.token = w /\ o.failures = OpOf(w).failures
      /\ o.identified = OpOf(w).identified
  BY <1>4 DEF Ops, OpStates, Authorizes
<1>6. PICK j \in Jobs : worker[w] = j
  BY <1>1
<1>7. PICK job \in Jobs :
        /\ job = next /\ job.pc = "claimed" /\ job.kind = k /\ job.gen = g
        /\ job.asked = worker[w].asked
  <2>1. /\ next \in Jobs /\ next.pc = "claimed" /\ next.kind = k /\ next.gen = g
        /\ next.asked = worker[w].asked
    BY <1>4, <1>6 DEF Jobs, Ops
  <2> QED
    BY <2>1
<1>8. worker'[w] = job /\ worker' \in [Workers -> Jobs \cup {Idle}]
      /\ \A v \in Workers : v # w => worker'[v] = worker[v]
  BY <1>3, <1>7 DEF IInv, TypeOK
<1> HIDE DEF next, k, g, o
<1>9. deposit' \in Deposits /\ deposit'.generation = deposit.generation
      /\ reservation' \in Reservations /\ incidents' \in 0..MaxIncidents
  BY <1>3 DEF IInv, TypeOK
<1>10. /\ o.token # None => o.state = "RUNNING"
       /\ o.failures < MaxFailures /\ g <= deposit.generation
       /\ o.identified => k = "DEPOSIT" /\ Exists(g)
       /\ k = "DEPOSIT_RELEASE" => Exists(g) /\ Dispensable(g)
  BY <1>2, <1>3, <1>5 DEF OpSound
<1>11. /\ op' \in OpTable /\ op'[k][g] = o
       /\ \A j2 \in Kinds, h \in Gens : j2 # k \/ h # g => op'[j2][h] = op[j2][h]
       /\ Onward /\ LatestExists' /\ ReleaseSeen'
       /\ \A j2 \in Kinds, h \in Gens : op'[j2][h] = op[j2][h] \/ OpSound(j2, h)'
       /\ \A j2 \in Kinds, h \in Gens : op[j2][h].state # "ABSENT" => op'[j2][h].state # "ABSENT"
  BY <1>2, <1>3, <1>5, <1>9, <1>10, OpWritten
<1>12. JobSound(w, job)'
  BY <1>2, <1>3, <1>5, <1>7, <1>10, <1>11 DEF JobSound, Exists
<1>13. \A v \in Workers : v # w => Spares(v)
  BY <1>1, <1>5, <1>8, <1>11 DEF Spares, GuardFree
<1>14. RowSound'
  BY <1>3 DEF IInv, RowSound, StillSo, Exists
<1>15. \A h \in Gens : /\ op'["DEPOSIT"][h].identified <=> op["DEPOSIT"][h].identified
                       /\ op'["DEPOSIT"][h].state # "ABSENT" => op["DEPOSIT"][h].state # "ABSENT"
  BY <1>2, <1>5, <1>11, KindsAre
<1>16. CompletionFinal' /\ ReleasePlanned'
  BY <1>1, <1>3, <1>7, <1>8, <1>11, <1>15, PromisesStay
<1>17. job # Idle /\ ~Guarding(job) /\ JobSound(w, worker[w])'
  BY <1>7, <1>8, <1>12, IdleIsNoJob DEF Guarding, JobSound
<1> QED
  BY <1>3, <1>8, <1>9, <1>11, <1>13, <1>14, <1>16, <1>17, OpMoves

LEMMA LapseKeeps ==
  ASSUME IInv, NEW k \in Kinds, NEW g \in Gens, Lapse(k, g)
  PROVE  IInv'
<1> DEFINE o == [op[k][g] EXCEPT !.leased = FALSE]
<1>1. /\ op' = With(k, g, o) /\ op[k][g].leased
      /\ UNCHANGED <<reservation, deposit, worker, intent, past, wire>>
      /\ \A w \in Workers : worker[w].pc \in {"calling", "answered"} => op[k][g].token # w
  BY DEF Lapse, outside
<1>2. incidents' \in 0..MaxIncidents
  BY DepositAssumption DEF Lapse, IInv, TypeOK
<1>3. op[k][g] \in Ops /\ OpSound(k, g) /\ op[k][g].state # "ABSENT"
  BY <1>1 DEF IInv, TypeOK, OpsSound, OpSound
<1>4. PICK p \in Ops : op[k][g] = p
  BY <1>3
<1>5. /\ o \in Ops /\ ~o.leased /\ o.state = p.state /\ o.token = p.token
      /\ o.failures = p.failures /\ o.identified = p.identified
  BY <1>4 DEF Ops
<1> HIDE DEF o
<1>6. deposit' \in Deposits /\ deposit'.generation = deposit.generation
      /\ reservation' \in Reservations /\ worker' \in [Workers -> Jobs \cup {Idle}]
  BY <1>1 DEF IInv, TypeOK
<1>7. /\ g <= deposit.generation /\ o.state # "ABSENT"
      /\ o.token # None => o.state = "RUNNING"
      /\ o.state # "REVIEW" => o.failures < MaxFailures
      /\ k = "DEPOSIT" /\ o.state \in {"OBSERVED", "POLL"} => o.identified
      /\ o.identified => k = "DEPOSIT" /\ Exists(g)
      /\ k = "DEPOSIT_RELEASE" => Exists(g) /\ Dispensable(g) /\ o.state # "POLL"
      /\ o.state = "REVIEW" => reservation.disposition # "OPEN"
      /\ o.state = "OBSERVED" => op[k][g].state = "OBSERVED"
  BY <1>3, <1>4, <1>5 DEF OpSound
<1>8. /\ op' \in OpTable /\ op'[k][g] = o
      /\ \A j \in Kinds, h \in Gens : j # k \/ h # g => op'[j][h] = op[j][h]
      /\ Onward /\ LatestExists' /\ ReleaseSeen'
      /\ \A j \in Kinds, h \in Gens : op'[j][h] = op[j][h] \/ OpSound(j, h)'
      /\ \A j \in Kinds, h \in Gens : op[j][h].state # "ABSENT" => op'[j][h].state # "ABSENT"
  BY <1>1, <1>5, <1>6, <1>7, OpWritten
<1>9. \A v \in Workers : Spares(v)
  <2> SUFFICES ASSUME NEW v \in Workers
               PROVE  Spares(v)
    OBVIOUS
  <2>1. worker[v].pc \in {"calling", "answered"} =>
          op'[worker[v].kind][worker[v].gen] = op[worker[v].kind][worker[v].gen]
    <3> SUFFICES ASSUME worker[v].pc \in {"calling", "answered"}
                 PROVE  op'[worker[v].kind][worker[v].gen] = op[worker[v].kind][worker[v].gen]
      OBVIOUS
    <3>1. JobSound(v, worker[v]) /\ worker[v].kind \in Kinds /\ worker[v].gen \in Gens
      BY JobAtWork, OpAtWork
    <3>2. op[worker[v].kind][worker[v].gen].token = v /\ op[k][g].token # v
      BY <1>1, <3>1 DEF JobSound
    <3> QED
      BY <1>8, <3>1, <3>2
  <2>2. \A j \in Kinds, h \in Gens : op'[j][h] # op[j][h] => ~op'[j][h].leased
    BY <1>5, <1>8
  <2> QED
    BY <1>1, <2>1, <2>2 DEF Spares
<1>10. RowSound'
  BY <1>1 DEF IInv, RowSound, StillSo, Exists
<1>11. \A h \in Gens : /\ op'["DEPOSIT"][h].identified <=> op["DEPOSIT"][h].identified
                       /\ op'["DEPOSIT"][h].state # "ABSENT" => op["DEPOSIT"][h].state # "ABSENT"
  BY <1>3, <1>4, <1>5, <1>8, KindsAre
<1>12. CompletionFinal' /\ ReleasePlanned'
  BY <1>1, <1>8, <1>11, PromisesStay
<1> QED
  BY <1>1, <1>2, <1>6, <1>8, <1>9, <1>10, <1>12, NoneIsNobody, OpMoves

LEMMA NewAttemptKeeps ==
  ASSUME IInv, NEW w \in Workers, NewAttempt(w)
  PROVE  IInv'
<1>1. /\ worker[w] \in Jobs /\ JobSound(w, worker[w]) /\ worker[w] # Idle
      /\ worker[w].pc = "asking" /\ worker[w].kind = "DEPOSIT" /\ GuardFree
      /\ reservation.disposition = "OPEN" /\ reservation.status # "CANCELLED" /\ ~Completed
  BY JobAtWork DEF NewAttempt, At, JobSound, IInv, CompletionFinal
<1>2. PICK g \in Gens : g = deposit.generation + 1
  BY DEF NewAttempt, Gens, IInv, TypeOK, Deposits
<1>3. /\ op' = With("DEPOSIT", g, NewOp)
      /\ deposit' = [deposit EXCEPT !.generation = g]
      /\ Prepared(w, g)
      /\ UNCHANGED <<reservation, intent, past, wire, incidents>>
  BY <1>2 DEF NewAttempt, outside
<1>4. deposit' \in Deposits /\ deposit'.generation = g
      /\ deposit'.intent = deposit.intent /\ deposit'.stripeStatus = deposit.stripeStatus
      /\ deposit.generation < g
  BY <1>2, <1>3 DEF IInv, TypeOK, Deposits, Gens
<1>5. PICK j \in Jobs : worker[w] = j
  BY <1>1
<1>6. PICK job \in Jobs :
        /\ job = [worker[w] EXCEPT !.pc = "prepared", !.gen = g, !.asked = 0]
        /\ job.pc = "prepared" /\ job.kind = "DEPOSIT" /\ job.gen = g
  <2> DEFINE next == [j EXCEPT !.pc = "prepared", !.gen = g, !.asked = 0]
  <2>1. g \in 0..Generations /\ 0 \in 0..Generations
    BY DepositAssumption DEF Gens
  <2>2. next \in Jobs /\ next.pc = "prepared" /\ next.kind = "DEPOSIT" /\ next.gen = g
    BY <1>1, <1>5, <2>1 DEF Jobs
  <2> QED
    BY <1>5, <2>2
<1>7. worker'[w] = job /\ worker' \in [Workers -> Jobs \cup {Idle}]
      /\ \A v \in Workers : v # w => worker'[v] = worker[v]
  BY <1>3, <1>6 DEF Prepared, IInv, TypeOK
<1>8. /\ op' \in OpTable /\ op'["DEPOSIT"][g] = NewOp
      /\ \A k \in Kinds, h \in Gens : k # "DEPOSIT" \/ h # g => op'[k][h] = op[k][h]
  <2>1. op \in OpTable
    BY DEF IInv, TypeOK, OpTable
  <2> QED
    BY <1>3, <2>1, WithPuts, NewOpIsOp, KindsAre
<1>9. op["DEPOSIT"][g].state = "ABSENT"
  <2>1. OpSound("DEPOSIT", g) /\ ~(g <= deposit.generation)
    BY <1>4, KindsAre DEF IInv, OpsSound, TypeOK, Deposits, Gens
  <2> QED
    BY <2>1 DEF OpSound
<1>10. \A k \in Kinds, h \in Gens : op[k][h].state # "ABSENT" => op'[k][h].state # "ABSENT"
  BY <1>8, <1>9
<1>11. Onward
  BY <1>3, <1>4, <1>10 DEF IInv, Onward, Exists, TypeOK, Deposits
<1>12. LatestExists' /\ ReleaseSeen'
  <2>1. OpSound("DEPOSIT_RELEASE", g) /\ ~(g <= deposit.generation)
    BY <1>4, KindsAre DEF IInv, OpsSound, TypeOK, Deposits, Gens
  <2>2. op'["DEPOSIT_RELEASE"][g].state = "ABSENT"
    BY <1>8, <2>1, KindsAre DEF OpSound
  <2> QED
    BY <1>4, <1>8, <2>2, NewOpIsOp DEF LatestExists, ReleaseSeen
<1>13. \A k \in Kinds, h \in Gens : op'[k][h] = op[k][h] \/ OpSound(k, h)'
  <2>1. OpSound("DEPOSIT", g)'
    BY <1>4, <1>8, NewOpIsOp, DepositAssumption DEF OpSound, Gens
  <2> QED
    BY <1>8, <2>1
<1>14. JobSound(w, worker[w])' /\ ~Guarding(job)
  BY <1>6, <1>7, <1>8, NewOpIsOp DEF JobSound, Guarding
<1>15. \A v \in Workers : v # w => Spares(v)
  BY <1>1, <1>7, <1>8, NewOpIsOp DEF Spares, GuardFree
<1>16. RowSound'
  BY <1>2, <1>3, <1>4 DEF IInv, RowSound, StillSo, Exists, TypeOK, Deposits
<1>17. CompletionFinal' /\ ReleasePlanned'
  BY <1>1, <1>3 DEF CompletionFinal, Completed, ReleasePlanned
<1>18. reservation' \in Reservations /\ incidents' \in 0..MaxIncidents
  BY <1>3 DEF IInv, TypeOK
<1> QED
  BY <1>3, <1>4, <1>7, <1>8, <1>11, <1>12, <1>13, <1>14, <1>15, <1>16, <1>17, <1>18, OpMoves

LEMMA RecordKeeps ==
  ASSUME IInv, NEW w \in Workers, Record(w)
  PROVE  IInv'
<1> DEFINE k == worker[w].kind
           g == worker[w].gen
           o == [OpOf(w) EXCEPT !.identified = Authorizes(w)]
<1>1. /\ worker[w] \in Jobs /\ JobSound(w, worker[w]) /\ worker[w] # Idle
      /\ worker[w].pc = "answered"
  BY JobAtWork DEF Record, At
<1>2. /\ k \in Kinds /\ g \in Gens /\ OpOf(w) = op[k][g] /\ OpOf(w) \in Ops
      /\ OpOf(w).state # "ABSENT" /\ OpSound(k, g) /\ HoldsLease(w)
  BY <1>1, OpAtWork DEF JobSound, HoldsLease
<1>3. op' = With(k, g, o) /\ worker' = [worker EXCEPT ![w] = [worker[w] EXCEPT !.pc = "recorded"]]
      /\ UNCHANGED <<reservation, deposit, intent, past, wire, incidents>>
  BY DEF Record, Put, outside
<1>4. PICK p \in Ops : OpOf(w) = p
  BY <1>2
<1>5. /\ o \in Ops /\ o.state = p.state /\ o.token = w /\ o.failures = p.failures
      /\ o.identified = Authorizes(w)
  BY <1>2, <1>4 DEF Ops, Authorizes, HoldsLease
<1>6. PICK j \in Jobs : worker[w] = j
  BY <1>1
<1>7. PICK job \in Jobs :
        /\ job = [worker[w] EXCEPT !.pc = "recorded"]
        /\ job.pc = "recorded" /\ job.kind = k /\ job.gen = g
        /\ job.asked = worker[w].asked /\ job.seen = worker[w].seen
  <2>1. [j EXCEPT !.pc = "recorded"] \in Jobs
    BY DEF Jobs
  <2> QED
    BY <1>6, <2>1 DEF Jobs
<1>8. worker'[w] = job /\ worker' \in [Workers -> Jobs \cup {Idle}]
      /\ \A v \in Workers : v # w => worker'[v] = worker[v]
  BY <1>3, <1>7 DEF IInv, TypeOK
<1> HIDE DEF k, g, o
<1>9. deposit' \in Deposits /\ deposit'.generation = deposit.generation
      /\ reservation' \in Reservations /\ incidents' \in 0..MaxIncidents
  BY <1>3 DEF IInv, TypeOK
<1>10. /\ Exists(g) /\ StillSo(g, worker[w].seen) /\ worker[w].seen # "none"
       /\ k = "DEPOSIT_RELEASE" => worker[w].seen = "canceled"
  BY <1>1 DEF JobSound, StillSo, g, k
<1>11. /\ o.token # None => o.state = "RUNNING"
       /\ o.state # "REVIEW" => o.failures < MaxFailures
       /\ g <= deposit.generation /\ o.state # "ABSENT"
       /\ k = "DEPOSIT" /\ o.state \in {"OBSERVED", "POLL"} => o.identified
       /\ o.identified => k = "DEPOSIT" /\ Exists(g)
       /\ k = "DEPOSIT_RELEASE" => Exists(g) /\ Dispensable(g) /\ o.state # "POLL"
       /\ o.state = "REVIEW" => reservation.disposition # "OPEN"
       /\ o.state = "OBSERVED" => op[k][g].state = "OBSERVED"
  <2>1. o.state = "RUNNING" /\ p.failures < MaxFailures /\ g <= deposit.generation
        /\ (k = "DEPOSIT_RELEASE" => Dispensable(g))
    BY <1>2, <1>4, <1>5, NoneIsNobody DEF OpSound, HoldsLease
  <2>2. o.identified => k = "DEPOSIT"
    BY <1>5 DEF Authorizes, k
  <2> QED
    BY <1>5, <1>10, <2>1, <2>2
<1>12. /\ op' \in OpTable /\ op'[k][g] = o
       /\ \A i \in Kinds, h \in Gens : i # k \/ h # g => op'[i][h] = op[i][h]
       /\ Onward /\ LatestExists' /\ ReleaseSeen'
       /\ \A i \in Kinds, h \in Gens : op'[i][h] = op[i][h] \/ OpSound(i, h)'
       /\ \A i \in Kinds, h \in Gens : op[i][h].state # "ABSENT" => op'[i][h].state # "ABSENT"
  BY <1>2, <1>3, <1>5, <1>9, <1>11, OpWritten
<1>13. JobSound(w, job)'
  BY <1>2, <1>3, <1>5, <1>7, <1>10, <1>11, <1>12 DEF JobSound, Exists, StillSo
<1>14. ASSUME NEW v \in Workers, v # w
       PROVE  Spares(v)
  <2>1. worker[v].pc \notin {"calling", "answered"}
    BY <1>1, <1>14 DEF IInv, OneCall, Guarding
  <2> QED
    BY <1>5, <1>8, <1>12, <1>14, <2>1 DEF Spares
<1>15. RowSound'
  BY <1>3 DEF IInv, RowSound, StillSo, Exists
<1>16. CompletionFinal' /\ ReleasePlanned'
  <2>1. CASE Authorizes(w)
    BY <1>1, <1>3, <2>1 DEF JobSound, Permitted, Authorizes, CompletionFinal, Completed, ReleasePlanned
  <2>2. CASE ~Authorizes(w)
    <3>1. k = "DEPOSIT_RELEASE"
      BY <1>2, <2>2 DEF Authorizes, k, Kinds
    <3>2. \A h \in Gens : op'["DEPOSIT"][h] = op["DEPOSIT"][h]
      BY <1>12, <3>1, KindsAre
    <3> QED
      BY <1>1, <1>3, <1>7, <1>8, <1>12, <3>2, PromisesStay
  <2> QED
    BY <2>1, <2>2
<1>17. job # Idle /\ Guarding(worker[w]) /\ JobSound(w, worker[w])'
  BY <1>1, <1>7, <1>8, <1>13, IdleIsNoJob DEF Guarding, JobSound
<1> QED
  BY <1>3, <1>8, <1>9, <1>12, <1>14, <1>15, <1>16, <1>17, OpMoves

\* An execution that ends, or goes on as an attempt, is sound.
LEMMA EndIsSound ==
  ASSUME IInv, NEW w \in Workers, worker[w].pc # "idle",
         Ends(w) \/ (worker[w].asked # 0 /\ worker' = [worker EXCEPT ![w] = AskingAgain(w)])
  PROVE  /\ worker' \in [Workers -> Jobs \cup {Idle}]
         /\ \A v \in Workers : v # w => worker'[v] = worker[v]
         /\ worker'[w] # Idle => JobSound(w, worker[w])'
         /\ ~Guarding(worker'[w])
         /\ worker'[w] = Idle \/ ~Completed
<1>1. worker \in [Workers -> Jobs \cup {Idle}]
  BY DEF IInv, TypeOK
<1>2. CASE Ends(w)
  BY <1>1, <1>2 DEF Ends, Idle, Guarding
<1>3. CASE worker[w].asked # 0 /\ worker' = [worker EXCEPT ![w] = AskingAgain(w)]
  <2>1. PICK job \in Jobs : job = AskingAgain(w)
    BY <1>3, AskingAgainSound
  <2>2. job.pc = "asking" /\ job.kind = "DEPOSIT" /\ job.gen = 0
        /\ ~Completed
    BY <1>3, <2>1, AskingAgainSound
  <2>3. worker'[w] = job
    BY <1>1, <1>3, <2>1
  <2>4. JobSound(w, job)' /\ ~Guarding(job)
    BY <2>2 DEF JobSound, Guarding
  <2>5. JobSound(w, worker[w])'
    BY <2>3, <2>4 DEF JobSound
  <2> QED
    BY <1>1, <1>3, <2>1, <2>2, <2>3, <2>4, <2>5
<1> QED
  BY <1>2, <1>3

LEMMA FailKeeps ==
  ASSUME IInv, NEW w \in Workers, Fail(w)
  PROVE  IInv'
<1> DEFINE k == worker[w].kind
           g == worker[w].gen
           o == [OpOf(w) EXCEPT !.state = IF GivesUp(w) THEN "REVIEW" ELSE "READY",
                                !.token = None, !.leased = FALSE,
                                !.failures = OpOf(w).failures + 1]
<1>1. worker[w].pc \in {"failed", "uncertain", "sending", "read", "claimed"} /\ GuardFree
  BY DEF Fail, Failing, Hindered, At
<1>2. /\ k \in Kinds /\ g \in Gens /\ OpOf(w) = op[k][g] /\ OpOf(w) \in Ops
      /\ OpOf(w).state # "ABSENT" /\ OpSound(k, g)
  BY <1>1, OpAtWork
<1>3. Ends(w) \/ (worker[w].asked # 0 /\ worker' = [worker EXCEPT ![w] = AskingAgain(w)])
  BY DEF Fail, EndsUnlessReleased, AskingAgain
<1>4. /\ worker' \in [Workers -> Jobs \cup {Idle}]
      /\ \A v \in Workers : v # w => worker'[v] = worker[v]
      /\ worker'[w] # Idle => JobSound(w, worker[w])'
      /\ ~Guarding(worker'[w])
      /\ worker'[w] = Idle \/ ~Completed
  BY <1>1, <1>3, EndIsSound
<1>5. UNCHANGED <<deposit, intent, past, wire>> /\ incidents' \in 0..MaxIncidents
      /\ deposit' \in Deposits /\ deposit'.generation = deposit.generation
  BY DepositAssumption DEF Fail, Hindered, outside, IInv, TypeOK
<1>6. RowSound'
  BY <1>5 DEF IInv, RowSound, StillSo, Exists
<1>7. CASE OpOf(w).token # w
  <2>1. UNCHANGED <<op, reservation>>
    BY <1>7 DEF Fail
  <2>2. op' \in OpTable /\ reservation' \in Reservations
    BY <2>1 DEF IInv, TypeOK, OpTable
  <2>3. Onward
    BY <1>5, <2>1 DEF IInv, Onward, Exists, TypeOK, Deposits
  <2>4. \A v \in Workers : v # w => Spares(v)
    BY <1>1, <1>4, <2>1 DEF Spares, GuardFree
  <2>5. LatestExists' /\ ReleaseSeen' /\ CompletionFinal' /\ ReleasePlanned'
    BY <1>4, <1>5, <2>1, PromisesStay DEF IInv, LatestExists, ReleaseSeen
  <2> QED
    BY <1>4, <1>5, <1>6, <2>1, <2>2, <2>3, <2>4, <2>5, OpMoves
<1>8. CASE OpOf(w).token = w
  <2>1. op' = With(k, g, o)
    BY <1>8 DEF Fail, Put
  <2>2. /\ reservation'.status = reservation.status /\ reservation' \in Reservations
        /\ reservation'.disposition \in {reservation.disposition, "REVIEW"}
        /\ reservation'.forced = reservation.forced
        /\ GivesUp(w) => reservation'.disposition = "REVIEW"
    BY <1>8 DEF Fail, IInv, TypeOK, Reservations, Dispositions
  <2>3. PICK p \in Ops : OpOf(w) = p
    BY <1>2
  <2>4. p.state = "RUNNING" /\ p.failures < MaxFailures /\ p.failures \in Nat
        /\ (~GivesUp(w) => p.failures < MaxFailures - 1)
    BY <1>2, <1>8, <2>3, NoneIsNobody, DepositAssumption DEF OpSound, GivesUp, Ops
  <2>5. p.failures + 1 \in 0..MaxFailures
    BY <2>4, DepositAssumption
  <2>6. /\ o \in Ops /\ o.state \in {"REVIEW", "READY"} /\ o.token = None
        /\ o.failures = p.failures + 1 /\ o.identified = p.identified
        /\ (o.state = "REVIEW" <=> GivesUp(w))
    BY <2>3, <2>5 DEF Ops, OpStates
  <2> HIDE DEF k, g, o
  <2>7. /\ o.token # None => o.state = "RUNNING"
        /\ o.state # "REVIEW" => o.failures < MaxFailures
        /\ g <= deposit.generation /\ o.state # "ABSENT"
        /\ k = "DEPOSIT" /\ o.state \in {"OBSERVED", "POLL"} => o.identified
        /\ o.identified => k = "DEPOSIT" /\ Exists(g)
        /\ k = "DEPOSIT_RELEASE" => Exists(g) /\ Dispensable(g)
    BY <1>2, <2>3, <2>4, <2>6, DepositAssumption DEF OpSound
  <2>8. /\ o.state = "REVIEW" => reservation'.disposition # "OPEN"
        /\ reservation.disposition # "OPEN" => reservation'.disposition # "OPEN"
    BY <2>2, <2>6
  <2>9. /\ op' \in OpTable /\ op'[k][g] = o
        /\ \A i \in Kinds, h \in Gens : i # k \/ h # g => op'[i][h] = op[i][h]
        /\ Onward /\ LatestExists' /\ ReleaseSeen'
        /\ \A i \in Kinds, h \in Gens : op'[i][h] = op[i][h] \/ OpSound(i, h)'
        /\ \A i \in Kinds, h \in Gens : op[i][h].state # "ABSENT" => op'[i][h].state # "ABSENT"
    BY <1>2, <1>5, <2>1, <2>2, <2>6, <2>7, <2>8, OpWritten
  <2>10. \A v \in Workers : v # w => Spares(v)
    BY <1>1, <1>4, <2>6, <2>9, NoneIsNobody DEF Spares, GuardFree
  <2>11. \A h \in Gens : /\ op'["DEPOSIT"][h].identified <=> op["DEPOSIT"][h].identified
                         /\ op'["DEPOSIT"][h].state # "ABSENT" => op["DEPOSIT"][h].state # "ABSENT"
    BY <1>2, <2>3, <2>6, <2>9, KindsAre
  <2>12. CompletionFinal' /\ ReleasePlanned'
    BY <1>4, <1>5, <2>2, <2>9, <2>11, PromisesStay
  <2> QED
    BY <1>4, <1>5, <1>6, <2>2, <2>9, <2>10, <2>12, OpMoves
<1> QED
  BY <1>7, <1>8

\* What an observation that still holds makes of the row.
LEMMA RowSees ==
  ASSUME IInv, NEW g \in Gens, NEW seen \in IntentStatuses, seen # "none", StillSo(g, seen),
         deposit' = IF Ignored(g, seen) THEN deposit
                    ELSE [deposit EXCEPT !.intent = g, !.stripeStatus = seen],
         UNCHANGED intent
  PROVE  deposit' \in Deposits /\ deposit'.generation = deposit.generation /\ RowSound'
<1>1. CASE Ignored(g, seen)
  BY <1>1 DEF IInv, TypeOK, RowSound, StillSo, Exists
<1>2. CASE ~Ignored(g, seen)
  <2>1. deposit.generation = g /\ deposit' = [deposit EXCEPT !.intent = g, !.stripeStatus = seen]
    BY <1>2 DEF Ignored, Superseded
  <2>2. /\ deposit'.intent = g /\ deposit'.stripeStatus = seen
        /\ deposit'.generation = deposit.generation /\ deposit' \in Deposits
    <3>1. g # 0 /\ g \in 0..Generations
      BY DepositAssumption DEF Gens
    <3>2. PICK d \in [generation : 0..Generations, intent : 0..Generations,
                      stripeStatus : IntentStatuses] : deposit = d
      BY DEF IInv, TypeOK, Deposits
    <3>3. deposit' = [d EXCEPT !.intent = g, !.stripeStatus = seen]
      BY <2>1, <3>2
    <3> QED
      BY <3>1, <3>2, <3>3 DEF Deposits
  <2>3. g <= deposit'.generation /\ StillSo(g, seen)'
    BY <2>1, <2>2 DEF Gens, StillSo, Exists
  <2> QED
    BY <2>2, <2>3 DEF RowSound, StillSo, Exists
<1> QED
  BY <1>1, <1>2

LEMMA SaveKeeps ==
  ASSUME IInv, NEW w \in Workers, Save(w)
  PROVE  IInv'
<1>1. /\ worker[w] \in Jobs /\ JobSound(w, worker[w]) /\ worker[w] # Idle
      /\ worker[w].pc \in {"recorded", "read"} /\ HoldsLease(w)
      /\ worker[w].pc = "recorded" \/ GuardFree
  BY JobAtWork DEF Save, At
<1>2. /\ worker[w].kind \in Kinds /\ worker[w].gen \in Gens
      /\ OpOf(w) = op[worker[w].kind][worker[w].gen] /\ OpOf(w) \in Ops
      /\ OpOf(w).state # "ABSENT" /\ OpSound(worker[w].kind, worker[w].gen)
  BY <1>1, OpAtWork
<1>3. PICK k \in Kinds, g \in Gens, seen \in IntentStatuses, p \in Ops, o \in Ops :
        /\ k = worker[w].kind /\ g = worker[w].gen /\ seen = worker[w].seen
        /\ p = op[k][g] /\ o = SavedOp(w)
        /\ o.state = SavedState(k, seen) /\ o.token = None /\ ~o.leased
        /\ (o.identified <=> k = "DEPOSIT") /\ o.failures = 0
  <2>1. SavedState(worker[w].kind, worker[w].seen) \in OpStates /\ Authorizes(w) \in BOOLEAN
        /\ 0 \in 0..MaxFailures
    BY DepositAssumption DEF SavedState, OpStates, Authorizes
  <2>2. PICK p \in Ops : p = OpOf(w)
    BY <1>2
  <2>3. /\ SavedOp(w) \in Ops /\ SavedOp(w).token = None /\ ~SavedOp(w).leased
        /\ SavedOp(w).state = SavedState(worker[w].kind, worker[w].seen)
        /\ SavedOp(w).identified = Authorizes(w) /\ SavedOp(w).failures = 0
    BY <2>1, <2>2 DEF SavedOp, Ops
  <2>4. worker[w].seen \in IntentStatuses
    BY <1>1 DEF Jobs
  <2> QED
    BY <1>2, <2>2, <2>3, <2>4 DEF Authorizes
<1>4. /\ seen # "none" /\ StillSo(g, seen) /\ Exists(g) /\ g <= deposit.generation
      /\ p.state # "ABSENT"
  BY <1>1, <1>2, <1>3 DEF JobSound, StillSo, OpSound
<1>5. /\ op' = IF MustRelease(g, seen) THEN Plan(With(k, g, o), {g}) ELSE With(k, g, o)
      /\ deposit' = IF Ignored(g, seen) THEN deposit
                    ELSE [deposit EXCEPT !.intent = g, !.stripeStatus = seen]
  BY <1>3 DEF Save, Sync, Put
<1>6. UNCHANGED <<reservation, intent, past, wire, incidents>>
  BY DEF Save, outside
<1>7. deposit' \in Deposits /\ deposit'.generation = deposit.generation /\ RowSound'
  BY <1>4, <1>5, <1>6, RowSees
<1>8. Ends(w) \/ (worker[w].asked # 0 /\ worker' = [worker EXCEPT ![w] = AskingAgain(w)])
  BY DEF Save, Saved, AskingAgain
<1>9. /\ worker' \in [Workers -> Jobs \cup {Idle}]
      /\ \A v \in Workers : v # w => worker'[v] = worker[v]
      /\ worker'[w] # Idle => JobSound(w, worker[w])'
      /\ ~Guarding(worker'[w])
      /\ worker'[w] = Idle \/ ~Completed
  BY <1>1, <1>8, EndIsSound
<1>10. o.state # "ABSENT" /\ (k = "DEPOSIT_RELEASE" => o.state = "OBSERVED")
      /\ o.state # "REVIEW"
  BY <1>3 DEF SavedState
<1>11. /\ op' \in OpTable /\ op'[k][g] = o
       /\ \A i \in Kinds, h \in Gens : i # k \/ h # g =>
            \/ op'[i][h] = op[i][h]
            \/ /\ i = "DEPOSIT_RELEASE" /\ h = g /\ op[i][h].state = "ABSENT"
               /\ op'[i][h] = NewOp
       /\ MustRelease(g, seen) => op'["DEPOSIT_RELEASE"][g].state # "ABSENT"
  <2>1. op \in OpTable
    BY DEF IInv, TypeOK, OpTable
  <2>2. PICK ops \in OpTable :
          /\ ops = With(k, g, o) /\ ops[k][g] = o
          /\ \A i \in Kinds, h \in Gens : i # k \/ h # g => ops[i][h] = op[i][h]
    BY <2>1, WithPuts
  <2>3. CASE ~MustRelease(g, seen)
    BY <1>5, <2>2, <2>3
  <2>4. CASE MustRelease(g, seen)
    <3>1. op' = Plan(ops, {g}) /\ {g} \in SUBSET Gens
      BY <1>5, <2>2, <2>4
    <3>2. /\ op' \in OpTable /\ op'["DEPOSIT"] = ops["DEPOSIT"]
          /\ \A h \in Gens : op'["DEPOSIT_RELEASE"][h] =
               IF h \in {g} /\ ops["DEPOSIT_RELEASE"][h].state = "ABSENT"
               THEN NewOp ELSE ops["DEPOSIT_RELEASE"][h]
      BY <3>1, PlanAdds
    <3>3. op'[k][g] = o
      BY <1>10, <2>2, <3>2 DEF Kinds
    <3>4. ASSUME NEW i \in Kinds, NEW h \in Gens, i # k \/ h # g, op'[i][h] # op[i][h]
          PROVE  /\ i = "DEPOSIT_RELEASE" /\ h = g /\ op[i][h].state = "ABSENT"
                 /\ op'[i][h] = NewOp
      BY <2>2, <3>2, <3>4 DEF Kinds
    <3>5. op'["DEPOSIT_RELEASE"][g].state # "ABSENT"
      BY <3>2, NewOpIsOp
    <3> QED
      BY <3>2, <3>3, <3>4, <3>5
  <2> QED
    BY <2>3, <2>4
<1>12. \A i \in Kinds, h \in Gens : op[i][h].state # "ABSENT" => op'[i][h].state # "ABSENT"
  BY <1>10, <1>11
<1>13. Onward
  BY <1>6, <1>7, <1>12 DEF IInv, Onward, Exists, TypeOK, Deposits
<1>14. LatestExists' /\ ReleaseSeen'
  <2>1. LatestExists'
    BY <1>7, <1>12, KindsAre DEF IInv, LatestExists, TypeOK, Deposits, Gens
  <2>2. ASSUME NEW h \in Gens, op'["DEPOSIT_RELEASE"][h].state = "OBSERVED",
               deposit.generation = h
        PROVE  deposit'.intent = h /\ deposit'.stripeStatus = "canceled"
    <3>1. CASE g = h /\ seen = "canceled"
      BY <1>5, <2>2, <3>1 DEF Ignored, Superseded, IInv, TypeOK, Deposits
    <3>2. CASE g # h \/ seen # "canceled"
      <4>1. op["DEPOSIT_RELEASE"][h].state = "OBSERVED"
        BY <1>1, <1>3, <1>11, <2>2, <3>2, NewOpIsOp, KindsAre DEF JobSound
      <4>2. deposit.intent = h /\ deposit.stripeStatus = "canceled"
        BY <2>2, <4>1 DEF IInv, ReleaseSeen
      <4> QED
        BY <1>5, <2>2, <3>2, <4>2 DEF Ignored, Superseded
    <3> QED
      BY <3>1, <3>2
  <2> QED
    BY <1>7, <2>1, <2>2 DEF ReleaseSeen
<1>15. ASSUME NEW i \in Kinds, NEW h \in Gens, op'[i][h] # op[i][h]
       PROVE  OpSound(i, h)'
  <2>1. Exists(g)' /\ (Dispensable(g) => Dispensable(g)')
    BY <1>4, <1>6, <1>7 DEF Exists, Dispensable
  <2>2. OpSound(k, g)'
    <3>1. k = "DEPOSIT_RELEASE" => Dispensable(g)' /\ o.state # "POLL"
      BY <1>2, <1>3, <1>10, <2>1 DEF OpSound
    <3> QED
      BY <1>3, <1>4, <1>7, <1>10, <1>11, <2>1, <3>1, DepositAssumption DEF OpSound
  <2>3. CASE i = k /\ h = g
    BY <2>2, <2>3
  <2>4. CASE i # k \/ h # g
    <3>1. i = "DEPOSIT_RELEASE" /\ h = g /\ op'[i][h] = NewOp
      BY <1>11, <1>15, <2>4
    <3>2. MustRelease(g, seen)
      BY <1>5, <1>11, <1>15, <2>4, <3>1, WithPuts DEF IInv, TypeOK, OpTable
    <3>3. Dispensable(g)
      <4>1. deposit.generation \in 0..Generations
        BY DEF IInv, TypeOK, Deposits
      <4> QED
        BY <1>4, <3>2, <4>1 DEF MustRelease, Terminated, Superseded, Dispensable, Gens
    <3> QED
      BY <1>4, <1>7, <2>1, <3>1, <3>3, NewOpIsOp, DepositAssumption DEF OpSound
  <2> QED
    BY <2>3, <2>4
<1>16. ASSUME NEW v \in Workers, v # w
       PROVE  Spares(v)
  <2>1. worker[v].pc \notin {"calling", "answered"}
    BY <1>1, <1>16 DEF IInv, OneCall, Guarding, GuardFree
  <2>2. \A i \in Kinds, h \in Gens : op'[i][h] # op[i][h] => op'[i][h].token = None
    BY <1>3, <1>11, NewOpIsOp
  <2> QED
    BY <1>9, <1>16, <2>1, <2>2, NoneIsNobody DEF Spares
<1>17. CompletionFinal' /\ ReleasePlanned'
  <2>1. CASE k = "DEPOSIT_RELEASE"
    <3>1. \A h \in Gens : op'["DEPOSIT"][h] = op["DEPOSIT"][h]
      BY <1>11, <2>1, KindsAre
    <3> QED
      BY <1>6, <1>9, <1>12, <3>1, PromisesStay
  <2>2. CASE k = "DEPOSIT"
    <3>1. \A h \in Gens : h # g => op'["DEPOSIT"][h] = op["DEPOSIT"][h]
      BY <1>11, <2>2, KindsAre
    <3>2. \A h \in Gens : Planned(h) /\ (h = g => p.identified) => Planned(h)'
      BY <1>3, <1>6, <1>12, <2>2, <3>1, KindsAre DEF Planned
    <3>3. CompletionFinal'
      <4> SUFFICES ASSUME Completed
                   PROVE  CompletionFinal'
        BY <1>6 DEF CompletionFinal, Completed
      <4>1. p.identified
        BY <1>3, <1>4, <2>2 DEF IInv, CompletionFinal, Completed
      <4>2. \A h \in Gens : Planned(h)'
        BY <3>2, <4>1 DEF IInv, CompletionFinal, Completed
      <4>3. \A h \in Gens : op'["DEPOSIT"][h].state # "ABSENT" => op'["DEPOSIT"][h].identified
        BY <1>3, <1>11, <2>2, <3>1 DEF IInv, CompletionFinal, Completed
      <4>4. \A v \in Workers : worker'[v] # Idle => worker'[v].pc # "asking" /\ worker'[v].asked = 0
        BY <1>9 DEF IInv, CompletionFinal, Completed
      <4> QED
        BY <1>6, <4>2, <4>3, <4>4 DEF CompletionFinal, Completed, Planned
    <3>4. CASE /\ reservation.status \in {"PRE_TRIP", "CANCELLED"}
               /\ reservation.disposition = "TERMINATED"
      <4>1. Planned(g)'
        BY <1>4, <1>6, <1>11, <3>4 DEF MustRelease, Terminated, StillSo, Planned
      <4>2. \A h \in Gens : Planned(h)
        BY <3>4 DEF IInv, ReleasePlanned, Planned
      <4> QED
        BY <3>2, <3>3, <4>1, <4>2 DEF ReleasePlanned, Planned
    <3> QED
      BY <1>6, <3>3, <3>4 DEF ReleasePlanned, CompletionFinal, Completed, Planned
  <2> QED
    BY <2>1, <2>2 DEF Kinds
<1>18. reservation' \in Reservations /\ incidents' \in 0..MaxIncidents
  BY <1>6 DEF IInv, TypeOK
<1> QED
  BY <1>6, <1>7, <1>9, <1>11, <1>13, <1>14, <1>15, <1>16, <1>17, <1>18, OpMoves

LEMMA CanceledWebhookKeeps ==
  ASSUME IInv, NEW g \in Gens, CanceledWebhook(g)
  PROVE  IInv'
<1>1. /\ GuardFree /\ intent[g] = "canceled" /\ op' = op
      /\ deposit' = IF Ignored(g, "canceled") THEN deposit
                    ELSE [deposit EXCEPT !.intent = g, !.stripeStatus = "canceled"]
      /\ UNCHANGED <<reservation, worker, intent, past, wire, incidents>>
  BY DEF CanceledWebhook, Sync, MustRelease, outside
<1>2. deposit' \in Deposits /\ deposit'.generation = deposit.generation /\ RowSound'
  BY <1>1, RowSees DEF StillSo, Exists, IntentStatuses
<1>3. /\ op' \in OpTable /\ reservation' \in Reservations /\ incidents' \in 0..MaxIncidents
      /\ worker' \in [Workers -> Jobs \cup {Idle}]
  BY <1>1 DEF IInv, TypeOK, OpTable
<1>4. Onward
  BY <1>1, <1>2 DEF IInv, Onward, Exists, TypeOK, Deposits
<1>5. \A v \in Workers : Spares(v)
  BY <1>1 DEF Spares, GuardFree
<1>6. LatestExists' /\ CompletionFinal' /\ ReleasePlanned'
  BY <1>1, <1>2, PromisesStay DEF IInv, LatestExists
<1>7. ReleaseSeen'
  BY <1>1, <1>2 DEF IInv, ReleaseSeen, Ignored, Superseded, TypeOK, Deposits
<1> QED
  BY <1>1, <1>2, <1>3, <1>4, <1>5, <1>6, <1>7, NoneIsNobody, OpMoves

-----------------------------------------------------------------------------
(* The theorems.                                                           *)

LEMMA InitInv == Init => IInv
<1> SUFFICES ASSUME Init
             PROVE  IInv
  OBVIOUS
<1>1. /\ reservation = [status |-> "PRE_TRIP", disposition |-> "OPEN", claim |-> FALSE,
                       started |-> FALSE, forced |-> FALSE]
      /\ deposit = [generation |-> 0, intent |-> 0, stripeStatus |-> "none"]
      /\ op = [k \in Kinds |-> [g \in Gens |-> NoOp]]
      /\ worker = [w \in Workers |-> Idle]
      /\ intent = [g \in Gens |-> "none"] /\ past = [g \in Gens |-> FALSE]
      /\ wire = [g \in Gens |-> {}] /\ incidents = 0
  BY DEF Init
<1>2. TypeOK
  <2>1. deposit \in Deposits /\ reservation \in Reservations /\ incidents \in 0..MaxIncidents
    BY <1>1, DepositAssumption
       DEF Deposits, Reservations, Statuses, Dispositions, IntentStatuses
  <2>2. op \in [Kinds -> [Gens -> Ops]]
    BY <1>1, NewOpIsOp
  <2>3. intent \in [Gens -> IntentStatuses] /\ past \in [Gens -> BOOLEAN]
        /\ wire \in [Gens -> SUBSET Kinds] /\ worker \in [Workers -> Jobs \cup {Idle}]
    BY <1>1 DEF IntentStatuses
  <2> QED
    BY <2>1, <2>2, <2>3 DEF TypeOK
<1>3. \A k \in Kinds, g \in Gens : OpSound(k, g)
  BY <1>1, DepositAssumption DEF OpSound, NoOp
<1>4. \A w \in Workers : worker[w] = Idle /\ ~Guarding(worker[w])
  BY <1>1 DEF Idle, Guarding
<1>5. JobsSound /\ OneCall /\ OpsSound
  BY <1>3, <1>4 DEF JobsSound, OneCall, OpsSound
<1>6. IntentsSound /\ RowSound /\ LatestExists /\ CompletionFinal /\ ReleasePlanned
  BY <1>1 DEF IntentsSound, IntentSound, RowSound, LatestExists, CompletionFinal, Completed,
     ReleasePlanned
<1>7. ReleaseSeen
  BY <1>1, DepositAssumption DEF ReleaseSeen, Gens
<1> QED
  BY <1>2, <1>5, <1>6, <1>7 DEF IInv

LEMMA NextInv == IInv /\ [Next]_vars => IInv'
<1>1. ASSUME IInv, NEW w \in Workers, Ask(w) \/ Step(w) \/ Crash(w)
      PROVE  IInv'
  BY <1>1, AskKeeps, CrashKeeps, NewAttemptKeeps, ResumeKeeps, ReadOnlyKeeps,
     RenewalReleasesKeeps, ClaimKeeps, ClaimRefusedKeeps, LookKeeps, DispatchKeeps,
     AcceptKeeps, LostKeeps, RecordKeeps, SaveKeeps, FailKeeps
     DEF Step, Attempt
<1>2. ASSUME IInv, NEW g \in Gens, Provider(g) \/ CanceledWebhook(g) \/ Compensate(g)
      PROVE  IInv'
  BY SMTT(30), <1>2, ProviderKeeps, ElapseKeeps, CanceledWebhookKeeps, CompensateKeeps DEF Provider
<1>3. ASSUME IInv, UNCHANGED vars
      PROVE  IInv'
  BY <1>3 DEF vars, IInv, TypeOK, JobsSound, JobSound, StillSo, Exists, Permitted, Doomed,
     HasRelease, Dispensable, ReleaseSeen,
     OneCall, OpsSound, OpSound, IntentsSound, IntentSound, RowSound, LatestExists,
     CompletionFinal, Completed, Planned, ReleasePlanned
<1> QED
  BY <1>1, <1>2, <1>3, RecoverKeeps, LapseKeeps, ReservationKeeps DEF Next

\* The inductive invariant: calls under the guard have the lease and are still
\* permitted, observations that wait to be saved still hold, what has a release
\* is not needed before the trip, and a completion by the parties leaves no
\* attempt behind.
THEOREM Inductive == Spec => []IInv
BY InitInv, NextInv, PTL DEF Spec

\* The reservation, the deposit, its operations, their executions and the
\* provider's intents keep their types, whatever happens to the twenty failures
\* and the attempts (deposit-authorization.ts, deposit-release-plan.ts).
THEOREM TypeCorrect == Spec => []TypeOK
<1>1. IInv => TypeOK
  BY DEF IInv
<1> QED
  BY <1>1, Inductive, PTL

\* A deposit that passes for valid is held at the provider, while the
\* reservation wants it, or else the trip was forced back from its completion
\* while nobody knew what had become of its release: before the trip nothing
\* plans the release of an authorization that still counts, and once the answer
\* is saved the row shows it (financial-projection.ts, deposit-authorization.ts
\* l.36-37, financial-locks.ts l.43-51).
THEOREM ValidIsHeld == Spec => []ValidMeansHeld
<1>1. IInv => ValidMeansHeld
  <2> SUFFICES ASSUME IInv, NEW g \in Gens, Wanted(g), DepositValid, intent[g] # "requires_capture"
               PROVE  reservation.status = "ACTIVE" /\ ReleaseUnsettled(g)
    BY DEF ValidMeansHeld
  <2>1. deposit.intent = g /\ deposit.intent # 0 /\ deposit.stripeStatus = "requires_capture"
    BY DEF DepositValid, Wanted, IInv, TypeOK, Deposits
  <2>2. intent[g] = "canceled" /\ ~past[g]
    BY <2>1 DEF IInv, RowSound, StillSo, DepositValid, RowExpired
  <2>3. HasRelease(g)
    BY <2>2 DEF IInv, IntentsSound, IntentSound, Doomed
  <2>4. OpSound("DEPOSIT_RELEASE", g) /\ op["DEPOSIT_RELEASE"][g] \in Ops
    BY KindsAre DEF IInv, OpsSound, TypeOK
  <2>5. op["DEPOSIT_RELEASE"][g].state \notin {"ABSENT", "POLL", "REVIEW", "OBSERVED"}
    BY <2>1, <2>3, <2>4 DEF OpSound, HasRelease, IInv, ReleaseSeen, Wanted
  <2>6. reservation.status # "PRE_TRIP"
    BY <2>2, <2>3, <2>4 DEF OpSound, HasRelease, Dispensable, Wanted, Gens
  <2> QED
    BY <2>4, <2>5, <2>6 DEF Wanted, ReleaseUnsettled, Ops, OpStates
<1> QED
  BY <1>1, Inductive, PTL

\* A terminated reservation and a trip completed by its parties have a release
\* for every intent they ever learned of, however many attempts there were,
\* whoever is executing them and whatever was forced in between (deposit-
\* authorization.ts l.32, deposit-release-plan.ts l.14-18).
THEOREM AllReleasesPlanned == Spec => []ReleasePlanned
<1>1. IInv => ReleasePlanned
  BY DEF IInv
<1> QED
  BY <1>1, Inductive, PTL

\* However late an observation is saved, the row never goes back to an earlier
\* attempt, nor from an authorization that was given up to one that is held
\* (deposit-authorization.ts l.33-37).
THEOREM RowGoesForward == Spec => RowNeverGoesBack
<1> DEFINE Forward ==
      /\ deposit'.intent >= deposit.intent
      /\ deposit'.intent = deposit.intent /\ deposit.stripeStatus = "canceled"
           => deposit'.stripeStatus = "canceled"
<1>1. ASSUME IInv, deposit' = deposit
      PROVE  Forward
  BY <1>1 DEF IInv, TypeOK, Deposits
<1>2. ASSUME IInv, NEW g \in Gens, NEW seen, NEW ops, Sync(g, seen, ops)
      PROVE  Forward
  <2>1. CASE Ignored(g, seen)
    BY <1>1, <1>2, <2>1 DEF Sync
  <2>2. CASE ~Ignored(g, seen)
    <3>1. deposit.generation = g /\ deposit' = [deposit EXCEPT !.intent = g, !.stripeStatus = seen]
      BY <1>2, <2>2 DEF Sync, Ignored, Superseded
    <3>2. deposit'.intent = g /\ deposit'.stripeStatus = seen
      BY <1>2, <3>1 DEF IInv, TypeOK, Deposits
    <3>3. deposit.intent <= g
      BY <1>2, <3>1 DEF IInv, TypeOK, RowSound, Deposits, Gens
    <3> QED
      BY <1>2, <2>2, <3>2, <3>3 DEF Ignored, Gens, IInv, TypeOK, Deposits
  <2> QED
    BY <2>1, <2>2
<1>3. ASSUME IInv, NEW w \in Workers, Ask(w) \/ Step(w) \/ Crash(w)
      PROVE  Forward
  <2>1. CASE NewAttempt(w)
    BY <1>3, <2>1 DEF NewAttempt, IInv, TypeOK, Deposits
  <2>2. CASE Save(w)
    <3>1. worker[w].gen \in Gens
      BY SMTT(30), <1>3, <2>2, OpAtWork DEF Save, At
    <3> QED
      BY <1>2, <1>3, <2>2, <3>1 DEF Save
  <2>3. CASE ~NewAttempt(w) /\ ~Save(w)
    BY <1>1, <1>3, <2>3 DEF Ask, Step, Crash, Attempt, Resume, AttemptRefused, RenewalReleases,
       Claim, ClaimRefused, Decide, Look, NotFound, Dispatch, DispatchRefused, Accept, Lost,
       Record, SaveRefused, Fail, local
  <2> QED
    BY <2>1, <2>2, <2>3
<1>4. ASSUME IInv, NEW g \in Gens, Provider(g) \/ CanceledWebhook(g) \/ Compensate(g)
      PROVE  Forward
  <2>1. CASE CanceledWebhook(g)
    BY <1>2, <1>4, <2>1 DEF CanceledWebhook
  <2>2. CASE ~CanceledWebhook(g)
    BY <1>1, <1>4, <2>2 DEF Provider, LateAccept, Authenticate, Elapse, AutoCancel, Becomes,
       Compensate, local
  <2> QED
    BY <2>1, <2>2
<1>5. ASSUME IInv, NEW k \in Kinds, NEW g \in Gens,
             Lapse(k, g) \/ (\E w \in Workers : Recover(w, k, g))
      PROVE  Forward
  BY <1>1, <1>5 DEF Lapse, Recover, local
<1>6. ASSUME IInv, Reservation
      PROVE  Forward
  BY <1>1, <1>6 DEF Reservation, RequireRefund, FullyRefunded, Cancel, StartTrip, CompleteTrip,
     ForceStart, ForceComplete, OpenClaim, CloseClaim, AuthorizeSettlement
<1> HIDE DEF Forward
<1>7. IInv /\ [Next]_vars => [Forward]_vars
  BY <1>3, <1>4, <1>5, <1>6 DEF Next
<1> USE DEF Forward
<1> QED
  BY <1>7, Inductive, PTL DEF Spec, RowNeverGoesBack

\* No authorization comes about for a reservation that is terminated, under
\* review, cancelled or properly completed at that very moment, nor for an older
\* attempt, unless a request that was given up arrives late: the guard holds
\* every termination, completion and newer attempt off until the answer is saved
\* (provider-execution-guard.ts l.73 and l.103-112).
THEOREM OnlyWantedAuthorizations == Spec => AuthorizedWhileWanted
<1> DEFINE WhileWanted ==
      \A g \in Gens : intent[g] = "none" /\ intent'[g] # "none"
                        => Permitted(g) \/ "DEPOSIT" \in wire[g]
<1>1. ASSUME intent' = intent
      PROVE  WhileWanted
  BY <1>1
<1>2. ASSUME IInv, NEW w \in Workers, Ask(w) \/ Step(w) \/ Crash(w)
      PROVE  WhileWanted
  <2>1. CASE Accept(w)
    <3>1. JobSound(w, worker[w]) /\ worker[w].pc = "calling"
          /\ worker[w].gen \in Gens /\ worker[w].kind \in Kinds
      BY <1>2, <2>1, JobAtWork, OpAtWork DEF Accept, At
    <3>2. \A g \in Gens : g # worker[w].gen => intent'[g] = intent[g]
      BY <1>2, <2>1 DEF Accept, IInv, TypeOK
    <3>3. Exists(worker[w].gen) \/ Permitted(worker[w].gen)
      BY <3>1 DEF JobSound, Kinds
    <3> QED
      BY <3>2, <3>3 DEF Exists
  <2>2. CASE ~Accept(w)
    BY <1>1, <1>2, <2>2 DEF Ask, Step, Crash, Attempt, NewAttempt, Resume, AttemptRefused,
       RenewalReleases, Claim, ClaimRefused, Decide, Look, NotFound, Dispatch, DispatchRefused,
       Lost, Record, Save, SaveRefused, Fail, outside
  <2> QED
    BY <2>1, <2>2
<1>3. ASSUME IInv, NEW g \in Gens, Provider(g) \/ CanceledWebhook(g) \/ Compensate(g)
      PROVE  WhileWanted
  <2>1. CASE LateAccept(g)
    <3>1. PICK k \in wire[g] : \E s \in Outcomes(k, intent[g]) : intent' = [intent EXCEPT ![g] = s]
      BY <2>1 DEF LateAccept
    <3>2. k \in Kinds
      BY <1>3, <3>1 DEF IInv, TypeOK
    <3>3. HasRelease(g) => Exists(g)
      BY <1>3, KindsAre DEF IInv, OpsSound, OpSound, HasRelease
    <3>4. Exists(g) \/ "DEPOSIT" \in wire[g]
      BY <1>3, <3>1, <3>2, <3>3 DEF IInv, IntentsSound, IntentSound, Kinds
    <3> QED
      BY <1>3, <3>1, <3>4 DEF Exists, IInv, TypeOK
  <2>2. CASE Authenticate(g) \/ AutoCancel(g)
    BY <1>3, <2>2 DEF Authenticate, AutoCancel, Becomes, IInv, TypeOK
  <2>3. CASE Elapse(g) \/ CanceledWebhook(g) \/ Compensate(g)
    BY <1>1, <2>3 DEF Elapse, CanceledWebhook, Compensate, outside
  <2> QED
    BY <1>3, <2>1, <2>2, <2>3 DEF Provider
<1>4. ASSUME NEW k \in Kinds, NEW g \in Gens,
             Lapse(k, g) \/ (\E w \in Workers : Recover(w, k, g))
      PROVE  WhileWanted
  BY <1>1, <1>4 DEF Lapse, Recover, outside
<1>5. ASSUME Reservation
      PROVE  WhileWanted
  BY <1>1, <1>5 DEF Reservation, RequireRefund, FullyRefunded, Cancel, StartTrip, CompleteTrip,
     ForceStart, ForceComplete, OpenClaim, CloseClaim, AuthorizeSettlement, outside
<1> HIDE DEF WhileWanted
<1>6. IInv /\ [Next]_vars => [WhileWanted]_vars
  BY <1>2, <1>3, <1>4, <1>5 DEF Next
<1> USE DEF WhileWanted
<1> QED
  BY <1>6, Inductive, PTL DEF Spec, AuthorizedWhileWanted

\* Nothing but a dispatch puts an execution into a call.
LEMMA OnlyDispatchCalls ==
  ASSUME IInv, NEW w \in Workers, Ask(w) \/ Step(w) \/ Crash(w), ~Dispatch(w)
  PROVE  worker'[w].pc # "calling" /\ \A v \in Workers : v # w => worker'[v] = worker[v]
<1>1. ASSUME NEW job, job.pc # "calling", worker' = [worker EXCEPT ![w] = job]
      PROVE  worker'[w].pc # "calling" /\ \A v \in Workers : v # w => worker'[v] = worker[v]
  BY <1>1 DEF IInv, TypeOK
<1>2. ASSUME NEW pc, pc # "calling", Goes(w, pc), worker[w].pc # "idle"
      PROVE  worker'[w].pc # "calling" /\ \A v \in Workers : v # w => worker'[v] = worker[v]
  <2>1. [worker[w] EXCEPT !.pc = pc, !.again = FALSE, !.seen = "none"].pc = pc
    BY <1>2, JobAtWork DEF Jobs
  <2> QED
    BY <1>1, <1>2, <2>1 DEF Goes
<1>3. CASE Ends(w)
  BY <1>1, <1>3 DEF Ends, Idle
<1>4. CASE worker[w].asked # 0 /\ worker[w].pc # "idle"
           /\ worker' = [worker EXCEPT ![w] = AskingAgain(w)]
  BY <1>1, <1>4, AskingAgainSound
<1>5. CASE Ask(w)
  <2>1. PICK retry \in BOOLEAN :
        worker' = [worker EXCEPT ![w] =
         [pc |-> "asking", kind |-> "DEPOSIT",
          gen |-> IF retry /\ RowExpired THEN deposit.intent ELSE 0,
          asked |-> deposit.generation, again |-> retry, seen |-> "none"]]
    BY <1>5 DEF Ask
  <2> QED
    BY <2>1 DEF IInv, TypeOK
<1>6. CASE Decide(w) \/ NotFound(w) \/ DispatchRefused(w) \/ SaveRefused(w) \/ Lost(w)
  BY <1>2, <1>6 DEF Decide, NotFound, DispatchRefused, SaveRefused, Lost, At
<1>7. CASE AttemptRefused(w) \/ Crash(w)
  BY <1>3, <1>7 DEF AttemptRefused, Crash
<1>8. CASE ClaimRefused(w) \/ Save(w) \/ Fail(w)
  <2>1. worker[w].pc # "idle"
    BY <1>8 DEF ClaimRefused, Save, Fail, Failing, Hindered, At
  <2> QED
    BY <1>3, <1>4, <1>8, <2>1 DEF ClaimRefused, Save, Fail, EndsUnlessReleased, Saved, AskingAgain
<1>9. CASE NewAttempt(w) \/ Resume(w) \/ RenewalReleases(w) \/ Claim(w)
           \/ Look(w) \/ Accept(w) \/ Record(w)
  <2>1. worker[w].pc # "idle"
    BY <1>9 DEF NewAttempt, Resume, RenewalReleases, Claim, Look, Accept, Record, At
  <2>2. PICK j \in Jobs : worker[w] = j
    BY <2>1, JobAtWork
  <2>3. CASE NewAttempt(w) \/ Resume(w)
    <3>1. PICK g : worker' = [worker EXCEPT ![w] =
                     [j EXCEPT !.pc = "prepared", !.gen = g, !.asked = 0]]
      BY <2>2, <2>3 DEF NewAttempt, Resume, Prepared
    <3>2. [j EXCEPT !.pc = "prepared", !.gen = g, !.asked = 0].pc # "calling"
      BY DEF Jobs
    <3> QED
      BY <1>1, <3>1, <3>2
  <2>4. CASE RenewalReleases(w)
    <3>1. [j EXCEPT !.pc = "prepared", !.kind = "DEPOSIT_RELEASE"].pc # "calling"
      BY DEF Jobs
    <3> QED
      BY <1>1, <2>2, <2>4, <3>1 DEF RenewalReleases
  <2>5. CASE Claim(w)
    <3>1. [j EXCEPT !.pc = "claimed", !.again = OpOf(w).tried].pc # "calling"
      BY DEF Jobs
    <3> QED
      BY <1>1, <2>2, <2>5, <3>1 DEF Claim
  <2>6. CASE Look(w)
    <3>1. [j EXCEPT !.pc = "read", !.again = FALSE, !.seen = intent[j.gen]].pc # "calling"
      BY DEF Jobs
    <3> QED
      BY <1>1, <2>2, <2>6, <3>1 DEF Look
  <2>7. CASE Accept(w)
    <3>1. PICK s : worker' = [worker EXCEPT ![w] = [j EXCEPT !.pc = "answered", !.seen = s]]
      BY <2>2, <2>7 DEF Accept
    <3>2. [j EXCEPT !.pc = "answered", !.seen = s].pc # "calling"
      BY DEF Jobs
    <3> QED
      BY <1>1, <3>1, <3>2
  <2>8. CASE Record(w)
    <3>1. [j EXCEPT !.pc = "recorded"].pc # "calling"
      BY DEF Jobs
    <3> QED
      BY <1>1, <2>2, <2>8, <3>1 DEF Record
  <2> QED
    BY SMTT(30), <1>9, <2>3, <2>4, <2>5, <2>6, <2>7, <2>8
<1> QED
  BY <1>5, <1>6, <1>7, <1>8, <1>9 DEF Step, Attempt

\* No request to release is made while a claim or dispute of a started trip is
\* open, however long ago the release was claimed (return-financial-authority
\* .ts l.43-49).
THEOREM DisputeKeepsDeposit == Spec => DisputedDepositKept
<1> DEFINE Disputed == reservation.claim /\ reservation.status \in {"ACTIVE", "COMPLETED"}
           Kept == Disputed =>
             \A w \in Workers :
               worker'[w].pc = "calling" /\ worker'[w].kind = "DEPOSIT_RELEASE" =>
                 worker'[w] = worker[w]
<1>1. ASSUME worker' = worker
      PROVE  Kept
  BY <1>1
<1>2. ASSUME IInv, NEW w \in Workers, NEW job, worker' = [worker EXCEPT ![w] = job],
             job.pc # "calling"
      PROVE  Kept
  BY <1>2 DEF IInv, TypeOK
<1>3. ASSUME IInv, NEW w \in Workers, Dispatch(w)
      PROVE  Kept
  <2>1. worker[w] \in Jobs /\ worker[w].kind \in Kinds
    BY <1>3, JobAtWork, OpAtWork DEF Dispatch, At
  <2>2. PICK j \in Jobs : worker[w] = j
    BY <2>1
  <2>3. worker' = [worker EXCEPT ![w] = [j EXCEPT !.pc = "calling", !.again = FALSE, !.seen = "none"]]
    BY <1>3, <2>2 DEF Dispatch, Goes
  <2>4. worker'[w].kind = j.kind /\ \A v \in Workers : v # w => worker'[v] = worker[v]
    BY <1>3, <2>3 DEF IInv, TypeOK, Jobs
  <2>5. Disputed => Authorizes(w)
    BY <1>3 DEF Dispatch, StillClear, ReviewClear
  <2> QED
    BY <2>2, <2>4, <2>5 DEF Authorizes
<1>4. ASSUME IInv, NEW w \in Workers, Ask(w) \/ Step(w) \/ Crash(w)
      PROVE  Kept
  <2>1. CASE ~Dispatch(w)
    <3>1. worker'[w].pc # "calling" /\ \A v \in Workers : v # w => worker'[v] = worker[v]
      BY <1>4, <2>1, OnlyDispatchCalls
    <3> QED
      BY <3>1
  <2> QED
    BY <1>3, <1>4, <2>1
<1>5. ASSUME IInv, NEW g \in Gens, Provider(g) \/ CanceledWebhook(g) \/ Compensate(g)
      PROVE  Kept
  BY <1>1, <1>5 DEF Provider, LateAccept, Authenticate, Elapse, AutoCancel, Becomes,
     CanceledWebhook, Compensate
<1>6. ASSUME IInv, NEW k \in Kinds, NEW g \in Gens,
             Lapse(k, g) \/ (\E w \in Workers : Recover(w, k, g))
      PROVE  Kept
  <2>1. CASE Lapse(k, g)
    BY <1>1, <2>1 DEF Lapse
  <2>2. ASSUME NEW w \in Workers, Recover(w, k, g)
        PROVE  Kept
    BY <1>2, <1>6, <2>2 DEF Recover
  <2> QED
    BY <1>6, <2>1, <2>2
<1>7. ASSUME IInv, Reservation
      PROVE  Kept
  BY <1>1, <1>7 DEF Reservation, RequireRefund, FullyRefunded, Cancel, StartTrip, CompleteTrip,
     ForceStart, ForceComplete, OpenClaim, CloseClaim, AuthorizeSettlement
<1> HIDE DEF Kept
<1>8. IInv /\ [Next]_vars => [Kept]_vars
  BY <1>4, <1>5, <1>6, <1>7 DEF Next
<1> USE DEF Kept
<1> QED
  BY <1>8, Inductive, PTL DEF Spec, DisputedDepositKept

=============================================================================
