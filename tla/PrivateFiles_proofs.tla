--------------------------- MODULE PrivateFiles_proofs ---------------------------
(***************************************************************************)
(* Proofs about PrivateFiles, for any number of overlapping invocations of *)
(* the cron jobs, of attempts and of faults.                               *)
(***************************************************************************)
EXTENDS PrivateFiles, TLAPS

\* The upload and the manifest go together, and nothing of an erasure exists
\* before the upload has ended and the erasure is committed.
Phases ==
  /\ uploader \in {"start", "intent"} => object.state = "NONE"
  /\ uploader = "putting" => object.write = "RUNNING"
  /\ object.state = "NONE" =>
       object.write = "NONE" /\ store = "absent" /\ job["SCAN"].state = "NONE"
  /\ job["SCAN"].state = "NONE" => object.state = "NONE"
  /\ job["RETENTION"].state # "NONE" => uploader \in Ended
  /\ Committed => uploader \in Ended /\ ~file.held
  /\ job["DELETE"].state # "NONE" => Committed
  /\ object.state \in Deletion => Committed
  /\ \A w \in Workers :
       worker[w].stage \in {"intent", "erase", "mark", "finish"} => Committed

\* A write known to have ended leaves its bytes there until they may be erased.
Kept ==
  object.write = "STORED" =>
    /\ store # "coming"
    /\ ~Committed => store = "present"

\* No bytes, and no write that could still bring some.
Gone == uploader \in Ended /\ store = "absent"

Reported ==
  \/ object.state = "DELETED"
  \/ job["DELETE"].state = "DONE"
  \/ job["RETENTION"].state = "DONE"
  \/ \E w \in Workers : worker[w].stage \in {"mark", "finish"}

\* The scan whose lease runs works on an object that is being scanned.
Scanning ==
  \A w \in Workers :
    /\ At(w, "SCAN", "skip") => object.state \in {"INFECTED"} \cup Deletion
    /\ Fenced(w, "SCAN") /\ (At(w, "SCAN", "reading") \/ At(w, "SCAN", "judged")) =>
         object.state \in {"SCANNING"} \cup Deletion

IInv ==
  /\ TypeOK
  /\ Phases
  /\ Kept
  /\ Reported => Gone
  /\ ScanAccounted
  /\ Scanning

-----------------------------------------------------------------------------
(* Types.                                                                  *)

\* A new job and a claimed one are jobs.
LEMMA JobRows ==
  ASSUME job \in [Kinds -> Jobs], NEW k \in Kinds
  PROVE  /\ NewJob \in Jobs /\ NoJob \in Jobs
         /\ \A w \in Workers : ClaimedJob(w, k) \in Jobs
  BY DEF NoJob, NewJob, Jobs, ClaimedJob

-----------------------------------------------------------------------------
(* The steps.                                                              *)

\* Every step keeps the types.
LEMMA TypeStep ==
  ASSUME TypeOK, Next
  PROVE  TypeOK'
<1> USE AttemptsAssumption, WorkersAssumption
     DEF TypeOK, UploadStages, Guarding, Ended, Files, Objects, Jobs, Tasks, Stages, Idle,
         Verdicts, Unscanned, Deletion, Operations, Kinds
<1>1. CASE Upload
  <2>1. CASE CreateFile
    BY <2>1 DEF CreateFile
  <2>2. CASE WriteIntent
    BY <2>2 DEF WriteIntent, NewJob, NoJob
  <2>3. CASE Put
    BY <2>3 DEF Put
  <2>4. CASE PutFails
    BY <2>4 DEF PutFails
  <2>5. CASE Finalize
    BY <2>5 DEF Finalize
  <2>6. CASE Publish
    BY <2>6 DEF Publish
  <2>7. CASE Quarantine
    BY <2>7 DEF Quarantine
  <2> QED
    BY <1>1, <2>1, <2>2, <2>3, <2>4, <2>5, <2>6, <2>7 DEF Upload
<1>2. CASE UploaderDies \/ Arrives
  BY <1>2 DEF UploaderDies, Fault, Arrives
<1>3. ASSUME NEW w \in Workers, Work(w)
      PROVE  TypeOK'
  <2>1. CASE ScanBegin(w)
    BY <2>1 DEF ScanBegin, GuardFree, GoTo, Rest
  <2>2. CASE ScanSkip(w)
    BY <2>2 DEF ScanSkip, Rest, Finished
  <2>3. CASE Judge(w)
    <3>1. PICK v \in Verdicts :
            worker' = [worker EXCEPT ![w].stage = "judged", ![w].verdict = v]
      BY <2>3 DEF Judge
    <3>2. worker[w] \in Tasks
      OBVIOUS
    <3>3. worker' = [worker EXCEPT ![w] = [worker[w] EXCEPT !.stage = "judged", !.verdict = v]]
      BY <3>1
    <3>4. [worker[w] EXCEPT !.stage = "judged", !.verdict = v] \in Tasks
      BY <3>2
    <3>5. worker' \in [Workers -> Tasks \cup {Idle}]
      BY <3>3, <3>4
    <3> QED
      BY <2>3, <3>5 DEF Judge
  <2>4. CASE ScanFails(w)
    BY <2>4 DEF ScanFails, GoTo
  <2>5. CASE ScanSave(w)
    BY <2>5 DEF ScanSave, Saved, Judged, Rest, Finished, GuardFree
  <2>6. CASE DeleteIntent(w)
    BY <2>6 DEF DeleteIntent, GoTo, NewJob, NoJob
  <2>7. CASE Erase(w)
    BY <2>7 DEF Erase, Erasable, GoTo, GuardFree
  <2>8. CASE MarkDeleted(w)
    BY <2>8 DEF MarkDeleted, Erased, GoTo
  <2>9. CASE FinishDelete(w)
    BY <2>9 DEF FinishDelete, Erased, Rest, Finished
  <2>10. CASE FinishErasure(w)
    BY <2>10 DEF FinishErasure, Rest, Finished
  <2>11. CASE FailErasure(w)
    BY <2>11 DEF FailErasure, Rest, Finished
  <2>12. ASSUME NEW k \in Operations, Fail(w, k)
         PROVE  TypeOK'
    BY <2>12 DEF Fail, AfterFailure, Finished, Rest
  <2> QED
    BY <1>3, <2>1, <2>2, <2>3, <2>4, <2>5, <2>6, <2>7, <2>8, <2>9, <2>10, <2>11, <2>12
      DEF Work
<1>4. ASSUME NEW w \in Workers, NEW k \in Operations, Claim(w, k)
      PROVE  TypeOK'
  <2>1. ClaimedJob(w, k) \in Jobs /\ ClaimedJob(w, k).attempts <= MaxAttempts
    BY <1>4, JobRows DEF Claim, Claimable, ClaimedJob
  <2>2. /\ job' \in [Kinds -> Jobs]
        /\ \A j \in Operations : job'[j].attempts <= MaxAttempts
    BY <1>4, <2>1 DEF Claim
  <2>3. [Idle EXCEPT !.task = k, !.stage = IF k = "SCAN" THEN "begin" ELSE "erase"] \in Tasks
    OBVIOUS
  <2>4. worker' \in [Workers -> Tasks \cup {Idle}]
    BY <1>4, <2>3 DEF Claim
  <2> QED
    BY <1>4, <2>2, <2>4 DEF Claim
<1>5. ASSUME NEW w \in Workers, ClaimErasure(w)
      PROVE  TypeOK'
  <2>1. ClaimedJob(w, "RETENTION") \in Jobs
    BY JobRows DEF Kinds
  <2>2. job' \in [Kinds -> Jobs] /\ \A k \in Operations : job'[k] = job[k]
    BY <1>5, <2>1 DEF ClaimErasure
  <2>3. file' \in Files /\ worker' \in [Workers -> Tasks \cup {Idle}]
    BY <1>5 DEF ClaimErasure
  <2> QED
    BY <1>5, <2>2, <2>3 DEF ClaimErasure
<1>6. ASSUME NEW k \in Operations, Exhaust(k) \/ StaffRetry(k)
      PROVE  TypeOK'
  BY <1>6 DEF Exhaust, Exhausted, Lapsed, Finished, StaffRetry, Fault, NoJob
<1>7. ASSUME NEW k \in Kinds, Stall(k) \/ RunOut(k)
      PROVE  TypeOK'
  BY <1>7 DEF Stall, RunOut, Fault
<1>8. ASSUME NEW w \in Workers, WorkerDies(w)
      PROVE  TypeOK'
  BY <1>8 DEF WorkerDies, Fault, Rest
<1>9. CASE ChangeHold
  BY <1>9 DEF ChangeHold
<1>10. CASE Plan
  BY <1>10 DEF Plan, NewJob, NoJob
<1>11. CASE RetryErasure
  BY <1>11 DEF RetryErasure, Fault, NewJob, NoJob
<1> QED
  BY <1>1, <1>2, <1>3, <1>4, <1>5, <1>6, <1>7, <1>8, <1>9, <1>10, <1>11
    DEF Next, ClaimAny, Operations, Kinds

\* Every step keeps the upload and the erasure in their order.
LEMMA PhasesStep ==
  ASSUME TypeOK, TypeOK', Phases, Next
  PROVE  Phases'
<1> USE AttemptsAssumption, WorkersAssumption
     DEF TypeOK, Files, Objects, Jobs, Tasks, Idle, Guarding, Ended, Verdicts, Unscanned,
         Deletion, Operations, Kinds, Phases, Committed, Fenced, Owns, At
<1>1. CASE Upload
  <2>1. CASE CreateFile
    BY <2>1 DEF CreateFile
  <2>2. CASE WriteIntent
    BY <2>2 DEF WriteIntent, NewJob, NoJob
  <2>3. CASE Put
    BY <2>3 DEF Put
  <2>4. CASE PutFails
    BY <2>4 DEF PutFails
  <2>5. CASE Finalize
    BY <2>5 DEF Finalize
  <2>6. CASE Publish
    BY <2>6 DEF Publish
  <2>7. CASE Quarantine
    BY <2>7 DEF Quarantine
  <2> QED
    BY <1>1, <2>1, <2>2, <2>3, <2>4, <2>5, <2>6, <2>7 DEF Upload
<1>2. CASE UploaderDies \/ Arrives
  BY <1>2 DEF UploaderDies, Fault, Arrives
<1>3. ASSUME NEW w \in Workers, Work(w)
      PROVE  Phases'
  <2>1. CASE ScanBegin(w)
    BY <2>1 DEF ScanBegin, GuardFree, GoTo, Rest
  <2>2. CASE ScanSkip(w)
    BY <2>2 DEF ScanSkip, Rest, Finished
  <2>3. CASE Judge(w)
    BY <2>3 DEF Judge
  <2>4. CASE ScanFails(w)
    BY <2>4 DEF ScanFails, GoTo
  <2>5. CASE ScanSave(w)
    BY <2>5 DEF ScanSave, Saved, Judged, Rest, Finished, GuardFree
  <2>6. CASE DeleteIntent(w)
    BY <2>6 DEF DeleteIntent, GoTo, NewJob, NoJob
  <2>7. CASE Erase(w)
    BY <2>7 DEF Erase, Erasable, GoTo, GuardFree
  <2>8. CASE MarkDeleted(w)
    BY <2>8 DEF MarkDeleted, Erased, GoTo
  <2>9. CASE FinishDelete(w)
    BY <2>9 DEF FinishDelete, Erased, Rest, Finished
  <2>10. CASE FinishErasure(w)
    BY <2>10 DEF FinishErasure, Rest, Finished
  <2>11. CASE FailErasure(w)
    BY <2>11 DEF FailErasure, Rest, Finished
  <2>12. ASSUME NEW k \in Operations, Fail(w, k)
         PROVE  Phases'
    BY <2>12 DEF Fail, AfterFailure, Finished, Rest
  <2> QED
    BY <1>3, <2>1, <2>2, <2>3, <2>4, <2>5, <2>6, <2>7, <2>8, <2>9, <2>10, <2>11, <2>12
      DEF Work
<1>4. ASSUME NEW w \in Workers, NEW k \in Operations, Claim(w, k)
      PROVE  Phases'
  BY <1>4 DEF Claim, Claimable, ClaimedJob, Lapsed
<1>5. ASSUME NEW w \in Workers, ClaimErasure(w)
      PROVE  Phases'
  BY <1>5 DEF ClaimErasure, MayErase, ClaimedJob, Lapsed
<1>6. ASSUME NEW k \in Operations, Exhaust(k) \/ StaffRetry(k)
      PROVE  Phases'
  BY <1>6 DEF Exhaust, Exhausted, Lapsed, Finished, StaffRetry, Fault, NoJob
<1>7. ASSUME NEW k \in Kinds, Stall(k) \/ RunOut(k)
      PROVE  Phases'
  BY <1>7 DEF Stall, RunOut, Fault
<1>8. ASSUME NEW w \in Workers, WorkerDies(w)
      PROVE  Phases'
  BY <1>8 DEF WorkerDies, Fault, Rest
<1>9. CASE ChangeHold
  BY <1>9 DEF ChangeHold
<1>10. CASE Plan
  BY <1>10 DEF Plan, NewJob, NoJob
<1>11. CASE RetryErasure
  BY <1>11 DEF RetryErasure, Fault, NewJob, NoJob
<1> QED
  BY <1>1, <1>2, <1>3, <1>4, <1>5, <1>6, <1>7, <1>8, <1>9, <1>10, <1>11
    DEF Next, ClaimAny, Operations, Kinds

\* What may be erased is the only loss of bytes, and a loss that is reported is
\* for good.
LEMMA GoneStep ==
  ASSUME TypeOK, TypeOK', Phases, Kept, Reported => Gone, Next
  PROVE  Kept' /\ (Reported => Gone)'
<1> USE AttemptsAssumption, WorkersAssumption
     DEF TypeOK, Files, Objects, Jobs, Tasks, Idle, Guarding, Ended, Verdicts,
         Deletion, Operations, Kinds, Phases, Committed, Kept, Reported, Gone, At, Fenced, Owns
<1>1. CASE Upload
  <2>1. CASE CreateFile
    BY <2>1 DEF CreateFile
  <2>2. CASE WriteIntent
    BY <2>2 DEF WriteIntent, NewJob, NoJob
  <2>3. CASE Put
    BY <2>3 DEF Put
  <2>4. CASE PutFails
    BY <2>4 DEF PutFails
  <2>5. CASE Finalize
    BY <2>5 DEF Finalize
  <2>6. CASE Publish
    BY <2>6 DEF Publish
  <2>7. CASE Quarantine
    BY <2>7 DEF Quarantine
  <2> QED
    BY <1>1, <2>1, <2>2, <2>3, <2>4, <2>5, <2>6, <2>7 DEF Upload
<1>2. CASE UploaderDies \/ Arrives
  BY <1>2 DEF UploaderDies, Fault, Arrives
<1>3. ASSUME NEW w \in Workers, Work(w)
      PROVE  Kept' /\ (Reported => Gone)'
  <2>1. CASE ScanBegin(w)
    BY <2>1 DEF ScanBegin, GuardFree, GoTo, Rest
  <2>2. CASE ScanSkip(w)
    BY <2>2 DEF ScanSkip, Rest, Finished
  <2>3. CASE Judge(w)
    BY <2>3 DEF Judge
  <2>4. CASE ScanFails(w)
    BY <2>4 DEF ScanFails, GoTo
  <2>5. CASE ScanSave(w)
    BY <2>5 DEF ScanSave, Saved, Judged, Rest, Finished, GuardFree
  <2>6. CASE DeleteIntent(w)
    BY <2>6 DEF DeleteIntent, GoTo, NewJob, NoJob
  <2>7. CASE Erase(w)
    BY <2>7 DEF Erase, Erasable, GoTo, GuardFree
  <2>8. CASE MarkDeleted(w)
    BY <2>8 DEF MarkDeleted, Erased, GoTo
  <2>9. CASE FinishDelete(w)
    BY <2>9 DEF FinishDelete, Erased, Rest, Finished
  <2>10. CASE FinishErasure(w)
    BY <2>10 DEF FinishErasure, Rest, Finished
  <2>11. CASE FailErasure(w)
    BY <2>11 DEF FailErasure, Rest, Finished
  <2>12. ASSUME NEW k \in Operations, Fail(w, k)
         PROVE  Kept' /\ (Reported => Gone)'
    BY <2>12 DEF Fail, AfterFailure, Finished, Rest
  <2> QED
    BY <1>3, <2>1, <2>2, <2>3, <2>4, <2>5, <2>6, <2>7, <2>8, <2>9, <2>10, <2>11, <2>12
      DEF Work
<1>4. ASSUME NEW w \in Workers, NEW k \in Operations, Claim(w, k)
      PROVE  Kept' /\ (Reported => Gone)'
  BY <1>4 DEF Claim, Claimable, ClaimedJob, Lapsed
<1>5. ASSUME NEW w \in Workers, ClaimErasure(w)
      PROVE  Kept' /\ (Reported => Gone)'
  BY <1>5 DEF ClaimErasure, MayErase, ClaimedJob, Lapsed
<1>6. ASSUME NEW k \in Operations, Exhaust(k) \/ StaffRetry(k)
      PROVE  Kept' /\ (Reported => Gone)'
  BY <1>6 DEF Exhaust, Exhausted, Lapsed, Finished, StaffRetry, Fault, NoJob
<1>7. ASSUME NEW k \in Kinds, Stall(k) \/ RunOut(k)
      PROVE  Kept' /\ (Reported => Gone)'
  BY <1>7 DEF Stall, RunOut, Fault
<1>8. ASSUME NEW w \in Workers, WorkerDies(w)
      PROVE  Kept' /\ (Reported => Gone)'
  BY <1>8 DEF WorkerDies, Fault, Rest
<1>9. CASE ChangeHold
  BY <1>9 DEF ChangeHold
<1>10. CASE Plan
  BY <1>10 DEF Plan, NewJob, NoJob
<1>11. CASE RetryErasure
  BY <1>11 DEF RetryErasure, Fault, NewJob, NoJob
<1> QED
  BY <1>1, <1>2, <1>3, <1>4, <1>5, <1>6, <1>7, <1>8, <1>9, <1>10, <1>11
    DEF Next, ClaimAny, Operations, Kinds

\* The manifest has a verdict exactly when the scan's job is done.
LEMMA ScanStep ==
  ASSUME TypeOK, TypeOK', Phases, ScanAccounted, Scanning, Next
  PROVE  ScanAccounted' /\ Scanning'
<1> USE AttemptsAssumption, WorkersAssumption
     DEF TypeOK, Objects, Jobs, Tasks, Idle, Guarding, Ended, Verdicts, Unscanned,
         Deletion, Operations, Kinds, Phases, ScanAccounted, Scanning, At, Fenced, Owns
<1>1. CASE Upload
  <2>1. CASE CreateFile
    BY <2>1 DEF CreateFile
  <2>2. CASE WriteIntent
    BY <2>2 DEF WriteIntent, NewJob, NoJob
  <2>3. CASE Put
    BY <2>3 DEF Put
  <2>4. CASE PutFails
    BY <2>4 DEF PutFails
  <2>5. CASE Finalize
    BY <2>5 DEF Finalize
  <2>6. CASE Publish
    BY <2>6 DEF Publish
  <2>7. CASE Quarantine
    BY <2>7 DEF Quarantine
  <2> QED
    BY <1>1, <2>1, <2>2, <2>3, <2>4, <2>5, <2>6, <2>7 DEF Upload
<1>2. CASE UploaderDies \/ Arrives
  BY <1>2 DEF UploaderDies, Fault, Arrives
<1>3. ASSUME NEW w \in Workers, Work(w)
      PROVE  ScanAccounted' /\ Scanning'
  <2>1. CASE ScanBegin(w)
    BY <2>1 DEF ScanBegin, GuardFree, GoTo, Rest
  <2>2. CASE ScanSkip(w)
    BY <2>2 DEF ScanSkip, Rest, Finished
  <2>3. CASE Judge(w)
    BY <2>3 DEF Judge
  <2>4. CASE ScanFails(w)
    BY <2>4 DEF ScanFails, GoTo
  <2>5. CASE ScanSave(w)
    BY <2>5 DEF ScanSave, Saved, Judged, Rest, Finished, GuardFree
  <2>6. CASE DeleteIntent(w)
    BY <2>6 DEF DeleteIntent, GoTo, NewJob, NoJob
  <2>7. CASE Erase(w)
    BY <2>7 DEF Erase, Erasable, GoTo, GuardFree
  <2>8. CASE MarkDeleted(w)
    BY <2>8 DEF MarkDeleted, Erased, GoTo
  <2>9. CASE FinishDelete(w)
    BY <2>9 DEF FinishDelete, Erased, Rest, Finished
  <2>10. CASE FinishErasure(w)
    BY <2>10 DEF FinishErasure, Rest, Finished
  <2>11. CASE FailErasure(w)
    BY <2>11 DEF FailErasure, Rest, Finished
  <2>12. ASSUME NEW k \in Operations, Fail(w, k)
         PROVE  ScanAccounted' /\ Scanning'
    BY <2>12 DEF Fail, AfterFailure, Finished, Rest
  <2> QED
    BY <1>3, <2>1, <2>2, <2>3, <2>4, <2>5, <2>6, <2>7, <2>8, <2>9, <2>10, <2>11, <2>12
      DEF Work
<1>4. ASSUME NEW w \in Workers, NEW k \in Operations, Claim(w, k)
      PROVE  ScanAccounted' /\ Scanning'
  BY <1>4 DEF Claim, Claimable, ClaimedJob, Lapsed
<1>5. ASSUME NEW w \in Workers, ClaimErasure(w)
      PROVE  ScanAccounted' /\ Scanning'
  BY <1>5 DEF ClaimErasure, MayErase, ClaimedJob, Lapsed
<1>6. ASSUME NEW k \in Operations, Exhaust(k) \/ StaffRetry(k)
      PROVE  ScanAccounted' /\ Scanning'
  BY <1>6 DEF Exhaust, Exhausted, Lapsed, Finished, StaffRetry, Fault, NoJob
<1>7. ASSUME NEW k \in Kinds, Stall(k) \/ RunOut(k)
      PROVE  ScanAccounted' /\ Scanning'
  BY <1>7 DEF Stall, RunOut, Fault
<1>8. ASSUME NEW w \in Workers, WorkerDies(w)
      PROVE  ScanAccounted' /\ Scanning'
  BY <1>8 DEF WorkerDies, Fault, Rest
<1>9. CASE ChangeHold
  BY <1>9 DEF ChangeHold
<1>10. CASE Plan
  BY <1>10 DEF Plan, NewJob, NoJob
<1>11. CASE RetryErasure
  BY <1>11 DEF RetryErasure, Fault, NewJob, NoJob
<1> QED
  BY <1>1, <1>2, <1>3, <1>4, <1>5, <1>6, <1>7, <1>8, <1>9, <1>10, <1>11
    DEF Next, ClaimAny, Operations, Kinds

LEMMA StutterStep == IInv /\ UNCHANGED vars => IInv'
  BY
    DEF IInv, vars, TypeOK, Phases, Kept, Reported, Gone, ScanAccounted, Scanning, Committed,
         At, Fenced, Owns

-----------------------------------------------------------------------------
(* The theorems.                                                           *)

LEMMA InitInv == Init => IInv
  BY AttemptsAssumption
  DEF Init, IInv, TypeOK, Phases, Kept, Reported, Gone, ScanAccounted, Scanning, UploadStages,
      Files, Objects, Jobs, NoJob, Kinds, Operations, Idle, Tasks, Stages, Verdicts, Unscanned,
      Deletion, Committed, At, Fenced, Owns

\* The invariant the others follow from.
THEOREM Invariant == Spec => []IInv
<1>1. IInv /\ [Next]_vars => IInv'
  BY TypeStep, PhasesStep, GoneStep, ScanStep, StutterStep DEF IInv
<1> QED
  BY <1>1, InitInv, PTL DEF Spec

\* Attachments, manifests, jobs and workers keep their types, and no operations job
\* is attempted more often than allowed.
THEOREM TypeCorrect == Spec => []TypeOK
<1>1. IInv => TypeOK
  BY DEF IInv
<1> QED
  BY <1>1, Invariant, PTL

\* An erasure that is reported, by any of the three rows that report it, has left no
\* bytes and no write that could bring them back.
THEOREM ErasureIsReal == Spec => []ErasedMeansGone
<1>1. IInv => ErasedMeansGone
  BY DEF IInv, ErasedMeansGone, Reported, Gone
<1> QED
  BY <1>1, Invariant, PTL

\* A held file keeps its bytes and its manifest.
THEOREM HoldsKeep == Spec => []HeldIsKept
<1>1. IInv => HeldIsKept
  BY DEF IInv, HeldIsKept, Kept, Phases
<1> QED
  BY <1>1, Invariant, PTL

\* No verdict without the fence of its scan, no finished scan without a verdict.
THEOREM VerdictsAccounted == Spec => []ScanAccounted
<1>1. IInv => ScanAccounted
  BY DEF IInv
<1> QED
  BY <1>1, Invariant, PTL

=============================================================================
