------------------------------ MODULE PrivateFiles ------------------------------
(***************************************************************************)
(* A private attachment from its upload to its erasure: storage.ts,        *)
(* operations.ts, collaboration-files.ts and collaboration-retention.ts.   *)
(*                                                                         *)
(* The bytes live at the storage provider, what is known of them in the    *)
(* manifest (PrivateObject), and who may see them in the attachment        *)
(* (CollaborationFile).  Three durable jobs follow: SCAN releases the      *)
(* object from quarantine, RETENTION erases the attachment once its term   *)
(* is over and nothing holds it, DELETE resumes an erasure.  Overlapping   *)
(* invocations of the cron jobs claim them under a lease of two minutes.   *)
(*                                                                         *)
(* Deadlines and delays (retention term, backoff, the two minutes a scan   *)
(* waits) are left to chance: a job that may run is always due.            *)
(***************************************************************************)
EXTENDS Naturals

CONSTANTS
  Workers,        \* invocations of the cron jobs that may run at a time
  None,           \* no worker
  MaxAttempts,    \* attempts of a job before it goes to staff; 5 in the code
  MaxFaults       \* bound on crashes, stalls and the retries of staff

ASSUME WorkersAssumption == None \notin Workers
ASSUME AttemptsAssumption == MaxAttempts \in Nat \ {0} /\ MaxFaults \in Nat

VARIABLES
  uploader,   \* how far the request that uploads the attachment is
  file,       \* the attachment: what its row says of the scan, and its hold
  object,     \* the manifest: state, and what is known of the write
  job,        \* job[k]: the durable job of kind k
  worker,     \* worker[w]: what w does, and the verdict of its scanner
  store,      \* the bytes at the provider; "coming" may still arrive
  faults

vars == <<uploader, file, object, job, worker, store, faults>>

Kinds == {"SCAN", "DELETE", "RETENTION"}
Unscanned == {"UPLOADED", "QUARANTINED", "SCANNING", "SCAN_FAILED"}
Verdicts == {"CLEAN", "INFECTED"}
Deletion == {"DELETING", "DELETED"}

\* Before and after an upload that runs; a dead one never comes back.
Ended == {"done", "dead"}
Guarding == {"putting", "stored"}
UploadStages == {"start", "intent", "refused", "finalized"} \cup Guarding \cup Ended

Files == [scan : {"NONE", "STORING", "QUARANTINED", "DELETION_COMMITTED"} \cup Verdicts,
          held : BOOLEAN]
Objects == [state : {"NONE"} \cup Unscanned \cup Verdicts \cup Deletion,
            write : {"NONE", "RUNNING", "STORED", "UNCERTAIN"}]
Jobs == [state : {"NONE", "PENDING", "RUNNING", "RETRY", "DONE", "REVIEW", "DEAD_LETTER"},
         attempts : Nat, token : Workers \cup {None}, lease : {"none", "live", "lapsed"}]
Stages == {"idle", "begin", "skip", "reading", "judged", "intent", "erase", "mark",
           "finish", "failing"}
Tasks == [task : Kinds, stage : Stages, verdict : Verdicts]

NoJob == [state |-> "NONE", attempts |-> 0, token |-> None, lease |-> "none"]
NewJob == [NoJob EXCEPT !.state = "PENDING"]
Idle == [task |-> "SCAN", stage |-> "idle", verdict |-> "CLEAN"]

At(w, k, s) == worker[w].task = k /\ worker[w].stage = s
GoTo(w, s) == worker' = [worker EXCEPT ![w].stage = s]
Rest(w) == worker' = [worker EXCEPT ![w] = Idle]

\* The session lock on the key, which the upload keeps while it writes.
GuardFree == uploader \notin Guarding

\* The fence of a job: the worker's token, and a lease that still runs.
Owns(w, k) == job[k].state = "RUNNING" /\ job[k].token = w
Fenced(w, k) == Owns(w, k) /\ job[k].lease = "live"

Committed == file.scan = "DELETION_COMMITTED"

Fault ==
  /\ faults < MaxFaults
  /\ faults' = faults + 1

-----------------------------------------------------------------------------
(* The upload.                                                             *)

CreateFile ==
  /\ uploader = "start"
  /\ uploader' = "intent"
  /\ file' = [file EXCEPT !.scan = "STORING"]
  /\ UNCHANGED <<object, job, worker, store, faults>>

\* The intent to write, and the job that will scan, precede the write.
WriteIntent ==
  /\ uploader = "intent"
  /\ uploader' = "putting"
  /\ object' = [state |-> "UPLOADED", write |-> "RUNNING"]
  /\ job' = [job EXCEPT !["SCAN"] = NewJob]
  /\ UNCHANGED <<file, worker, store, faults>>

Put ==
  /\ uploader = "putting"
  /\ uploader' = "stored"
  /\ store' = "present"
  /\ object' = [object EXCEPT !.write = "STORED"]
  /\ UNCHANGED <<file, job, worker, faults>>

\* No answer, or none that could be saved: the bytes may be there, or arrive.
PutFails ==
  /\ uploader = "putting"
  /\ uploader' = "refused"
  /\ store' \in {"absent", "coming", "present"}
  /\ object' = [object EXCEPT !.write = "UNCERTAIN"]
  /\ UNCHANGED <<file, job, worker, faults>>

Finalize ==
  /\ uploader = "stored"
  /\ uploader' = "finalized"
  /\ object' = [object EXCEPT !.state = IF @ = "UPLOADED" THEN "QUARANTINED" ELSE @]
  /\ UNCHANGED <<file, job, worker, store, faults>>

Publish ==
  /\ uploader = "finalized"
  /\ uploader' = "done"
  /\ file' = [file EXCEPT !.scan = "CLEAN"]
  /\ UNCHANGED <<object, job, worker, store, faults>>

\* The write was refused, or the uploader has lost access meanwhile.
Quarantine ==
  /\ uploader \in {"refused", "finalized"}
  /\ uploader' = "done"
  /\ file' = [file EXCEPT !.scan = IF @ = "STORING" THEN "QUARANTINED" ELSE @]
  /\ UNCHANGED <<object, job, worker, store, faults>>

\* With the process its session ends, and with it the lock.
UploaderDies ==
  /\ uploader \notin Ended \cup {"start"}
  /\ Fault
  /\ uploader' = "dead"
  /\ store' \in IF uploader = "putting" THEN {"absent", "coming", "present"} ELSE {store}
  /\ UNCHANGED <<file, object, job, worker>>

Arrives ==
  /\ store = "coming"
  /\ store' \in {"absent", "present"}
  /\ UNCHANGED <<uploader, file, object, job, worker, faults>>

Upload == CreateFile \/ WriteIntent \/ Put \/ PutFails \/ Finalize \/ Publish \/ Quarantine

-----------------------------------------------------------------------------
(* SCAN and DELETE: claimOperationsBatch and finishOperation.              *)

Operations == {"SCAN", "DELETE"}

Lapsed(k) == job[k].state = "RUNNING" /\ job[k].lease = "lapsed"

\* Whoever finishes a job gives up its lease.
Finished(k, s) ==
  [job EXCEPT ![k] = [state |-> s, attempts |-> @.attempts, token |-> None, lease |-> "none"]]

ClaimedJob(w, k) ==
  [state |-> "RUNNING", attempts |-> job[k].attempts + 1, token |-> w, lease |-> "live"]

\* Mutated Claimable: an exhausted job is tried again.
ClaimableWhileAnyIsLeft(k) == job[k].state \in {"PENDING", "RETRY"} \/ Lapsed(k)

Claimable(k) ==
  /\ job[k].attempts < MaxAttempts
  /\ job[k].state \in {"PENDING", "RETRY"} \/ Lapsed(k)

Claim(w, k) ==
  /\ worker[w] = Idle
  /\ Claimable(k)
  /\ job' = [job EXCEPT ![k] = ClaimedJob(w, k)]
  /\ worker' = [worker EXCEPT ![w] =
       [Idle EXCEPT !.task = k, !.stage = IF k = "SCAN" THEN "begin" ELSE "erase"]]
  /\ UNCHANGED <<uploader, file, object, store, faults>>

\* Mutated Exhausted: one attempt more than a job can have.
ExhaustedBeyond(k) == Lapsed(k) /\ job[k].attempts > MaxAttempts

Exhausted(k) == Lapsed(k) /\ job[k].attempts >= MaxAttempts

Exhaust(k) ==
  /\ Exhausted(k)
  /\ job' = Finished(k, "REVIEW")
  /\ UNCHANGED <<uploader, file, object, worker, store, faults>>

AfterFailure(k) == IF job[k].attempts >= MaxAttempts THEN "REVIEW" ELSE "RETRY"

\* The catch of runOperations; a stale worker changes nothing.
Fail(w, k) ==
  /\ At(w, k, "failing")
  /\ k = "SCAN" => GuardFree
  /\ Rest(w)
  /\ IF Fenced(w, k)
     THEN /\ job' = Finished(k, AfterFailure(k))
          /\ object' = IF k = "SCAN" /\ object.state = "SCANNING"
                       THEN [object EXCEPT !.state = "SCAN_FAILED"] ELSE object
     ELSE UNCHANGED <<job, object>>
  /\ UNCHANGED <<uploader, file, store, faults>>

-----------------------------------------------------------------------------
(* SCAN: runScan.                                                          *)

ScanBegin(w) ==
  /\ At(w, "SCAN", "begin")
  /\ GuardFree
  /\ \/ /\ ~Fenced(w, "SCAN")
        /\ Rest(w)
        /\ UNCHANGED object
     \/ /\ Fenced(w, "SCAN")
        /\ object.state \in {"INFECTED"} \cup Deletion
        /\ GoTo(w, "skip")
        /\ UNCHANGED object
     \/ /\ Fenced(w, "SCAN")
        /\ object.state \notin {"INFECTED"} \cup Deletion
        /\ object' = [object EXCEPT !.state = "SCANNING"]
        /\ GoTo(w, IF object.write = "STORED" THEN "reading" ELSE "failing")
  /\ UNCHANGED <<uploader, file, job, store, faults>>

ScanSkip(w) ==
  /\ At(w, "SCAN", "skip")
  /\ Rest(w)
  /\ job' = IF Fenced(w, "SCAN") THEN Finished("SCAN", "DONE") ELSE job
  /\ UNCHANGED <<uploader, file, object, store, faults>>

\* Signatures change between two scans, so two scans may disagree.
Judge(w) ==
  /\ At(w, "SCAN", "reading")
  /\ store = "present"
  /\ \E v \in Verdicts :
       worker' = [worker EXCEPT ![w].stage = "judged", ![w].verdict = v]
  /\ UNCHANGED <<uploader, file, object, job, store, faults>>

ScanFails(w) ==
  /\ At(w, "SCAN", "reading")
  /\ GoTo(w, "failing")
  /\ UNCHANGED <<uploader, file, object, job, store, faults>>

\* What a verdict changes, the manifest and the attachment.
Judged(v) ==
  IF object.state = "SCANNING"
  THEN /\ object' = [object EXCEPT !.state = v]
       /\ file' = [file EXCEPT !.scan =
                     IF @ \in {"NONE", "INFECTED", "DELETION_COMMITTED"} THEN @ ELSE v]
  ELSE UNCHANGED <<object, file>>

\* Mutated Saved: a verdict counts whoever finishes the job.
SavedAnyway(w) == TRUE

\* A verdict counts only if the same transaction finishes the job.
Saved(w) == Fenced(w, "SCAN")

ScanSave(w) ==
  /\ At(w, "SCAN", "judged")
  /\ GuardFree
  /\ Rest(w)
  /\ job' = IF Fenced(w, "SCAN") THEN Finished("SCAN", "DONE") ELSE job
  /\ IF Saved(w) THEN Judged(worker[w].verdict) ELSE UNCHANGED <<object, file>>
  /\ UNCHANGED <<uploader, store, faults>>

-----------------------------------------------------------------------------
(* RETENTION: runCollaborationRetention, and the holds.                    *)

\* Once the erasure is committed a hold of the file is refused, and one of its
\* conversation, case or reservation is read by nothing.
ChangeHold ==
  /\ file.scan # "NONE"
  /\ ~Committed
  /\ \E h \in BOOLEAN : file' = [file EXCEPT !.held = h]
  /\ UNCHANGED <<uploader, object, job, worker, store, faults>>

\* A retention term is days long: it ends after the upload, whatever became of it.
Plan ==
  /\ uploader \in Ended
  /\ file.scan # "NONE"
  /\ ~Committed
  /\ ~file.held
  /\ job["RETENTION"].state = "NONE"
  /\ job' = [job EXCEPT !["RETENTION"] = NewJob]
  /\ UNCHANGED <<uploader, file, object, worker, store, faults>>

\* Mutated MayErase: nothing held the file when the erasure was planned.
MayEraseAsPlanned == TRUE

\* The claim of an erasure commits it, unless a hold has come meanwhile.
MayErase == Committed \/ ~file.held

ClaimErasure(w) ==
  /\ worker[w] = Idle
  /\ job["RETENTION"].state = "PENDING" \/ Lapsed("RETENTION")
  /\ MayErase
  /\ job' = [job EXCEPT !["RETENTION"] = ClaimedJob(w, "RETENTION")]
  /\ file' = [file EXCEPT !.scan = "DELETION_COMMITTED"]
  /\ worker' = [worker EXCEPT ![w] = [Idle EXCEPT !.task = "RETENTION", !.stage = "intent"]]
  /\ UNCHANGED <<uploader, object, store, faults>>

DeleteIntent(w) ==
  /\ At(w, "RETENTION", "intent")
  /\ GuardFree
  /\ IF object.state = "DELETED"
     THEN GoTo(w, "finish") /\ UNCHANGED <<object, job>>
     ELSE /\ GoTo(w, "erase")
          /\ object' = IF object.state = "NONE" THEN object ELSE [object EXCEPT !.state = "DELETING"]
          /\ job' = IF job["DELETE"].state = "NONE" THEN [job EXCEPT !["DELETE"] = NewJob] ELSE job
  /\ UNCHANGED <<uploader, file, store, faults>>

\* Mutated Erasable: the state of the write is not looked at.
ErasableAnyWrite == object.state \in {"NONE"} \cup Deletion

\* Nothing is deleted whose write is not known to have ended.
Erasable ==
  \/ object.state = "NONE"
  \/ object.state \in Deletion /\ object.write = "STORED"

\* deletePrivateBytes, for the retention and for the DELETE job.
Erase(w) ==
  /\ worker[w].stage = "erase"
  /\ GuardFree
  /\ \/ /\ Erasable
        /\ store' = IF store = "coming" THEN store ELSE "absent"
        /\ GoTo(w, "mark")
     \/ /\ GoTo(w, "failing")
        /\ store' \in IF Erasable /\ store # "coming" THEN {store, "absent"} ELSE {store}
  /\ UNCHANGED <<uploader, file, object, job, faults>>

Erased == IF object.state = "DELETING" THEN [object EXCEPT !.state = "DELETED"] ELSE object

\* The retention marks the erasure without a claim of the DELETE job.
MarkDeleted(w) ==
  /\ At(w, "RETENTION", "mark")
  /\ GoTo(w, "finish")
  /\ object' = Erased
  /\ job' = [job EXCEPT !["DELETE"].state = "DONE"]
  /\ UNCHANGED <<uploader, file, store, faults>>

FinishDelete(w) ==
  /\ At(w, "DELETE", "mark")
  /\ Rest(w)
  /\ IF Fenced(w, "DELETE")
     THEN job' = Finished("DELETE", "DONE") /\ object' = Erased
     ELSE UNCHANGED <<job, object>>
  /\ UNCHANGED <<uploader, file, store, faults>>

FinishErasure(w) ==
  /\ At(w, "RETENTION", "finish")
  /\ Rest(w)
  /\ job' = IF Fenced(w, "RETENTION") THEN Finished("RETENTION", "DONE") ELSE job
  /\ UNCHANGED <<uploader, file, object, store, faults>>

\* The failure of a retention asks for the token only, not for the lease.
FailErasure(w) ==
  /\ At(w, "RETENTION", "failing")
  /\ Rest(w)
  /\ job' = IF ~Owns(w, "RETENTION") THEN job
            ELSE Finished("RETENTION",
                   IF job["RETENTION"].attempts >= MaxAttempts THEN "DEAD_LETTER" ELSE "PENDING")
  /\ UNCHANGED <<uploader, file, object, store, faults>>

-----------------------------------------------------------------------------
(* Staff, crashes and time.                                                *)

\* A scan or deletion that needs review is repeated.
StaffRetry(k) ==
  /\ job[k].state = "REVIEW"
  /\ Fault
  /\ job' = [job EXCEPT ![k] = [NoJob EXCEPT !.state = "RETRY"]]
  /\ UNCHANGED <<uploader, file, object, worker, store>>

\* communityAdmin: retryDeletion.
RetryErasure ==
  /\ job["RETENTION"].state = "DEAD_LETTER"
  /\ Fault
  /\ job' = [job EXCEPT !["RETENTION"] = NewJob]
  /\ UNCHANGED <<uploader, file, object, worker, store>>

WorkerDies(w) ==
  /\ worker[w] # Idle
  /\ Fault
  /\ Rest(w)
  /\ UNCHANGED <<uploader, file, object, job, store>>

Working(k) == \E w \in Workers : job[k].token = w /\ worker[w].task = k /\ worker[w] # Idle

\* A worker outlives its lease.
Stall(k) ==
  /\ job[k].state = "RUNNING" /\ job[k].lease = "live"
  /\ Working(k)
  /\ Fault
  /\ job' = [job EXCEPT ![k].lease = "lapsed"]
  /\ UNCHANGED <<uploader, file, object, worker, store>>

\* The lease of a worker that is gone runs out.
RunOut(k) ==
  /\ job[k].state = "RUNNING" /\ job[k].lease = "live"
  /\ ~Working(k)
  /\ job' = [job EXCEPT ![k].lease = "lapsed"]
  /\ UNCHANGED <<uploader, file, object, worker, store, faults>>

-----------------------------------------------------------------------------

Init ==
  /\ uploader = "start"
  /\ file = [scan |-> "NONE", held |-> FALSE]
  /\ object = [state |-> "NONE", write |-> "NONE"]
  /\ job = [k \in Kinds |-> NoJob]
  /\ worker = [w \in Workers |-> Idle]
  /\ store = "absent"
  /\ faults = 0

Work(w) ==
  \/ ScanBegin(w) \/ ScanSkip(w) \/ Judge(w) \/ ScanFails(w) \/ ScanSave(w)
  \/ DeleteIntent(w) \/ Erase(w) \/ MarkDeleted(w) \/ FinishDelete(w)
  \/ FinishErasure(w) \/ FailErasure(w)
  \/ \E k \in Operations : Fail(w, k)

ClaimAny(k) ==
  \E w \in Workers : IF k = "RETENTION" THEN ClaimErasure(w) ELSE Claim(w, k)

Next ==
  \/ Upload \/ UploaderDies \/ Arrives
  \/ \E w \in Workers : Work(w) \/ WorkerDies(w)
  \/ \E k \in Kinds : ClaimAny(k) \/ Stall(k) \/ RunOut(k)
  \/ \E k \in Operations : Exhaust(k) \/ StaffRetry(k)
  \/ ChangeHold \/ Plan \/ RetryErasure

\* The cron jobs come back, their invocations and the upload run to their end,
\* leases run out.
Fairness ==
  /\ WF_vars(Upload)
  /\ \A w \in Workers : WF_vars(Work(w))
  /\ \A k \in Kinds : WF_vars(ClaimAny(k)) /\ WF_vars(RunOut(k))
  /\ \A k \in Operations : WF_vars(Exhaust(k))

Spec == Init /\ [][Next]_vars /\ Fairness

-----------------------------------------------------------------------------
(* Properties.                                                             *)

\* Types; an operations job is attempted MaxAttempts times at most between two
\* decisions of staff (claimOperationsBatch).
TypeOK ==
  /\ uploader \in UploadStages
  /\ file \in Files
  /\ object \in Objects
  /\ job \in [Kinds -> Jobs]
  /\ \A k \in Operations : job[k].attempts <= MaxAttempts
  /\ worker \in [Workers -> Tasks \cup {Idle}]
  /\ store \in {"absent", "coming", "present"}
  /\ faults \in 0..MaxFaults

\* An erasure that is reported as done is done: no bytes are left, and none can
\* arrive from a write that was interrupted, whoever reported it
\* (deletePrivateBytes refuses a write that is not known to have ended).
ErasedMeansGone ==
  \/ object.state = "DELETED"
  \/ job["DELETE"].state = "DONE"
  \/ job["RETENTION"].state = "DONE"
  => store = "absent"

\* A held file keeps its bytes and its manifest, even when its erasure was planned
\* before the hold was placed (runCollaborationRetention looks at the holds again
\* where it commits; communityAdmin refuses a hold after that).
HeldIsKept ==
  file.held /\ object.write = "STORED" =>
    store = "present" /\ object.state \notin Deletion

\* A verdict stands in the manifest only when the scan that found it has finished
\* its job, and a finished job leaves no object without a verdict: a scan that lost
\* its lease to another publishes nothing (runScan, finishOperation).
ScanAccounted ==
  /\ object.state \in Verdicts => job["SCAN"].state = "DONE"
  /\ object.state \in Unscanned => job["SCAN"].state # "DONE"

\* A scan ends with its job done or before staff, and so does a committed erasure,
\* through the retention or through the DELETE job it leaves behind.
JobsEnd ==
  /\ job["SCAN"].state # "NONE" ~> job["SCAN"].state \in {"DONE", "REVIEW"}
  /\ Committed ~>
       \/ job["RETENTION"].state = "DONE"
       \/ /\ job["RETENTION"].state = "DEAD_LETTER"
          /\ job["DELETE"].state \in {"NONE", "DONE", "REVIEW"}

=============================================================================
