---------------------------- MODULE CentralJobs ----------------------------
(***************************************************************************)
(* The central server's processing jobs of ONE investigation session:      *)
(* api/processing.py and the lifecycle half of services/workflow.py.       *)
(*                                                                         *)
(* Every request is a PostgreSQL transaction (READ COMMITTED) that locks   *)
(* the row of its job, the row of the session, or the job first and then   *)
(* the session.  A request that keeps the session locked while it works,   *)
(* or that works without locking it, takes several steps here; one that    *)
(* locks, works and commits at one go is one step.  An uncommitted change  *)
(* is seen by its own request only.                                        *)
(*                                                                         *)
(* `def' endpoints run on threads; upload_original_audio is `async def'    *)
(* and waits for the session lock ON the event loop.  The locks of a       *)
(* request that is answered without a commit are released by the teardown  *)
(* of get_db, which the event loop starts.                                 *)
(***************************************************************************)
EXTENDS Naturals, Sequences

CONSTANTS
    Jobs,        \* the jobs that may be requested
    NoJob,       \* the event loop waits for no job's request
    Recordings,  \* interview recordings of the session
    NoRecording,
    Keys,        \* idempotency keys in results
    NoKey        \* no result stored

ASSUME NamesAssumption ==
    /\ NoJob \notin Jobs /\ "none" \notin Jobs /\ "client" \notin Jobs
    /\ NoRecording \notin Recordings /\ NoKey \notin Keys

----------------------------------------------------------------------------
ActiveJobs  == {"REQUESTED", "ACCEPTED", "PROCESSING"}
Finished    == {"COMPLETED", "FAILED", "CANCELLED"}
JobStatus   == {"NONE"} \cup ActiveJobs \cup Finished      \* NONE: not requested
SessionStatus == {"DRAFT", "RECORDING", "PROCESSING", "COMPLETED", "FAILED", "ARCHIVED"}
Reviewing   == {"AWAITING_REVIEW", "REVIEWED"}
Closed      == {"CLOSED", "ARCHIVED"}
Workflow    == {"DRAFT", "IN_PROGRESS"} \cup Reviewing \cup Closed

\* What a request knows: the job status and key it will write, the session
\* status it loaded and the one it computed.
Request == [at: {"none", "ending", "computed", "storing", "upload", "reading", "answered"},
            to: JobStatus, key: Keys \cup {NoKey},
            loaded: SessionStatus, now: SessionStatus]
NoRequest == [at |-> "none", to |-> "NONE", key |-> NoKey, loaded |-> "DRAFT", now |-> "DRAFT"]

VARIABLES
    job,        \* [Jobs -> JobStatus]: LocalProcessingJob.status
    recording,  \* [Jobs -> Recordings]: its recording
    created,    \* the jobs in the order of their creation
    result,     \* [Jobs -> Keys]: key of the stored transcript
    audio,      \* the recordings whose original audio is stored
    status,     \* InvestigationSession.status
    workflow,   \* InvestigationSession.workflow_state
    request,    \* [Jobs -> Request]: the request that holds the job's row lock
    holder,     \* the session's row lock: "none", "client" or a job's request
    loop        \* the job whose upload blocks the event loop, or NoJob

jobs    == <<job, recording, created, result, audio>>
session == <<status, workflow>>
locks   == <<request, holder, loop>>
vars    == <<jobs, session, locks>>

HoldsSession(r) == r.at \in {"storing", "reading", "answered"}

\* Types; and a request that works under the session lock is its holder.
TypeOK ==
    /\ job \in [Jobs -> JobStatus]
    /\ recording \in [Jobs -> Recordings \cup {NoRecording}]
    /\ created \in Seq(Jobs)
    /\ result \in [Jobs -> Keys \cup {NoKey}]
    /\ audio \subseteq Recordings
    /\ status \in SessionStatus /\ workflow \in Workflow
    /\ request \in [Jobs -> Request]
    /\ holder \in {"none", "client"} \cup Jobs
    /\ loop \in Jobs \cup {NoJob}
    /\ \A j \in Jobs : HoldsSession(request[j]) => holder = j
    /\ \A j \in Jobs : loop = j => request[j].at = "upload"

Init ==
    /\ job = [j \in Jobs |-> "NONE"] /\ recording = [j \in Jobs |-> NoRecording]
    /\ created = <<>> /\ result = [j \in Jobs |-> NoKey] /\ audio = {}
    /\ status = "DRAFT" /\ workflow = "DRAFT"
    /\ request = [j \in Jobs |-> NoRequest] /\ holder = "none" /\ loop = NoJob

----------------------------------------------------------------------------
(* services/workflow.py over a table of job statuses *)

SomeActiveUnlessProcessing(table) == \E j \in Jobs : table[j] \in {"REQUESTED", "ACCEPTED"}

SomeActive(table) == \E j \in Jobs : table[j] \in ActiveJobs

Later(j, k) ==   \* k was created after j for the same recording
    /\ recording[k] = recording[j]
    /\ \E m, n \in DOMAIN created : m < n /\ created[m] = j /\ created[n] = k

\* unresolved_processing_failures: of the jobs of a recording that failed or
\* completed the latest one failed.
UnresolvedFailure(table) ==
    \E j \in Jobs :
        /\ table[j] = "FAILED"
        /\ \A k \in Jobs : Later(j, k) => table[k] \notin {"FAILED", "COMPLETED"}

\* _sync_processing_status
Summary(table) ==
    IF SomeActive(table) THEN "PROCESSING"
    ELSE IF UnresolvedFailure(table) THEN "FAILED"
    ELSE IF \E j \in Jobs : table[j] = "COMPLETED" THEN "COMPLETED"
    ELSE "RECORDING"

\* evidence_changed (its guard is Open)
Open == workflow \notin Closed
EvidenceChanged == workflow' = IF workflow \in Reviewing THEN "IN_PROGRESS" ELSE workflow

Free(j) == request[j].at = "none"
SessionFree == holder = "none"
Done(j) == request' = [request EXCEPT ![j] = NoRequest]

----------------------------------------------------------------------------
(* create_processing_token: a new recording or a retry *)

NotInUseUnlessAccepted(r) ==
    \A j \in Jobs : recording[j] = r => job[j] \notin {"ACCEPTED", "PROCESSING"}

NotInUse(r) == \A j \in Jobs : recording[j] = r => job[j] \notin ActiveJobs

StartsWorkQuietly == UNCHANGED workflow
StartsWork == workflow' = "IN_PROGRESS"

CreateToken(j, r) ==
    /\ SessionFree /\ Open /\ status # "ARCHIVED" /\ NotInUse(r)
    /\ job[j] = "NONE"
    /\ job' = [job EXCEPT ![j] = "REQUESTED"]
    /\ recording' = [recording EXCEPT ![j] = r]
    /\ created' = Append(created, j)
    /\ status' = "PROCESSING" /\ StartsWork
    /\ UNCHANGED <<result, audio, locks>>

----------------------------------------------------------------------------
(* report_job_state and cancel_job_by_user.  Terminal jobs do not regress: *)
(* a request for one changes nothing.                                      *)

Report(j, to) ==
    /\ Free(j) /\ job[j] \in ActiveJobs
    /\ job' = [job EXCEPT ![j] = to]
    /\ UNCHANGED <<recording, created, result, audio, session, locks>>

\* FAILED or CANCELLED, by the agent or the user: the job is locked, the
\* session is loaded without a lock.
EndableOrLate(j) == job[j] \in ActiveJobs \cup {"FAILED", "COMPLETED"}

Endable(j) == job[j] \in ActiveJobs

BeginEnd(j, to) ==
    /\ Free(j) /\ Endable(j)
    /\ request' = [request EXCEPT ![j] =
           [at |-> "ending", to |-> to, key |-> NoKey, loaded |-> status, now |-> status]]
    /\ UNCHANGED <<jobs, session, holder, loop>>

\* Only a session loaded as PROCESSING is recomputed, from what is committed.
ComputeEnd(j) ==
    LET r == request[j] IN
    /\ r.at = "ending"
    /\ request' = [request EXCEPT ![j] =
           [at |-> "computed", to |-> r.to, key |-> r.key, loaded |-> r.loaded,
            now |-> IF r.loaded = "PROCESSING" THEN Summary([job EXCEPT ![j] = r.to])
                                               ELSE r.now]]
    /\ UNCHANGED <<jobs, session, holder, loop>>

\* The session row is written only if the request changed what it had loaded.
CommitEnd(j) ==
    LET r == request[j] IN
    /\ r.at = "computed"
    /\ \/ r.now = r.loaded /\ UNCHANGED status
       \/ r.now # r.loaded /\ SessionFree /\ status' = r.now
    /\ job' = [job EXCEPT ![j] = r.to]
    /\ Done(j)
    /\ UNCHANGED <<recording, created, result, audio, workflow, holder, loop>>

----------------------------------------------------------------------------
(* submit_result: the job is locked, then the session *)

AcceptableTwice(j) == job[j] # "CANCELLED" /\ Open
AcceptableAlways(j) == result[j] = NoKey /\ job[j] # "CANCELLED"

Acceptable(j) == result[j] = NoKey /\ Open /\ job[j] # "CANCELLED"

BeginResult(j, key) ==
    /\ Free(j) /\ SessionFree /\ job[j] # "NONE" /\ Acceptable(j)
    /\ holder' = j
    /\ request' = [request EXCEPT ![j] =
           [at |-> "storing", to |-> "COMPLETED", key |-> key, loaded |-> status,
            now |-> Summary([job EXCEPT ![j] = "COMPLETED"])]]
    /\ UNCHANGED <<jobs, session, loop>>

\* A duplicate, a second result, a closed investigation, a cancelled job or a
\* hash other than the stored audio's: answered, nothing committed.
RefuseResult(j) ==
    /\ Free(j) /\ SessionFree /\ job[j] # "NONE"
    /\ ~Acceptable(j) \/ recording[j] \in audio
    /\ holder' = j
    /\ request' = [request EXCEPT ![j].at = "answered"]
    /\ UNCHANGED <<jobs, session, loop>>

CommitResult(j) ==
    /\ request[j].at = "storing"
    /\ job' = [job EXCEPT ![j] = "COMPLETED"]
    /\ result' = [result EXCEPT ![j] = request[j].key]
    /\ status' = request[j].now /\ EvidenceChanged
    /\ holder' = "none" /\ Done(j)
    /\ UNCHANGED <<recording, created, audio, loop>>

----------------------------------------------------------------------------
(* upload_original_audio, on the event loop, and the teardown of requests  *)

BeginUpload(j) ==
    /\ Free(j) /\ job[j] # "NONE" /\ recording[j] \notin audio
    /\ request' = [request EXCEPT ![j] = [NoRequest EXCEPT !.at = "upload"]]
    /\ UNCHANGED <<jobs, session, holder, loop>>

LockForUploadAtOnce(j) ==
    /\ request[j].at = "upload" /\ loop \in {NoJob, j}
    /\ holder' = j /\ loop' = NoJob
    /\ request' = [request EXCEPT ![j].at = IF Open THEN "reading" ELSE "answered"]
    /\ UNCHANGED <<jobs, session>>

\* The session is locked; the file is read while the event loop goes on.
LockForUpload(j) ==
    /\ request[j].at = "upload" /\ loop \in {NoJob, j} /\ SessionFree
    /\ holder' = j /\ loop' = NoJob
    /\ request' = [request EXCEPT ![j].at = IF Open THEN "reading" ELSE "answered"]
    /\ UNCHANGED <<jobs, session>>

\* Somebody else holds the session: the whole event loop waits.
BlockLoop(j) ==
    /\ request[j].at = "upload" /\ loop = NoJob /\ ~SessionFree
    /\ loop' = j
    /\ UNCHANGED <<jobs, session, request, holder>>

FinishUpload(j) ==
    /\ request[j].at = "reading" /\ loop = NoJob
    /\ audio' = audio \cup {recording[j]}
    /\ EvidenceChanged
    /\ holder' = "none" /\ Done(j)
    /\ UNCHANGED <<job, recording, created, result, status, loop>>

\* Malformed audio, or not the announced hash.
RejectUpload(j) ==
    /\ request[j].at = "reading" /\ loop = NoJob
    /\ request' = [request EXCEPT ![j].at = "answered"]
    /\ UNCHANGED <<jobs, session, holder, loop>>

Teardown(j) ==
    /\ request[j].at = "answered" /\ loop = NoJob
    /\ holder' = "none" /\ Done(j)
    /\ UNCHANGED <<jobs, session, loop>>

----------------------------------------------------------------------------
(* update_workflow and reopen_html, which lock the session.  The report's  *)
(* own conditions are the report's business: here they may hold or not.    *)

Transitions ==
    [DRAFT           |-> {"IN_PROGRESS", "ARCHIVED"},
     IN_PROGRESS     |-> {"AWAITING_REVIEW", "ARCHIVED"},
     AWAITING_REVIEW |-> {"IN_PROGRESS", "REVIEWED"},
     REVIEWED        |-> {"IN_PROGRESS", "CLOSED"},
     CLOSED          |-> {"IN_PROGRESS", "ARCHIVED"},
     ARCHIVED        |-> {"IN_PROGRESS"}]

\* evidence_blockers is empty
EvidenceComplete ==
    /\ ~SomeActive(job) /\ ~UnresolvedFailure(job)
    /\ \A j \in Jobs : recording[j] # NoRecording => recording[j] \in audio

EnterWorkflowKeepingStatus(target) ==
    /\ workflow' = target
    /\ status' = IF target = "ARCHIVED" THEN "ARCHIVED" ELSE status

EnterWorkflow(target) ==
    /\ workflow' = target
    /\ status' = IF target = "ARCHIVED" THEN "ARCHIVED"
                 ELSE IF workflow = "ARCHIVED" THEN "DRAFT" ELSE status

Transition(target) ==
    /\ SessionFree /\ target \in Transitions[workflow]
    /\ target \in {"AWAITING_REVIEW", "REVIEWED", "CLOSED"} => EvidenceComplete
    /\ target = "ARCHIVED" => ~SomeActive(job)
    /\ EnterWorkflow(target)
    /\ UNCHANGED <<jobs, locks>>

\* The issued report is reopened, whatever the state of the workflow.
ReopenReport ==
    /\ SessionFree
    /\ EnterWorkflow("IN_PROGRESS")
    /\ UNCHANGED <<jobs, locks>>

\* A refused request of a client (a stale revision, an invalid transition, a
\* recording in use) keeps the session locked until its teardown.
RefuseClient ==
    /\ SessionFree /\ holder' = "client"
    /\ UNCHANGED <<jobs, session, request, loop>>

TeardownClient ==
    /\ holder = "client" /\ loop = NoJob /\ holder' = "none"
    /\ UNCHANGED <<jobs, session, request, loop>>

----------------------------------------------------------------------------
Agent(j) ==
    \/ \E to \in {"ACCEPTED", "PROCESSING"} : Report(j, to)
    \/ \E key \in Keys : BeginResult(j, key)
    \/ RefuseResult(j) \/ BeginUpload(j)
End(j) == \E to \in {"FAILED", "CANCELLED"} : BeginEnd(j, to)
Client ==
    \/ \E j \in Jobs, r \in Recordings : CreateToken(j, r)
    \/ \E target \in Workflow : Transition(target)
    \/ ReopenReport \/ RefuseClient
\* Steps of requests under way.
Threads(j) == ComputeEnd(j) \/ CommitEnd(j) \/ CommitResult(j)
EventLoop(j) ==
    LockForUpload(j) \/ BlockLoop(j) \/ FinishUpload(j) \/ RejectUpload(j) \/ Teardown(j)

Next ==
    \/ Client \/ TeardownClient
    \/ \E j \in Jobs : Agent(j) \/ End(j) \/ Threads(j) \/ EventLoop(j)

Spec == Init /\ [][Next]_vars

----------------------------------------------------------------------------
(* Safety *)

\* While an investigation is under review or closed nothing is in progress, no
\* failure is unresolved and all audio is stored; an archived one has no job in
\* progress.  Requests that lock the session, the job only, or nothing of the
\* session cannot break this in any order (workflow.py:82-101).
EvidenceSettled ==
    /\ workflow \in Reviewing \cup {"CLOSED"} => EvidenceComplete
    /\ workflow = "ARCHIVED" => ~SomeActive(job)

\* The transcript of a job is stored exactly if the job is COMPLETED: a late
\* cancellation or failure report never discards one (processing.py:337-339,
\* 242-243) and a cancelled job never gets one (403-404).
ResultIffCompleted ==
    \A j \in Jobs : job[j] = "COMPLETED" <=> result[j] # NoKey

\* A recording is never processed by two jobs at once (processing.py:149-151).
OneActivePerRecording ==
    \A j, k \in Jobs :
        j # k /\ job[j] \in ActiveJobs /\ job[k] \in ActiveJobs => recording[j] # recording[k]

\* The unlocked write of session.status by a cancellation or a failure report
\* never overwrites ARCHIVED, nor does ARCHIVED outlive the workflow state.
ArchivedStatus == status = "ARCHIVED" <=> workflow = "ARCHIVED"

\* A stored transcript is never replaced, however often and under whatever key
\* the agent submits, and COMPLETED and CANCELLED jobs stay so (processing.py:338).
OutcomesAreFinal ==
    [][\A j \in Jobs :
        /\ result[j] # NoKey => result'[j] = result[j]
        /\ job[j] \in {"COMPLETED", "CANCELLED"} => job'[j] = job[j]
        /\ job[j] = "FAILED" => job'[j] \in {"FAILED", "COMPLETED"}]_vars

\* New evidence ends a review and never reaches a closed or archived
\* investigation, although a result or an upload may have started long before.
EvidenceOnlyWhileOpen ==
    [][result' # result \/ audio' # audio
        => workflow \notin Closed /\ workflow' \notin Reviewing \cup Closed]_vars

----------------------------------------------------------------------------
(* What the repository says and the code does not do *)

\* docs/troubleshooting.md:18: a session stuck in processing is freed by
\* cancelling its jobs.  With nobody at work and no active job it is not.
NotStuckInProcessing ==
    (\A j \in Jobs : Free(j)) /\ status = "PROCESSING" => SomeActive(job)

\* processing.py:388: requests "serialize" on the session row, they take turns.
\* An upload that waits for its turn on the event loop must not wait for a
\* request that cannot finish without the event loop.
LoopNeverWaitsForItself ==
    \/ loop = NoJob \/ holder = "none"
    \/ \E j \in Jobs : holder = j /\ request[j].at = "storing"
=============================================================================
