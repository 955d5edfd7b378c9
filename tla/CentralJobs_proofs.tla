------------------------- MODULE CentralJobs_proofs -------------------------
(***************************************************************************)
(* Proofs about the central server's processing jobs, for any sets of      *)
(* jobs, recordings and keys.                                              *)
(*                                                                         *)
(* The safety invariants hold together: what an uncommitted request may    *)
(* write (RequestsSound) depends on the row locks it holds, and a request  *)
(* that ends a job writes session.status without the session's lock, which *)
(* is harmless only because an archived investigation has no active job.   *)
(***************************************************************************)
EXTENDS CentralJobs, TLAPS

\* What a request under way knows stays true until it commits, because it holds
\* the row lock of its job, or that of the session.
RequestSound(j) ==
    LET r == request[j] IN
    /\ r.at # "none" => job[j] # "NONE"
    /\ r.at \in {"ending", "computed"} =>
        /\ job[j] \in ActiveJobs /\ r.to \in {"FAILED", "CANCELLED"}
        /\ r.now = r.loaded \/ r.now # "ARCHIVED"
    /\ r.at = "storing" =>
        /\ job[j] \notin {"COMPLETED", "CANCELLED"}
        /\ r.key \in Keys /\ r.now # "ARCHIVED"
    /\ r.at \in {"storing", "reading"} => Open

RequestsSound == \A j \in Jobs : RequestSound(j)

\* A job that was requested has a recording.
JobsHaveRecordings == \A j \in Jobs : job[j] # "NONE" => recording[j] \in Recordings

Sound == /\ ResultIffCompleted /\ OneActivePerRecording
         /\ EvidenceSettled /\ ArchivedStatus /\ JobsHaveRecordings

Inv == TypeOK /\ RequestsSound /\ Sound

----------------------------------------------------------------------------
(* Types and the initial state *)

\* The derived status of a session is a status, and never ARCHIVED.
LEMMA SummaryType == \A table : Summary(table) \in SessionStatus \ {"ARCHIVED"}
BY DEF Summary, SessionStatus

\* Names of the job statuses.
LEMMA Statuses ==
    /\ ActiveJobs \subseteq JobStatus \ (Finished \cup {"NONE"})
    /\ Finished \subseteq JobStatus /\ "NONE" \in JobStatus \ Finished
    /\ Finished = {"COMPLETED", "FAILED", "CANCELLED"}
BY DEF ActiveJobs, Finished, JobStatus

\* No request, and the requests that begin, have the type of a request.
LEMMA RequestType ==
    /\ NoRequest \in Request /\ NoRequest.at = "none"
    /\ \A r \in Request, a \in {"answered", "reading"} :
        [r EXCEPT !.at = a] \in Request /\ [r EXCEPT !.at = a].at = a
    /\ [NoRequest EXCEPT !.at = "upload"] \in Request
    /\ [NoRequest EXCEPT !.at = "upload"].at = "upload"
BY DEF Request, NoRequest, JobStatus, SessionStatus

\* At first nothing is requested and nobody holds a lock.
LEMMA InvInit == Init => Inv
<1> SUFFICES ASSUME Init PROVE Inv
    OBVIOUS
<1>1. TypeOK
    BY RequestType, Statuses, NamesAssumption
       DEF Init, TypeOK, SessionStatus, Workflow, HoldsSession
<1>2. RequestsSound
    BY RequestType DEF Init, RequestsSound, RequestSound
<1>3. Sound
    BY Statuses DEF Init, Sound, ResultIffCompleted, OneActivePerRecording,
       EvidenceSettled, ArchivedStatus, JobsHaveRecordings, Reviewing
<1>4. QED
    BY <1>1, <1>2, <1>3 DEF Inv

\* Steps that commit nothing cannot break what is said of the committed rows.
LEMMA NothingCommitted == ASSUME Sound, UNCHANGED <<jobs, session>> PROVE Sound'
BY DEF Sound, jobs, session, ResultIffCompleted, OneActivePerRecording, EvidenceSettled,
   EvidenceComplete, SomeActive, UnresolvedFailure, Later, ArchivedStatus, JobsHaveRecordings

----------------------------------------------------------------------------
(* Commits *)

\* While a job is active the investigation is neither under review nor closed.
LEMMA ActiveKeepsOpen ==
    ASSUME EvidenceSettled, SomeActive(job)
    PROVE  workflow \notin Reviewing \cup Closed
BY DEF EvidenceSettled, EvidenceComplete, Closed

\* A new recording or retry.
LEMMA CreateTokenInv ==
    ASSUME Inv, NEW j \in Jobs, NEW r \in Recordings, CreateToken(j, r) PROVE Inv'
<1> USE DEF Inv
<1>1. TypeOK'
    <2>1. created' \in Seq(Jobs) /\ recording' \in [Jobs -> Recordings \cup {NoRecording}]
        BY DEF CreateToken, TypeOK
    <2>2. job' \in [Jobs -> JobStatus]
        BY DEF CreateToken, TypeOK, JobStatus, ActiveJobs
    <2>3. QED
        BY <2>1, <2>2 DEF CreateToken, StartsWork, TypeOK, locks, SessionStatus, Workflow
<1>2. job'[j] = "REQUESTED" /\ \A k \in Jobs \ {j} : job'[k] = job[k]
    BY DEF CreateToken, TypeOK
<1>3. recording'[j] = r /\ \A k \in Jobs \ {j} : recording'[k] = recording[k]
    BY DEF CreateToken, TypeOK
<1>4. RequestsSound'
    <2>1. \A k \in Jobs : request'[k] = request[k] /\ request[k].at \notin {"storing", "reading"}
        BY NamesAssumption DEF CreateToken, SessionFree, TypeOK, HoldsSession, locks
    <2>2. request[j].at = "none"
        BY DEF CreateToken, RequestsSound, RequestSound
    <2>3. QED
        BY <1>2, <2>1, <2>2 DEF RequestsSound, RequestSound
<1>5. Sound'
    <2>1. ResultIffCompleted'
        BY <1>2 DEF CreateToken, Sound, ResultIffCompleted
    <2>2. OneActivePerRecording'
        BY <1>2, <1>3 DEF CreateToken, NotInUse, Sound, OneActivePerRecording
    <2>3. EvidenceSettled' /\ ArchivedStatus'
        BY DEF CreateToken, StartsWork, EvidenceSettled, ArchivedStatus, Reviewing
    <2>4. JobsHaveRecordings'
        BY <1>2, <1>3 DEF Sound, JobsHaveRecordings
    <2>5. QED
        BY <2>1, <2>2, <2>3, <2>4 DEF Sound
<1>6. QED
    BY <1>1, <1>4, <1>5

\* Progress of an active job.
LEMMA ReportInv ==
    ASSUME Inv, NEW j \in Jobs, NEW to \in {"ACCEPTED", "PROCESSING"}, Report(j, to)
    PROVE  Inv'
<1> USE DEF Inv
<1>1. /\ to \in ActiveJobs /\ to \in JobStatus \ {"NONE", "COMPLETED"}
      /\ job[j] \in ActiveJobs /\ job[j] # "COMPLETED" /\ job[j] # "NONE"
    BY Statuses DEF Report, ActiveJobs
<1>2. job'[j] = to /\ \A k \in Jobs \ {j} : job'[k] = job[k]
    BY DEF Report, TypeOK
<1>3. UNCHANGED <<recording, created, result, audio, session, locks>>
    BY DEF Report
<1>4. TypeOK'
    BY <1>1, <1>3 DEF Report, TypeOK, session, locks
<1>5. RequestsSound'
    BY <1>2, <1>3 DEF Report, Free, RequestsSound, RequestSound, session, locks, Open
<1>6. Sound'
    <2>1. ResultIffCompleted' /\ JobsHaveRecordings' /\ ArchivedStatus'
        BY <1>1, <1>2, <1>3 DEF Sound, ResultIffCompleted, JobsHaveRecordings,
           ArchivedStatus, session
    <2>2. OneActivePerRecording'
        BY <1>1, <1>2, <1>3 DEF Sound, OneActivePerRecording
    <2>3. EvidenceSettled'
        <3>1. workflow \notin Reviewing \cup Closed
            BY <1>1, ActiveKeepsOpen DEF Sound, SomeActive
        <3>2. QED
            BY <1>3, <3>1 DEF EvidenceSettled, Closed, session
    <2>4. QED
        BY <2>1, <2>2, <2>3 DEF Sound
<1>7. QED
    BY <1>4, <1>5, <1>6

\* A failure or cancellation commits.
LEMMA CommitEndInv ==
    ASSUME Inv, NEW j \in Jobs, CommitEnd(j) PROVE Inv'
<1> USE DEF Inv
<1> DEFINE r == request[j]
<1>1. /\ job[j] \in ActiveJobs /\ job[j] # "COMPLETED" /\ job[j] # "NONE"
      /\ r.to \in {"FAILED", "CANCELLED"} /\ r.to \in JobStatus /\ r.to \notin ActiveJobs
      /\ r.now \in SessionStatus
      /\ r.now = r.loaded \/ r.now # "ARCHIVED"
    BY Statuses DEF CommitEnd, RequestsSound, RequestSound, TypeOK, Request
<1>2. job'[j] = r.to /\ \A k \in Jobs \ {j} : job'[k] = job[k]
    BY DEF CommitEnd, TypeOK
<1>3. /\ UNCHANGED <<recording, created, result, audio, workflow, holder, loop>>
      /\ status' = status \/ (status' = r.now /\ r.now # "ARCHIVED")
    BY <1>1 DEF CommitEnd
<1>4. /\ request' \in [Jobs -> Request] /\ request'[j].at = "none"
      /\ \A k \in Jobs \ {j} : request'[k] = request[k]
    BY RequestType DEF CommitEnd, Done, TypeOK
<1>5. workflow \notin Reviewing \cup Closed
    BY <1>1, ActiveKeepsOpen DEF Sound, SomeActive
<1>6. TypeOK'
    <2>1. job' \in [Jobs -> JobStatus]
        BY <1>1 DEF CommitEnd, TypeOK
    <2>2. status' \in SessionStatus
        BY <1>1, <1>3 DEF TypeOK
    <2>3. \A k \in Jobs : /\ HoldsSession(request'[k]) => holder' = k
                          /\ loop' = k => request'[k].at = "upload"
        BY <1>3, <1>4 DEF TypeOK, HoldsSession, CommitEnd
    <2>4. QED
        BY <1>3, <1>4, <2>1, <2>2, <2>3 DEF TypeOK
<1>7. RequestsSound'
    BY <1>2, <1>3, <1>4 DEF RequestsSound, RequestSound, Open
<1>8. Sound'
    <2>1. ResultIffCompleted' /\ JobsHaveRecordings'
        BY <1>1, <1>2, <1>3 DEF Sound, ResultIffCompleted, JobsHaveRecordings
    <2>2. OneActivePerRecording'
        BY <1>1, <1>2, <1>3 DEF Sound, OneActivePerRecording
    <2>3. EvidenceSettled' /\ ArchivedStatus'
        BY <1>3, <1>5 DEF Sound, EvidenceSettled, ArchivedStatus, Closed
    <2>4. QED
        BY <2>1, <2>2, <2>3 DEF Sound
<1>9. QED
    BY <1>6, <1>7, <1>8

\* New evidence leaves the investigation open and not under review.
LEMMA EvidenceOpens ==
    ASSUME TypeOK, Open, EvidenceChanged
    PROVE  workflow' \in Workflow \ (Reviewing \cup Closed)
BY DEF EvidenceChanged, TypeOK, Open, Workflow, Reviewing, Closed

\* When the holder of the session lets go of it, nobody else works under it.
LEMMA Release ==
    ASSUME TypeOK, NEW j \in Jobs, HoldsSession(request[j]), holder' = "none", Done(j),
           UNCHANGED loop
    PROVE  /\ request' \in [Jobs -> Request] /\ request'[j].at = "none"
           /\ \A k \in Jobs \ {j} : /\ request'[k] = request[k]
                                    /\ request[k].at \notin {"storing", "reading"}
           /\ \A k \in Jobs : /\ ~HoldsSession(request'[k])
                              /\ loop' = k => request'[k].at = "upload"
BY RequestType DEF Done, TypeOK, HoldsSession

\* A result commits.
LEMMA CommitResultInv ==
    ASSUME Inv, NEW j \in Jobs, CommitResult(j) PROVE Inv'
<1> USE DEF Inv
<1>1. /\ job[j] \notin {"COMPLETED", "CANCELLED", "NONE"} /\ Open
      /\ request[j].key \in Keys /\ request[j].key # NoKey
      /\ request[j].now \in SessionStatus \ {"ARCHIVED"}
    BY NamesAssumption
       DEF CommitResult, RequestsSound, RequestSound, TypeOK, Request
<1>2. job'[j] = "COMPLETED" /\ \A k \in Jobs \ {j} : job'[k] = job[k]
    BY DEF CommitResult, TypeOK
<1>3. result'[j] # NoKey /\ \A k \in Jobs \ {j} : result'[k] = result[k]
    BY <1>1 DEF CommitResult, TypeOK
<1>4. workflow' \in Workflow \ (Reviewing \cup Closed)
    BY <1>1, EvidenceOpens DEF CommitResult
<1>5. /\ request' \in [Jobs -> Request] /\ request'[j].at = "none"
      /\ \A k \in Jobs \ {j} : /\ request'[k] = request[k]
                               /\ request[k].at \notin {"storing", "reading"}
      /\ \A k \in Jobs : /\ ~HoldsSession(request'[k])
                         /\ loop' = k => request'[k].at = "upload"
    BY Release DEF CommitResult, HoldsSession
<1>6. TypeOK'
    <2>1. job' \in [Jobs -> JobStatus] /\ result' \in [Jobs -> Keys \cup {NoKey}]
        BY <1>1, Statuses DEF CommitResult, TypeOK
    <2>2. QED
        BY <1>1, <1>4, <1>5, <2>1 DEF CommitResult, TypeOK, HoldsSession
<1>7. RequestsSound'
    BY <1>2, <1>5 DEF RequestsSound, RequestSound
<1>8. Sound'
    <2>1. ResultIffCompleted' /\ JobsHaveRecordings'
        BY <1>1, <1>2, <1>3 DEF CommitResult, Sound, ResultIffCompleted, JobsHaveRecordings
    <2>2. OneActivePerRecording'
        BY <1>2, Statuses DEF CommitResult, Sound, OneActivePerRecording, Finished
    <2>3. EvidenceSettled' /\ ArchivedStatus'
        BY <1>1, <1>4 DEF CommitResult, EvidenceSettled, ArchivedStatus, Closed
    <2>4. QED
        BY <2>1, <2>2, <2>3 DEF Sound
<1>9. QED
    BY <1>6, <1>7, <1>8

\* An upload commits.
LEMMA FinishUploadInv ==
    ASSUME Inv, NEW j \in Jobs, FinishUpload(j) PROVE Inv'
<1> USE DEF Inv
<1>1. job[j] # "NONE" /\ Open /\ recording[j] \in Recordings
    BY DEF FinishUpload, RequestsSound, RequestSound, Sound, JobsHaveRecordings
<1>2. UNCHANGED <<job, recording, created, result, status, loop>>
    BY DEF FinishUpload
<1>3. workflow' \in Workflow \ (Reviewing \cup Closed)
    BY <1>1, EvidenceOpens DEF FinishUpload
<1>4. /\ request' \in [Jobs -> Request] /\ request'[j].at = "none"
      /\ \A k \in Jobs \ {j} : /\ request'[k] = request[k]
                               /\ request[k].at \notin {"storing", "reading"}
      /\ \A k \in Jobs : /\ ~HoldsSession(request'[k])
                         /\ loop' = k => request'[k].at = "upload"
    BY Release DEF FinishUpload, HoldsSession
<1>5. TypeOK'
    BY <1>1, <1>2, <1>3, <1>4 DEF FinishUpload, TypeOK, HoldsSession
<1>6. RequestsSound'
    BY <1>2, <1>4 DEF RequestsSound, RequestSound
<1>7. Sound'
    <2>1. ResultIffCompleted' /\ OneActivePerRecording' /\ JobsHaveRecordings'
        BY <1>2 DEF Sound, ResultIffCompleted, OneActivePerRecording, JobsHaveRecordings
    <2>2. EvidenceSettled' /\ ArchivedStatus'
        BY <1>1, <1>2, <1>3 DEF Open, Sound, EvidenceSettled, ArchivedStatus, Closed
    <2>3. QED
        BY <2>1, <2>2 DEF Sound
<1>8. QED
    BY <1>5, <1>6, <1>7

\* The workflow changes: by its gates, or because the report is reopened.
LEMMA EnterWorkflowInv ==
    ASSUME Inv, NEW target \in Workflow, SessionFree, EnterWorkflow(target),
           target \in Reviewing \cup {"CLOSED"} => EvidenceComplete,
           target = "ARCHIVED" => ~SomeActive(job),
           UNCHANGED <<jobs, locks>>
    PROVE  Inv'
<1> USE DEF Inv
<1>1. workflow' = target /\ UNCHANGED <<job, recording, created, result, audio, request, holder, loop>>
    BY DEF EnterWorkflow, jobs, locks
<1>2. status' = "ARCHIVED" <=> target = "ARCHIVED"
    BY DEF EnterWorkflow, Sound, ArchivedStatus
<1>3. TypeOK'
    BY <1>1 DEF EnterWorkflow, TypeOK, SessionStatus
<1>4. RequestsSound'
    <2>1. \A k \in Jobs : request[k].at \notin {"storing", "reading"}
        BY NamesAssumption DEF TypeOK, SessionFree, HoldsSession
    <2>2. QED
        BY <1>1, <2>1 DEF RequestsSound, RequestSound
<1>5. Sound'
    <2>1. ResultIffCompleted' /\ OneActivePerRecording' /\ JobsHaveRecordings'
        BY <1>1 DEF Sound, ResultIffCompleted, OneActivePerRecording, JobsHaveRecordings
    <2>2. EvidenceComplete' = EvidenceComplete /\ SomeActive(job)' = SomeActive(job)
        BY <1>1 DEF EvidenceComplete, SomeActive, UnresolvedFailure, Later
    <2>3. EvidenceSettled' /\ ArchivedStatus'
        BY <1>1, <1>2, <2>2 DEF EvidenceSettled, ArchivedStatus
    <2>4. QED
        BY <2>1, <2>3 DEF Sound
<1>6. QED
    BY <1>3, <1>4, <1>5

----------------------------------------------------------------------------
(* Steps that commit nothing *)

\* A request goes on: nothing is committed, and the locks stay where requests
\* need them.
LEMMA GoesOn ==
    ASSUME Inv, UNCHANGED <<jobs, session>>,
           NEW j \in Jobs, NEW q \in Request, request' = [request EXCEPT ![j] = q],
           q.at \in {"none", "answered", "upload"} \/ RequestSound(j)',
           q.at # "none" => job[j] # "NONE",
           holder' \in {"none", "client"} \cup Jobs, loop' \in Jobs \cup {NoJob},
           \A k \in Jobs \ {j} : HoldsSession(request[k]) => holder' = k,
           HoldsSession(q) => holder' = j,
           \A k \in Jobs \ {j} : loop' = k => request[k].at = "upload",
           loop' = j => q.at = "upload"
    PROVE  Inv'
<1> USE DEF Inv
<1>1. request'[j] = q /\ \A k \in Jobs \ {j} : request'[k] = request[k]
    BY DEF TypeOK
<1>2. TypeOK'
    BY <1>1 DEF TypeOK, HoldsSession, jobs, session
<1>3. RequestsSound'
    <2>1. RequestSound(j)'
        BY <1>1 DEF RequestSound, jobs, session
    <2>2. ASSUME NEW k \in Jobs \ {j} PROVE RequestSound(k)'
        BY <1>1 DEF RequestsSound, RequestSound, Open, jobs, session
    <2>3. QED
        BY <2>1, <2>2 DEF RequestsSound
<1>4. QED
    BY <1>2, <1>3, NothingCommitted

\* The locks change, the requests do not.
LEMMA LocksOnly ==
    ASSUME Inv, UNCHANGED <<jobs, session, request>>,
           holder' \in {"none", "client"} \cup Jobs, loop' \in Jobs \cup {NoJob},
           \A k \in Jobs : HoldsSession(request[k]) => holder' = k,
           \A k \in Jobs : loop' = k => request[k].at = "upload"
    PROVE  Inv'
<1> USE DEF Inv
<1>1. TypeOK'
    BY DEF TypeOK, HoldsSession, jobs, session
<1>2. RequestsSound'
    BY DEF RequestsSound, RequestSound, Open, jobs, session
<1>3. QED
    BY <1>1, <1>2, NothingCommitted

\* A request that ends a job begins, or computes the session's status.
LEMMA EndInv ==
    ASSUME Inv, NEW j \in Jobs, End(j) \/ ComputeEnd(j) PROVE Inv'
<1> USE DEF Inv
<1>1. ASSUME NEW to \in {"FAILED", "CANCELLED"}, BeginEnd(j, to) PROVE Inv'
    <2> DEFINE q == [at |-> "ending", to |-> to, key |-> NoKey, loaded |-> status,
                     now |-> status]
    <2>1. q \in Request
        BY Statuses DEF TypeOK, Request
    <2>2. /\ request' = [request EXCEPT ![j] = q]
          /\ UNCHANGED <<jobs, session>> /\ holder' = holder /\ loop' = loop
        BY <1>1 DEF BeginEnd
    <2>3. job[j] \in ActiveJobs /\ job[j] # "NONE" /\ request[j].at = "none"
        BY <1>1, Statuses DEF BeginEnd, Endable, Free
    <2>4. request'[j] = q
        BY <2>2 DEF TypeOK
    <2>5. RequestSound(j)'
        BY <2>2, <2>3, <2>4 DEF RequestSound, jobs
    <2>6. ~HoldsSession(q) /\ loop # j
        BY <2>3 DEF HoldsSession, TypeOK
    <2>7. /\ holder \in {"none", "client"} \cup Jobs /\ loop \in Jobs \cup {NoJob}
          /\ \A k \in Jobs : /\ HoldsSession(request[k]) => holder = k
                             /\ loop = k => request[k].at = "upload"
        BY DEF TypeOK
    <2> HIDE DEF q
    <2>8. QED
        BY <2>1, <2>2, <2>3, <2>5, <2>6, <2>7, GoesOn
<1>2. CASE ComputeEnd(j)
    <2> DEFINE s == IF request[j].loaded = "PROCESSING"
                    THEN Summary([job EXCEPT ![j] = request[j].to]) ELSE request[j].now
               q == [at |-> "computed", to |-> request[j].to, key |-> request[j].key,
                     loaded |-> request[j].loaded, now |-> s]
    <2>1. s \in SessionStatus /\ (s = request[j].now \/ s # "ARCHIVED")
        BY SummaryType DEF TypeOK, Request
    <2> HIDE DEF s
    <2>2. q \in Request /\ request' = [request EXCEPT ![j] = q] /\ request'[j] = q
        <3>1. request' = [request EXCEPT ![j] = q]
            BY <1>2 DEF ComputeEnd, s
        <3>2. q \in Request
            BY <2>1 DEF TypeOK, Request
        <3> HIDE DEF q
        <3>3. QED
            BY <3>1, <3>2 DEF TypeOK
    <2>3. /\ request[j].at = "ending" /\ job[j] \in ActiveJobs /\ job[j] # "NONE"
          /\ request[j].to \in {"FAILED", "CANCELLED"}
          /\ s = request[j].loaded \/ s # "ARCHIVED"
        BY <1>2, <2>1, Statuses DEF ComputeEnd, RequestsSound, RequestSound
    <2>4. UNCHANGED <<jobs, session>> /\ holder' = holder /\ loop' = loop
        BY <1>2 DEF ComputeEnd
    <2>5. RequestSound(j)'
        BY <2>2, <2>3, <2>4 DEF RequestSound, jobs
    <2>6. ~HoldsSession(q) /\ loop # j
        BY <2>3 DEF HoldsSession, TypeOK
    <2>7. /\ holder \in {"none", "client"} \cup Jobs /\ loop \in Jobs \cup {NoJob}
          /\ \A k \in Jobs : /\ HoldsSession(request[k]) => holder = k
                             /\ loop = k => request[k].at = "upload"
        BY DEF TypeOK
    <2> HIDE DEF q
    <2>8. QED
        BY <2>2, <2>3, <2>4, <2>5, <2>6, <2>7, GoesOn
<1>3. QED
    BY <1>1, <1>2 DEF End

\* The locks as they are, in the form GoesOn and LocksOnly ask for.
LEMMA LocksHeld ==
    ASSUME TypeOK
    PROVE  /\ holder \in {"none", "client"} \cup Jobs /\ loop \in Jobs \cup {NoJob}
           /\ \A k \in Jobs : HoldsSession(request[k]) => holder = k
           /\ \A k \in Jobs : loop = k => request[k].at = "upload"
           /\ SessionFree => \A k \in Jobs : ~HoldsSession(request[k])
BY NamesAssumption DEF TypeOK, SessionFree

\* A result arrives and takes both locks.
LEMMA ResultInv ==
    ASSUME Inv, NEW j \in Jobs, (\E key \in Keys : BeginResult(j, key)) \/ RefuseResult(j)
    PROVE  Inv'
<1> USE DEF Inv
<1>1. /\ UNCHANGED <<jobs, session>> /\ holder' = j /\ loop' = loop
      /\ SessionFree /\ job[j] # "NONE" /\ request[j].at = "none"
    BY DEF BeginResult, RefuseResult, Free
<1>2. loop # j
    BY <1>1 DEF TypeOK
<1>3. ASSUME NEW key \in Keys, BeginResult(j, key) PROVE Inv'
    <2> DEFINE q == [at |-> "storing", to |-> "COMPLETED", key |-> key, loaded |-> status,
                     now |-> Summary([job EXCEPT ![j] = "COMPLETED"])]
    <2>1. q \in Request /\ q.now # "ARCHIVED"
        BY Statuses, SummaryType DEF TypeOK, Request
    <2>2. request' = [request EXCEPT ![j] = q]
        BY <1>3 DEF BeginResult
    <2>3. request'[j] = q
        BY <2>2 DEF TypeOK
    <2>4. job[j] \notin {"COMPLETED", "CANCELLED"} /\ Open
        BY <1>3 DEF BeginResult, Acceptable, Sound, ResultIffCompleted
    <2>5. RequestSound(j)'
        BY <1>1, <2>1, <2>3, <2>4 DEF RequestSound, Open, jobs, session
    <2> HIDE DEF q
    <2>6. QED
        BY <1>1, <1>2, <2>1, <2>2, <2>5, LocksHeld, GoesOn
<1>4. CASE RefuseResult(j)
    <2>1. PICK q \in Request : q.at = "answered" /\ request' = [request EXCEPT ![j] = q]
        BY <1>4, RequestType DEF RefuseResult, TypeOK
    <2>2. QED
        BY <1>1, <1>2, <2>1, LocksHeld, GoesOn
<1>5. QED
    BY <1>3, <1>4

\* An upload waits for the session, blocks the event loop, gets the lock, is refused.
LEMMA UploadInv ==
    ASSUME Inv, NEW j \in Jobs,
           BeginUpload(j) \/ LockForUpload(j) \/ BlockLoop(j) \/ RejectUpload(j)
    PROVE  Inv'
<1> USE DEF Inv
<1>1. CASE BeginUpload(j)
    <2>1. PICK q \in Request : q.at = "upload" /\ request' = [request EXCEPT ![j] = q]
        BY <1>1, RequestType DEF BeginUpload
    <2>2. ~HoldsSession(q)
        BY <2>1 DEF HoldsSession
    <2>3. /\ UNCHANGED <<jobs, session>> /\ holder' = holder /\ loop' = loop
          /\ job[j] # "NONE"
        BY <1>1 DEF BeginUpload
    <2>4. QED
        BY <2>1, <2>2, <2>3, LocksHeld, GoesOn
<1>2. CASE LockForUpload(j)
    <2>1. PICK q \in Request : /\ q.at \in {"reading", "answered"} /\ (q.at = "reading" => Open)
                               /\ request' = [request EXCEPT ![j] = q]
        BY <1>2, RequestType DEF LockForUpload, TypeOK
    <2>2. /\ UNCHANGED <<jobs, session>> /\ holder' = j /\ loop' = NoJob
          /\ SessionFree /\ request[j].at = "upload"
        BY <1>2 DEF LockForUpload
    <2>3. request'[j] = q /\ job[j] # "NONE"
        BY <2>1, <2>2 DEF TypeOK, RequestsSound, RequestSound
    <2>4. RequestSound(j)'
        BY <2>1, <2>2, <2>3 DEF RequestSound, Open, jobs, session
    <2>5. \A k \in Jobs : loop' # k
        BY <2>2, NamesAssumption
    <2>6. QED
        BY <2>1, <2>2, <2>3, <2>4, <2>5, LocksHeld, GoesOn
<1>3. CASE BlockLoop(j)
    BY <1>3, LocksHeld, LocksOnly DEF BlockLoop
<1>4. CASE RejectUpload(j)
    <2>1. PICK q \in Request : q.at = "answered" /\ request' = [request EXCEPT ![j] = q]
        BY <1>4, RequestType DEF RejectUpload, TypeOK
    <2>2. /\ UNCHANGED <<jobs, session>> /\ holder' = holder /\ loop' = loop
          /\ job[j] # "NONE" /\ loop # j /\ holder = j
        BY <1>4, NamesAssumption DEF RejectUpload, RequestsSound, RequestSound, TypeOK,
           HoldsSession
    <2>3. QED
        BY <2>1, <2>2, LocksHeld, GoesOn
<1>5. QED
    BY <1>1, <1>2, <1>3, <1>4

\* The rollback of an answered request, and a client's request that is refused.
LEMMA AnsweredInv ==
    ASSUME Inv, RefuseClient \/ TeardownClient \/ \E j \in Jobs : Teardown(j)
    PROVE  Inv'
<1> USE DEF Inv
<1>1. CASE RefuseClient
    BY <1>1, LocksHeld, LocksOnly DEF RefuseClient
<1>2. CASE TeardownClient
    <2>1. \A k \in Jobs : ~HoldsSession(request[k])
        BY <1>2, NamesAssumption DEF TeardownClient, TypeOK
    <2>2. QED
        BY <1>2, <2>1, LocksHeld, LocksOnly DEF TeardownClient
<1>3. ASSUME NEW j \in Jobs, Teardown(j) PROVE Inv'
    <2>1. /\ UNCHANGED <<jobs, session>> /\ holder' = "none" /\ loop' = loop /\ loop # j
          /\ request' = [request EXCEPT ![j] = NoRequest] /\ NoRequest \in Request
        BY <1>3, RequestType, NamesAssumption DEF Teardown, Done
    <2>2. \A k \in Jobs \ {j} : ~HoldsSession(request[k])
        BY <1>3 DEF Teardown, TypeOK, HoldsSession
    <2>3. QED
        BY <2>1, <2>2, LocksHeld, RequestType, GoesOn DEF HoldsSession
<1>4. QED
    BY <1>1, <1>2, <1>3

----------------------------------------------------------------------------
(* The invariants and the action properties *)

\* Nobody moves.
LEMMA StutterInv == ASSUME Inv, UNCHANGED vars PROVE Inv'
<1>1. UNCHANGED <<jobs, session, request>> /\ holder' = holder /\ loop' = loop
    BY DEF vars, locks
<1>2. QED
    BY <1>1, LocksHeld, LocksOnly DEF Inv

\* Inv is inductive.
LEMMA NextInv == ASSUME Inv, [Next]_vars PROVE Inv'
<1>1. ASSUME NEW j \in Jobs, Agent(j) PROVE Inv'
    BY <1>1, ReportInv, ResultInv, UploadInv DEF Agent
<1>2. ASSUME NEW j \in Jobs, End(j) \/ Threads(j) PROVE Inv'
    BY <1>2, EndInv, CommitEndInv, CommitResultInv DEF Threads
<1>3. ASSUME NEW j \in Jobs, EventLoop(j) PROVE Inv'
    BY <1>3, UploadInv, FinishUploadInv, AnsweredInv DEF EventLoop
<1>4. ASSUME NEW target \in Workflow, Transition(target) PROVE Inv'
    BY <1>4, EnterWorkflowInv DEF Transition, Reviewing
<1>5. CASE ReopenReport
    <2>1. "IN_PROGRESS" \in Workflow \ (Reviewing \cup Closed)
        BY DEF Workflow, Reviewing, Closed
    <2>2. QED
        BY <1>5, <2>1, EnterWorkflowInv DEF ReopenReport, Closed
<1>6. CASE Client \/ TeardownClient
    BY <1>4, <1>5, <1>6, CreateTokenInv, AnsweredInv DEF Client
<1>7. QED
    BY <1>1, <1>2, <1>3, <1>6, StutterInv DEF Next

\* Everything Inv says holds in every reachable state.
LEMMA Invariance == Spec => []Inv
BY InvInit, NextInv, PTL DEF Spec

\* Types, and: a request that works under the session's lock holds it.
THEOREM Typing == Spec => []TypeOK
<1>1. Inv => TypeOK
    BY DEF Inv
<1>2. QED
    BY <1>1, Invariance, PTL

\* An investigation under review or closed has its evidence complete, an archived
\* one has no job in progress: no request that works on an unlocked session
\* (report_job_state, cancel_job_by_user) can undo a gate of `transition'.
THEOREM EvidenceStaysSettled == Spec => []EvidenceSettled
<1>1. Inv => EvidenceSettled
    BY DEF Inv, Sound
<1>2. QED
    BY <1>1, Invariance, PTL

\* A transcript is stored exactly for the COMPLETED jobs, whatever cancellations,
\* failure reports and duplicate results race with each other.
THEOREM TranscriptsMatchJobs == Spec => []ResultIffCompleted
<1>1. Inv => ResultIffCompleted
    BY DEF Inv, Sound
<1>2. QED
    BY <1>1, Invariance, PTL

\* No recording is processed by two jobs at once.
THEOREM RecordingsNotShared == Spec => []OneActivePerRecording
<1>1. Inv => OneActivePerRecording
    BY DEF Inv, Sound
<1>2. QED
    BY <1>1, Invariance, PTL

\* session.status and session.workflow_state agree on ARCHIVED, although ending a
\* job writes the status that was computed from an unlocked read.
THEOREM ArchivedAgrees == Spec => []ArchivedStatus
<1>1. Inv => ArchivedStatus
    BY DEF Inv, Sound
<1>2. QED
    BY <1>1, Invariance, PTL

\* What a step may do to one job: only the commits of its own request, a progress
\* report and its creation touch it.
JobSteps(j) ==
    \/ job'[j] = job[j] /\ result'[j] = result[j]
    \/ job[j] \in ActiveJobs \cup {"NONE"} /\ result'[j] = result[j]
    \/ result[j] = NoKey /\ job[j] \notin {"COMPLETED", "CANCELLED"} /\ job'[j] = "COMPLETED"

\* The steps of the specification are of that kind.
LEMMA OnlyJobSteps == ASSUME Inv, [Next]_vars, NEW k \in Jobs PROVE JobSteps(k)
<1> USE DEF Inv
<1>1. CASE UNCHANGED <<job, result>>
    BY <1>1 DEF JobSteps
<1>2. ASSUME NEW j \in Jobs, NEW r \in Recordings, CreateToken(j, r) PROVE JobSteps(k)
    BY <1>2 DEF CreateToken, TypeOK, JobSteps
<1>3. ASSUME NEW j \in Jobs, NEW to, Report(j, to) PROVE JobSteps(k)
    BY <1>3 DEF Report, TypeOK, JobSteps
<1>4. ASSUME NEW j \in Jobs, CommitEnd(j) PROVE JobSteps(k)
    BY <1>4 DEF CommitEnd, RequestsSound, RequestSound, TypeOK, JobSteps
<1>5. ASSUME NEW j \in Jobs, CommitResult(j) PROVE JobSteps(k)
    BY <1>5 DEF CommitResult, RequestsSound, RequestSound, Sound, ResultIffCompleted,
       TypeOK, JobSteps
<1>6. ASSUME Next, ~\E j \in Jobs : \/ \E r \in Recordings : CreateToken(j, r)
                                    \/ \E to : Report(j, to)
                                    \/ CommitEnd(j) \/ CommitResult(j)
      PROVE  UNCHANGED <<job, result>>
    BY <1>6 DEF Next, Client, Agent, End, Threads, EventLoop, TeardownClient, Transition,
       ReopenReport, RefuseClient, BeginResult, RefuseResult, BeginUpload, BeginEnd,
       ComputeEnd, LockForUpload, BlockLoop, FinishUpload, RejectUpload, Teardown, jobs
<1>7. UNCHANGED vars => UNCHANGED <<job, result>>
    BY DEF vars, jobs
<1>8. QED
    BY <1>1, <1>2, <1>3, <1>4, <1>5, <1>6, <1>7

\* Outcomes are final, however often the agent submits and whoever cancels: a
\* stored transcript is never replaced, COMPLETED and CANCELLED jobs stay so.
THEOREM OutcomesStay == Spec => OutcomesAreFinal
<1>1. ASSUME Inv, [Next]_vars, NEW j \in Jobs
      PROVE  /\ result[j] # NoKey => result'[j] = result[j]
             /\ job[j] \in {"COMPLETED", "CANCELLED"} => job'[j] = job[j]
             /\ job[j] = "FAILED" => job'[j] \in {"FAILED", "COMPLETED"}
    BY <1>1, OnlyJobSteps DEF JobSteps, ActiveJobs
<1>2. Inv /\ [Next]_vars =>
        [\A j \in Jobs :
            /\ result[j] # NoKey => result'[j] = result[j]
            /\ job[j] \in {"COMPLETED", "CANCELLED"} => job'[j] = job[j]
            /\ job[j] = "FAILED" => job'[j] \in {"FAILED", "COMPLETED"}]_vars
    BY <1>1
<1>3. QED
    BY <1>2, Invariance, PTL DEF Spec, OutcomesAreFinal

\* Evidence ends a review and never reaches a closed or archived investigation,
\* although the request that brings it may have begun long before it commits.
THEOREM EvidenceReachesOpenOnly == Spec => EvidenceOnlyWhileOpen
<1> DEFINE A == result' # result \/ audio' # audio
                => workflow \notin Closed /\ workflow' \notin Reviewing \cup Closed
<1>1. ASSUME Inv, NEW j \in Jobs, CommitResult(j) \/ FinishUpload(j) PROVE A
    <2>1. Open /\ EvidenceChanged
        BY <1>1 DEF CommitResult, FinishUpload, Inv, RequestsSound, RequestSound
    <2>2. QED
        BY <1>1, <2>1, EvidenceOpens DEF Open, Inv
<1>2. ASSUME Next, ~\E j \in Jobs : CommitResult(j) \/ FinishUpload(j)
      PROVE  UNCHANGED <<result, audio>>
    BY <1>2 DEF Next, Client, CreateToken, Agent, Report, End, Threads, EventLoop,
       TeardownClient, Transition, ReopenReport, RefuseClient, BeginResult, RefuseResult,
       BeginUpload, BeginEnd, ComputeEnd, CommitEnd, LockForUpload, BlockLoop,
       RejectUpload, Teardown, jobs
<1>3. UNCHANGED vars => UNCHANGED <<result, audio>>
    BY DEF vars, jobs
<1>4. Inv /\ [Next]_vars => [A]_vars
    BY <1>1, <1>2, <1>3
<1>5. QED
    BY <1>4, Invariance, PTL DEF Spec, EvidenceOnlyWhileOpen
=============================================================================
