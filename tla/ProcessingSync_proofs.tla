----------------------- MODULE ProcessingSync_proofs -----------------------
(***************************************************************************)
(* Proofs about the agent and the server together, for any set of jobs,    *)
(* any settings, and any number of restarts, lost, late and repeated       *)
(* calls: the two machines implement Delivery, and never contradict each   *)
(* other.                                                                  *)
(*                                                                         *)
(* Each machine keeps its own invariant (AgentJobs_proofs and              *)
(* CentralJobs_proofs); SyncSound says what the flags in the agent's       *)
(* copies, the calls under way and the requests they became know of the    *)
(* other side.                                                             *)
(***************************************************************************)
EXTENDS ProcessingSync, AgentJobs_proofs

\* What is proved of the server, with this composition's names.
Server == INSTANCE CentralJobs_proofs WITH
    Recordings <- Jobs, NoRecording <- NoKey, Keys <- Jobs

----------------------------------------------------------------------------
(* The steps of the composition are steps of the two machines *)

\* The names of jobs, keys and holders of a lock are distinct.
LEMMA ServerNames ==
    /\ NoJob \notin Jobs /\ "none" \notin Jobs /\ "client" \notin Jobs
    /\ NoKey \notin Jobs /\ NoKey \notin Jobs
BY JobsAssumption, FaultsAssumption, HoldersAssumption

\* The composition and the proofs speak of the same server.
LEMMA SameServer == Central!Next => Server!Next
<1>1. ASSUME NEW j \in Jobs, NEW r, Central!CreateToken(j, r) PROVE Server!CreateToken(j, r)
    BY <1>1
       DEF Central!CreateToken, Server!CreateToken, Central!SessionFree,
           Server!SessionFree, Central!Open, Server!Open, Central!Closed, Server!Closed,
           Central!NotInUse, Server!NotInUse, Central!ActiveJobs, Server!ActiveJobs,
           Central!StartsWork, Server!StartsWork, Central!locks, Server!locks
<1>2. ASSUME NEW j \in Jobs, NEW r, Central!Report(j, r) PROVE Server!Report(j, r)
    BY <1>2
       DEF Central!Report, Server!Report, Central!Free, Server!Free, Central!ActiveJobs,
           Server!ActiveJobs, Central!session, Server!session, Central!locks,
           Server!locks
<1>3. ASSUME NEW j \in Jobs, NEW r, Central!BeginEnd(j, r) PROVE Server!BeginEnd(j, r)
    BY <1>3
       DEF Central!BeginEnd, Server!BeginEnd, Central!Free, Server!Free,
           Central!Endable, Server!Endable, Central!ActiveJobs, Server!ActiveJobs,
           Central!jobs, Server!jobs, Central!session, Server!session
<1>4. ASSUME NEW j \in Jobs, Central!ComputeEnd(j) PROVE Server!ComputeEnd(j)
    BY <1>4
       DEF Central!ComputeEnd, Server!ComputeEnd, Central!Summary, Server!Summary,
           Central!SomeActive, Server!SomeActive, Central!UnresolvedFailure,
           Server!UnresolvedFailure, Central!Later, Server!Later, Central!ActiveJobs,
           Server!ActiveJobs, Central!jobs, Server!jobs, Central!session, Server!session
<1>5. ASSUME NEW j \in Jobs, Central!CommitEnd(j) PROVE Server!CommitEnd(j)
    BY <1>5
       DEF Central!CommitEnd, Server!CommitEnd, Central!SessionFree, Server!SessionFree,
           Central!Done, Server!Done, Central!NoRequest, Server!NoRequest
<1>6. ASSUME NEW j \in Jobs, NEW r, Central!BeginResult(j, r) PROVE Server!BeginResult(j, r)
    BY <1>6
       DEF Central!BeginResult, Server!BeginResult, Central!Free, Server!Free,
           Central!SessionFree, Server!SessionFree, Central!Acceptable,
           Server!Acceptable, Central!Open, Server!Open, Central!Closed, Server!Closed,
           Central!Summary, Server!Summary, Central!SomeActive, Server!SomeActive,
           Central!UnresolvedFailure, Server!UnresolvedFailure, Central!Later,
           Server!Later, Central!ActiveJobs, Server!ActiveJobs, Central!jobs,
           Server!jobs, Central!session, Server!session
<1>7. ASSUME NEW j \in Jobs, Central!RefuseResult(j) PROVE Server!RefuseResult(j)
    BY <1>7
       DEF Central!RefuseResult, Server!RefuseResult, Central!Free, Server!Free,
           Central!SessionFree, Server!SessionFree, Central!Acceptable,
           Server!Acceptable, Central!Open, Server!Open, Central!Closed, Server!Closed,
           Central!jobs, Server!jobs, Central!session, Server!session
<1>8. ASSUME NEW j \in Jobs, Central!CommitResult(j) PROVE Server!CommitResult(j)
    BY <1>8
       DEF Central!CommitResult, Server!CommitResult, Central!EvidenceChanged,
           Server!EvidenceChanged, Central!Reviewing, Server!Reviewing, Central!Done,
           Server!Done, Central!NoRequest, Server!NoRequest
<1>9. ASSUME NEW j \in Jobs, Central!BeginUpload(j) PROVE Server!BeginUpload(j)
    BY <1>9
       DEF Central!BeginUpload, Server!BeginUpload, Central!Free, Server!Free,
           Central!NoRequest, Server!NoRequest, Central!jobs, Server!jobs,
           Central!session, Server!session
<1>10. ASSUME NEW j \in Jobs, Central!LockForUpload(j) PROVE Server!LockForUpload(j)
    BY <1>10
       DEF Central!LockForUpload, Server!LockForUpload, Central!SessionFree,
           Server!SessionFree, Central!Open, Server!Open, Central!Closed, Server!Closed,
           Central!jobs, Server!jobs, Central!session, Server!session
<1>11. ASSUME NEW j \in Jobs, Central!BlockLoop(j) PROVE Server!BlockLoop(j)
    BY <1>11
       DEF Central!BlockLoop, Server!BlockLoop, Central!SessionFree, Server!SessionFree,
           Central!jobs, Server!jobs, Central!session, Server!session
<1>12. ASSUME NEW j \in Jobs, Central!FinishUpload(j) PROVE Server!FinishUpload(j)
    BY <1>12
       DEF Central!FinishUpload, Server!FinishUpload, Central!EvidenceChanged,
           Server!EvidenceChanged, Central!Reviewing, Server!Reviewing, Central!Done,
           Server!Done, Central!NoRequest, Server!NoRequest
<1>13. ASSUME NEW j \in Jobs, Central!RejectUpload(j) PROVE Server!RejectUpload(j)
    BY <1>13
       DEF Central!RejectUpload, Server!RejectUpload, Central!jobs, Server!jobs,
           Central!session, Server!session
<1>14. ASSUME NEW j \in Jobs, Central!Teardown(j) PROVE Server!Teardown(j)
    BY <1>14
       DEF Central!Teardown, Server!Teardown, Central!Done, Server!Done,
           Central!NoRequest, Server!NoRequest, Central!jobs, Server!jobs,
           Central!session, Server!session
<1>15. ASSUME NEW r, Central!Transition(r) PROVE Server!Transition(r)
    BY <1>15
       DEF Central!Transition, Server!Transition, Central!SessionFree,
           Server!SessionFree, Central!Transitions, Server!Transitions,
           Central!EvidenceComplete, Server!EvidenceComplete, Central!SomeActive,
           Server!SomeActive, Central!UnresolvedFailure, Server!UnresolvedFailure,
           Central!Later, Server!Later, Central!ActiveJobs, Server!ActiveJobs,
           Central!EnterWorkflow, Server!EnterWorkflow, Central!jobs, Server!jobs,
           Central!locks, Server!locks
<1>16. Central!ReopenReport => Server!ReopenReport
    BY
       DEF Central!ReopenReport, Server!ReopenReport, Central!SessionFree,
           Server!SessionFree, Central!EnterWorkflow, Server!EnterWorkflow,
           Central!jobs, Server!jobs, Central!locks, Server!locks
<1>17. Central!RefuseClient => Server!RefuseClient
    BY
       DEF Central!RefuseClient, Server!RefuseClient, Central!SessionFree,
           Server!SessionFree, Central!jobs, Server!jobs, Central!session,
           Server!session
<1>18. Central!TeardownClient => Server!TeardownClient
    BY
       DEF Central!TeardownClient, Server!TeardownClient, Central!jobs, Server!jobs,
           Central!session, Server!session
<1>19. QED
    BY <1>1, <1>2, <1>3, <1>4, <1>5, <1>6, <1>7, <1>8, <1>9, <1>10, <1>11, <1>12, <1>13, <1>14, <1>15, <1>16, <1>17, <1>18
       DEF Central!Next, Server!Next, Central!Client, Server!Client, Central!Agent,
           Server!Agent, Central!End, Server!End, Central!Threads, Server!Threads,
           Central!EventLoop, Server!EventLoop, Central!Workflow, Server!Workflow,
           Central!Reviewing, Server!Reviewing, Central!Closed, Server!Closed

\* Every step is a step of the agent, or leaves it alone.
LEMMA AgentSteps == ASSUME [SyncNext]_allVars PROVE [Next]_vars
<1>1. CASE UNCHANGED allVars
    BY <1>1 DEF allVars, agent
<1>2. CASE AgentLocal \/ AgentStops
    BY <1>2 DEF AgentLocal, AgentStops, Next, Receive, Cancel, SyncCall
<1>3. ASSUME NEW reply \in Replies, Return(reply) \/ Fail(reply) PROVE Next
    BY <1>3 DEF Return, Fail, Next, SyncCall
<1>4. ASSUME NEW j \in Jobs, TakeResult(j) \/ AnswerResult(j) \/ TakeUpload(j)
                             \/ AnswerDuplicateUpload(j) \/ Serve(j) \/ TokenExpires(j)
      PROVE  UNCHANGED vars
    BY <1>4 DEF TakeResult, AnswerResult, TakeUpload, AnswerDuplicateUpload, Serve, Compute, EndJob,
       Unlock, Commit, Stored, Lock, TokenExpires, agent
<1>5. CASE Send \/ RefuseExpired \/ Users \/ ServerStops \/ \E r \in reports : ReceiveReport(r)
    BY <1>5 DEF Send, RefuseExpired, Users, ServerStops, ReceiveReport, agent
<1>6. QED
    BY <1>1, <1>2, <1>3, <1>4, <1>5 DEF SyncNext

\* The agent does not report that a job is completed: it hands in the result.
NoneCompleted == \A r \in reports : r.state # "COMPLETED"

\* Reports are never taken back.
LEMMA ReportsGrow ==
    ASSUME Next
    PROVE  reports \subseteq reports' /\ (NoneCompleted => NoneCompleted')
<1>1. ASSUME NEW j, NEW states, Tell(j, states), "COMPLETED" \notin states
      PROVE  reports \subseteq reports' /\ (NoneCompleted => NoneCompleted')
    BY <1>1 DEF Tell, NoneCompleted
<1>2. CASE UNCHANGED reports
    BY <1>2 DEF NoneCompleted
<1>3. ASSUME NEW j \in Jobs, Receive(j) \/ Cancel(j), ~UNCHANGED reports
      PROVE  \E states : Tell(j, states) /\ "COMPLETED" \notin states
    BY <1>3 DEF Receive, AcceptToken, CreateRow, MarkReceiving, Enqueue, Discard, StreamBreaks,
       Cancel, CancelRead, CancelFlag, CancelCheck, CancelLoad, CancelSave, durable
<1>4. ASSUME Work, ~UNCHANGED reports
      PROVE  \E states : Tell(wjob, states) /\ "COMPLETED" \notin states
    <2>1. NextStage \/ StopCancelled \/ StageFails
        BY <1>4 DEF Work, WorkerTake, WorkerStart, WriteResult, EnterOutbox, Complete, WorkerDone,
           durable
    <2>2. "COMPLETED" \notin Stages
        BY DEF Stages
    <2>3. QED
        BY <2>1, <2>2, StageAfterType DEF NextStage, StopCancelled, StageFails
<1>5. ASSUME \/ SyncLocal \/ SyncCall \/ Stop \/ Restart
             \/ \E j \in Jobs : BackoffElapses(j) \/ CleanUp(j) \/ LoseOriginal(j)
      PROVE  UNCHANGED reports
    BY <1>5 DEF SyncLocal, SyncScan, SyncFinish, ForgetToken, BatchDone, SyncSkip, SyncBegin, SyncCall,
       SkipUpload, Submit, Upload, SyncError, Stop, Restart, Start, RecoverJob, BackoffElapses, CleanUp,
       LoseOriginal, durable
<1>6. QED
    BY <1>1, <1>2, <1>3, <1>4, <1>5 DEF Next

\* A recording that was lost does not come back.
LEMMA LossesGrow == ASSUME [Next]_vars PROVE lost \subseteq lost'
BY SkippedUpload
   DEF Next, vars, Receive, AcceptToken, CreateRow, MarkReceiving, Enqueue, Discard, StreamBreaks,
       Cancel, CancelRead, CancelFlag, CancelCheck, CancelLoad, CancelSave, BackoffElapses, CleanUp,
       LoseOriginal, Work, WorkerTake, WorkerStart, NextStage, StopCancelled, StageFails, WriteResult,
       EnterOutbox, Complete, WorkerDone, SyncLocal, SyncScan, SyncFinish, ForgetToken, BatchDone,
       SyncSkip, SyncBegin, Submit, Upload, SyncError, Stop, Restart, Start, RecoverJob, process

\* Every step is a step of the server, or leaves it alone, or replaces its process.
LEMMA ServerSteps ==
    ASSUME [SyncNext]_allVars, reports \subseteq Report, NoneCompleted
    PROVE  Central!Next \/ UNCHANGED server \/ ServerStops
<1>1. CASE UNCHANGED allVars
    BY <1>1 DEF allVars
<1>2. CASE AgentLocal \/ AgentStops \/ Send \/ RefuseExpired
    BY <1>2 DEF AgentLocal, AgentStops, Send, RefuseExpired
<1>3. ASSUME NEW reply \in Replies, Return(reply) \/ Fail(reply) PROVE UNCHANGED server
    BY <1>3 DEF Return, Fail
<1>4. ASSUME NEW j \in Jobs, TakeResult(j) \/ AnswerResult(j) \/ TakeUpload(j)
      PROVE  Central!Next
    BY <1>4 DEF TakeResult, AnswerResult, TakeUpload, Central!Next, Central!Agent
<1>5. ASSUME NEW j \in Jobs, AnswerDuplicateUpload(j) \/ TokenExpires(j)
      PROVE  UNCHANGED server
    BY <1>5 DEF AnswerDuplicateUpload, TokenExpires
<1>6. ASSUME NEW j \in Jobs, Serve(j) PROVE Central!Next
    BY <1>6 DEF Serve, Compute, EndJob, Unlock, Commit, Stored, Lock, Central!Next,
       Central!Threads, Central!EventLoop
<1>7. CASE Users
    BY <1>7 DEF Users, Central!Next, Central!Client, Central!End
<1>8. ASSUME NEW r \in reports, ReceiveReport(r) PROVE Central!Next
    <2>1. r.job \in Jobs /\ r.state # "COMPLETED"
        BY DEF Report, NoneCompleted
    <2>2. Reported(r.state) \in {"ACCEPTED", "PROCESSING", "FAILED", "CANCELLED"}
        BY <2>1 DEF Reported, Terminal
    <2>3. CASE Reported(r.state) \in {"ACCEPTED", "PROCESSING"}
        <3>1. Central!Report(r.job, Reported(r.state))
            BY <1>8, <2>3 DEF ReceiveReport, Terminal
        <3>2. QED
            BY <2>1, <2>3, <3>1 DEF Central!Next, Central!Agent
    <2>4. CASE Reported(r.state) \in {"FAILED", "CANCELLED"}
        <3>1. Central!BeginEnd(r.job, Reported(r.state))
            BY <1>8, <2>4 DEF ReceiveReport, Terminal
        <3>2. QED
            BY <2>1, <2>4, <3>1 DEF Central!Next, Central!End
    <2>5. QED
        BY <2>2, <2>3, <2>4
<1>9. QED
    BY <1>1, <1>2, <1>3, <1>4, <1>5, <1>6, <1>7, <1>8 DEF SyncNext

----------------------------------------------------------------------------
(* The invariant *)

\* What a copy of job j's row says was delivered, the server has, or other hands
\* had taken the recording before.
Truthful(j, row) ==
    (row.resultSent => result[j] # NoKey) /\ (row.audioSent => j \in audio \cup lost)

RowsTruthful(j) ==
    /\ Truthful(j, store[j]) /\ Truthful(j, rrow[j]) /\ Truthful(j, crow[j]) /\ Truthful(j, batch[j])
    /\ wjob = j => Truthful(j, wrow)
    /\ sjob = j => Truthful(j, srow)

\* The syncer goes on only when the server has what the step before handed in, or
\* there is nothing to hand in.
Handed(j) ==
    /\ sjob = j /\ spc \in {"upload", "finish", "forget"} => result[j] # NoKey
    /\ sjob = j /\ spc \in {"finish", "forget"} /\ UploadAudio => j \in audio \cup lost

\* A job's recording and its transcript carry its own name, and the agent knows
\* only jobs the server has created.
Numbered(j) ==
    /\ recording[j] = IF job[j] = "NONE" THEN NoKey ELSE j
    /\ result[j] \in {NoKey, j}
    /\ request[j].at = "storing" => request[j].key = j
    /\ j \in nonces => job[j] # "NONE"

\* Receiver and worker have finished the job.
Concluded(j) == Past(j) /\ store[j].state \in {"COMPLETED", "CANCELLED"}

\* A transcript on its way, however late, is that of a finished job.
ComesFinished(j) ==
    abandoned[[job |-> j, kind |-> "result"]] > 0 \/ request[j].at = "storing" \/ result[j] # NoKey
        => Concluded(j)

\* The server fails a job only on the agent's word.
FailedOnReport(j) ==
    job[j] = "FAILED" \/ (request[j].at \in {"ending", "computed"} /\ request[j].to = "FAILED")
        => Dead(j)

\* The syncer waits for a call it has made; what serves it is a request of its
\* job and kind, and "ok" was answered for something the server has.
CallSound ==
    /\ call # "none" => spc \in {"submit", "upload"}
    /\ call = "served" => \/ spc = "submit" /\ request[sjob].at = "storing"
                          \/ spc = "upload" /\ request[sjob].at \in {"upload", "reading"}
    /\ call = "ok" /\ spc = "submit" => result[sjob] # NoKey
    /\ call = "ok" /\ spc = "upload" => sjob \in audio

\* Each call given up was a fault or a stop of the agent.
NetworkSound ==
    /\ call \in {"none", "sent", "served", "lost", "ok", "rejected"}
    /\ abandoned \in [Calls -> Nat] /\ expired \subseteq Jobs /\ faults \in 0..MaxFaults
    /\ \A c \in Calls : abandoned[c] <= faults + crashes

BothSound(j) == RowsTruthful(j) /\ Handed(j) /\ Numbered(j) /\ ComesFinished(j) /\ FailedOnReport(j)

SyncSound == NetworkSound /\ CallSound /\ NoneCompleted /\ \A j \in Jobs : BothSound(j)

SyncInv == AgentInv /\ RecordingKept /\ Server!Inv /\ SyncSound

----------------------------------------------------------------------------
(* What the agent's steps leave true of the server *)

\* A saved row says of deliveries what the copy said; other rows stay.
LEMMA SaveTruthful ==
    ASSUME TypeOK, NEW j \in Jobs, NEW row \in Row, Save(j, row), Truthful(j, row)
    PROVE  /\ Truthful(j, store'[j]) /\ Truthful(j, Saved(j, row))
           /\ \A k \in Jobs \ {j} : store'[k] = store[k]
<1>1. /\ Saved(j, row).resultSent = row.resultSent
      /\ Saved(j, row).audioSent = row.audioSent
      /\ store'[j] = Saved(j, row)
      /\ \A k \in Jobs \ {j} : store'[k] = store[k]
    BY DEF Saved, Save, Row, TypeOK
<1>2. QED
    BY <1>1 DEF Truthful

\* A row with another state says the same; a blank one says nothing.
LEMMA TruthfulRows ==
    /\ Blank \in Row /\ \A j : Truthful(j, Blank)
    /\ [Blank EXCEPT !.state = "CREATED"] \in Row
    /\ \A j : Truthful(j, [Blank EXCEPT !.state = "CREATED"])
    /\ \A row \in Row, s \in States : /\ [row EXCEPT !.state = s] \in Row
                                     /\ [row EXCEPT !.state = s].resultSent = row.resultSent
                                     /\ [row EXCEPT !.state = s].audioSent = row.audioSent
<1>1. Blank \in Row
    BY BlankRow
<1>2. "CREATED" \in States
    BY DEF States, Active
<1>3. ASSUME NEW row \in Row, NEW s \in States
      PROVE  /\ [row EXCEPT !.state = s] \in Row
             /\ [row EXCEPT !.state = s].resultSent = row.resultSent
             /\ [row EXCEPT !.state = s].audioSent = row.audioSent
    BY <1>3 DEF Row
<1>4. Blank.resultSent = FALSE /\ Blank.audioSent = FALSE
    BY DEF Blank
<1>5. QED
    BY <1>1, <1>2, <1>3, <1>4 DEF Truthful

\* The copies after a step are as truthful as those before.
TruthKept ==
    \A k \in Jobs :
        /\ Truthful(k, store'[k]) /\ Truthful(k, rrow'[k]) /\ Truthful(k, crow'[k])
        /\ Truthful(k, batch'[k])
        /\ wjob' = k => Truthful(k, wrow')
        /\ sjob' = k => Truthful(k, srow')

LEMMA ReceiverTruthful ==
    ASSUME TypeOK, \A k \in Jobs : RowsTruthful(k), NEW j \in Jobs, Receive(j)
    PROVE  TruthKept
<1> USE DEF RowsTruthful, TruthKept
<1>1. CASE AcceptToken(j)
    BY <1>1 DEF AcceptToken, canceller, worker, syncer
<1>2. CASE StreamBreaks(j)
    BY <1>2, TruthfulRows DEF StreamBreaks, EndReceiving, durable, canceller, worker, syncer, TypeOK
<1>3. ASSUME NEW row \in Row, Save(j, row), Truthful(j, row),
             rrow' = [rrow EXCEPT ![j] = Saved(j, row)] \/ rrow' = [rrow EXCEPT ![j] = Blank],
             UNCHANGED <<canceller, wjob, wrow, syncer>>
      PROVE  TruthKept
    <2>1. Truthful(j, rrow'[j]) /\ \A k \in Jobs \ {j} : rrow'[k] = rrow[k]
        BY <1>3, SaveTruthful, TruthfulRows DEF TypeOK
    <2>2. QED
        BY <1>3, <2>1, SaveTruthful DEF canceller, syncer
<1>4. CASE CreateRow(j)
    BY <1>3, <1>4, TruthfulRows DEF CreateRow, worker
<1>5. rrow[j] \in Row /\ {"RECEIVING_AUDIO", "FAILED"} \subseteq States
    BY DEF TypeOK, States, Active, Terminal
<1>9. \A s \in {"RECEIVING_AUDIO", "FAILED"} :
        [rrow[j] EXCEPT !.state = s] \in Row /\ Truthful(j, [rrow[j] EXCEPT !.state = s])
    <2>1. Truthful(j, rrow[j])
        OBVIOUS
    <2>2. QED
        BY <1>5, <2>1, TruthfulRows DEF Truthful
<1>6. CASE MarkReceiving(j)
    BY <1>3, <1>6, <1>9 DEF MarkReceiving, worker
<1>7. CASE Enqueue(j)
    BY <1>3, <1>5, <1>7 DEF Enqueue, EndReceiving
<1>8. CASE Discard(j)
    BY <1>3, <1>8, <1>9 DEF Discard, EndReceiving, worker
<1>10. QED
    BY <1>1, <1>2, <1>4, <1>6, <1>7, <1>8 DEF Receive

LEMMA CancellerTruthful ==
    ASSUME TypeOK, \A k \in Jobs : RowsTruthful(k), NEW j \in Jobs, Cancel(j)
    PROVE  TruthKept
<1> USE DEF RowsTruthful, TruthKept
<1>1. CASE CancelRead(j) \/ CancelCheck(j)
    BY <1>1 DEF CancelRead, CancelCheck, durable, receiver, worker, syncer
<1>2. CASE CancelFlag(j)
    <2>1. /\ [store[j] EXCEPT !.cancel = TRUE].resultSent = store[j].resultSent
          /\ [store[j] EXCEPT !.cancel = TRUE].audioSent = store[j].audioSent
        BY DEF TypeOK, Row
    <2>2. /\ store'[j] = [store[j] EXCEPT !.cancel = TRUE]
          /\ \A k \in Jobs \ {j} : store'[k] = store[k]
        BY <1>2 DEF CancelFlag, TypeOK
    <2>3. \A k \in Jobs : Truthful(k, store'[k])
        BY <2>1, <2>2 DEF Truthful
    <2>4. QED
        BY <1>2, <2>3 DEF CancelFlag, receiver, worker, syncer
<1>3. CASE CancelLoad(j)
    <2>1. crow'[j] = store[j] /\ \A k \in Jobs \ {j} : crow'[k] = crow[k]
        BY <1>3 DEF CancelLoad, TypeOK
    <2>2. QED
        BY <1>3, <2>1 DEF CancelLoad, durable, receiver, worker, syncer
<1>4. CASE CancelSave(j)
    <2>1. crow[j] \in Row /\ "CANCELLED" \in States
        BY DEF TypeOK, States, Terminal
    <2> DEFINE row == [crow[j] EXCEPT !.state = "CANCELLED"]
    <2>5. row \in Row /\ Truthful(j, row)
        BY <2>1, TruthfulRows DEF Truthful
    <2>6. Save(j, row)
        BY <1>4 DEF CancelSave
    <2> HIDE DEF row
    <2>2. \A k \in Jobs : Truthful(k, store'[k])
        BY <2>5, <2>6, SaveTruthful
    <2>3. \A k \in Jobs : Truthful(k, crow'[k])
        BY <1>4, TruthfulRows DEF CancelSave, TypeOK
    <2>4. QED
        BY <1>4, <2>2, <2>3 DEF CancelSave, receiver, worker, syncer
<1>5. QED
    BY <1>1, <1>2, <1>3, <1>4 DEF Cancel

LEMMA WorkerTruthful ==
    ASSUME TypeOK, \A k \in Jobs : RowsTruthful(k), Work
    PROVE  TruthKept
<1> USE DEF RowsTruthful, TruthKept
<1>1. CASE WorkerTake
    BY <1>1 DEF WorkerTake, durable, receiver, canceller, syncer, TypeOK
<1>2. CASE WorkerStart
    BY <1>2 DEF WorkerStart, durable, receiver, canceller, syncer
<1>3. CASE WorkerDone
    BY <1>3, JobsAssumption DEF WorkerDone, durable, receiver, canceller, syncer
<1>4. ASSUME NEW row \in Row, wpc # "idle", WorkerSave(row), Truthful(wjob, wrow) => Truthful(wjob, row),
             UNCHANGED <<receiver, canceller, wjob, syncer>>
      PROVE  TruthKept
    <2>1. PICK j \in Jobs : j = wjob
        BY <1>4 DEF TypeOK
    <2>2. Save(j, row) /\ wrow' = Saved(j, row) /\ Truthful(j, row)
        BY <1>4, <2>1 DEF WorkerSave
    <2>3. QED
        BY <1>4, <2>1, <2>2, SaveTruthful DEF receiver, canceller, syncer
<1>5. wrow \in Row /\ Stages \cup Terminal \subseteq States
    BY DEF TypeOK, States, Active, Running
<1>6. CASE NextStage \/ StopCancelled \/ StageFails \/ Complete
    <2>1. PICK s \in States : WorkerSave([wrow EXCEPT !.state = s])
        BY <1>5, <1>6, StageAfterType DEF NextStage, StopCancelled, StageFails, Complete, Terminal
    <2> DEFINE row == [wrow EXCEPT !.state = s]
    <2>2. row \in Row /\ (Truthful(wjob, wrow) => Truthful(wjob, row))
        BY <1>5, <2>1, TruthfulRows DEF Truthful
    <2>3. wpc # "idle" /\ WorkerSave(row) /\ UNCHANGED <<receiver, canceller, wjob, syncer>>
        BY <1>6, <2>1 DEF NextStage, StopCancelled, StageFails, Complete
    <2> HIDE DEF row
    <2>4. QED
        BY <1>4, <2>2, <2>3
<1>7. CASE WriteResult
    BY <1>4, <1>5, <1>7 DEF WriteResult
<1>8. CASE EnterOutbox
    <2> DEFINE row == [wrow EXCEPT !.state = "SYNCING", !.sync = "WAITING_TO_SYNC"]
    <2>1. row \in Row /\ row.resultSent = wrow.resultSent /\ row.audioSent = wrow.audioSent
        BY <1>5 DEF Row, States, Active, Running, SyncStates, Unsynced
    <2>2. wpc # "idle" /\ WorkerSave(row) /\ UNCHANGED <<receiver, canceller, wjob, syncer>>
        BY <1>8 DEF EnterOutbox
    <2>3. Truthful(wjob, wrow) => Truthful(wjob, row)
        BY <2>1 DEF Truthful
    <2> HIDE DEF row
    <2>4. QED
        BY <1>4, <2>1, <2>2, <2>3
<1>9. QED
    BY <1>1, <1>2, <1>3, <1>6, <1>7, <1>8 DEF Work

\* The syncer's row: truthful, and so is what it goes on to do.
HandingKept ==
    \A k \in Jobs :
        /\ sjob' = k /\ spc' \in {"upload", "finish", "forget"} => result[k] # NoKey
        /\ sjob' = k /\ spc' \in {"finish", "forget"} /\ UploadAudio => k \in audio \cup lost

\* A step of the syncer that saves a row of its job.
LEMMA SyncerSavesTruthful ==
    ASSUME TypeOK, \A k \in Jobs : RowsTruthful(k), NEW j \in Jobs, NEW row \in Row,
           Save(j, row), Truthful(j, row),
           batch' = batch \/ batch' = [batch EXCEPT ![j] = Blank],
           sjob' \in {j, NoJob}, srow' \in {srow, Saved(j, row), Blank},
           srow' = srow => sjob' = sjob,
           UNCHANGED <<receiver, canceller, worker>>
    PROVE  TruthKept
<1>1. Truthful(j, store'[j]) /\ Truthful(j, Saved(j, row)) /\ \A k \in Jobs \ {j} : store'[k] = store[k]
    BY SaveTruthful
<1>2. \A k \in Jobs : Truthful(k, batch'[k])
    BY TruthfulRows DEF TypeOK, RowsTruthful
<1>3. ASSUME NEW k \in Jobs, sjob' = k PROVE Truthful(k, srow')
    BY <1>1, <1>3, TruthfulRows, JobsAssumption DEF RowsTruthful
<1>4. QED
    BY <1>1, <1>2, <1>3 DEF TruthKept, RowsTruthful, receiver, canceller, worker

LEMMA SyncerTruthful ==
    ASSUME AgentInv, \A k \in Jobs : RowsTruthful(k) /\ Handed(k), SyncLocal
    PROVE  TruthKept /\ HandingKept
<1> USE DEF RowsTruthful, Handed
<1>0. TypeOK /\ (\A k \in Jobs : RowsTruthful(k)) /\ NoJob \notin Jobs
    BY JobsAssumption DEF AgentInv
<1>1. CASE SyncScan
    <2>1. \A k \in Jobs : batch'[k] = Blank \/ batch'[k] = store[k]
        BY <1>1 DEF SyncScan
    <2>2. TruthKept
        BY <1>0, <1>1, <2>1, TruthfulRows
           DEF SyncScan, durable, receiver, canceller, worker, TruthKept
    <2>3. QED
        BY <1>1, <2>2 DEF SyncScan, HandingKept
<1>2. CASE BatchDone
    BY <1>2 DEF BatchDone, durable, receiver, canceller, worker, TruthKept, HandingKept
<1>3. ASSUME NEW j \in Jobs, SyncSkip(j) PROVE TruthKept /\ HandingKept
    <2>1. \A k \in Jobs : batch'[k] = Blank \/ batch'[k] = batch[k]
        BY <1>0, <1>3 DEF SyncSkip, TypeOK
    <2>2. QED
        BY <1>0, <1>3, <2>1, TruthfulRows
           DEF SyncSkip, durable, receiver, canceller, worker, TruthKept, HandingKept
<1>4. CASE ForgetToken
    BY <1>0, <1>4 DEF ForgetToken, receiver, canceller, worker, TruthKept, HandingKept
<1>5. CASE SyncFinish
    <2> DEFINE row == [srow EXCEPT !.sync = "SYNCED", !.due = "now"]
    <2>1. PICK j \in Jobs : j = sjob
        BY <1>0, <1>5 DEF SyncFinish, TypeOK
    <2>2. /\ row \in Row /\ row.resultSent = srow.resultSent /\ row.audioSent = srow.audioSent
        BY <1>0 DEF TypeOK, Row, SyncStates
    <2>3. Truthful(j, row)
        BY <1>0, <2>1, <2>2 DEF Truthful
    <2>4. /\ Save(j, row) /\ spc = "finish" /\ spc' = "forget" /\ srow' = Blank /\ sjob' = sjob
          /\ batch' = batch /\ UNCHANGED <<receiver, canceller, worker>>
        BY <1>5, <2>1 DEF SyncFinish
    <2> HIDE DEF row
    <2>5. TruthKept
        <3>1. srow' = srow => sjob' = sjob
            BY <2>4
        <3>2. sjob' \in {j, NoJob} /\ srow' \in {srow, Saved(j, row), Blank}
            BY <2>1, <2>4
        <3>3. QED
            BY <1>0, <2>2, <2>3, <2>4, <3>1, <3>2, SyncerSavesTruthful
    <2>6. HandingKept
        BY <2>4 DEF HandingKept
    <2>7. QED
        BY <2>5, <2>6
<1>6. ASSUME NEW j \in Jobs, SyncBegin(j) PROVE TruthKept /\ HandingKept
    <2> DEFINE row == [batch[j] EXCEPT !.sync = "SYNCING", !.attempts = OneMore(@)]
    <2>1. /\ j \in tokens /\ batch[j] \in Row /\ sjob = NoJob
        BY <1>6 DEF SyncBegin, Batched, AgentInv, JobsSound, JobSound, Syncing, Owed, Pending, TypeOK
    <2>2. OneMore(batch[j].attempts) \in 0..MaxAttempts
        BY <2>1, SettingsAssumption DEF OneMore, Row
    <2>3. row \in Row /\ row.resultSent = batch[j].resultSent /\ row.audioSent = batch[j].audioSent
        BY <2>1, <2>2 DEF Row, SyncStates, Unsynced
    <2>4. Truthful(j, row)
        BY <1>0, <2>3 DEF Truthful
    <2>5. /\ Save(j, row) /\ batch' = [batch EXCEPT ![j] = Blank] /\ sjob' = j
          /\ srow' = Saved(j, row)
          /\ spc' = IF row.resultSent THEN AfterResult(row) ELSE "submit"
          /\ UNCHANGED <<receiver, canceller, worker>>
        BY <1>6, <2>1 DEF SyncBegin
    <2> HIDE DEF row
    <2>6. TruthKept
        <3>1. srow' = srow => Truthful(j, srow')
            BY <1>0, <2>3, <2>4, <2>5, SaveTruthful
        <3>2. \A k \in Jobs : Truthful(k, batch'[k])
            BY <1>0, <2>5, TruthfulRows DEF TypeOK
        <3>3. QED
            BY <1>0, <2>3, <2>4, <2>5, <3>2, SaveTruthful DEF TruthKept, receiver, canceller, worker
    <2>7. HandingKept
        BY <2>4, <2>5 DEF HandingKept, Truthful, AfterResult
    <2>8. QED
        BY <2>6, <2>7
<1>7. QED
    BY <1>1, <1>2, <1>3, <1>4, <1>5, <1>6 DEF SyncLocal

\* "ok" is believed only where the server has what was handed in.
LEMMA CallsTruthful ==
    ASSUME AgentInv, \A k \in Jobs : RowsTruthful(k) /\ Handed(k),
           NEW reply \in Replies, Submit(reply) \/ Upload(reply),
           reply = "ok" /\ spc = "submit" => result[sjob] # NoKey,
           reply = "ok" /\ spc = "upload" => sjob \in audio
    PROVE  TruthKept /\ HandingKept
<1>0. TypeOK /\ (\A k \in Jobs : RowsTruthful(k)) /\ NoJob \notin Jobs
    BY JobsAssumption DEF AgentInv
<1>1. PICK j \in Jobs : j = sjob
    BY <1>0 DEF Submit, Upload, TypeOK
<1>2. srow \in Row /\ Truthful(j, srow)
    BY <1>0, <1>1 DEF TypeOK, RowsTruthful
<1>3. CASE SyncError(reply)
    <2>1. /\ AfterError(reply) \in Row /\ AfterError(reply).resultSent = srow.resultSent
          /\ AfterError(reply).audioSent = srow.audioSent
        BY <1>2 DEF AfterError, Row, SyncStates, Unsynced
    <2>2. Truthful(j, AfterError(reply))
        BY <1>2, <2>1 DEF Truthful
    <2>3. /\ Save(j, AfterError(reply)) /\ sjob' = NoJob /\ batch' = batch
          /\ UNCHANGED <<receiver, canceller, worker>>
        BY <1>1, <1>3 DEF SyncError
    <2>4. TruthKept
        BY <1>0, <2>1, <2>2, <2>3, SaveTruthful DEF TruthKept, RowsTruthful, receiver, canceller, worker
    <2>5. QED
        BY <1>0, <2>3, <2>4 DEF HandingKept
<1>4. CASE Submit(reply) /\ ~SyncError(reply)
    <2> DEFINE row == [srow EXCEPT !.resultSent = TRUE]
    <2>1. row \in Row /\ row.resultSent /\ row.audioSent = srow.audioSent
        BY <1>2 DEF Row
    <2>2. /\ Save(j, row) /\ srow' = Saved(j, row) /\ sjob' = j /\ batch' = batch
          /\ spc' = AfterResult(srow) /\ reply = "ok" /\ spc = "submit"
          /\ UNCHANGED <<receiver, canceller, worker>>
        BY <1>1, <1>4 DEF Submit
    <2> HIDE DEF row
    <2>3. result[j] # NoKey
        BY <1>1, <2>2
    <2>4. Truthful(j, row)
        BY <1>2, <2>1, <2>3 DEF Truthful
    <2>5. TruthKept
        BY <1>0, <2>1, <2>2, <2>4, SaveTruthful DEF TruthKept, RowsTruthful, receiver, canceller, worker
    <2>6. HandingKept
        BY <1>2, <2>2, <2>3 DEF HandingKept, AfterResult, Truthful
    <2>7. QED
        BY <2>5, <2>6
<1>5. CASE Upload(reply) /\ ~SyncError(reply)
    <2>1. /\ srow' = [srow EXCEPT !.audioSent = TRUE] /\ spc' = "finish" /\ sjob' = j
          /\ reply = "ok" /\ spc = "upload"
          /\ UNCHANGED <<durable, receiver, canceller, worker, batch>>
        BY <1>1, <1>5 DEF Upload
    <2>2. srow'.resultSent = srow.resultSent
        BY <1>2, <2>1 DEF Row
    <2>3. j \in audio /\ result[j] # NoKey
        BY <1>1, <2>1 DEF Handed
    <2>4. QED
        BY <1>0, <1>2, <2>1, <2>2, <2>3
           DEF TruthKept, HandingKept, RowsTruthful, Truthful, durable, receiver, canceller, worker
<1>6. QED
    BY <1>3, <1>4, <1>5

\* An upload is skipped where the recording is gone, which other hands have taken.
LEMMA SkipTruthful ==
    ASSUME AgentInv, RecordingKept, \A k \in Jobs : RowsTruthful(k) /\ Handed(k), SkipUpload
    PROVE  TruthKept /\ HandingKept
<1>0. TypeOK /\ (\A k \in Jobs : RowsTruthful(k)) /\ NoJob \notin Jobs
    BY JobsAssumption DEF AgentInv
<1>1. PICK j \in Jobs : j = sjob
    BY <1>0 DEF SkipUpload, TypeOK
<1>2. /\ srow' = [srow EXCEPT !.audioSent = TRUE] /\ spc' = "finish" /\ sjob' = j /\ spc = "upload"
      /\ UNCHANGED <<durable, receiver, canceller, worker, batch>>
    BY <1>1 DEF SkipUpload
<1>3. j \in lost
    BY <1>1 DEF SkipUpload, RecordingKept, Wanted, There
<1>4. srow'.resultSent = srow.resultSent
    BY <1>0, <1>2 DEF TypeOK, Row
<1>5. result[j] # NoKey
    BY <1>1, <1>2 DEF Handed
<1>6. QED
    BY <1>0, <1>1, <1>2, <1>3, <1>4, <1>5
       DEF TruthKept, HandingKept, RowsTruthful, Truthful, durable, receiver, canceller, worker

\* The agent's other steps, its stop and recovery included.
LEMMA AloneTruthful ==
    ASSUME AgentInv, RecordingKept, \A k \in Jobs : RowsTruthful(k) /\ Handed(k), AgentLocal \/ Stop
    PROVE  TruthKept /\ HandingKept
<1>0. TypeOK /\ (\A k \in Jobs : RowsTruthful(k)) /\ NoJob \notin Jobs
    BY JobsAssumption DEF AgentInv
<1>1. ASSUME TruthKept, UNCHANGED syncer PROVE HandingKept
    BY <1>1 DEF HandingKept, Handed, syncer
<1>2. ASSUME NEW j \in Jobs, Receive(j) PROVE TruthKept /\ HandingKept
    <2>1. UNCHANGED syncer
        BY <1>2 DEF Receive, AcceptToken, CreateRow, MarkReceiving, Enqueue, Discard, StreamBreaks
    <2>2. QED
        BY <1>0, <1>1, <1>2, <2>1, ReceiverTruthful
<1>3. ASSUME NEW j \in Jobs, Cancel(j) PROVE TruthKept /\ HandingKept
    <2>1. UNCHANGED syncer
        BY <1>3 DEF Cancel, CancelRead, CancelFlag, CancelCheck, CancelLoad, CancelSave
    <2>2. QED
        BY <1>0, <1>1, <1>3, <2>1, CancellerTruthful
<1>4. CASE Work
    <2>1. UNCHANGED syncer
        BY <1>4 DEF Work, WorkerTake, WorkerStart, NextStage, StopCancelled, StageFails,
           WriteResult, EnterOutbox, Complete, WorkerDone
    <2>2. QED
        BY <1>0, <1>1, <1>4, <2>1, WorkerTruthful
<1>5. CASE SyncLocal
    BY <1>5, SyncerTruthful
<1>6. CASE Start \/ \E j \in Jobs : CleanUp(j) \/ LoseOriginal(j)
    BY <1>0, <1>6 DEF Start, CleanUp, LoseOriginal, durable, receiver, canceller, worker, syncer,
       TruthKept, HandingKept, RowsTruthful, Handed
<1>7. ASSUME NEW j \in Jobs, BackoffElapses(j) PROVE TruthKept /\ HandingKept
    <2>1. /\ [store[j] EXCEPT !.due = "now"].resultSent = store[j].resultSent
          /\ [store[j] EXCEPT !.due = "now"].audioSent = store[j].audioSent
        BY <1>0 DEF TypeOK, Row
    <2>2. /\ store'[j] = [store[j] EXCEPT !.due = "now"]
          /\ \A k \in Jobs \ {j} : store'[k] = store[k]
        BY <1>0, <1>7 DEF BackoffElapses, TypeOK
    <2>3. \A k \in Jobs : Truthful(k, store'[k])
        BY <1>0, <2>1, <2>2 DEF Truthful, RowsTruthful
    <2>4. QED
        BY <1>0, <1>7, <2>3 DEF BackoffElapses, receiver, canceller, worker, syncer,
           TruthKept, HandingKept, RowsTruthful, Handed
<1>8. ASSUME NEW j \in Jobs, RecoverJob(j) PROVE TruthKept /\ HandingKept
    <2> DEFINE row == [store[j] EXCEPT !.state = "FAILED"]
    <2>1. row \in Row /\ row.resultSent = store[j].resultSent /\ row.audioSent = store[j].audioSent
        BY ZenonT(60), <1>0 DEF TypeOK, Row, States, Terminal
    <2>2. Save(j, row) /\ UNCHANGED <<receiver, canceller, worker, syncer>>
        BY <1>8 DEF RecoverJob
    <2> HIDE DEF row
    <2>3. Truthful(j, row)
        BY <1>0, <2>1 DEF Truthful, RowsTruthful
    <2>4. \A k \in Jobs : Truthful(k, store'[k])
        BY <1>0, <2>1, <2>2, <2>3, SaveTruthful DEF RowsTruthful
    <2>5. QED
        BY <1>0, <2>2, <2>4 DEF receiver, canceller, worker, syncer,
           TruthKept, HandingKept, RowsTruthful, Handed
<1>9. CASE Stop
    BY <1>0, <1>9, TruthfulRows DEF Stop, durable, TruthKept, HandingKept, RowsTruthful
<1>10. CASE SkipUpload
    BY <1>10, SkipTruthful
<1>11. QED
    BY <1>2, <1>3, <1>4, <1>5, <1>6, <1>7, <1>8, <1>9, <1>10 DEF AgentLocal, Receive, Restart

\* What receiver and worker have concluded stays concluded: from then on only a
\* cancellation and the syncer write the row, as CANCELLED or COMPLETED.
LEMMA ConcludedStays ==
    ASSUME AgentInv, [Next]_vars, NEW j \in Jobs, Concluded(j) PROVE Concluded(j)'
<1> DEFINE Good(s) == s \in {"COMPLETED", "CANCELLED"}
<1>0. TypeOK /\ JobSound(j) /\ Past(j) /\ Good(store[j].state)
    BY DEF AgentInv, JobsSound, Concluded
<1>1. ASSUME UNCHANGED <<nonces, rpc, queue, wpc, wjob>>, Good(store'[j].state) PROVE Concluded(j)'
    BY <1>0, <1>1 DEF Concluded, Past, InQueue, Busy
<1>2. CASE UNCHANGED vars
    BY <1>0, <1>1, <1>2 DEF vars, durable, receiver, worker
<1>3. ASSUME NEW k \in Jobs, Receive(k) PROVE Concluded(j)'
    <2>1. k # j
        BY <1>0, <1>3 DEF Receive, AcceptToken, CreateRow, MarkReceiving, Enqueue, Discard,
           StreamBreaks, Past
    <2>2. /\ j \in nonces' /\ rpc'[j] = "idle" /\ UNCHANGED <<wpc, wjob>>
        BY <1>0, <1>3, <2>1 DEF Receive, AcceptToken, CreateRow, MarkReceiving, Enqueue, Discard,
           StreamBreaks, EndReceiving, Past, TypeOK, durable, worker
    <2>3. store'[j] = store[j]
        BY <1>0, <1>3, <2>1 DEF Receive, AcceptToken, CreateRow, MarkReceiving, Enqueue, Discard,
           StreamBreaks, Save, TypeOK, durable
    <2>4. ~InQueue(j)'
        <3>1. CASE queue' = queue
            BY <1>0, <3>1 DEF Past, InQueue
        <3>2. CASE queue' = Append(queue, k)
            BY <1>0, <2>1, <3>2 DEF Past, InQueue, TypeOK
        <3>3. QED
            BY <1>3, <3>1, <3>2 DEF Receive, AcceptToken, CreateRow, MarkReceiving, Enqueue, Discard,
               StreamBreaks, worker
    <2>5. QED
        BY <1>0, <2>2, <2>3, <2>4 DEF Concluded, Past, Busy
<1>4. ASSUME NEW k \in Jobs, Cancel(k) PROVE Concluded(j)'
    <2>1. UNCHANGED <<nonces, rpc, queue, wpc, wjob>>
        BY <1>4 DEF Cancel, CancelRead, CancelFlag, CancelCheck, CancelLoad, CancelSave, durable,
           receiver, worker
    <2>2. CASE CancelRead(k) \/ CancelCheck(k) \/ CancelLoad(k)
        BY <1>0, <1>1, <2>1, <2>2 DEF CancelRead, CancelCheck, CancelLoad, durable
    <2>3. CASE CancelFlag(k)
        <3>1. [store[k] EXCEPT !.cancel = TRUE].state = store[k].state
            BY <1>0 DEF TypeOK, Row
        <3>2. store'[j].state = store[j].state
            BY <1>0, <2>3, <3>1 DEF CancelFlag, TypeOK
        <3>3. QED
            BY <1>0, <1>1, <2>1, <3>2
    <2>4. CASE CancelSave(k)
        <3> DEFINE row == [crow[k] EXCEPT !.state = "CANCELLED"]
        <3>1. row \in Row /\ row.state = "CANCELLED"
            BY ZenonT(60), <1>0 DEF TypeOK, Row, States, Terminal
        <3>2. Save(k, row)
            BY <2>4 DEF CancelSave
        <3> HIDE DEF row
        <3>3. QED
            BY <1>0, <1>1, <2>1, <3>1, <3>2, SavedRow
    <2>5. QED
        BY <1>4, <2>2, <2>3, <2>4 DEF Cancel
<1>5. CASE Work
    <2>1. CASE WorkerTake
        <3>1. PICK k \in Jobs : k = Head(queue)
            BY <1>0, <2>1 DEF WorkerTake, TypeOK
        <3>2. InQueue(k) /\ k # j
            BY <1>0, <2>1, <3>1 DEF WorkerTake, InQueue, Past, TypeOK
        <3>3. ~InQueue(j)'
            BY <1>0, <2>1 DEF WorkerTake, InQueue, Past, TypeOK
        <3>4. (wjob' = wjob /\ wpc' = wpc) \/ wjob' = k
            BY <2>1, <3>1 DEF WorkerTake
        <3>5. QED
            BY <1>0, <2>1, <3>2, <3>3, <3>4 DEF WorkerTake, Concluded, Past, Busy, durable, receiver
    <2>2. CASE WorkerStart \/ WorkerDone
        BY <1>0, <2>2, JobsAssumption
           DEF WorkerStart, WorkerDone, Concluded, Past, Busy, InQueue, durable, receiver
    <2>3. CASE NextStage \/ StopCancelled \/ StageFails \/ WriteResult \/ EnterOutbox \/ Complete
        <3>1. PICK k \in Jobs : k = wjob
            BY <1>0, <2>3 DEF NextStage, StopCancelled, StageFails, WriteResult, EnterOutbox,
               Complete, TypeOK
        <3>2. k # j /\ wjob # j
            BY <1>0, <2>3, <3>1 DEF NextStage, StopCancelled, StageFails, WriteResult, EnterOutbox,
               Complete, Past, Busy
        <3>3. /\ store'[j] = store[j]
              /\ UNCHANGED <<nonces, rpc, queue, wjob>>
            BY <1>0, <2>3, <3>1, <3>2 DEF NextStage, StopCancelled, StageFails, WriteResult, EnterOutbox,
               Complete, WorkerSave, Save, TypeOK, receiver
        <3>4. QED
            BY <1>0, <3>2, <3>3 DEF Concluded, Past, Busy, InQueue
    <2>4. QED
        BY <1>5, <2>1, <2>2, <2>3 DEF Work
<1>6. CASE SyncLocal \/ SyncCall
    <2>1. UNCHANGED <<nonces, rpc, queue, wpc, wjob>>
        BY <1>6 DEF SyncLocal, SyncScan, SyncFinish, ForgetToken, BatchDone, SyncSkip, SyncBegin,
           SyncCall, SkipUpload, Submit, Upload, SyncError, durable, receiver, worker
    <2>2. ASSUME NEW k \in Jobs, NEW row \in Row, Save(k, row), row.state = "COMPLETED"
          PROVE  Good(store'[j].state)
        BY <1>0, <2>2, SavedRow
    <2>3. CASE SyncScan \/ ForgetToken \/ BatchDone \/ \E k \in Jobs : SyncSkip(k)
        BY <1>0, <1>1, <2>1, <2>3 DEF SyncScan, ForgetToken, BatchDone, SyncSkip, durable
    <2>4. ASSUME NEW k \in Jobs, SyncBegin(k) PROVE Good(store'[j].state)
        <3>1. /\ batch[k] \in Row /\ batch[k].state = "COMPLETED" /\ k \in tokens
            BY <2>4 DEF SyncBegin, Batched, AgentInv, JobsSound, JobSound, Syncing, Owed, Pending, TypeOK
        <3> DEFINE row == [batch[k] EXCEPT !.sync = "SYNCING", !.attempts = OneMore(@)]
        <3>2. OneMore(batch[k].attempts) \in 0..MaxAttempts
            BY <3>1, SettingsAssumption DEF OneMore, Row
        <3>3. row \in Row /\ row.state = "COMPLETED"
            BY <3>1, <3>2 DEF Row, SyncStates, Unsynced
        <3>4. Save(k, row)
            BY <2>4, <3>1 DEF SyncBegin
        <3> HIDE DEF row
        <3>5. QED
            BY <2>2, <3>3, <3>4
    <2>5. ASSUME SyncFinish \/ SyncCall, ~UNCHANGED store PROVE Good(store'[j].state)
        <3>1. PICK k \in Jobs : k = sjob
            BY <1>0, <2>5, SkippedUpload DEF SyncFinish, Submit, Upload, TypeOK
        <3>2. srow \in Row /\ srow.state = "COMPLETED"
            BY <1>0, <2>5, <3>1, SkippedUpload DEF SyncFinish, Submit, Upload, AgentInv, JobsSound, JobSound,
               Syncing, Owed, Pending, TypeOK
        <3>3. PICK row \in Row : Save(k, row) /\ row.state = "COMPLETED"
            <4>1. ASSUME NEW reply PROVE AfterError(reply) \in Row /\ AfterError(reply).state = "COMPLETED"
                BY <3>2 DEF AfterError, Row, SyncStates, Unsynced
            <4>2. /\ [srow EXCEPT !.resultSent = TRUE] \in Row
                  /\ [srow EXCEPT !.resultSent = TRUE].state = "COMPLETED"
                  /\ [srow EXCEPT !.sync = "SYNCED", !.due = "now"] \in Row
                  /\ [srow EXCEPT !.sync = "SYNCED", !.due = "now"].state = "COMPLETED"
                BY <3>2 DEF Row, SyncStates
            <4>3. QED
                BY <2>5, <3>1, <4>1, <4>2, SkippedUpload DEF SyncFinish, Submit, Upload, SyncError, durable
        <3>4. QED
            BY <2>2, <3>3
    <2>6. QED
        BY <1>0, <1>1, <1>6, <2>1, <2>3, <2>4, <2>5 DEF SyncLocal
<1>7. CASE Stop
    BY <1>0, <1>7, JobsAssumption DEF Stop, durable, Concluded, Past, InQueue, Busy
<1>8. CASE Restart
    <2>1. store'[j] = store[j]
        BY <1>0, <1>8 DEF Restart, Start, RecoverJob, Save, TypeOK, Active, Running, Stages, durable
    <2>2. QED
        BY <1>0, <1>1, <1>8, <2>1 DEF Restart, Start, RecoverJob, receiver, worker, durable
<1>9. ASSUME NEW k \in Jobs, BackoffElapses(k) \/ CleanUp(k) \/ LoseOriginal(k) PROVE Concluded(j)'
    <2>1. [store[k] EXCEPT !.due = "now"].state = store[k].state
        BY <1>0 DEF TypeOK, Row
    <2>2. store'[j].state = store[j].state
        BY <1>0, <1>9, <2>1 DEF BackoffElapses, CleanUp, LoseOriginal, TypeOK
    <2>3. QED
        BY <1>0, <1>1, <1>9, <2>2 DEF BackoffElapses, CleanUp, LoseOriginal, receiver, worker
<1>10. QED
    BY <1>2, <1>3, <1>4, <1>5, <1>6, <1>7, <1>8, <1>9 DEF Next

----------------------------------------------------------------------------
(* The agent's steps and the calls it makes *)

\* The invariant of a job after a step of the agent.
LEMMA BothAfterAgent ==
    ASSUME SyncInv, [Next]_vars, TruthKept, HandingKept, UNCHANGED server, NEW j \in Jobs,
           j \in nonces' => j \in nonces \/ job[j] # "NONE",
           abandoned'[[job |-> j, kind |-> "result"]] > 0
               => abandoned[[job |-> j, kind |-> "result"]] > 0 \/ sjob = j
    PROVE  BothSound(j)'
<1>0. AgentInv /\ JobSound(j) /\ BothSound(j)
    BY DEF SyncInv, SyncSound, AgentInv, JobsSound
<1>1. UNCHANGED <<job, recording, result, audio, request>> /\ lost \subseteq lost'
    BY LossesGrow DEF server
<1>2. RowsTruthful(j)'
    BY <1>1 DEF TruthKept, RowsTruthful, Truthful
<1>3. Handed(j)'
    BY <1>1 DEF HandingKept, Handed
<1>4. Numbered(j)'
    BY <1>0, <1>1 DEF BothSound, Numbered
<1>5. ComesFinished(j)'
    <2>1. sjob = j => Concluded(j)
        BY <1>0 DEF JobSound, Ended, Syncing, Concluded
    <2>2. Concluded(j) => Concluded(j)'
        BY <1>0, ConcludedStays
    <2>3. QED
        BY <1>0, <1>1, <2>1, <2>2 DEF BothSound, ComesFinished
<1>6. FailedOnReport(j)'
    <2>1. Dead(j) => Dead(j)'
        BY ReportsGrow DEF Dead, vars, durable
    <2>2. QED
        BY <1>0, <1>1, <2>1 DEF BothSound, FailedOnReport
<1>7. QED
    BY <1>2, <1>3, <1>4, <1>5, <1>6 DEF BothSound

\* The two machines' own invariants.
LEMMA MachinesKept ==
    ASSUME SyncInv, [SyncNext]_allVars
    PROVE  AgentInv' /\ RecordingKept' /\ Server!Inv' /\ NoneCompleted'
<1>1. AgentInv /\ RecordingKept /\ Server!Inv /\ NoneCompleted /\ reports \subseteq Report
    BY DEF SyncInv, SyncSound, AgentInv, TypeOK
<1>2. [Next]_vars
    BY AgentSteps
<1>3. AgentInv' /\ RecordingKept'
    BY <1>1, <1>2, AgentInvStep, RecordingStep
<1>4. NoneCompleted'
    BY <1>1, <1>2, ReportsGrow DEF NoneCompleted, vars, durable
<1>5. Central!Next \/ UNCHANGED server \/ ServerStops
    BY <1>1, ServerSteps
<1>6. ASSUME Central!Next PROVE Server!Inv'
    BY <1>1, <1>6, SameServer, ServerNames, Server!NextInv
<1>7. ASSUME UNCHANGED server PROVE Server!Inv'
    <2>1. UNCHANGED Server!vars
        BY <1>7 DEF server, Server!vars, Server!jobs, Server!session, Server!locks
    <2>2. QED
        BY <1>1, <2>1, ServerNames, Server!NextInv
<1>8. ASSUME ServerStops PROVE Server!Inv'
    <2>1. UNCHANGED <<job, recording, created, result, audio, status, workflow>>
        BY <1>8 DEF ServerStops
    <2>2. \A j \in Jobs : request'[j].at = "none"
        BY <1>8 DEF ServerStops, Central!NoRequest
    <2>3. Server!Sound'
        BY <1>1, <2>1, ServerNames, Server!NothingCommitted DEF Server!Inv, Server!jobs, Server!session
    <2>4. Server!RequestsSound'
        BY <2>2 DEF Server!RequestsSound, Server!RequestSound
    <2>5. Server!TypeOK'
        <3>1. Server!NoRequest \in Server!Request
            BY ServerNames, Server!RequestType
        <3>2. Central!NoRequest = Server!NoRequest
            BY DEF Central!NoRequest, Server!NoRequest
        <3>3. request' \in [Jobs -> Server!Request] /\ holder' = "none" /\ loop' = NoJob
            BY <1>8, <3>1, <3>2 DEF ServerStops
        <3>4. QED
            BY <1>1, <2>1, <2>2, <3>3, JobsAssumption DEF Server!Inv, Server!TypeOK, Server!HoldsSession
    <2>6. QED
        BY <2>3, <2>4, <2>5 DEF Server!Inv
<1>9. QED
    BY <1>3, <1>4, <1>5, <1>6, <1>7, <1>8

\* A step of the agent that leaves the network alone.
LEMMA LocalSound == ASSUME SyncInv, AgentLocal PROVE SyncSound'
<1>0. /\ AgentInv /\ RecordingKept /\ NetworkSound /\ CallSound
      /\ \A j \in Jobs : RowsTruthful(j) /\ Handed(j)
    BY DEF SyncInv, SyncSound, BothSound
<1>1. UNCHANGED server /\ UNCHANGED <<call, abandoned, expired, faults>>
    BY DEF AgentLocal, network
<1>2. SyncNext
    BY DEF SyncNext
<1>3. [Next]_vars
    BY <1>2, AgentSteps
<1>4. TruthKept /\ HandingKept
    BY <1>0, AloneTruthful
<1>5. \A j \in Jobs : j \in nonces' => j \in nonces \/ job[j] # "NONE"
    BY DEF AgentLocal, AcceptToken, CreateRow, MarkReceiving, Enqueue, Discard, StreamBreaks,
       Cancel, CancelRead, CancelFlag, CancelCheck, CancelLoad, CancelSave, BackoffElapses, CleanUp,
       LoseOriginal, SkipUpload, Work, WorkerTake, WorkerStart, NextStage, StopCancelled, StageFails, WriteResult, EnterOutbox,
       Complete, WorkerDone, SyncLocal, SyncScan, SyncFinish, ForgetToken, BatchDone, SyncSkip,
       SyncBegin, Restart, Start, RecoverJob, durable
<1>6. \A j \in Jobs : BothSound(j)'
    BY <1>1, <1>3, <1>4, <1>5, BothAfterAgent
<1>7. call # "none" /\ spc \in {"submit", "upload"} => spc' = spc /\ sjob' = sjob
    BY DEF AgentLocal, AcceptToken, CreateRow, MarkReceiving, Enqueue, Discard, StreamBreaks,
       Cancel, CancelRead, CancelFlag, CancelCheck, CancelLoad, CancelSave, BackoffElapses, CleanUp,
       LoseOriginal, SkipUpload, Work, WorkerTake, WorkerStart, NextStage, StopCancelled, StageFails, WriteResult, EnterOutbox,
       Complete, WorkerDone, SyncLocal, SyncScan, SyncFinish, ForgetToken, BatchDone, SyncSkip,
       SyncBegin, Batched, Restart, Start, RecoverJob, syncer
<1>8. CallSound'
    BY <1>0, <1>1, <1>7 DEF CallSound, server
<1>9. crashes' = crashes
    BY DEF AgentLocal, AcceptToken, CreateRow, MarkReceiving, Enqueue, Discard, StreamBreaks,
       Cancel, CancelRead, CancelFlag, CancelCheck, CancelLoad, CancelSave, BackoffElapses, CleanUp,
       LoseOriginal, SkipUpload, Work, WorkerTake, WorkerStart, NextStage, StopCancelled, StageFails, WriteResult, EnterOutbox,
       Complete, WorkerDone, SyncLocal, SyncScan, SyncFinish, ForgetToken, BatchDone, SyncSkip,
       SyncBegin, Restart, Start, RecoverJob, process
<1>10. NetworkSound'
    BY <1>0, <1>1, <1>9 DEF NetworkSound
<1>11. NoneCompleted'
    BY <1>2, MachinesKept
<1>12. QED
    BY <1>6, <1>8, <1>10, <1>11 DEF SyncSound

\* The calls given up: one more, if the call was on its way.
LEMMA GivenUpCalls ==
    ASSUME SyncInv, GiveUp, sjob \in Jobs
    PROVE  /\ abandoned' \in [Calls -> Nat]
           /\ \A c \in Calls : abandoned'[c] <= abandoned[c] + 1
           /\ \A j \in Jobs : abandoned'[[job |-> j, kind |-> "result"]] > 0
                  => abandoned[[job |-> j, kind |-> "result"]] > 0 \/ sjob = j
<1>1. abandoned \in [Calls -> Nat] /\ CurrentCall \in Calls
    BY DEF SyncInv, SyncSound, NetworkSound, Calls, CurrentCall
<1>2. /\ abandoned' \in [Calls -> Nat]
      /\ \A c \in Calls : abandoned'[c] <= abandoned[c] + 1
      /\ \A c \in Calls : abandoned'[c] > 0 => abandoned[c] > 0 \/ c = CurrentCall
    BY <1>1 DEF GiveUp
<1>3. \A j \in Jobs : [job |-> j, kind |-> "result"] \in Calls
    BY DEF Calls
<1>4. \A j : [job |-> j, kind |-> "result"] = CurrentCall => sjob = j
    BY DEF CurrentCall
<1>5. QED
    BY <1>2, <1>3, <1>4

\* The agent stops, and with it the wait for an answer.
LEMMA StopsSound == ASSUME SyncInv, AgentStops PROVE SyncSound'
<1>0. /\ AgentInv /\ RecordingKept /\ NetworkSound /\ CallSound
      /\ \A j \in Jobs : RowsTruthful(j) /\ Handed(j)
    BY DEF SyncInv, SyncSound, BothSound
<1>1. Stop /\ UNCHANGED server /\ UNCHANGED <<expired, faults, nonces>> /\ call' = "none"
    BY DEF AgentStops, Stop, durable
<1>2. SyncNext
    BY DEF SyncNext
<1>3. [Next]_vars
    BY <1>2, AgentSteps
<1>4. TruthKept /\ HandingKept
    BY <1>0, <1>1, AloneTruthful
<1>5. crashes' = crashes + 1 /\ crashes \in Nat /\ faults \in Nat
    BY <1>0, <1>1, SettingsAssumption, FaultsAssumption DEF Stop, AgentInv, TypeOK, NetworkSound
<1>6. CASE call = "sent"
    <2>1. sjob \in Jobs
        BY <1>0, <1>6 DEF CallSound, AgentInv, TypeOK
    <2>2. GiveUp
        BY DEF AgentStops
    <2>3. \A j \in Jobs : BothSound(j)'
        BY <1>1, <1>3, <1>4, <2>1, <2>2, GivenUpCalls, BothAfterAgent
    <2>4. NetworkSound'
        <3>1. abandoned' \in [Calls -> Nat] /\ \A c \in Calls : abandoned'[c] <= abandoned[c] + 1
            BY <2>1, <2>2, GivenUpCalls
        <3>2. QED
            BY <1>0, <1>1, <1>5, <3>1 DEF NetworkSound
    <2>5. QED
        BY <1>1, <1>2, <2>3, <2>4, MachinesKept DEF SyncSound, CallSound
<1>7. CASE call # "sent"
    <2>1. abandoned' = abandoned
        BY <1>7 DEF AgentStops, GiveUp
    <2>2. \A j \in Jobs : BothSound(j)'
        BY <1>1, <1>3, <1>4, <2>1, BothAfterAgent
    <2>3. NetworkSound'
        BY <1>0, <1>1, <1>5, <2>1 DEF NetworkSound
    <2>4. QED
        BY <1>1, <1>2, <2>2, <2>3, MachinesKept DEF SyncSound, CallSound
<1>8. QED
    BY <1>6, <1>7

\* A call ends for the syncer: with the server's answer, or without one.
LEMMA ReturnSound ==
    ASSUME SyncInv, NEW reply \in Replies, Return(reply) \/ Fail(reply) PROVE SyncSound'
<1>0. /\ AgentInv /\ RecordingKept /\ NetworkSound /\ CallSound
      /\ \A j \in Jobs : RowsTruthful(j) /\ Handed(j)
    BY DEF SyncInv, SyncSound, BothSound
<1>1. /\ Submit(reply) \/ Upload(reply)
      /\ UNCHANGED server /\ UNCHANGED expired /\ call' = "none"
    BY DEF Return, Fail
<1>2. SyncNext
    BY DEF SyncNext
<1>3. [Next]_vars
    BY <1>2, AgentSteps
<1>4. nonces' = nonces /\ crashes' = crashes
    BY <1>1 DEF Submit, Upload, SyncError, durable, process
<1>5. sjob \in Jobs /\ spc \in {"submit", "upload"}
    BY <1>0, <1>1 DEF Submit, Upload, AgentInv, TypeOK
<1>6. TruthKept /\ HandingKept
    <2>1. reply = "ok" => call = "ok"
        BY DEF Return, Fail
    <2>2. /\ reply = "ok" /\ spc = "submit" => result[sjob] # NoKey
          /\ reply = "ok" /\ spc = "upload" => sjob \in audio
        BY <1>0, <2>1 DEF CallSound
    <2>3. QED
        BY <1>0, <1>1, <2>2, CallsTruthful
<1>7. crashes \in Nat /\ faults \in Nat
    BY <1>0, SettingsAssumption, FaultsAssumption DEF AgentInv, TypeOK, NetworkSound
<1>8. CASE Return(reply)
    <2>1. UNCHANGED <<abandoned, faults>>
        BY <1>8 DEF Return
    <2>2. \A j \in Jobs : BothSound(j)'
        BY <1>1, <1>3, <1>4, <1>6, <2>1, BothAfterAgent
    <2>3. NetworkSound'
        BY <1>0, <1>1, <1>4, <2>1 DEF NetworkSound
    <2>4. QED
        BY <1>1, <1>2, <2>2, <2>3, MachinesKept DEF SyncSound, CallSound
<1>9. CASE Fail(reply)
    <2>1. /\ GiveUp /\ faults' \in 0..MaxFaults
          /\ faults' \in {faults, faults + 1} /\ (call = "sent" => faults' = faults + 1)
        BY <1>0, <1>9, FaultsAssumption DEF Fail, NetworkSound
    <2>2. /\ abandoned' \in [Calls -> Nat]
          /\ \A c \in Calls : abandoned'[c] <= abandoned[c] + (faults' - faults)
        <3>1. CASE call = "sent"
            BY <1>5, <1>7, <2>1, <3>1, GivenUpCalls
        <3>2. CASE call # "sent"
            BY <1>0, <1>7, <2>1, <3>2 DEF GiveUp, NetworkSound
        <3>3. QED
            BY <3>1, <3>2
    <2>3. \A j \in Jobs : BothSound(j)'
        BY <1>1, <1>3, <1>4, <1>5, <1>6, <2>1, GivenUpCalls, BothAfterAgent
    <2>4. NetworkSound'
        <3>1. ASSUME NEW c \in Calls PROVE abandoned'[c] <= faults' + crashes'
            BY <1>0, <1>4, <1>7, <2>1, <2>2 DEF NetworkSound
        <3>2. QED
            BY <1>0, <1>1, <2>1, <2>2, <3>1 DEF NetworkSound
    <2>5. QED
        BY <1>1, <1>2, <2>3, <2>4, MachinesKept DEF SyncSound, CallSound
<1>10. QED
    BY <1>8, <1>9

----------------------------------------------------------------------------
(* The server's steps *)

\* A transcript of job k is stored, is being stored, or may still come.
Coming(k) ==
    \/ request[k].at = "storing" \/ result[k] # NoKey
    \/ abandoned[[job |-> k, kind |-> "result"]] > 0 \/ sjob = k

\* Job k has failed on the server, or is about to, or was reported as failed.
Failing(k) ==
    \/ job[k] = "FAILED" \/ (request[k].at \in {"ending", "computed"} /\ request[k].to = "FAILED")
    \/ Dead(k)

\* What a step of the server may do to job k and its request.
ServerKeeps(k) ==
    /\ result[k] # NoKey => result'[k] # NoKey
    /\ job[k] # "NONE" => job'[k] # "NONE"
    /\ recording'[k] = IF job'[k] = "NONE" THEN NoKey ELSE k
    /\ result'[k] \in {NoKey, k}
    /\ request'[k].at = "storing" => request'[k].key = k
    /\ request'[k].at = "storing" \/ result'[k] # NoKey => Coming(k)
    /\ job'[k] = "FAILED" \/ (request'[k].at \in {"ending", "computed"} /\ request'[k].to = "FAILED")
           => Failing(k)

\* Then the invariant holds, if it does of the call.
LEMMA AfterServer ==
    ASSUME SyncInv, [SyncNext]_allVars, UNCHANGED agent, audio \subseteq audio',
           \A k \in Jobs : ServerKeeps(k), CallSound',
           call' \in {"none", "sent", "served", "lost", "ok", "rejected"},
           abandoned' \in [Calls -> Nat], \A c \in Calls : abandoned'[c] <= abandoned[c],
           expired' \subseteq Jobs, faults' \in {faults, faults + 1} \cap 0..MaxFaults
    PROVE  SyncSound'
<1>0. AgentInv /\ NetworkSound /\ \A k \in Jobs : JobSound(k) /\ BothSound(k)
    BY DEF SyncInv, SyncSound, AgentInv, JobsSound
<1>1. UNCHANGED vars
    BY DEF agent
<1>2. ASSUME NEW k \in Jobs PROVE BothSound(k)'
    <2>1. RowsTruthful(k)' /\ Handed(k)'
        BY <1>0, <1>1 DEF ServerKeeps, BothSound, RowsTruthful, Truthful, Handed, vars, durable,
           process, receiver, canceller, worker, syncer
    <2>2. Numbered(k)'
        BY <1>0, <1>1 DEF ServerKeeps, BothSound, Numbered, vars, durable
    <2>3. ComesFinished(k)'
        <3>1. Concluded(k) => Concluded(k)'
            BY <1>0, <1>1, ConcludedStays
        <3>2. Coming(k) => Concluded(k)
            BY <1>0 DEF Coming, JobSound, Ended, Syncing, Concluded, BothSound, ComesFinished
        <3>3. [job |-> k, kind |-> "result"] \in Calls
            BY DEF Calls
        <3>4. abandoned'[[job |-> k, kind |-> "result"]] > 0
                 => abandoned[[job |-> k, kind |-> "result"]] > 0
            BY <1>0, <3>3 DEF NetworkSound
        <3>5. QED
            BY <3>1, <3>2, <3>4 DEF ServerKeeps, ComesFinished, Coming
    <2>4. FailedOnReport(k)'
        <3>1. Dead(k)' <=> Dead(k)
            BY <1>1 DEF Dead, vars, durable
        <3>2. QED
            BY <1>0, <3>1 DEF ServerKeeps, Failing, BothSound, FailedOnReport
    <2>5. QED
        BY <2>1, <2>2, <2>3, <2>4 DEF BothSound
<1>3. NetworkSound'
    <2>1. crashes' = crashes /\ crashes \in Nat /\ faults \in Nat
        BY <1>0, <1>1, SettingsAssumption, FaultsAssumption DEF vars, process, AgentInv, TypeOK, NetworkSound
    <2>2. ASSUME NEW c \in Calls PROVE abandoned'[c] <= faults' + crashes'
        BY <1>0, <2>1 DEF NetworkSound
    <2>3. QED
        BY <2>2 DEF NetworkSound
<1>4. QED
    BY <1>2, <1>3, MachinesKept DEF SyncSound

\* Nothing happened to the jobs on the server.
LEMMA ServerIdle ==
    ASSUME SyncInv, UNCHANGED <<job, recording, result>>,
           \A k \in Jobs : request'[k] = request[k] \/ request'[k].at \in {"none", "upload", "reading", "answered"}
    PROVE  \A k \in Jobs : ServerKeeps(k)
BY DEF SyncInv, SyncSound, BothSound, Numbered, ServerKeeps, Coming, Failing

\* A call arrives: the syncer's own, or one given up before.
LEMMA Arrived ==
    ASSUME SyncInv, NEW j \in Jobs, NEW kind \in {"result", "audio"}, NEW next, Arrives(j, kind, next)
    PROVE  /\ abandoned' \in [Calls -> Nat] /\ \A c \in Calls : abandoned'[c] <= abandoned[c]
           /\ \/ /\ call = "sent" /\ call' = next /\ sjob = j
                 /\ spc = IF kind = "result" THEN "submit" ELSE "upload"
              \/ call' = call /\ abandoned[[job |-> j, kind |-> kind]] > 0
<1> DEFINE c == [job |-> j, kind |-> kind]
<1>1. abandoned \in [Calls -> Nat] /\ c \in Calls /\ CallSound
    BY DEF SyncInv, SyncSound, NetworkSound, Calls
<1>2. CurrentCall = c => sjob = j /\ kind = IF spc = "submit" THEN "result" ELSE "audio"
    BY DEF CurrentCall
<1>3. CASE call = "sent" /\ CurrentCall = c /\ call' = next /\ UNCHANGED abandoned
    BY <1>1, <1>2, <1>3 DEF CallSound
<1>4. CASE abandoned[c] > 0 /\ abandoned' = [abandoned EXCEPT ![c] = @ - 1] /\ UNCHANGED call
    <2>1. abandoned' \in [Calls -> Nat] /\ \A d \in Calls : abandoned'[d] <= abandoned[d]
        BY <1>1, <1>4
    <2>2. QED
        BY <1>4, <2>1
<1>5. QED
    BY <1>3, <1>4 DEF Arrives

\* Steps of the network: the call is sent, its token expires or is refused, the
\* audio is there already.
LEMMA NetworkSteps ==
    ASSUME SyncInv,
           Send \/ RefuseExpired \/ (\E j \in Jobs : TokenExpires(j) \/ AnswerDuplicateUpload(j))
    PROVE  SyncSound'
<1>0. CallSound /\ NetworkSound /\ \A k \in Jobs : BothSound(k)
    BY DEF SyncInv, SyncSound
<1>1. UNCHANGED agent /\ UNCHANGED server /\ faults' = faults
    BY DEF Send, RefuseExpired, TokenExpires, AnswerDuplicateUpload
<1>2. SyncNext
    BY DEF SyncNext
<1>3. UNCHANGED <<job, recording, result, request, audio>> /\ UNCHANGED <<spc, sjob>>
    BY <1>1 DEF agent, server, vars, syncer
<1>4. \A k \in Jobs : ServerKeeps(k)
    BY <1>3, ServerIdle
<1>5. expired' \subseteq Jobs
    BY <1>0 DEF NetworkSound, Send, RefuseExpired, TokenExpires, AnswerDuplicateUpload
<1>6. faults' \in {faults, faults + 1} \cap 0..MaxFaults
    BY <1>0, <1>1 DEF NetworkSound
<1>7. ASSUME Send \/ RefuseExpired \/ \E j \in Jobs : TokenExpires(j) PROVE SyncSound'
    <2>1. abandoned' = abandoned /\ call' \in {call, "sent", "rejected"}
        BY <1>7 DEF Send, RefuseExpired, TokenExpires
    <2>2. CallSound'
        BY <1>0, <1>3, <1>7 DEF CallSound, Send, RefuseExpired, TokenExpires
    <2>3. QED
        BY <1>0, <1>1, <1>2, <1>3, <1>4, <1>5, <1>6, <2>1, <2>2, AfterServer DEF NetworkSound
<1>8. ASSUME NEW j \in Jobs, AnswerDuplicateUpload(j) PROVE SyncSound'
    <2>1. /\ abandoned' \in [Calls -> Nat] /\ \A c \in Calls : abandoned'[c] <= abandoned[c]
          /\ \/ call' = "ok" /\ sjob = j /\ spc = "upload"
             \/ call' = call
        BY <1>8, Arrived DEF AnswerDuplicateUpload
    <2>2. j \in audio
        <3>1. recording[j] \in audio /\ audio \subseteq Jobs
            BY <1>8 DEF AnswerDuplicateUpload, SyncInv, Server!Inv, Server!TypeOK
        <3>2. QED
            BY <1>0, <3>1, FaultsAssumption DEF BothSound, Numbered
    <2>3. CallSound'
        BY <1>0, <1>3, <2>1, <2>2 DEF CallSound
    <2>4. QED
        BY <1>0, <1>1, <1>2, <1>3, <1>4, <1>5, <1>6, <2>1, <2>3, AfterServer DEF NetworkSound
<1>9. QED
    BY <1>7, <1>8

\* What the server's own invariant says of job j.
LEMMA ServerFacts ==
    ASSUME SyncInv, NEW j \in Jobs
    PROVE  /\ request \in [Jobs -> Server!Request] /\ job \in [Jobs -> Server!JobStatus]
           /\ recording \in [Jobs -> Jobs \cup {NoKey}] /\ result \in [Jobs -> Jobs \cup {NoKey}]
           /\ audio \subseteq Jobs /\ holder \in {"none", "client"} \cup Jobs
           /\ job[j] = "COMPLETED" <=> result[j] # NoKey
           /\ request[j].at # "none" => job[j] # "NONE"
           /\ request[j].at \in {"ending", "computed"} =>
                  job[j] \in Server!ActiveJobs /\ request[j].to \in {"FAILED", "CANCELLED"}
           /\ request[j].at = "storing" => job[j] \notin {"COMPLETED", "CANCELLED"}
           /\ NoKey # j
BY FaultsAssumption DEF SyncInv, Server!Inv, Server!TypeOK, Server!RequestsSound, Server!RequestSound,
   Server!Sound, Server!ResultIffCompleted

\* The syncer's result, or one given up before, is taken in, or is answered.
LEMMA ResultSound ==
    ASSUME SyncInv, NEW j \in Jobs, TakeResult(j) \/ AnswerResult(j) PROVE SyncSound'
<1>0. CallSound /\ NetworkSound /\ (\A k \in Jobs : BothSound(k)) /\ request \in [Jobs -> Server!Request]
    BY ServerFacts DEF SyncInv, SyncSound
<1>1. UNCHANGED agent /\ UNCHANGED <<expired, faults>>
    BY DEF TakeResult, AnswerResult
<1>2. SyncNext
    BY DEF SyncNext
<1>3. UNCHANGED <<spc, sjob>> /\ UNCHANGED <<job, recording, result, audio>>
    BY <1>1 DEF TakeResult, AnswerResult, Central!BeginResult, Central!RefuseResult, Central!jobs,
       agent, vars, syncer
<1>4. request[j].at = "none"
    BY DEF TakeResult, AnswerResult, Central!BeginResult, Central!RefuseResult, Central!Free
<1>5. call = "served" => sjob # j
    BY <1>0, <1>4 DEF CallSound
<1>6. CASE TakeResult(j)
    <2>1. Central!BeginResult(j, j) /\ Arrives(j, "result", "served")
        BY <1>6 DEF TakeResult
    <2>2. /\ abandoned' \in [Calls -> Nat] /\ \A c \in Calls : abandoned'[c] <= abandoned[c]
          /\ \/ call' = "served" /\ sjob = j /\ spc = "submit"
             \/ call' = call /\ abandoned[[job |-> j, kind |-> "result"]] > 0
        BY <2>1, Arrived
    <2>3. /\ request'[j].at = "storing" /\ request'[j].key = j
          /\ request'[j].to = "COMPLETED"
          /\ \A k \in Jobs \ {j} : request'[k] = request[k]
        BY <1>0, <2>1 DEF Central!BeginResult
    <2>4. ASSUME NEW k \in Jobs PROVE ServerKeeps(k)
        BY <1>0, <1>3, <2>2, <2>3 DEF ServerKeeps, BothSound, Numbered, Coming, Failing
    <2>5. CallSound'
        BY <1>0, <1>3, <1>5, <2>2, <2>3, JobsAssumption DEF CallSound, SyncInv, AgentInv, TypeOK
    <2>6. QED
        BY <1>0, <1>1, <1>2, <1>3, <2>2, <2>4, <2>5, AfterServer DEF NetworkSound
<1>7. CASE AnswerResult(j)
    <2>1. Central!RefuseResult(j) /\ Arrives(j, "result", IF result[j] = j THEN "ok" ELSE "rejected")
        BY <1>7 DEF AnswerResult
    <2>2. /\ abandoned' \in [Calls -> Nat] /\ \A c \in Calls : abandoned'[c] <= abandoned[c]
          /\ \/ /\ call' = IF result[j] = j THEN "ok" ELSE "rejected"
                /\ sjob = j /\ spc = "submit"
             \/ call' = call
        BY <2>1, Arrived
    <2>3. /\ request'[j].at = "answered"
          /\ \A k \in Jobs \ {j} : request'[k] = request[k]
        BY <1>0, <2>1 DEF Central!RefuseResult, Server!Request
    <2>4. \A k \in Jobs : ServerKeeps(k)
        BY <1>3, <2>3, ServerIdle
    <2>5. CallSound'
        BY <1>0, <1>3, <1>5, <2>2, <2>3, JobsAssumption, FaultsAssumption DEF CallSound, SyncInv, AgentInv, TypeOK
    <2>6. QED
        BY <1>0, <1>1, <1>2, <1>3, <2>2, <2>4, <2>5, AfterServer DEF NetworkSound
<1>8. QED
    BY <1>6, <1>7

\* An upload begins.
LEMMA TakeUploadSound ==
    ASSUME SyncInv, NEW j \in Jobs, TakeUpload(j) PROVE SyncSound'
<1>0. CallSound /\ NetworkSound /\ (\A k \in Jobs : BothSound(k)) /\ request \in [Jobs -> Server!Request]
    BY ServerFacts DEF SyncInv, SyncSound
<1>1. UNCHANGED agent /\ UNCHANGED <<expired, faults>> /\ Central!BeginUpload(j)
      /\ Arrives(j, "audio", "served")
    BY DEF TakeUpload
<1>2. SyncNext
    BY DEF SyncNext
<1>3. UNCHANGED <<spc, sjob>> /\ UNCHANGED <<job, recording, result, audio>>
    BY <1>1 DEF Central!BeginUpload, Central!jobs, agent, vars, syncer
<1>4. request[j].at = "none"
    BY <1>1 DEF Central!BeginUpload, Central!Free
<1>5. call = "served" => sjob # j
    BY <1>0, <1>4 DEF CallSound
<1>6. /\ abandoned' \in [Calls -> Nat] /\ \A c \in Calls : abandoned'[c] <= abandoned[c]
      /\ \/ call' = "served" /\ sjob = j /\ spc = "upload"
         \/ call' = call
    BY <1>1, Arrived
<1>7. /\ request'[j].at = "upload" /\ \A k \in Jobs \ {j} : request'[k] = request[k]
    BY <1>0, <1>1 DEF Central!BeginUpload, Central!NoRequest
<1>8. \A k \in Jobs : ServerKeeps(k)
    BY <1>3, <1>7, ServerIdle
<1>9. CallSound'
    BY <1>0, <1>3, <1>5, <1>6, <1>7, JobsAssumption DEF CallSound, SyncInv, AgentInv, TypeOK
<1>10. QED
    BY <1>0, <1>1, <1>2, <1>3, <1>6, <1>8, <1>9, AfterServer DEF NetworkSound

\* Steps of requests that answer no call: a job is ended, a report arrives, a
\* client works, an answered request lets go of its locks.
LEMMA QuietServer ==
    ASSUME SyncInv, [SyncNext]_allVars, UNCHANGED agent, UNCHANGED network,
           audio \subseteq audio', \A k \in Jobs : ServerKeeps(k),
           \A k \in Jobs : request[k].at \in {"storing", "upload", "reading"} => request'[k] = request[k]
    PROVE  SyncSound'
<1>0. CallSound /\ NetworkSound
    BY DEF SyncInv, SyncSound
<1>1. UNCHANGED <<call, abandoned, expired, faults>> /\ UNCHANGED <<spc, sjob>>
    BY DEF network, agent, vars, syncer
<1>2. call # "none" => sjob \in Jobs
    BY <1>0 DEF CallSound, SyncInv, AgentInv, TypeOK
<1>3. CallSound'
    BY <1>0, <1>1, <1>2 DEF CallSound, ServerKeeps
<1>4. QED
    BY <1>0, <1>1, <1>3, AfterServer DEF NetworkSound

LEMMA QuietSteps ==
    ASSUME SyncInv,
           \/ Users \/ \E r \in reports : ReceiveReport(r)
           \/ \E j \in Jobs : Compute(j) \/ EndJob(j) \/ Unlock(j)
    PROVE  SyncSound'
<1>0. /\ \A k \in Jobs : BothSound(k)
      /\ request \in [Jobs -> Server!Request] /\ job \in [Jobs -> Server!JobStatus]
      /\ recording \in [Jobs -> Jobs \cup {NoKey}] /\ result \in [Jobs -> Jobs \cup {NoKey}]
    BY DEF SyncInv, SyncSound, Server!Inv, Server!TypeOK
<1>1. UNCHANGED agent /\ UNCHANGED network /\ SyncNext
    BY DEF Users, ReceiveReport, Compute, EndJob, Unlock, SyncNext, Serve
<1>2. ASSUME NEW j \in Jobs, Central!CreateToken(j, j) PROVE SyncSound'
    <2>1. /\ job'[j] = "REQUESTED" /\ recording'[j] = j
          /\ \A k \in Jobs \ {j} : job'[k] = job[k] /\ recording'[k] = recording[k]
          /\ UNCHANGED <<result, audio, request>>
        BY <1>0, <1>2 DEF Central!CreateToken, Central!locks
    <2>2. \A k \in Jobs : ServerKeeps(k)
        BY <1>0, <2>1 DEF ServerKeeps, BothSound, Numbered, Coming, Failing
    <2>3. QED
        BY <1>1, <2>1, <2>2, QuietServer
<1>3. ASSUME NEW j \in Jobs, NEW to, Central!BeginEnd(j, to),
             to = "CANCELLED" \/ (to = "FAILED" /\ Dead(j))
      PROVE  SyncSound'
    <2>1. /\ request[j].at = "none" /\ request'[j].at = "ending" /\ request'[j].to = to
          /\ \A k \in Jobs \ {j} : request'[k] = request[k]
          /\ UNCHANGED <<job, recording, result, audio>>
        BY <1>0, <1>3 DEF Central!BeginEnd, Central!Free, Central!jobs
    <2>2. \A k \in Jobs : ServerKeeps(k)
        BY <1>0, <1>3, <2>1 DEF ServerKeeps, BothSound, Numbered, Coming, Failing
    <2>3. QED
        BY <1>1, <2>1, <2>2, QuietServer
<1>4. ASSUME NEW target, Central!Transition(target) PROVE SyncSound'
    <2>1. UNCHANGED <<job, recording, result, audio, request>>
        BY <1>4 DEF Central!Transition, Central!jobs, Central!locks
    <2>2. \A k \in Jobs : ServerKeeps(k)
        BY <2>1, ServerIdle
    <2>3. QED
        BY <1>1, <2>1, <2>2, QuietServer
<1>5. ASSUME NEW j \in Jobs, NEW to \in {"ACCEPTED", "PROCESSING"}, Central!Report(j, to) PROVE SyncSound'
    <2>1. /\ job[j] # "NONE" /\ job'[j] = to /\ \A k \in Jobs \ {j} : job'[k] = job[k]
          /\ UNCHANGED <<recording, result, audio, request>>
        BY <1>0, <1>5 DEF Central!Report, Central!ActiveJobs, Central!locks
    <2>2. \A k \in Jobs : ServerKeeps(k)
        BY <1>0, <2>1 DEF ServerKeeps, BothSound, Numbered, Coming, Failing
    <2>3. QED
        BY <1>1, <2>1, <2>2, QuietServer
<1>6. ASSUME NEW r \in reports, ReceiveReport(r) PROVE SyncSound'
    <2>1. r.job \in Jobs /\ r = [job |-> r.job, state |-> r.state] /\ r.state # "COMPLETED"
        BY DEF SyncInv, SyncSound, NoneCompleted, AgentInv, TypeOK, Report
    <2>2. Reported(r.state) = "FAILED" => Dead(r.job)
        BY <2>1 DEF Reported, Terminal, Dead
    <2>3. CASE Reported(r.state) \in Terminal
        <3>1. Central!BeginEnd(r.job, Reported(r.state)) /\ Reported(r.state) # "COMPLETED"
            BY <1>6, <2>1, <2>3 DEF ReceiveReport, Reported, Terminal
        <3>2. QED
            BY <1>3, <2>1, <2>2, <2>3, <3>1 DEF Terminal
    <2>4. CASE Reported(r.state) \notin Terminal
        <3>1. Central!Report(r.job, Reported(r.state)) /\ Reported(r.state) \in {"ACCEPTED", "PROCESSING"}
            BY <1>6, <2>1, <2>4 DEF ReceiveReport, Reported, Terminal
        <3>2. QED
            BY <1>5, <2>1, <3>1
    <2>5. QED
        BY <2>3, <2>4
<1>7. ASSUME NEW j \in Jobs, Compute(j) PROVE SyncSound'
    <2>1. /\ request[j].at = "ending" /\ request'[j].at = "computed" /\ request'[j].to = request[j].to
          /\ \A k \in Jobs \ {j} : request'[k] = request[k]
          /\ UNCHANGED <<job, recording, result, audio>>
        BY <1>0, <1>7 DEF Compute, Central!ComputeEnd, Central!jobs
    <2>2. \A k \in Jobs : ServerKeeps(k)
        BY <1>0, <2>1 DEF ServerKeeps, BothSound, Numbered, Coming, Failing
    <2>3. QED
        BY <1>1, <2>1, <2>2, QuietServer
<1>8. ASSUME NEW j \in Jobs, EndJob(j) PROVE SyncSound'
    <2>1. request[j].to \in {"FAILED", "CANCELLED"} /\ request[j].at = "computed" /\ job[j] # "NONE"
        BY <1>8, ServerFacts DEF EndJob, Central!CommitEnd
    <2>2. /\ job'[j] = request[j].to /\ request'[j].at = "none"
          /\ \A k \in Jobs \ {j} : job'[k] = job[k] /\ request'[k] = request[k]
          /\ UNCHANGED <<recording, result, audio>>
        BY <1>0, <1>8 DEF EndJob, Central!CommitEnd, Central!Done, Central!NoRequest
    <2>3. \A k \in Jobs : ServerKeeps(k)
        BY <1>0, <2>1, <2>2 DEF ServerKeeps, BothSound, Numbered, Coming, Failing
    <2>4. QED
        BY <1>1, <2>1, <2>2, <2>3, QuietServer
<1>9. ASSUME NEW j \in Jobs, Unlock(j) PROVE SyncSound'
    <2>1. /\ request[j].at = "answered" /\ request'[j].at = "none"
          /\ \A k \in Jobs \ {j} : request'[k] = request[k]
          /\ UNCHANGED <<job, recording, result, audio>>
        BY <1>0, <1>9 DEF Unlock, Central!Teardown, Central!Done, Central!NoRequest, Central!jobs
    <2>2. \A k \in Jobs : ServerKeeps(k)
        BY <2>1, ServerIdle
    <2>3. QED
        BY <1>1, <2>1, <2>2, QuietServer
<1>10. QED
    BY <1>2, <1>3, <1>4, <1>6, <1>7, <1>8, <1>9 DEF Users

\* The steps that answer a call: the transcript is committed, the audio is
\* stored, an upload finds the investigation closed.
LEMMA AnswerSound ==
    ASSUME SyncInv, NEW j \in Jobs, Commit(j) \/ Stored(j) \/ Lock(j) PROVE SyncSound'
<1>0. /\ CallSound /\ NetworkSound /\ \A k \in Jobs : BothSound(k)
      /\ request \in [Jobs -> Server!Request] /\ job \in [Jobs -> Server!JobStatus]
      /\ result \in [Jobs -> Jobs \cup {NoKey}] /\ NoKey # j
    BY ServerFacts DEF SyncInv, SyncSound
<1>1. UNCHANGED agent /\ UNCHANGED <<abandoned, expired, faults>>
    BY DEF Commit, Stored, Lock
<1>2. SyncNext
    BY DEF SyncNext, Serve
<1>3. UNCHANGED <<spc, sjob>>
    BY <1>1 DEF agent, vars, syncer
<1>4. call # "none" => sjob \in Jobs
    BY <1>0 DEF CallSound, SyncInv, AgentInv, TypeOK
<1>5. CASE Commit(j)
    <2>1. /\ request[j].at = "storing" /\ request[j].key = j
          /\ job'[j] = "COMPLETED" /\ result'[j] = j /\ request'[j].at = "none"
          /\ \A k \in Jobs \ {j} : job'[k] = job[k] /\ result'[k] = result[k] /\ request'[k] = request[k]
          /\ UNCHANGED <<recording, audio>>
        BY <1>0, <1>5 DEF Commit, Central!CommitResult, Central!Done, Central!NoRequest, BothSound, Numbered
    <2>2. job[j] # "NONE"
        BY <2>1, ServerFacts
    <2>3. \A k \in Jobs : ServerKeeps(k)
        BY <1>0, <2>1, <2>2 DEF ServerKeeps, BothSound, Numbered, Coming, Failing
    <2>4. call' = IF call = "served" /\ j = sjob THEN "ok" ELSE call
        BY <1>5 DEF Commit, Answer
    <2>5. CallSound'
        BY <1>0, <1>3, <1>4, <2>1, <2>4 DEF CallSound
    <2>6. QED
        BY <1>0, <1>1, <1>2, <2>1, <2>3, <2>4, <2>5, AfterServer DEF NetworkSound
<1>6. CASE Stored(j)
    <2>1. /\ request[j].at = "reading" /\ request'[j].at = "none"
          /\ \A k \in Jobs \ {j} : request'[k] = request[k]
          /\ audio' = audio \cup {recording[j]}
          /\ UNCHANGED <<job, recording, result>>
        BY <1>0, <1>6 DEF Stored, Central!FinishUpload, Central!Done, Central!NoRequest
    <2>2. job[j] # "NONE" /\ recording[j] = j
        BY <1>0, <2>1, ServerFacts DEF BothSound, Numbered
    <2>3. \A k \in Jobs : ServerKeeps(k)
        BY <2>1, ServerIdle
    <2>4. call' = IF call = "served" /\ j = sjob THEN "ok" ELSE call
        BY <1>6 DEF Stored, Answer
    <2>5. CallSound'
        BY <1>0, <1>3, <1>4, <2>1, <2>2, <2>4 DEF CallSound
    <2>6. QED
        BY <1>0, <1>1, <1>2, <2>1, <2>3, <2>4, <2>5, AfterServer DEF NetworkSound
<1>7. CASE Lock(j)
    <2>1. /\ request[j].at = "upload"
          /\ request'[j].at = (IF Central!Open THEN "reading" ELSE "answered")
          /\ \A k \in Jobs \ {j} : request'[k] = request[k]
          /\ UNCHANGED <<job, recording, result, audio>>
        BY <1>0, <1>7 DEF Lock, Central!LockForUpload, Central!jobs, Server!Request
    <2>2. \A k \in Jobs : ServerKeeps(k)
        BY <2>1, ServerIdle
    <2>3. call' = IF ~Central!Open /\ call = "served" /\ j = sjob THEN "rejected" ELSE call
        BY <1>7 DEF Lock, Answer
    <2>4. CallSound'
        BY <1>0, <1>3, <1>4, <2>1, <2>3 DEF CallSound
    <2>5. QED
        BY <1>0, <1>1, <1>2, <2>1, <2>2, <2>3, <2>4, AfterServer DEF NetworkSound
<1>8. QED
    BY <1>5, <1>6, <1>7

\* The server process is replaced.
LEMMA ServerStopsSound == ASSUME SyncInv, ServerStops PROVE SyncSound'
<1>0. CallSound /\ NetworkSound /\ \A k \in Jobs : BothSound(k)
    BY DEF SyncInv, SyncSound
<1>1. /\ UNCHANGED agent /\ UNCHANGED <<abandoned, expired>> /\ faults' = faults + 1
      /\ faults < MaxFaults /\ UNCHANGED <<job, recording, result, audio>>
      /\ call' = IF call = "served" THEN "lost" ELSE call
    BY DEF ServerStops
<1>2. SyncNext
    BY DEF SyncNext
<1>3. \A k \in Jobs : request'[k].at = "none"
    BY DEF ServerStops, Central!NoRequest
<1>4. \A k \in Jobs : ServerKeeps(k)
    BY <1>1, <1>3, ServerIdle
<1>5. UNCHANGED <<spc, sjob>>
    BY <1>1 DEF agent, vars, syncer
<1>6. CallSound'
    BY <1>0, <1>1, <1>5 DEF CallSound
<1>7. faults' \in {faults, faults + 1} \cap 0..MaxFaults
    BY <1>0, <1>1, FaultsAssumption DEF NetworkSound
<1>8. QED
    BY <1>0, <1>1, <1>2, <1>4, <1>6, <1>7, AfterServer DEF NetworkSound

----------------------------------------------------------------------------
(* The invariant, and what follows from it *)

\* At first there are no jobs on either side, and no calls.
LEMMA SyncInvInit == SyncInit => SyncInv
<1> SUFFICES ASSUME SyncInit PROVE SyncInv
    OBVIOUS
<1>1. AgentInv /\ RecordingKept
    BY AgentInvInit, RecordingInit DEF SyncInit
<1>2. Server!Inv
    <2>1. Server!Init
        BY DEF SyncInit, Central!Init, Server!Init, Central!NoRequest, Server!NoRequest
    <2>2. QED
        BY <2>1, ServerNames, Server!InvInit
<1>3. NetworkSound /\ CallSound /\ NoneCompleted
    BY SettingsAssumption, FaultsAssumption
       DEF SyncInit, Init, NetworkSound, CallSound, NoneCompleted
<1>4. ASSUME NEW j \in Jobs PROVE BothSound(j)
    <2>1. /\ Blank.resultSent = FALSE /\ Blank.audioSent = FALSE
          /\ [job |-> j, kind |-> "result"] \in Calls /\ NoJob # j
        BY JobsAssumption DEF Blank, Calls
    <2>2. /\ job[j] = "NONE" /\ recording[j] = NoKey /\ result[j] = NoKey /\ request[j].at = "none"
          /\ abandoned[[job |-> j, kind |-> "result"]] = 0
        BY <2>1 DEF SyncInit, Central!Init, Central!NoRequest
    <2>3. /\ store[j] = Blank /\ rrow[j] = Blank /\ crow[j] = Blank /\ batch[j] = Blank
          /\ wjob # j /\ sjob # j /\ nonces = {}
        BY <2>1 DEF SyncInit, Init
    <2>4. QED
        BY <2>1, <2>2, <2>3 DEF BothSound, RowsTruthful, Truthful, Handed, Numbered, ComesFinished,
           FailedOnReport
<1>5. QED
    BY <1>1, <1>2, <1>3, <1>4 DEF SyncInv, SyncSound

\* Every step of either machine, and of the network, keeps it.
LEMMA SyncInvStep == ASSUME SyncInv, [SyncNext]_allVars PROVE SyncInv'
<1>1. AgentInv' /\ RecordingKept' /\ Server!Inv'
    BY MachinesKept
<1>2. CASE UNCHANGED allVars
    <2>1. /\ UNCHANGED agent /\ UNCHANGED network
          /\ UNCHANGED <<job, recording, result, audio, request>>
        BY <1>2 DEF allVars, server
    <2>2. \A k \in Jobs : ServerKeeps(k)
        BY <2>1, ServerIdle
    <2>3. QED
        BY <1>1, <2>1, <2>2, QuietServer DEF SyncInv
<1>3. CASE SyncNext
    BY <1>1, <1>3, LocalSound, StopsSound, ReturnSound, NetworkSteps, ResultSound, TakeUploadSound,
       QuietSteps, AnswerSound, ServerStopsSound DEF SyncNext, Serve, SyncInv
<1>4. QED
    BY <1>2, <1>3

LEMMA SyncInvariance == SyncSpec => []SyncInv
BY SyncInvInit, SyncInvStep, PTL DEF SyncSpec

\* Types, for the agent, the server and the network between them; and no more
\* calls are given up than there are faults and stops of the agent.
THEOREM SyncTyping == SyncSpec => []SyncTypeOK
<1>1. SyncInv => SyncTypeOK
    <2> SUFFICES ASSUME SyncInv PROVE SyncTypeOK
        OBVIOUS
    <2>1. TypeOK /\ Central!TypeOK
        BY DEF SyncInv, AgentInv, Server!Inv, Server!TypeOK, Central!TypeOK, Server!Request, Central!Request,
           Server!JobStatus, Central!JobStatus, Server!ActiveJobs, Central!ActiveJobs,
           Server!Finished, Central!Finished, Server!SessionStatus, Central!SessionStatus,
           Server!Workflow, Central!Workflow, Server!Reviewing, Central!Reviewing,
           Server!Closed, Central!Closed, Server!HoldsSession, Central!HoldsSession
    <2>2. CallSound /\ NetworkSound
        BY DEF SyncInv, SyncSound
    <2>3. abandoned \in [Calls -> 0..MaxFaults + MaxCrashes]
        <3>1. crashes \in 0..MaxCrashes /\ faults \in 0..MaxFaults
            BY <2>1, <2>2 DEF TypeOK, NetworkSound
        <3>2. \A c \in Calls : abandoned[c] \in 0..MaxFaults + MaxCrashes
            BY <2>2, <3>1, SettingsAssumption, FaultsAssumption DEF NetworkSound
        <3>3. QED
            BY <2>2, <3>2 DEF NetworkSound
    <2>4. QED
        BY <2>1, <2>2, <2>3 DEF SyncTypeOK, CallSound, NetworkSound
<1>2. QED
    BY <1>1, SyncInvariance, PTL

----------------------------------------------------------------------------
(* The two machines implement Delivery *)

\* A step of the agent takes a job on, gives one up that is delivered, or is
\* none of the contract's business.
LEMMA AgentDelivers ==
    ASSUME SyncInv, SyncNext, UNCHANGED server
    PROVE  \/ UNCHANGED <<tokens, lost>>
           \/ \E j \in Jobs : j \notin tokens /\ tokens' = tokens \cup {j} /\ UNCHANGED lost
           \/ \E j \in Jobs : /\ tokens' = tokens \ {j} /\ result[j] # NoKey /\ UNCHANGED lost
                              /\ UploadAudio => j \in audio \cup lost
           \/ \E j \in Jobs : UNCHANGED tokens /\ lost' = lost \cup {j}
<1>1. [Next]_vars
    BY AgentSteps
<1>2. ASSUME NEW j \in Jobs, CreateRow(j)
      PROVE  /\ UNCHANGED lost
             /\ UNCHANGED tokens \/ \E k \in Jobs : k \notin tokens /\ tokens' = tokens \cup {k}
    BY <1>2 DEF CreateRow, process
<1>3. ASSUME ForgetToken
      PROVE  \E j \in Jobs : /\ tokens' = tokens \ {j} /\ result[j] # NoKey /\ UNCHANGED lost
                             /\ UploadAudio => j \in audio \cup lost
    <2>1. PICK j \in Jobs : j = sjob
        BY <1>3 DEF ForgetToken, SyncInv, AgentInv, TypeOK
    <2>2. Handed(j)
        BY DEF SyncInv, SyncSound, BothSound
    <2>3. QED
        BY <1>3, <2>1, <2>2 DEF ForgetToken, Handed, process
<1>4. ASSUME Next, ~ForgetToken, ~\E j \in Jobs : CreateRow(j) \/ LoseOriginal(j)
      PROVE  UNCHANGED <<tokens, lost>>
    BY <1>4 DEF Next, Receive, AcceptToken, MarkReceiving, Enqueue, Discard, StreamBreaks,
       Cancel, CancelRead, CancelFlag, CancelCheck, CancelLoad, CancelSave, BackoffElapses, CleanUp,
       LoseOriginal, SkipUpload, Work, WorkerTake, WorkerStart, NextStage, StopCancelled, StageFails, WriteResult, EnterOutbox,
       Complete, WorkerDone, SyncLocal, SyncScan, SyncFinish, BatchDone, SyncSkip, SyncCall, Submit, Upload,
       SyncError, SyncBegin, Stop, Restart, Start, RecoverJob, durable, process
<1>5. UNCHANGED vars => UNCHANGED <<tokens, lost>>
    BY DEF vars, durable, process
<1>6. ASSUME NEW j \in Jobs, LoseOriginal(j) PROVE UNCHANGED tokens /\ lost' = lost \cup {j}
    BY <1>6 DEF LoseOriginal
<1>7. QED
    BY <1>1, <1>2, <1>3, <1>4, <1>5, <1>6

\* A step of the server stores one transcript of a job that is not cancelled,
\* keeps one audio file, cancels one unfinished job, or does nothing of the kind.
LEMMA ServerDelivers ==
    ASSUME SyncInv, SyncNext, UNCHANGED agent
    PROVE  \/ /\ UNCHANGED <<result, audio>>
              /\ \A k \in Jobs : job'[k] = "CANCELLED" <=> job[k] = "CANCELLED"
           \/ \E j \in Jobs :
                /\ result[j] = NoKey /\ result'[j] # NoKey /\ job[j] # "CANCELLED"
                /\ \A k \in Jobs \ {j} : result'[k] = result[k]
                /\ \A k \in Jobs : job'[k] = "CANCELLED" <=> job[k] = "CANCELLED"
                /\ UNCHANGED audio
           \/ \E j \in Jobs : UNCHANGED <<job, result>> /\ audio' = audio \cup {j}
           \/ \E j \in Jobs :
                /\ result[j] = NoKey /\ job[j] # "CANCELLED" /\ job'[j] = "CANCELLED"
                /\ \A k \in Jobs \ {j} : job'[k] = job[k]
                /\ UNCHANGED <<result, audio>>
<1>0. /\ \A k \in Jobs : BothSound(k)
      /\ job \in [Jobs -> Server!JobStatus] /\ result \in [Jobs -> Jobs \cup {NoKey}]
    BY DEF SyncInv, SyncSound, Server!Inv, Server!TypeOK
<1>1. ASSUME NEW j \in Jobs, Central!CreateToken(j, j) \/ \E to : to # "CANCELLED" /\ Central!Report(j, to)
      PROVE  /\ UNCHANGED <<result, audio>>
             /\ \A k \in Jobs : job'[k] = "CANCELLED" <=> job[k] = "CANCELLED"
    BY <1>0, <1>1 DEF Central!CreateToken, Central!Report, Central!ActiveJobs
<1>2. ASSUME NEW j \in Jobs, Commit(j)
      PROVE  /\ result[j] = NoKey /\ result'[j] # NoKey /\ job[j] # "CANCELLED"
             /\ \A k \in Jobs \ {j} : result'[k] = result[k]
             /\ \A k \in Jobs : job'[k] = "CANCELLED" <=> job[k] = "CANCELLED"
             /\ UNCHANGED audio
    <2>1. /\ request[j].at = "storing" /\ request[j].key = j
          /\ job[j] \notin {"COMPLETED", "CANCELLED"} /\ result[j] = NoKey /\ NoKey # j
        BY <1>0, <1>2, ServerFacts DEF Commit, Central!CommitResult, BothSound, Numbered
    <2>2. QED
        BY <1>0, <1>2, <2>1 DEF Commit, Central!CommitResult
<1>3. ASSUME NEW j \in Jobs, Stored(j) PROVE UNCHANGED <<job, result>> /\ audio' = audio \cup {j}
    <2>1. request[j].at = "reading"
        BY <1>3 DEF Stored, Central!FinishUpload
    <2>2. recording[j] = j
        BY <1>0, <2>1, ServerFacts DEF BothSound, Numbered
    <2>3. QED
        BY <1>3, <2>2 DEF Stored, Central!FinishUpload
<1>4. ASSUME NEW j \in Jobs, EndJob(j)
      PROVE  \/ /\ UNCHANGED <<result, audio>>
                /\ \A k \in Jobs : job'[k] = "CANCELLED" <=> job[k] = "CANCELLED"
             \/ /\ result[j] = NoKey /\ job[j] # "CANCELLED" /\ job'[j] = "CANCELLED"
                /\ \A k \in Jobs \ {j} : job'[k] = job[k]
                /\ UNCHANGED <<result, audio>>
    <2>1. /\ job[j] \in Server!ActiveJobs /\ result[j] = NoKey
          /\ request[j].to \in {"FAILED", "CANCELLED"}
        BY <1>0, <1>4, ServerFacts DEF EndJob, Central!CommitEnd, Server!ActiveJobs
    <2>2. /\ job'[j] = request[j].to /\ \A k \in Jobs \ {j} : job'[k] = job[k]
          /\ UNCHANGED <<result, audio>>
        BY <1>0, <1>4 DEF EndJob, Central!CommitEnd
    <2>3. QED
        BY <2>1, <2>2 DEF Server!ActiveJobs
<1>5. ASSUME \/ Send \/ RefuseExpired \/ ServerStops \/ UNCHANGED server
             \/ \E j \in Jobs : \/ TakeResult(j) \/ AnswerResult(j) \/ TakeUpload(j)
                                \/ AnswerDuplicateUpload(j) \/ TokenExpires(j)
                                \/ Compute(j) \/ Unlock(j) \/ Lock(j)
                                \/ \E to : Central!BeginEnd(j, to)
             \/ \E target : Central!Transition(target)
      PROVE  UNCHANGED <<job, result, audio>>
    BY <1>5 DEF Send, RefuseExpired, ServerStops, TakeResult, AnswerResult, TakeUpload,
       AnswerDuplicateUpload, TokenExpires, Compute, Unlock, Lock, Central!BeginResult,
       Central!RefuseResult, Central!BeginUpload, Central!ComputeEnd, Central!Teardown,
       Central!LockForUpload, Central!BeginEnd, Central!Transition, Central!jobs, server
<1>7. ASSUME NEW r \in reports, ReceiveReport(r)
      PROVE  /\ UNCHANGED <<result, audio>>
             /\ \A k \in Jobs : job'[k] = "CANCELLED" <=> job[k] = "CANCELLED"
    <2>1. r.job \in Jobs
        BY DEF SyncInv, AgentInv, TypeOK, Report
    <2>2. CASE Reported(r.state) \in Terminal
        BY <1>7, <2>2 DEF ReceiveReport, Central!BeginEnd, Central!jobs
    <2>3. CASE Reported(r.state) \notin Terminal
        <3>1. Central!Report(r.job, Reported(r.state)) /\ Reported(r.state) # "CANCELLED"
            BY <1>7, <2>3 DEF ReceiveReport, Terminal
        <3>2. QED
            BY <1>1, <2>1, <3>1
    <2>4. QED
        BY <2>2, <2>3
<1>8. AgentLocal \/ AgentStops \/ (\E reply \in Replies : Return(reply) \/ Fail(reply)) => UNCHANGED server
    BY DEF AgentLocal, AgentStops, Return, Fail
<1>9. QED
    BY <1>1, <1>2, <1>3, <1>4, <1>5, <1>7, <1>8 DEF SyncNext, Serve, Users

\* Each step is the agent's or the server's.
LEMMA OneSide == ASSUME SyncNext PROVE UNCHANGED agent \/ UNCHANGED server
BY DEF SyncNext, AgentLocal, AgentStops, Send, Return, Fail, RefuseExpired, Users, ServerStops,
   TakeResult, AnswerResult, TakeUpload, AnswerDuplicateUpload, Serve, Compute, EndJob, Unlock,
   Commit, Stored, Lock, TokenExpires, ReceiveReport

\* However calls are lost, repeated and delayed, however often either side stops,
\* and for any number of jobs: a transcript is stored once and never after a
\* cancellation, and the agent gives a job's token up only when transcript and
\* audio are stored, unless somebody deleted the recording on the workstation
\* (sync_worker.py:98-117 against processing.py:393-404).
THEOREM DeliveryImplemented == SyncSpec => ImplementsDelivery
<1>1. SyncInit => Contract!DeliveryInit
    BY DEF SyncInit, Init, Central!Init, Contract!DeliveryInit
<1>2. ASSUME SyncInv, SyncNext, UNCHANGED server
      PROVE  Contract!DeliveryNext \/ UNCHANGED Contract!dvars
    <2>1. UNCHANGED <<job, result, audio>>
        BY <1>2 DEF server
    <2>2. QED
        BY <1>2, <2>1, AgentDelivers
           DEF Contract!DeliveryNext, Contract!dvars, Contract!Accept, Contract!Release,
               Contract!Take
<1>3. ASSUME SyncInv, SyncNext, UNCHANGED agent
      PROVE  Contract!DeliveryNext \/ UNCHANGED Contract!dvars
    <2>0. tokens' = tokens /\ lost' = lost
        BY <1>3 DEF agent, vars, durable, process
    <2>1. CASE /\ UNCHANGED <<result, audio>>
               /\ \A k \in Jobs : job'[k] = "CANCELLED" <=> job[k] = "CANCELLED"
        BY <2>0, <2>1 DEF Contract!dvars
    <2>2. ASSUME NEW j \in Jobs,
                 result[j] = NoKey, result'[j] # NoKey, job[j] # "CANCELLED",
                 \A k \in Jobs \ {j} : result'[k] = result[k],
                 \A k \in Jobs : job'[k] = "CANCELLED" <=> job[k] = "CANCELLED",
                 UNCHANGED audio
          PROVE  Contract!Store(j)
        BY <2>0, <2>2 DEF Contract!Store
    <2>3. ASSUME NEW j \in Jobs, UNCHANGED <<job, result>>, audio' = audio \cup {j}
          PROVE  Contract!Keep(j) \/ UNCHANGED Contract!dvars
        BY <2>0, <2>3 DEF Contract!Keep, Contract!dvars
    <2>4. ASSUME NEW j \in Jobs,
                 result[j] = NoKey, job[j] # "CANCELLED", job'[j] = "CANCELLED",
                 \A k \in Jobs \ {j} : job'[k] = job[k],
                 UNCHANGED <<result, audio>>
          PROVE  Contract!Withdraw(j)
        BY <2>0, <2>4 DEF Contract!Withdraw
    <2>5. QED
        BY <1>3, <2>1, <2>2, <2>3, <2>4, ServerDelivers DEF Contract!DeliveryNext
<1>4. SyncInv /\ [SyncNext]_allVars => [Contract!DeliveryNext]_(Contract!dvars)
    <2>1. UNCHANGED allVars => UNCHANGED Contract!dvars
        BY DEF allVars, agent, vars, durable, process, server, Contract!dvars
    <2>2. QED
        BY <1>2, <1>3, <2>1, OneSide
<1>5. QED
    BY <1>1, <1>4, SyncInvariance, PTL DEF SyncSpec, ImplementsDelivery, Contract!DeliverySpec

----------------------------------------------------------------------------
(* The two sides agree *)

\* A transcript that is not stored yet is refused only where it was withdrawn:
\* the job is still active on the server, so that nobody could close its
\* investigation, and it has not failed, since the agent never said so.
LEMMA RefusalMeans ==
    ASSUME SyncInv, SyncNext, NEW j \in Jobs, j = sjob, spc = "submit",
           call # "rejected", call' = "rejected"
    PROVE  job[j] = "CANCELLED" \/ j \in expired
<1>0. CallSound /\ BothSound(j) /\ JobSound(j)
    BY DEF SyncInv, SyncSound, AgentInv, JobsSound
<1>1. CASE RefuseExpired
    BY <1>1 DEF RefuseExpired
<1>2. ASSUME NEW k \in Jobs, AnswerResult(k) PROVE job[j] = "CANCELLED" \/ j \in expired
    <2>1. k = j /\ result[k] # k
        <3> DEFINE next == IF result[k] = k THEN "ok" ELSE "rejected"
        <3>1. Arrives(k, "result", next)
            BY <1>2 DEF AnswerResult
        <3>2. (call' = next /\ sjob = k) \/ call' = call
            <4> HIDE DEF next
            <4> QED BY <3>1, Arrived
        <3>3. QED
            BY <3>2
    <2>2. result[j] = NoKey
        BY <1>0, <2>1 DEF BothSound, Numbered
    <2>3. (workflow \in {"CLOSED", "ARCHIVED"} \/ job[j] = "CANCELLED") /\ job[j] # "NONE"
        BY <1>2, <2>1, <2>2 DEF AnswerResult, Central!RefuseResult, Central!Acceptable, Central!Open,
           Central!Closed
    <2>4. job[j] \notin {"COMPLETED", "FAILED"}
        <3>1. job[j] # "COMPLETED"
            BY <2>2, ServerFacts
        <3>2. job[j] = "FAILED" => Dead(j)
            BY <1>0 DEF BothSound, FailedOnReport
        <3>3. ~Dead(j)
            BY <1>0 DEF JobSound, Syncing
        <3>4. QED
            BY <3>1, <3>2, <3>3
    <2>5. workflow \in {"CLOSED", "ARCHIVED"} => job[j] \notin Server!ActiveJobs
        BY DEF SyncInv, Server!Inv, Server!Sound, Server!EvidenceSettled, Server!EvidenceComplete,
           Server!SomeActive
    <2>6. job[j] \in {"NONE", "COMPLETED", "FAILED", "CANCELLED"} \cup Server!ActiveJobs
        BY ServerFacts DEF Server!JobStatus, Server!Finished
    <2>7. QED
        BY <2>3, <2>4, <2>5, <2>6
<1>3. ASSUME NEW k \in Jobs, Lock(k), call' # call PROVE FALSE
    BY <1>0, <1>3 DEF Lock, Answer, Central!LockForUpload, CallSound
<1>4. ASSUME NEW k \in Jobs, Commit(k) \/ Stored(k) PROVE call' # "rejected"
    BY <1>4 DEF Commit, Stored, Answer
<1>5. ASSUME NEW k \in Jobs, TakeResult(k) \/ TakeUpload(k) \/ AnswerDuplicateUpload(k)
      PROVE  call' # "rejected"
    BY <1>5 DEF TakeResult, TakeUpload, AnswerDuplicateUpload, Arrives
<1>6. ASSUME \/ AgentLocal \/ AgentStops \/ Send \/ Users \/ ServerStops
             \/ \E reply \in Replies : Return(reply) \/ Fail(reply)
             \/ \E k \in Jobs : Compute(k) \/ EndJob(k) \/ Unlock(k) \/ TokenExpires(k)
             \/ \E r \in reports : ReceiveReport(r)
      PROVE  call' # "rejected"
    BY <1>6 DEF AgentLocal, AgentStops, Send, Users, ServerStops, Return, Fail, Compute, EndJob, Unlock,
       TokenExpires, ReceiveReport, network
<1>7. QED
    BY <1>1, <1>2, <1>3, <1>4, <1>5, <1>6 DEF SyncNext, Serve

\* Finished work ends the same on both sides, and is turned away only where it
\* was withdrawn, although state reports arrive late, out of order or never.
THEOREM SidesNeverContradict == SyncSpec => SidesAgree
<1>1. SyncInv => OutcomesAgree
    <2> SUFFICES ASSUME SyncInv, NEW j \in Jobs
                 PROVE  /\ job[j] = "COMPLETED" => store[j].state \in {"COMPLETED", "CANCELLED"}
                        /\ job[j] = "FAILED" => store[j].state # "COMPLETED"
        BY DEF OutcomesAgree
    <2>1. BothSound(j) /\ JobSound(j)
        BY DEF SyncInv, SyncSound, AgentInv, JobsSound
    <2>2. job[j] = "COMPLETED" => Concluded(j)
        BY <2>1, ServerFacts DEF BothSound, ComesFinished
    <2>3. job[j] = "FAILED" => store[j].state \in {"FAILED", "CANCELLED"}
        BY <2>1 DEF BothSound, FailedOnReport, JobSound, Failed
    <2>4. QED
        BY <2>2, <2>3 DEF Concluded
<1>2. SyncInv /\ [SyncNext]_allVars =>
        [\A j \in Jobs :
            call # "rejected" /\ call' = "rejected" /\ spc = "submit" /\ j = sjob
                => job[j] = "CANCELLED" \/ j \in expired]_allVars
    BY RefusalMeans
<1>3. QED
    BY <1>1, <1>2, SyncInvariance, PTL DEF SyncSpec, SidesAgree, RefusedOnlyIfWithdrawn
=============================================================================
