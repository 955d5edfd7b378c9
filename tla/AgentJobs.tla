----------------------------- MODULE AgentJobs -----------------------------
(***************************************************************************)
(* The desktop agent's job machinery: the SQLite job store and the four    *)
(* kinds of threads that share it.                                         *)
(*                                                                         *)
(*   receiver   POST /jobs           (one handler per job, event loop)     *)
(*   canceller  POST /jobs/{id}/cancel (one handler per job, thread pool)  *)
(*   worker     JobManager._run and JobPipeline.run (one thread)           *)
(*   syncer     SyncWorker._loop     (one thread)                          *)
(*                                                                         *)
(* JobStore.save writes a WHOLE row from an in-memory JobRecord, so every  *)
(* thread works on a copy (rrow, crow, wrow, srow, batch) that may be      *)
(* stale when it is written back.  Only cancel_requested is re-read.       *)
(* The central server is the environment: it answers each call with one of *)
(* Replies; the progress reports sent to it are collected in `reports'.    *)
(***************************************************************************)
EXTENDS Naturals, Sequences, FiniteSets

CONSTANTS
    Jobs,          \* the jobs the central server has authorised
    NoJob,         \* "no job": JobManager._current = None
    Dictations,    \* the jobs whose purpose is REPORT_DICTATION
    UploadAudio,   \* settings.central_upload_audio
    MaxAttempts,   \* settings.sync_max_attempts, 0 = retry for ever
    MaxCrashes     \* bound: restarts of the agent in one behaviour

ASSUME JobsAssumption == NoJob \notin Jobs /\ Dictations \subseteq Jobs
ASSUME SettingsAssumption ==
    UploadAudio \in BOOLEAN /\ MaxAttempts \in Nat /\ MaxCrashes \in Nat

----------------------------------------------------------------------------
(* Rows and their values *)

Stages    == {"PREPROCESSING", "DIARIZING", "TRANSCRIBING", "FINALIZING"}
Running   == Stages \cup {"SYNCING"}
Terminal  == {"COMPLETED", "FAILED", "CANCELLED"}
Active    == {"CREATED", "RECEIVING_AUDIO"} \cup Running
States    == {"NONE"} \cup Active \cup Terminal     \* NONE: no row
Unsynced  == {"WAITING_TO_SYNC", "SYNCING", "SYNC_FAILED"}
SyncStates == {"NOT_STARTED", "SYNCED"} \cup Unsynced

\* How a call to the central server ends: acknowledged; a network or server
\* error; a permanent refusal; an exception sync_job did not expect.
Replies   == {"ok", "transient", "rejected", "unexpected"}

\* due: next_sync_at lies in the future ("later") or is null or past ("now").
\* attempts saturates at MaxAttempts: the code only compares it with that.
Row == [state: States, sync: SyncStates, cancel: BOOLEAN, resultSent: BOOLEAN,
        audioSent: BOOLEAN, attempts: 0..MaxAttempts, due: {"now", "later"}]
Blank == [state |-> "NONE", sync |-> "NOT_STARTED", cancel |-> FALSE,
          resultSent |-> FALSE, audioSent |-> FALSE, attempts |-> 0, due |-> "now"]

VARIABLES
    store,    \* [Jobs -> Row]: the jobs table
    tokens,   \* the jobs with a row in job_tokens
    nonces,   \* the jobs whose token nonce is consumed
    files,    \* [Jobs -> what is in the job's directory]
    reports,  \* every state report sent to the central server
    up,       \* the agent process runs
    crashes,  \* how often it stopped
    lost,     \* the jobs whose original recording other hands took off the disk
    queue,    \* JobManager._queue
    current,  \* JobManager._current
    rpc, rrow,         \* receiver of each job: where it is, its JobRecord
    cpc, crow,         \* canceller of each job
    wpc, wjob, wrow,   \* worker
    spc, sjob, srow, batch  \* syncer; batch: the rows pending_sync() returned

durable   == <<store, tokens, nonces, files, reports>>
process   == <<up, crashes, lost>>
receiver  == <<rpc, rrow>>
canceller == <<cpc, crow>>
worker    == <<queue, current, wpc, wjob, wrow>>
syncer    == <<spc, sjob, srow, batch>>
vars == <<durable, process, receiver, canceller, worker, syncer>>

Report == [job: Jobs, state: States]

\* Every variable has its type; the worker and the syncer hold a job exactly
\* while they handle one, and _current names the worker's (job_manager.py:209-217).
TypeOK ==
    /\ store \in [Jobs -> Row]
    /\ tokens \subseteq Jobs /\ nonces \subseteq Jobs
    /\ files \in [Jobs -> SUBSET {"original", "result"}]
    /\ reports \subseteq Report
    /\ up \in BOOLEAN /\ crashes \in 0..MaxCrashes /\ lost \subseteq Jobs
    /\ queue \in Seq(Jobs) /\ current \in Jobs \cup {NoJob}
    /\ rpc \in [Jobs -> {"idle", "accepted", "created", "streaming"}]
    /\ rrow \in [Jobs -> Row]
    /\ cpc \in [Jobs -> {"idle", "flag", "check", "load", "save"}]
    /\ crow \in [Jobs -> Row]
    /\ wpc \in {"idle", "taken", "running", "outbox", "complete", "done"}
    /\ wjob \in Jobs \cup {NoJob} /\ wrow \in Row
    /\ wjob = NoJob <=> wpc = "idle"
    /\ current = IF wpc \in {"idle", "taken"} THEN NoJob ELSE wjob
    /\ spc \in {"idle", "batch", "submit", "upload", "finish", "forget"}
    /\ sjob \in Jobs \cup {NoJob} /\ srow \in Row
    /\ sjob = NoJob <=> spc \in {"idle", "batch"}
    /\ batch \in [Jobs -> Row]

Init ==
    /\ store = [j \in Jobs |-> Blank]
    /\ tokens = {} /\ nonces = {} /\ reports = {}
    /\ files = [j \in Jobs |-> {}]
    /\ up = TRUE /\ crashes = 0 /\ lost = {}
    /\ queue = <<>> /\ current = NoJob
    /\ rpc = [j \in Jobs |-> "idle"] /\ rrow = [j \in Jobs |-> Blank]
    /\ cpc = [j \in Jobs |-> "idle"] /\ crow = [j \in Jobs |-> Blank]
    /\ wpc = "idle" /\ wjob = NoJob /\ wrow = Blank
    /\ spc = "idle" /\ sjob = NoJob /\ srow = Blank
    /\ batch = [j \in Jobs |-> Blank]

----------------------------------------------------------------------------
(* JobStore.save: the row becomes the caller's copy, except that a cancel  *)
(* request already in the row survives (and enters the copy).              *)

SavedWithoutRereadingCancel(j, row) == row

Saved(j, row) == [row EXCEPT !.cancel = row.cancel \/ store[j].cancel]

Save(j, row) == store' = [store EXCEPT ![j] = Saved(j, row)]

\* report_state is called only while the job's token is stored.
Tell(j, states) ==
    reports' = reports \cup
        IF j \in tokens THEN [job: {j}, state: states] ELSE {}

----------------------------------------------------------------------------
(* Receiver: create_job, JobManager.create_job, mark_receiving, enqueue,   *)
(* discard.  The nonce is consumed before the models are found missing.    *)

AcceptToken(j) ==
    /\ up /\ rpc[j] = "idle" /\ j \notin nonces
    /\ nonces' = nonces \cup {j}
    /\ \/ rpc' = [rpc EXCEPT ![j] = "accepted"]
       \/ UNCHANGED rpc                         \* 503: a model is missing
    /\ UNCHANGED <<store, tokens, files, reports, rrow, process, canceller, worker, syncer>>

CreateRow(j) ==
    LET row == [Blank EXCEPT !.state = "CREATED"] IN
    /\ up /\ rpc[j] = "accepted" /\ store[j].state = "NONE"
    /\ Save(j, row)
    /\ tokens' = tokens \cup {j}
    /\ rpc' = [rpc EXCEPT ![j] = "created"]
    /\ rrow' = [rrow EXCEPT ![j] = Saved(j, row)]
    /\ UNCHANGED <<nonces, files, reports, process, canceller, worker, syncer>>

MarkReceiving(j) ==
    LET row == [rrow[j] EXCEPT !.state = "RECEIVING_AUDIO"] IN
    /\ up /\ rpc[j] = "created"
    /\ Save(j, row)
    /\ Tell(j, {"CREATED", "RECEIVING_AUDIO"})
    /\ rpc' = [rpc EXCEPT ![j] = "streaming"]
    /\ rrow' = [rrow EXCEPT ![j] = Saved(j, row)]
    /\ UNCHANGED <<tokens, nonces, files, process, canceller, worker, syncer>>

EndReceiving(j) ==
    /\ rpc' = [rpc EXCEPT ![j] = "idle"]
    /\ rrow' = [rrow EXCEPT ![j] = Blank]

Enqueue(j) ==
    /\ up /\ rpc[j] = "streaming"
    /\ Save(j, rrow[j])
    /\ files' = [files EXCEPT ![j] = @ \cup {"original"}]
    /\ queue' = Append(queue, j)
    /\ EndReceiving(j)
    /\ UNCHANGED <<tokens, nonces, reports, process, canceller, current, wpc, wjob, wrow, syncer>>

Discard(j) ==
    /\ up /\ rpc[j] = "streaming"
    /\ Save(j, [rrow[j] EXCEPT !.state = "FAILED"])
    /\ Tell(j, {"FAILED"})
    /\ files' = [files EXCEPT ![j] = {}]
    /\ EndReceiving(j)
    /\ UNCHANGED <<tokens, nonces, process, canceller, worker, syncer>>

\* _stream_to_disk raises something other than HTTPException (disk full):
\* create_job does not catch it, and the row stays in RECEIVING_AUDIO.
StreamBreaks(j) ==
    /\ up /\ rpc[j] = "streaming"
    /\ EndReceiving(j)
    /\ UNCHANGED <<durable, process, canceller, worker, syncer>>

----------------------------------------------------------------------------
(* Canceller: JobManager.cancel, one step per access to shared state.      *)

CancelRead(j) ==
    /\ up /\ cpc[j] = "idle" /\ store[j].state \in Active
    /\ cpc' = [cpc EXCEPT ![j] = "flag"]
    /\ UNCHANGED <<durable, process, receiver, crow, worker, syncer>>

CancelFlag(j) ==
    /\ up /\ cpc[j] = "flag"
    /\ store' = [store EXCEPT ![j].cancel = TRUE]
    /\ cpc' = [cpc EXCEPT ![j] = "check"]
    /\ UNCHANGED <<tokens, nonces, files, reports, process, receiver, crow, worker, syncer>>

CancelCheck(j) ==
    /\ up /\ cpc[j] = "check"
    /\ cpc' = [cpc EXCEPT ![j] = IF current = j THEN "idle" ELSE "load"]
    /\ UNCHANGED <<durable, process, receiver, crow, worker, syncer>>

CancelLoad(j) ==
    /\ up /\ cpc[j] = "load"
    /\ crow' = [crow EXCEPT ![j] = store[j]]
    /\ cpc' = [cpc EXCEPT ![j] = "save"]
    /\ UNCHANGED <<durable, process, receiver, worker, syncer>>

CancelSave(j) ==
    /\ up /\ cpc[j] = "save"
    /\ Save(j, [crow[j] EXCEPT !.state = "CANCELLED"])
    /\ Tell(j, {"CANCELLED"})
    /\ cpc' = [cpc EXCEPT ![j] = "idle"]
    /\ crow' = [crow EXCEPT ![j] = Blank]
    /\ UNCHANGED <<tokens, nonces, files, process, receiver, worker, syncer>>

----------------------------------------------------------------------------
(* Worker: JobManager._run around JobPipeline.run.                         *)

\* The stage that follows: a dictation is transcribed without diarization.
StageAfter(j, state) ==
    CASE state = "RECEIVING_AUDIO" -> "PREPROCESSING"
      [] state = "PREPROCESSING" -> IF j \in Dictations THEN "TRANSCRIBING" ELSE "DIARIZING"
      [] state = "DIARIZING" -> "TRANSCRIBING"
      [] OTHER -> "FINALIZING"

\* Take the next queued job; a job already terminal is skipped.
WorkerTake ==
    LET j == Head(queue) IN
    /\ up /\ wpc = "idle" /\ queue # <<>>
    /\ queue' = Tail(queue)
    /\ IF store[j].state \in Terminal \cup {"NONE"}
       THEN UNCHANGED <<wpc, wjob, wrow>>
       ELSE wpc' = "taken" /\ wjob' = j /\ wrow' = store[j]
    /\ UNCHANGED <<durable, process, receiver, canceller, current, syncer>>

WorkerStart ==
    /\ up /\ wpc = "taken"
    /\ current' = wjob /\ wpc' = "running"
    /\ UNCHANGED <<durable, process, receiver, canceller, queue, wjob, wrow, syncer>>

\* wrow, saved as the worker's own copy.
WorkerSave(row) == Save(wjob, row) /\ wrow' = Saved(wjob, row)

\* _set_state: check the cancel flag, then save and report the next stage.
NextStage ==
    LET stage == StageAfter(wjob, wrow.state) IN
    /\ up /\ wpc = "running" /\ wrow.state # "FINALIZING"
    /\ ~store[wjob].cancel
    /\ WorkerSave([wrow EXCEPT !.state = stage])
    /\ Tell(wjob, {stage})
    /\ UNCHANGED <<tokens, nonces, files, process, receiver, canceller,
                   queue, current, wpc, wjob, syncer>>

StopCancelledQuietly ==
    /\ up /\ wpc = "running" /\ wrow.state # "FINALIZING"
    /\ store[wjob].cancel
    /\ wpc' = "done"
    /\ UNCHANGED <<durable, process, receiver, canceller, queue, current, wjob, wrow, syncer>>

\* A cancel check fails, at a stage's start or within it.  FINALIZING has none.
StopCancelled ==
    /\ up /\ wpc = "running" /\ wrow.state # "FINALIZING"
    /\ store[wjob].cancel
    /\ WorkerSave([wrow EXCEPT !.state = "CANCELLED"])
    /\ Tell(wjob, {"CANCELLED"})
    /\ wpc' = "done"
    /\ UNCHANGED <<tokens, nonces, files, process, receiver, canceller,
                   queue, current, wjob, syncer>>

StageFailsAndGoesOn ==
    /\ up /\ wpc = "running" /\ wrow.state \in Stages
    /\ WorkerSave([wrow EXCEPT !.state = "FAILED"])
    /\ Tell(wjob, {"FAILED"})
    /\ wpc' = "outbox"
    /\ UNCHANGED <<tokens, nonces, files, process, receiver, canceller,
                   queue, current, wjob, syncer>>

\* PipelineFailure, or any other exception of a stage.
StageFails ==
    /\ up /\ wpc = "running" /\ wrow.state \in Stages
    /\ WorkerSave([wrow EXCEPT !.state = "FAILED"])
    /\ Tell(wjob, {"FAILED"})
    /\ wpc' = "done"
    /\ UNCHANGED <<tokens, nonces, files, process, receiver, canceller,
                   queue, current, wjob, syncer>>

\* End of _stage_finalize: result.json is written, then its path is saved.
WriteResult ==
    /\ up /\ wpc = "running" /\ wrow.state = "FINALIZING"
    /\ files' = [files EXCEPT ![wjob] = @ \cup {"result"}]
    /\ WorkerSave(wrow)
    /\ wpc' = "outbox"
    /\ UNCHANGED <<tokens, nonces, reports, process, receiver, canceller,
                   queue, current, wjob, syncer>>

\* The two saves of _stage_sync.
EnterOutbox ==
    /\ up /\ wpc = "outbox"
    /\ WorkerSave([wrow EXCEPT !.state = "SYNCING", !.sync = "WAITING_TO_SYNC"])
    /\ wpc' = "complete"
    /\ UNCHANGED <<tokens, nonces, files, reports, process, receiver, canceller,
                   queue, current, wjob, syncer>>

Complete ==
    /\ up /\ wpc = "complete"
    /\ WorkerSave([wrow EXCEPT !.state = "COMPLETED"])
    /\ wpc' = "done"
    /\ UNCHANGED <<tokens, nonces, files, reports, process, receiver, canceller,
                   queue, current, wjob, syncer>>

\* The finally of _run: _current = None and the sync thread is woken.
WorkerDoneKeepsCurrent ==
    /\ up /\ wpc = "done"
    /\ wpc' = "idle" /\ wjob' = NoJob /\ wrow' = Blank
    /\ UNCHANGED <<durable, process, receiver, canceller, queue, current, syncer>>

WorkerDone ==
    /\ up /\ wpc = "done"
    /\ current' = NoJob /\ wpc' = "idle" /\ wjob' = NoJob /\ wrow' = Blank
    /\ UNCHANGED <<durable, process, receiver, canceller, queue, syncer>>

----------------------------------------------------------------------------
(* Syncer: SyncWorker.run_once and sync_job.                               *)

PendingUnlessInFlight(row) ==
    row.sync \in Unsynced \ {"SYNCING"} /\ row.state = "COMPLETED"

Pending(row) == row.sync \in Unsynced /\ row.state = "COMPLETED"

\* pending_sync() reads all the rows of the run at once.
SyncScan ==
    /\ up /\ spc = "idle" /\ \E j \in Jobs : Pending(store[j])
    /\ batch' = [j \in Jobs |-> IF Pending(store[j]) THEN store[j] ELSE Blank]
    /\ spc' = "batch"
    /\ UNCHANGED <<durable, process, receiver, canceller, worker, sjob, srow>>

Batched(j) == up /\ spc = "batch" /\ batch[j].state # "NONE"

\* The backoff of the job has not elapsed.
SyncSkip(j) ==
    /\ Batched(j) /\ batch[j].due = "later"
    /\ batch' = [batch EXCEPT ![j] = Blank]
    /\ UNCHANGED <<durable, process, receiver, canceller, worker, spc, sjob, srow>>

\* What remains to be sent: the result, then the audio if configured.
AfterResult(row) == IF UploadAudio /\ ~row.audioSent THEN "upload" ELSE "finish"

OneMore(attempts) == IF attempts < MaxAttempts THEN attempts + 1 ELSE MaxAttempts

\* Without its token the job cannot be sent: SYNC_FAILED, and on to the next.
SyncBegin(j) ==
    LET row == IF j \in tokens
               THEN [batch[j] EXCEPT !.sync = "SYNCING", !.attempts = OneMore(@)]
               ELSE [batch[j] EXCEPT !.sync = "SYNC_FAILED"] IN
    /\ Batched(j) /\ batch[j].due = "now"
    /\ Save(j, row)
    /\ batch' = [batch EXCEPT ![j] = Blank]
    /\ IF j \in tokens
       THEN /\ sjob' = j /\ srow' = Saved(j, row)
            /\ spc' = IF row.resultSent THEN AfterResult(row) ELSE "submit"
       ELSE UNCHANGED <<spc, sjob, srow>>
    /\ UNCHANGED <<tokens, nonces, files, reports, process, receiver, canceller, worker>>

\* The except clauses of sync_job: the job is given up or waits for a retry.
GivenUp(reply) ==
    \/ reply = "rejected"
    \/ reply = "transient" /\ MaxAttempts > 0 /\ srow.attempts >= MaxAttempts

AfterError(reply) ==
    IF GivenUp(reply)
    THEN [srow EXCEPT !.sync = "SYNC_FAILED", !.due = "now"]
    ELSE [srow EXCEPT !.sync = "WAITING_TO_SYNC", !.due = "later"]

SyncError(reply) ==
    /\ reply # "ok"
    /\ Save(sjob, AfterError(reply))
    /\ spc' = "batch" /\ sjob' = NoJob /\ srow' = Blank
    /\ UNCHANGED <<tokens, nonces, files, reports, process, receiver, canceller,
                   worker, batch>>

\* POST /result; the central server's answer is `reply'.
Submit(reply) ==
    /\ up /\ spc = "submit"
    /\ \/ SyncError(reply)
       \/ /\ reply = "ok"
          /\ Save(sjob, [srow EXCEPT !.resultSent = TRUE])
          /\ srow' = Saved(sjob, [srow EXCEPT !.resultSent = TRUE])
          /\ spc' = AfterResult(srow)
          /\ UNCHANGED <<tokens, nonces, files, reports, process, receiver, canceller,
                         worker, sjob, batch>>

\* POST /audio of the original, there when the call was made.  audioSent stays
\* in the copy until SyncFinish saves it.
Upload(reply) ==
    /\ up /\ spc = "upload"
    /\ \/ SyncError(reply)
       \/ /\ reply = "ok"
          /\ srow' = [srow EXCEPT !.audioSent = TRUE]
          /\ spc' = "finish"
          /\ UNCHANGED <<durable, process, receiver, canceller, worker, sjob, batch>>

\* The original is no longer there: its upload counts as done.
SkipUpload ==
    /\ up /\ spc = "upload" /\ "original" \notin files[sjob]
    /\ srow' = [srow EXCEPT !.audioSent = TRUE]
    /\ spc' = "finish"
    /\ UNCHANGED <<durable, process, receiver, canceller, worker, sjob, batch>>

SyncFinish ==
    /\ up /\ spc = "finish"
    /\ Save(sjob, [srow EXCEPT !.sync = "SYNCED", !.due = "now"])
    /\ spc' = "forget" /\ srow' = Blank
    /\ UNCHANGED <<tokens, nonces, files, reports, process, receiver, canceller,
                   worker, sjob, batch>>

ForgetToken ==
    /\ up /\ spc = "forget"
    /\ tokens' = tokens \ {sjob}
    /\ spc' = "batch" /\ sjob' = NoJob
    /\ UNCHANGED <<store, nonces, files, reports, process, receiver, canceller,
                   worker, srow, batch>>

BatchDone ==
    /\ up /\ spc = "batch" /\ \A j \in Jobs : batch[j].state = "NONE"
    /\ spc' = "idle"
    /\ UNCHANGED <<durable, process, receiver, canceller, worker, sjob, srow, batch>>

\* The clock passes next_sync_at.
BackoffElapses(j) ==
    /\ store[j].due = "later"
    /\ store' = [store EXCEPT ![j].due = "now"]
    /\ UNCHANGED <<tokens, nonces, files, reports, process, receiver, canceller,
                   worker, syncer>>

----------------------------------------------------------------------------
(* Cleanup: cleanup_once for one job.  The retention (72 h) outlives every *)
(* handler and every call, so no thread still holds a copy of the row.     *)

Untouched(j) ==
    rpc[j] = "idle" /\ cpc[j] = "idle" /\ wjob # j /\ sjob # j /\ batch[j].state = "NONE"

CleanableOnceTerminal(row) == row.state \in Terminal

Cleanable(row) ==
    /\ row.state \in Terminal
    /\ row.state = "COMPLETED" => row.sync \in {"SYNCED", "NOT_STARTED"}

CleanUp(j) ==
    /\ up /\ Untouched(j) /\ Cleanable(store[j]) /\ files[j] # {}
    /\ files' = [files EXCEPT ![j] = {}]
    /\ UNCHANGED <<store, tokens, nonces, reports, process, receiver, canceller,
                   worker, syncer>>

\* Somebody deletes the original (external).  After its first stage the worker
\* reads it no more, so a loss between that and COMPLETED shows only afterwards,
\* as here; one before is a stage that fails.
LoseOriginal(j) ==
    /\ store[j].state = "COMPLETED" /\ "original" \in files[j]
    /\ files' = [files EXCEPT ![j] = @ \ {"original"}]
    /\ lost' = lost \cup {j}
    /\ UNCHANGED <<store, tokens, nonces, reports, up, crashes, receiver, canceller,
                   worker, syncer>>

----------------------------------------------------------------------------
(* The process stops anywhere (a crash, or stop() giving up on a thread);  *)
(* JobManager.start then fails every job it finds active, silently.        *)

Stop ==
    /\ up /\ crashes < MaxCrashes
    /\ up' = FALSE /\ crashes' = crashes + 1
    /\ queue' = <<>> /\ current' = NoJob
    /\ rpc' = [j \in Jobs |-> "idle"] /\ rrow' = [j \in Jobs |-> Blank]
    /\ cpc' = [j \in Jobs |-> "idle"] /\ crow' = [j \in Jobs |-> Blank]
    /\ wpc' = "idle" /\ wjob' = NoJob /\ wrow' = Blank
    /\ spc' = "idle" /\ sjob' = NoJob /\ srow' = Blank
    /\ batch' = [j \in Jobs |-> Blank]
    /\ UNCHANGED <<durable, lost>>

RecoverAnyRow(j) ==
    /\ ~up /\ store[j].state \notin {"NONE", "FAILED"}
    /\ Save(j, [store[j] EXCEPT !.state = "FAILED"])
    /\ UNCHANGED <<tokens, nonces, files, reports, process, receiver, canceller,
                   worker, syncer>>

RecoverJob(j) ==
    /\ ~up /\ store[j].state \in Active
    /\ Save(j, [store[j] EXCEPT !.state = "FAILED"])
    /\ UNCHANGED <<tokens, nonces, files, reports, process, receiver, canceller,
                   worker, syncer>>

StartWithoutRecovery ==
    /\ ~up /\ up' = TRUE
    /\ UNCHANGED <<durable, crashes, lost, receiver, canceller, worker, syncer>>

Start ==
    /\ ~up /\ \A j \in Jobs : store[j].state \notin Active
    /\ up' = TRUE
    /\ UNCHANGED <<durable, crashes, lost, receiver, canceller, worker, syncer>>

----------------------------------------------------------------------------
Receive(j) ==
    AcceptToken(j) \/ CreateRow(j) \/ MarkReceiving(j) \/ Enqueue(j) \/ Discard(j) \/ StreamBreaks(j)
Cancel(j) ==
    CancelRead(j) \/ CancelFlag(j) \/ CancelCheck(j) \/ CancelLoad(j) \/ CancelSave(j)
Work ==
    \/ WorkerTake \/ WorkerStart \/ NextStage \/ StopCancelled \/ StageFails
    \/ WriteResult \/ EnterOutbox \/ Complete \/ WorkerDone
SyncLocal ==
    \/ SyncScan \/ SyncFinish \/ ForgetToken \/ BatchDone
    \/ \E j \in Jobs : SyncSkip(j) \/ SyncBegin(j)
SyncCall == SkipUpload \/ \E reply \in Replies : Submit(reply) \/ Upload(reply)
Restart == Start \/ \E j \in Jobs : RecoverJob(j)

Next ==
    \/ \E j \in Jobs :
        Receive(j) \/ Cancel(j) \/ BackoffElapses(j) \/ CleanUp(j) \/ LoseOriginal(j)
    \/ Work \/ SyncLocal \/ SyncCall \/ Stop \/ Restart

Spec == Init /\ [][Next]_vars

\* Threads that are up keep running, the agent is started again after it
\* stopped and the clock advances: weak fairness.  The client may never finish
\* its upload and nobody need cancel.  Assumption about the environment: a call
\* made again and again is answered "ok" at last (strong fairness).
Fairness ==
    /\ WF_vars(Work) /\ WF_vars(SyncLocal) /\ WF_vars(SyncCall) /\ WF_vars(Restart)
    /\ \A j \in Jobs :
        /\ WF_vars(CancelFlag(j) \/ CancelCheck(j) \/ CancelLoad(j) \/ CancelSave(j))
        /\ WF_vars(BackoffElapses(j)) /\ WF_vars(SyncSkip(j)) /\ WF_vars(SyncBegin(j))
        /\ SF_vars(sjob = j /\ Submit("ok")) /\ SF_vars(sjob = j /\ Upload("ok"))

FairSpec == Spec /\ Fairness

----------------------------------------------------------------------------
(* Safety *)

\* Whatever crashes and late cancellations did to the table, while the agent is
\* up only the worker's own job can be in a running state: nothing the agent
\* shows as running is without a thread that runs it (job_manager.py:84-91, 202-217).
OneJobAtATime ==
    up => \A j \in Jobs : store[j].state \in Running => j = wjob

\* A finished job the outbox still owes to the central server can be sent: the
\* agent has not cleaned up its result or its recording and keeps its token,
\* also if it stopped between two steps of sync_job (sync_worker.py:79-117).
OutboxDeliverable ==
    \A j \in Jobs : Pending(store[j]) =>
        "result" \in files[j] /\ j \in tokens /\ ("original" \in files[j] \/ j \in lost)

\* A stale copy that is saved back never loses a cancel request (store.py:206-213).
CancelNeverCleared ==
    [][\A j \in Jobs : store[j].cancel => store'[j].cancel]_vars

\* Four threads write whole rows back, and recovery rewrites them: still a row
\* that is COMPLETED, FAILED or CANCELLED keeps its state, and a SYNCED one
\* stays SYNCED, unless somebody asked to cancel the job.
FinishedRowsStay ==
    [][\A j \in Jobs : ~store[j].cancel =>
        /\ store[j].state \in Terminal => store'[j].state = store[j].state
        /\ store[j].sync = "SYNCED" => store'[j].sync = "SYNCED"]_vars

\* A job the central server was told has FAILED is never handed in afterwards.
FailureReportIsFinal ==
    \A j \in Jobs : [job |-> j, state |-> "FAILED"] \in reports => ~store[j].resultSent

----------------------------------------------------------------------------
(* Liveness *)

\* A cancelled job that is queued or being worked on ends for good, also when
\* enqueue() has overwritten CANCELLED with a stale RECEIVING_AUDIO.
CancelEndsJob ==
    \A j \in Jobs :
        store[j].cancel /\ (j = wjob \/ \E i \in DOMAIN queue : queue[i] = j)
            ~> [](store[j].state \in Terminal)

\* The outbox is emptied: a finished job is delivered however often the agent
\* is restarted in the middle of a transfer, unless it was cancelled late.
FinishedIsDelivered ==
    \A j \in Jobs : Pending(store[j]) ~> store[j].sync = "SYNCED" \/ store[j].state = "CANCELLED"

----------------------------------------------------------------------------
(* What the repository says and the code does not do *)

\* docs/desktop-agent.md:98: a permanent rejection means "SYNC_FAILED and no
\* further retries".  (With MaxAttempts = 0 nothing else sets SYNC_FAILED.)
NoRetryAfterRejection ==
    [][\A j \in Jobs : store[j].sync = "SYNC_FAILED" => store'[j].sync # "SYNCING"]_vars

\* job_manager.py:184: a job cancelled on the spot is "Not running yet".
CancelledOnTheSpotNotRunYet ==
    [][\A j \in Jobs : CancelSave(j) => store[j].state # "COMPLETED"]_vars

\* docs/desktop-agent.md:98: "Results survive agent restarts."  A job whose
\* result waits in the outbox is not failed by a restart.
ResultsSurviveRestart ==
    [][\A j \in Jobs : store[j].sync = "WAITING_TO_SYNC" => store'[j].state # "FAILED"]_vars
=============================================================================
