-------------------------- MODULE AgentJobs_proofs --------------------------
(***************************************************************************)
(* Proofs about the agent's job machinery, for any set of jobs, any        *)
(* settings and any number of restarts.                                    *)
(***************************************************************************)
EXTENDS AgentJobs, TLAPS

\* What JobStore.save writes, and what it leaves in the caller's copy, is a row.
LEMMA SaveType ==
    ASSUME TypeOK, NEW j \in Jobs, NEW row \in Row
    PROVE  /\ Saved(j, row) \in Row
           /\ Save(j, row) => store' \in [Jobs -> Row]
<1>1. Saved(j, row) \in Row
    BY DEF TypeOK, Saved, Row
<1>2. QED
    BY <1>1 DEF TypeOK, Save

\* The agent starts with no jobs, no copies and idle threads.
LEMMA TypeInit == Init => TypeOK
BY JobsAssumption, SettingsAssumption
   DEF Init, TypeOK, Row, Blank, States, Active, Running, Stages, Terminal, SyncStates,
       Unsynced, Report

\* Types survive the acceptance of a token (create_job up to verify_models).
LEMMA AcceptTokenType ==
    ASSUME TypeOK, NEW j \in Jobs, AcceptToken(j) PROVE TypeOK'
BY DEF AcceptToken, TypeOK, process, canceller, worker, syncer

\* A row with another state is a row; nothing but the state changes.
LEMMA BlankType ==
    /\ Blank \in Row
    /\ \A row \in Row, s \in States : /\ [row EXCEPT !.state = s] \in Row
                                      /\ [row EXCEPT !.state = s].state = s
                                      /\ [row EXCEPT !.state = s].sync = row.sync
                                      /\ [row EXCEPT !.state = s].cancel = row.cancel
BY SettingsAssumption DEF Blank, Row, SyncStates, States

\* The states a handler other than the worker writes are not running ones.
LEMMA StateNames ==
    /\ {"NONE", "CREATED", "RECEIVING_AUDIO", "COMPLETED", "FAILED", "CANCELLED"}
           \subseteq States \ Running
    /\ Running \subseteq States
BY DEF States, Active, Running, Stages, Terminal

\* A progress report names a job and a state.
LEMMA TellType ==
    ASSUME TypeOK, NEW j \in Jobs, NEW states \in SUBSET States, Tell(j, states)
    PROVE  reports' \subseteq Report
BY DEF TypeOK, Tell, Report

\* Types survive JobManager.create_job.
LEMMA CreateRowType ==
    ASSUME TypeOK, NEW j \in Jobs, CreateRow(j) PROVE TypeOK'
<1> DEFINE row == [Blank EXCEPT !.state = "CREATED"]
<1>1. row \in Row
    BY BlankType DEF States, Active
<1>2. /\ Save(j, row) /\ rpc' = [rpc EXCEPT ![j] = "created"]
      /\ rrow' = [rrow EXCEPT ![j] = Saved(j, row)] /\ tokens' = tokens \cup {j}
      /\ UNCHANGED <<nonces, files, reports, process, canceller, worker, syncer>>
    BY DEF CreateRow
<1>3. store' \in [Jobs -> Row] /\ rrow' \in [Jobs -> Row]
    <2> HIDE DEF row
    <2> QED BY <1>1, <1>2, SaveType DEF TypeOK
<1> HIDE DEF row
<1>4. QED
    BY <1>2, <1>3 DEF TypeOK, process, canceller, worker, syncer

\* Types survive mark_receiving.
LEMMA MarkReceivingType ==
    ASSUME TypeOK, NEW j \in Jobs, MarkReceiving(j) PROVE TypeOK'
<1> DEFINE row == [rrow[j] EXCEPT !.state = "RECEIVING_AUDIO"]
<1>1. row \in Row
    BY BlankType DEF States, Active, TypeOK
<1>2. /\ Save(j, row) /\ Tell(j, {"CREATED", "RECEIVING_AUDIO"})
      /\ rpc' = [rpc EXCEPT ![j] = "streaming"]
      /\ rrow' = [rrow EXCEPT ![j] = Saved(j, row)]
      /\ UNCHANGED <<tokens, nonces, files, process, canceller, worker, syncer>>
    BY DEF MarkReceiving
<1> HIDE DEF row
<1>3. store' \in [Jobs -> Row] /\ rrow' \in [Jobs -> Row]
    BY <1>1, <1>2, SaveType DEF TypeOK
<1>4. reports' \subseteq Report
    BY <1>2, TellType DEF States, Active
<1>5. QED
    BY <1>2, <1>3, <1>4 DEF TypeOK, process, canceller, worker, syncer

\* Types survive enqueue.
LEMMA EnqueueType ==
    ASSUME TypeOK, NEW j \in Jobs, Enqueue(j) PROVE TypeOK'
<1>1. store' \in [Jobs -> Row]
    BY SaveType DEF TypeOK, Enqueue
<1>2. /\ rpc' \in [Jobs -> {"idle", "accepted", "created", "streaming"}]
      /\ rrow' \in [Jobs -> Row]
    BY BlankType DEF TypeOK, Enqueue, EndReceiving
<1>3. queue' \in Seq(Jobs)
    BY DEF TypeOK, Enqueue
<1>4. files' \in [Jobs -> SUBSET {"original", "result"}]
    BY DEF TypeOK, Enqueue
<1>5. QED
    BY <1>1, <1>2, <1>3, <1>4 DEF Enqueue, TypeOK, process, canceller, syncer

\* Types survive discard.
LEMMA DiscardType ==
    ASSUME TypeOK, NEW j \in Jobs, Discard(j) PROVE TypeOK'
<1>1. store' \in [Jobs -> Row]
    BY SaveType, BlankType DEF TypeOK, Discard, States, Terminal
<1>2. /\ rpc' \in [Jobs -> {"idle", "accepted", "created", "streaming"}]
      /\ rrow' \in [Jobs -> Row]
    BY BlankType DEF TypeOK, Discard, EndReceiving
<1>3. files' \in [Jobs -> SUBSET {"original", "result"}]
    BY DEF TypeOK, Discard
<1>4. reports' \subseteq Report
    BY TellType DEF Discard, States, Terminal
<1>5. QED
    BY <1>1, <1>2, <1>3, <1>4 DEF Discard, TypeOK, process, canceller, worker, syncer

\* Types survive an upload that breaks off.
LEMMA StreamBreaksType ==
    ASSUME TypeOK, NEW j \in Jobs, StreamBreaks(j) PROVE TypeOK'
BY BlankType DEF StreamBreaks, EndReceiving, TypeOK, durable, process, canceller, worker, syncer

\* Types survive every step of JobManager.cancel.
LEMMA CancelType ==
    ASSUME TypeOK, NEW j \in Jobs, Cancel(j) PROVE TypeOK'
<1>1. CASE CancelRead(j)
    BY <1>1 DEF CancelRead, TypeOK, durable, process, receiver, worker, syncer
<1>2. CASE CancelFlag(j)
    <2>1. [store[j] EXCEPT !.cancel = TRUE] \in Row
        BY ZenonT(60) DEF TypeOK, Row
    <2>2. store' \in [Jobs -> Row]
        BY <1>2, <2>1 DEF CancelFlag, TypeOK
    <2>3. QED
        BY <1>2, <2>2 DEF CancelFlag, TypeOK, process, receiver, worker, syncer
<1>3. CASE CancelCheck(j)
    BY <1>3 DEF CancelCheck, TypeOK, durable, process, receiver, worker, syncer
<1>4. CASE CancelLoad(j)
    BY <1>4 DEF CancelLoad, TypeOK, durable, process, receiver, worker, syncer
<1>5. CASE CancelSave(j)
    <2>1. store' \in [Jobs -> Row]
        BY <1>5, SaveType, BlankType DEF TypeOK, CancelSave, States, Terminal
    <2>2. reports' \subseteq Report
        BY <1>5, TellType DEF CancelSave, States, Terminal
    <2>3. QED
        BY <1>5, <2>1, <2>2, BlankType
           DEF CancelSave, TypeOK, process, receiver, worker, syncer
<1>6. QED
    BY <1>1, <1>2, <1>3, <1>4, <1>5 DEF Cancel

\* The steps of the worker that save its copy leave rows in the table and in it.
LEMMA WorkerSaveType ==
    ASSUME TypeOK, wpc # "idle", NEW row \in Row, WorkerSave(row)
    PROVE  store' \in [Jobs -> Row] /\ wrow' \in Row
BY SaveType DEF WorkerSave, TypeOK

\* A stage is followed by a stage.
LEMMA StageAfterType ==
    \A j, state : StageAfter(j, state) \in Stages /\ Stages \subseteq States
BY DEF StageAfter, Stages, States, Active, Running

\* Types survive every step of the worker.
LEMMA WorkType ==
    ASSUME TypeOK, Work PROVE TypeOK'
<1>1. CASE WorkerTake
    <2>1. Head(queue) \in Jobs /\ Tail(queue) \in Seq(Jobs)
        BY <1>1 DEF WorkerTake, TypeOK
    <2>2. QED
        BY <1>1, <2>1, JobsAssumption
           DEF WorkerTake, TypeOK, durable, process, receiver, canceller, syncer
<1>2. CASE WorkerStart
    BY <1>2 DEF WorkerStart, TypeOK, durable, process, receiver, canceller, syncer
<1>3. CASE NextStage
    <2>1. PICK stage \in States : /\ WorkerSave([wrow EXCEPT !.state = stage])
                                  /\ Tell(wjob, {stage})
        BY <1>3, StageAfterType DEF NextStage
    <2>2. store' \in [Jobs -> Row] /\ wrow' \in Row
        BY <1>3, <2>1, WorkerSaveType, BlankType DEF NextStage, TypeOK
    <2>3. reports' \subseteq Report
        BY <1>3, <2>1, TellType DEF NextStage, TypeOK
    <2>4. QED
        BY <1>3, <2>2, <2>3 DEF NextStage, TypeOK, process, receiver, canceller, syncer
<1>4. CASE StopCancelled
    <2>1. store' \in [Jobs -> Row] /\ wrow' \in Row
        BY <1>4, WorkerSaveType, BlankType DEF StopCancelled, TypeOK, States, Terminal
    <2>2. reports' \subseteq Report
        BY <1>4, TellType DEF StopCancelled, TypeOK, States, Terminal
    <2>3. QED
        BY <1>4, <2>1, <2>2 DEF StopCancelled, TypeOK, process, receiver, canceller, syncer
<1>5. CASE StageFails
    <2>1. store' \in [Jobs -> Row] /\ wrow' \in Row
        BY <1>5, WorkerSaveType, BlankType DEF StageFails, TypeOK, States, Terminal
    <2>2. reports' \subseteq Report
        BY <1>5, TellType DEF StageFails, TypeOK, States, Terminal
    <2>3. QED
        BY <1>5, <2>1, <2>2 DEF StageFails, TypeOK, process, receiver, canceller, syncer
<1>6. CASE WriteResult
    <2>1. store' \in [Jobs -> Row] /\ wrow' \in Row
        BY <1>6, WorkerSaveType DEF WriteResult, TypeOK
    <2>2. files' \in [Jobs -> SUBSET {"original", "result"}]
        BY <1>6 DEF WriteResult, TypeOK
    <2>3. QED
        BY <1>6, <2>1, <2>2 DEF WriteResult, TypeOK, process, receiver, canceller, syncer
<1>7. CASE EnterOutbox
    <2>1. [wrow EXCEPT !.state = "SYNCING", !.sync = "WAITING_TO_SYNC"] \in Row
        BY DEF TypeOK, Row, States, Active, Running, SyncStates, Unsynced
    <2>2. store' \in [Jobs -> Row] /\ wrow' \in Row
        BY <1>7, <2>1, WorkerSaveType DEF EnterOutbox, TypeOK
    <2>3. QED
        BY <1>7, <2>2 DEF EnterOutbox, TypeOK, process, receiver, canceller, syncer
<1>8. CASE Complete
    <2>1. store' \in [Jobs -> Row] /\ wrow' \in Row
        BY <1>8, WorkerSaveType, BlankType DEF Complete, TypeOK, States, Terminal
    <2>2. QED
        BY <1>8, <2>1 DEF Complete, TypeOK, process, receiver, canceller, syncer
<1>9. CASE WorkerDone
    BY <1>9, BlankType DEF WorkerDone, TypeOK, durable, process, receiver, canceller, syncer
<1>10. QED
    BY <1>1, <1>2, <1>3, <1>4, <1>5, <1>6, <1>7, <1>8, <1>9 DEF Work

\* A syncer step that fails its call writes the row back and goes on.
LEMMA SyncErrorType ==
    ASSUME TypeOK, spc \notin {"idle", "batch"}, NEW reply \in Replies, SyncError(reply)
    PROVE  TypeOK'
<1>1. AfterError(reply) \in Row
    BY DEF AfterError, TypeOK, Row, SyncStates, Unsynced
<1>2. store' \in [Jobs -> Row]
    BY <1>1, SaveType DEF SyncError, TypeOK
<1>3. QED
    BY <1>2, BlankType DEF SyncError, TypeOK, process, receiver, canceller, worker

\* Types survive the first save of sync_job.
LEMMA SyncBeginType ==
    ASSUME TypeOK, NEW j \in Jobs, SyncBegin(j) PROVE TypeOK'
<1> DEFINE row == IF j \in tokens
                  THEN [batch[j] EXCEPT !.sync = "SYNCING", !.attempts = OneMore(@)]
                  ELSE [batch[j] EXCEPT !.sync = "SYNC_FAILED"]
<1>1. OneMore(batch[j].attempts) \in 0..MaxAttempts
    BY SettingsAssumption DEF OneMore, TypeOK, Row
<1>2. row \in Row
  <2>1. batch[j] \in Row
      BY DEF TypeOK
  <2>2. [batch[j] EXCEPT !.sync = "SYNCING", !.attempts = OneMore(@)] \in Row
      BY <1>1, <2>1 DEF Row, SyncStates, Unsynced
  <2>3. [batch[j] EXCEPT !.sync = "SYNC_FAILED"] \in Row
      BY <2>1 DEF Row, SyncStates, Unsynced
  <2>4. QED
      BY <2>2, <2>3
<1>3. /\ Save(j, row) /\ batch' = [batch EXCEPT ![j] = Blank] /\ spc = "batch"
      /\ IF j \in tokens
         THEN /\ sjob' = j /\ srow' = Saved(j, row)
              /\ spc' = IF row.resultSent THEN AfterResult(row) ELSE "submit"
         ELSE UNCHANGED <<spc, sjob, srow>>
      /\ UNCHANGED <<tokens, nonces, files, reports, process, receiver, canceller, worker>>
    BY DEF SyncBegin, Batched
<1> HIDE DEF row
<1>4. store' \in [Jobs -> Row] /\ srow' \in Row
    BY <1>2, <1>3, SaveType DEF TypeOK
<1>5. batch' \in [Jobs -> Row]
    BY <1>3, BlankType DEF TypeOK
<1>6. /\ spc' \in {"idle", "batch", "submit", "upload", "finish", "forget"}
      /\ sjob' \in Jobs \cup {NoJob}
      /\ sjob' = NoJob <=> spc' \in {"idle", "batch"}
    BY <1>3, JobsAssumption DEF AfterResult, TypeOK
<1>7. QED
    BY <1>3, <1>4, <1>5, <1>6 DEF TypeOK, process, receiver, canceller, worker

\* Types survive the call that hands in the result.
LEMMA SubmitType ==
    ASSUME TypeOK, NEW reply \in Replies, Submit(reply) PROVE TypeOK'
<1>1. CASE SyncError(reply)
    BY <1>1, SyncErrorType DEF Submit
<1>2. CASE reply = "ok" /\ ~SyncError(reply)
    <2>1. [srow EXCEPT !.resultSent = TRUE] \in Row
        BY DEF TypeOK, Row
    <2>2. store' \in [Jobs -> Row] /\ srow' \in Row
        BY <1>2, <2>1, SaveType DEF Submit, TypeOK
    <2>3. QED
        BY <1>2, <2>2 DEF Submit, AfterResult, TypeOK, process, receiver, canceller, worker
<1>3. QED
    BY <1>1, <1>2 DEF Submit

\* Types survive the call that uploads the audio.
LEMMA UploadType ==
    ASSUME TypeOK, NEW reply \in Replies, Upload(reply) PROVE TypeOK'
<1>1. CASE SyncError(reply)
    BY <1>1, SyncErrorType DEF Upload
<1>2. CASE ~SyncError(reply)
    <2>1. [srow EXCEPT !.audioSent = TRUE] \in Row
        BY DEF TypeOK, Row
    <2>2. QED
        BY <1>2, <2>1 DEF Upload, TypeOK, durable, process, receiver, canceller, worker
<1>3. QED
    BY <1>1, <1>2

\* To the syncer a skipped upload is like one that was answered.
LEMMA SkippedUpload == SyncCall => \E reply \in Replies : Submit(reply) \/ Upload(reply)
BY DEF SyncCall, SkipUpload, Upload, Replies

\* Types survive the steps of the syncer that call nobody.
LEMMA SyncLocalType ==
    ASSUME TypeOK, SyncLocal PROVE TypeOK'
<1>1. CASE SyncScan
    BY <1>1, BlankType DEF SyncScan, TypeOK, durable, process, receiver, canceller, worker
<1>2. CASE SyncFinish
    <2>1. [srow EXCEPT !.sync = "SYNCED", !.due = "now"] \in Row
        BY DEF TypeOK, Row, SyncStates
    <2>2. store' \in [Jobs -> Row]
        BY <1>2, <2>1, SaveType DEF SyncFinish, TypeOK
    <2>3. QED
        BY <1>2, <2>2, BlankType DEF SyncFinish, TypeOK, process, receiver, canceller, worker
<1>3. CASE ForgetToken
    BY <1>3 DEF ForgetToken, TypeOK, process, receiver, canceller, worker
<1>4. CASE BatchDone
    BY <1>4 DEF BatchDone, TypeOK, durable, process, receiver, canceller, worker
<1>5. ASSUME NEW j \in Jobs, SyncSkip(j) PROVE TypeOK'
    BY <1>5, BlankType
       DEF SyncSkip, Batched, TypeOK, durable, process, receiver, canceller, worker
<1>6. ASSUME NEW j \in Jobs, SyncBegin(j) PROVE TypeOK'
    BY <1>6, SyncBeginType
<1>7. QED
    BY <1>1, <1>2, <1>3, <1>4, <1>5, <1>6 DEF SyncLocal

\* Types survive the stop, the recovery and the start of the agent.
LEMMA ProcessType ==
    ASSUME TypeOK, Stop \/ Restart PROVE TypeOK'
<1>1. CASE Stop
    <2>1. crashes' \in 0..MaxCrashes
        BY <1>1, SettingsAssumption DEF Stop, TypeOK
    <2>2. /\ Blank \in Row /\ queue' \in Seq(Jobs)
          /\ store' \in [Jobs -> Row]
        BY <1>1, BlankType DEF Stop, TypeOK, durable
    <2>3. /\ rrow' \in [Jobs -> Row] /\ crow' \in [Jobs -> Row]
          /\ wrow' \in Row /\ srow' \in Row /\ batch' \in [Jobs -> Row]
        BY <1>1, <2>2 DEF Stop
    <2>4. /\ rpc' \in [Jobs -> {"idle", "accepted", "created", "streaming"}]
          /\ cpc' \in [Jobs -> {"idle", "flag", "check", "load", "save"}]
        BY <1>1 DEF Stop
    <2>5. /\ up' \in BOOLEAN /\ wpc' = "idle" /\ spc' = "idle"
          /\ wjob' = NoJob /\ current' = NoJob /\ sjob' = NoJob
        BY <1>1 DEF Stop
    <2>6. /\ tokens' \subseteq Jobs /\ nonces' \subseteq Jobs /\ reports' \subseteq Report
          /\ files' \in [Jobs -> SUBSET {"original", "result"}] /\ lost' \subseteq Jobs
        BY <1>1 DEF Stop, TypeOK, durable
    <2>7. QED
        BY <2>1, <2>2, <2>3, <2>4, <2>5, <2>6 DEF TypeOK
<1>2. CASE Start
    BY <1>2 DEF Start, TypeOK, durable, receiver, canceller, worker, syncer
<1>3. ASSUME NEW j \in Jobs, RecoverJob(j) PROVE TypeOK'
    <2>1. store' \in [Jobs -> Row]
        BY <1>3, SaveType, BlankType DEF RecoverJob, TypeOK, States, Terminal
    <2>2. QED
        BY <1>3, <2>1 DEF RecoverJob, TypeOK, process, receiver, canceller, worker, syncer
<1>4. QED
    BY <1>1, <1>2, <1>3 DEF Restart

\* Types survive the clock, the cleanup and the loss of a recording.
LEMMA TimeType ==
    ASSUME TypeOK, NEW j \in Jobs, BackoffElapses(j) \/ CleanUp(j) \/ LoseOriginal(j)
    PROVE  TypeOK'
<1>1. CASE BackoffElapses(j)
    <2>1. [store[j] EXCEPT !.due = "now"] \in Row
        BY ZenonT(60) DEF TypeOK, Row
    <2>2. store' \in [Jobs -> Row]
        BY <1>1, <2>1 DEF BackoffElapses, TypeOK
    <2>3. QED
        BY <1>1, <2>2 DEF BackoffElapses, TypeOK, process, receiver, canceller, worker, syncer
<1>2. CASE CleanUp(j)
    <2>1. files' \in [Jobs -> SUBSET {"original", "result"}]
        BY <1>2 DEF CleanUp, TypeOK
    <2>2. QED
        BY <1>2, <2>1 DEF CleanUp, TypeOK, process, receiver, canceller, worker, syncer
<1>3. CASE LoseOriginal(j)
    <2>1. files' \in [Jobs -> SUBSET {"original", "result"}]
        BY <1>3 DEF LoseOriginal, TypeOK
    <2>2. QED
        BY <1>3, <2>1 DEF LoseOriginal, TypeOK, receiver, canceller, worker, syncer
<1>4. QED
    BY <1>1, <1>2, <1>3

\* Types survive every step of a receiver.
LEMMA ReceiveType ==
    ASSUME TypeOK, NEW j \in Jobs, Receive(j) PROVE TypeOK'
BY AcceptTokenType, CreateRowType, MarkReceivingType, EnqueueType, DiscardType,
   StreamBreaksType DEF Receive

\* Types survive a step of somebody else.
LEMMA StutterType == ASSUME TypeOK, UNCHANGED vars PROVE TypeOK'
BY DEF TypeOK, vars, durable, process, receiver, canceller, worker, syncer

\* TypeOK is inductive.
LEMMA NextType == ASSUME TypeOK, [Next]_vars PROVE TypeOK'
BY ReceiveType, CancelType, TimeType, WorkType, SyncLocalType, SubmitType, UploadType,
   ProcessType, StutterType, SkippedUpload DEF Next

\* Every value of every variable has its type, and the worker and the syncer
\* hold a job exactly while they handle one (JobManager._run, SyncWorker.sync_job).
THEOREM Typing == Spec => []TypeOK
BY TypeInit, NextType, PTL DEF Spec

----------------------------------------------------------------------------
(* Cancel requests *)

\* save() keeps the request that is in the row.
LEMMA SaveKeepsCancel ==
    ASSUME TypeOK, NEW k \in Jobs, store[k].cancel,
           NEW j \in Jobs, NEW row \in Row, Save(j, row)
    PROVE  store'[k].cancel
<1>1. Saved(j, row) \in Row /\ (j = k => Saved(j, row).cancel)
    BY SaveType DEF Saved, Row
<1>2. QED
    BY <1>1 DEF TypeOK, Save

\* Every step that writes the table saves a row, or changes one field of one
\* row: cancel becomes TRUE, or due becomes "now".
LEMMA Writes ==
    ASSUME TypeOK, Next
    PROVE  \/ \E j \in Jobs, row \in Row : Save(j, row)
           \/ \E j \in Jobs : CancelFlag(j) \/ BackoffElapses(j)
           \/ UNCHANGED store
<1> USE DEF TypeOK
<1>1. ASSUME NEW j \in Jobs, Receive(j)
      PROVE  UNCHANGED store \/ \E row \in Row : Save(j, row)
    <2>1. CASE AcceptToken(j) \/ StreamBreaks(j)
        BY <2>1 DEF AcceptToken, StreamBreaks, durable
    <2>2. CASE CreateRow(j)
        BY <2>2, BlankType DEF CreateRow, States, Active
    <2>3. CASE MarkReceiving(j)
        BY <2>3, BlankType DEF MarkReceiving, States, Active
    <2>4. CASE Enqueue(j)
        BY <2>4 DEF Enqueue
    <2>5. CASE Discard(j)
        BY <2>5, BlankType DEF Discard, States, Terminal
    <2>6. QED
        BY <1>1, <2>1, <2>2, <2>3, <2>4, <2>5 DEF Receive
<1>2. ASSUME NEW j \in Jobs, Cancel(j)
      PROVE  UNCHANGED store \/ CancelFlag(j) \/ \E row \in Row : Save(j, row)
    <2>1. CASE CancelRead(j) \/ CancelCheck(j) \/ CancelLoad(j)
        BY <2>1 DEF CancelRead, CancelCheck, CancelLoad, durable
    <2>2. CASE CancelSave(j)
        BY <2>2, BlankType DEF CancelSave, States, Terminal
    <2>3. QED
        BY <1>2, <2>1, <2>2 DEF Cancel
<1>3. ASSUME Work PROVE UNCHANGED store \/ \E j \in Jobs, row \in Row : Save(j, row)
    <2>1. CASE WorkerTake \/ WorkerStart \/ WorkerDone
        BY <2>1 DEF WorkerTake, WorkerStart, WorkerDone, durable
    <2>2. CASE NextStage
        BY <2>2, BlankType, StageAfterType DEF NextStage, WorkerSave
    <2>3. CASE StopCancelled \/ StageFails \/ Complete
        BY <2>3, BlankType DEF StopCancelled, StageFails, Complete, WorkerSave, States, Terminal
    <2>4. CASE WriteResult
        BY <2>4 DEF WriteResult, WorkerSave
    <2>5. CASE EnterOutbox
        <3>1. [wrow EXCEPT !.state = "SYNCING", !.sync = "WAITING_TO_SYNC"] \in Row
            BY DEF Row, States, Active, Running, SyncStates, Unsynced
        <3>2. QED
            BY <2>5, <3>1 DEF EnterOutbox, WorkerSave
    <2>6. QED
        BY <1>3, <2>1, <2>2, <2>3, <2>4, <2>5 DEF Work
<1>4. ASSUME SyncLocal PROVE UNCHANGED store \/ \E j \in Jobs, row \in Row : Save(j, row)
    <2>1. CASE SyncScan \/ ForgetToken \/ BatchDone
        BY <2>1 DEF SyncScan, ForgetToken, BatchDone, durable
    <2>2. ASSUME NEW j \in Jobs, SyncSkip(j) PROVE UNCHANGED store
        BY <2>2 DEF SyncSkip, durable
    <2>3. CASE SyncFinish
        <3>1. [srow EXCEPT !.sync = "SYNCED", !.due = "now"] \in Row
            BY DEF Row, SyncStates
        <3>2. QED
            BY <2>3, <3>1 DEF SyncFinish
    <2>4. ASSUME NEW j \in Jobs, SyncBegin(j) PROVE \E row \in Row : Save(j, row)
        <3>1. OneMore(batch[j].attempts) \in 0..MaxAttempts
            BY SettingsAssumption DEF OneMore, Row
        <3>2. /\ [batch[j] EXCEPT !.sync = "SYNCING", !.attempts = OneMore(@)] \in Row
              /\ [batch[j] EXCEPT !.sync = "SYNC_FAILED"] \in Row
            BY ZenonT(60), <3>1 DEF Row, SyncStates, Unsynced
        <3>3. QED
            BY <2>4, <3>2 DEF SyncBegin
    <2>5. QED
        BY <1>4, <2>1, <2>2, <2>3, <2>4 DEF SyncLocal
<1>5. ASSUME SyncCall PROVE UNCHANGED store \/ \E j \in Jobs, row \in Row : Save(j, row)
    <2>1. ASSUME NEW reply \in Replies, Submit(reply) \/ Upload(reply), SyncError(reply)
          PROVE  \E j \in Jobs, row \in Row : Save(j, row)
        <3>1. AfterError(reply) \in Row
            BY DEF AfterError, Row, SyncStates, Unsynced
        <3>2. QED
            BY <2>1, <3>1 DEF Submit, Upload, SyncError
    <2>2. ASSUME NEW reply \in Replies, Submit(reply), ~SyncError(reply)
          PROVE  \E j \in Jobs, row \in Row : Save(j, row)
        <3>1. [srow EXCEPT !.resultSent = TRUE] \in Row
            BY DEF Row
        <3>2. QED
            BY <2>2, <3>1 DEF Submit
    <2>3. ASSUME NEW reply \in Replies, Upload(reply), ~SyncError(reply)
          PROVE  UNCHANGED store
        BY <2>3 DEF Upload, durable
    <2>4. QED
        BY <1>5, <2>1, <2>2, <2>3, SkippedUpload
<1>6. ASSUME NEW j \in Jobs, RecoverJob(j) PROVE \E row \in Row : Save(j, row)
    BY <1>6, BlankType DEF RecoverJob, States, Terminal
<1>7. ASSUME Stop \/ Start \/ \E j \in Jobs : CleanUp(j) \/ LoseOriginal(j) PROVE UNCHANGED store
    BY <1>7 DEF Stop, Start, CleanUp, LoseOriginal, durable
<1>8. QED
    BY <1>1, <1>2, <1>3, <1>4, <1>5, <1>6, <1>7 DEF Next, Restart

\* No stale copy written back by any thread, and no restart, loses a cancel
\* request (JobStore.save re-reads cancel_requested under its lock).
THEOREM CancelRequestsSurvive == Spec => CancelNeverCleared
<1>1. ASSUME TypeOK, [Next]_vars, NEW k \in Jobs, store[k].cancel PROVE store'[k].cancel
    <2>1. CASE UNCHANGED store
        BY <1>1, <2>1
    <2>2. ASSUME NEW j \in Jobs, NEW row \in Row, Save(j, row) PROVE store'[k].cancel
        BY <1>1, <2>2, SaveKeepsCancel
    <2>3. ASSUME NEW j \in Jobs, CancelFlag(j) \/ BackoffElapses(j) PROVE store'[k].cancel
        <3>1. /\ [store[j] EXCEPT !.cancel = TRUE].cancel
              /\ [store[j] EXCEPT !.due = "now"].cancel = store[j].cancel
            BY DEF TypeOK, Row
        <3>2. QED
            BY <1>1, <2>3, <3>1 DEF CancelFlag, BackoffElapses, TypeOK
    <2>4. UNCHANGED vars => UNCHANGED store
        BY DEF vars, durable
    <2>5. QED
        BY <1>1, <2>1, <2>2, <2>3, <2>4, Writes
<1>2. TypeOK /\ [Next]_vars => [\A j \in Jobs : store[j].cancel => store'[j].cancel]_vars
    BY <1>1
<1>3. QED
    BY <1>2, Typing, PTL DEF Spec, CancelNeverCleared

----------------------------------------------------------------------------
(* One job at a time *)

\* The fields of a saved row are those of the copy, cancel apart.
LEMMA SavedFields ==
    ASSUME TypeOK, NEW j \in Jobs, NEW row \in Row, Save(j, row)
    PROVE  /\ store'[j] = Saved(j, row)
           /\ Saved(j, row).state = row.state /\ Saved(j, row).sync = row.sync
           /\ \A k \in Jobs \ {j} : store'[k] = store[k]
BY DEF TypeOK, Save, Saved, Row

\* No copy but the worker's is in a running state, and when the worker lets go
\* of its job the row is not in one either.
CopiesNotRunning ==
    /\ \A j \in Jobs : rrow[j].state \notin Running /\ batch[j].state \notin Running
    /\ srow.state \notin Running
    /\ wpc = "done" => store[wjob].state \notin Running

OneJobInv == TypeOK /\ OneJobAtATime /\ CopiesNotRunning

\* Saving a row that is not running cannot make another job run.
LEMMA SaveNotRunning ==
    ASSUME OneJobInv, NEW j \in Jobs, NEW row \in Row, row.state \notin Running,
           Save(j, row), up' = up, wjob' = wjob, wpc' = wpc
    PROVE  OneJobAtATime' /\ (wpc' = "done" => store'[wjob'].state \notin Running)
<1>1. \A k \in Jobs : store'[k].state \in Running => store[k].state \in Running
    BY SavedFields DEF OneJobInv
<1>2. wpc = "done" => wjob \in Jobs
    BY DEF OneJobInv, TypeOK
<1>3. QED
    BY <1>1, <1>2 DEF OneJobInv, OneJobAtATime, CopiesNotRunning

\* A receiver never writes a running state.
LEMMA OneJobReceive ==
    ASSUME OneJobInv, NEW j \in Jobs, Receive(j)
    PROVE  OneJobAtATime' /\ CopiesNotRunning'
<1> USE DEF OneJobInv
<1>1. Blank.state \notin Running
    BY DEF Blank, Running, Stages
<1>2. CASE AcceptToken(j) \/ StreamBreaks(j)
    BY <1>1, <1>2 DEF AcceptToken, StreamBreaks, EndReceiving, OneJobAtATime,
       CopiesNotRunning, durable, process, worker, syncer, TypeOK
<1>3. ASSUME NEW row \in Row, row.state \in {"CREATED", "RECEIVING_AUDIO"}, Save(j, row),
             rrow' = [rrow EXCEPT ![j] = Saved(j, row)],
             UNCHANGED <<process, worker, syncer>>
      PROVE  OneJobAtATime' /\ CopiesNotRunning'
    <2>1. row.state \notin Running
        BY <1>3 DEF Running, Stages
    <2>2. rrow'[j].state \notin Running /\ \A k \in Jobs \ {j} : rrow'[k] = rrow[k]
        BY <1>3, <2>1, SavedFields DEF TypeOK
    <2>3. QED
        BY <1>3, <2>1, <2>2, SaveNotRunning DEF process, worker, syncer, CopiesNotRunning
<1>4. CASE CreateRow(j)
    <2>1. /\ [Blank EXCEPT !.state = "CREATED"] \in Row
          /\ [Blank EXCEPT !.state = "CREATED"].state = "CREATED"
        BY BlankType, StateNames
    <2>2. QED
        BY <1>3, <1>4, <2>1 DEF CreateRow
<1>5. CASE MarkReceiving(j)
    <2>1. /\ [rrow[j] EXCEPT !.state = "RECEIVING_AUDIO"] \in Row
          /\ [rrow[j] EXCEPT !.state = "RECEIVING_AUDIO"].state = "RECEIVING_AUDIO"
        BY BlankType, StateNames DEF TypeOK
    <2>2. QED
        BY <1>3, <1>5, <2>1 DEF MarkReceiving
<1>6. ASSUME NEW row \in Row, row.state \notin Running, Save(j, row), EndReceiving(j),
             UNCHANGED <<process, wpc, wjob, syncer>>
      PROVE  OneJobAtATime' /\ CopiesNotRunning'
    <2>1. \A k \in Jobs : rrow'[k].state \notin Running
        BY <1>1, <1>6 DEF EndReceiving, TypeOK, CopiesNotRunning
    <2>2. QED
        BY <1>6, <2>1, SaveNotRunning DEF process, syncer, CopiesNotRunning
<1>7. CASE Enqueue(j)
    <2>1. rrow[j] \in Row /\ rrow[j].state \notin Running
        BY DEF TypeOK, CopiesNotRunning
    <2>2. QED
        BY <1>6, <1>7, <2>1 DEF Enqueue
<1>8. CASE Discard(j)
    <2>1. /\ [rrow[j] EXCEPT !.state = "FAILED"] \in Row
          /\ [rrow[j] EXCEPT !.state = "FAILED"].state \notin Running
        BY BlankType, StateNames DEF TypeOK
    <2>2. QED
        BY <1>6, <1>8, <2>1 DEF Discard, worker
<1>9. QED
    BY <1>2, <1>4, <1>5, <1>7, <1>8 DEF Receive

\* A canceller never writes a running state.
LEMMA OneJobCancel ==
    ASSUME OneJobInv, NEW j \in Jobs, Cancel(j)
    PROVE  OneJobAtATime' /\ CopiesNotRunning'
<1> USE DEF OneJobInv
<1>1. CASE CancelRead(j) \/ CancelCheck(j) \/ CancelLoad(j)
    BY <1>1 DEF CancelRead, CancelCheck, CancelLoad, OneJobAtATime, CopiesNotRunning,
       durable, process, receiver, worker, syncer
<1>2. CASE CancelFlag(j)
    <2>1. \A k \in Jobs : store'[k].state = store[k].state
        <3>1. [store[j] EXCEPT !.cancel = TRUE].state = store[j].state
            BY DEF TypeOK, Row
        <3>2. QED
            BY <1>2, <3>1 DEF CancelFlag, TypeOK
    <2>2. wpc = "done" => wjob \in Jobs
        BY DEF TypeOK
    <2>3. QED
        BY <1>2, <2>1, <2>2 DEF CancelFlag, OneJobAtATime, CopiesNotRunning, process,
           receiver, worker, syncer
<1>3. CASE CancelSave(j)
    <2>1. /\ [crow[j] EXCEPT !.state = "CANCELLED"] \in Row
          /\ [crow[j] EXCEPT !.state = "CANCELLED"].state \notin Running
        BY BlankType, StateNames DEF TypeOK
    <2>2. QED
        BY <1>3, <2>1, SaveNotRunning
           DEF CancelSave, CopiesNotRunning, process, receiver, worker, syncer
<1>4. QED
    BY <1>1, <1>2, <1>3 DEF Cancel

\* The worker makes only its own job run, and stops running it before it lets go.
LEMMA OneJobWork ==
    ASSUME OneJobInv, Work
    PROVE  OneJobAtATime' /\ CopiesNotRunning'
<1> USE DEF OneJobInv
<1>1. ASSUME NEW row \in Row, WorkerSave(row), wpc # "idle",
             wpc' = "done" => row.state \notin Running,
             wjob' = wjob, UNCHANGED <<process, receiver, syncer>>
      PROVE  OneJobAtATime' /\ CopiesNotRunning'
    <2>1. wjob \in Jobs /\ Save(wjob, row)
        BY <1>1 DEF WorkerSave, TypeOK
    <2>2. /\ store'[wjob].state = row.state
          /\ \A k \in Jobs \ {wjob} : store'[k] = store[k]
        BY <1>1, <2>1, SavedFields
    <2>3. QED
        BY <1>1, <2>1, <2>2 DEF OneJobAtATime, CopiesNotRunning, process, receiver, syncer
<1>2. CASE WorkerTake
    <2>1. store' = store /\ wpc' # "done" /\ \A k \in Jobs : k = wjob => k = wjob'
        BY <1>2, JobsAssumption DEF WorkerTake, TypeOK, durable
    <2>2. QED
        BY <1>2, <2>1 DEF WorkerTake, OneJobAtATime, CopiesNotRunning, process, receiver,
           syncer
<1>3. CASE WorkerStart
    BY <1>3 DEF WorkerStart, OneJobAtATime, CopiesNotRunning, durable, process,
       receiver, syncer
<1>4. CASE NextStage
    <2>1. PICK stage \in States : WorkerSave([wrow EXCEPT !.state = stage])
        BY <1>4, StageAfterType DEF NextStage
    <2>2. [wrow EXCEPT !.state = stage] \in Row
        BY BlankType DEF TypeOK
    <2>3. QED
        BY <1>1, <1>4, <2>1, <2>2 DEF NextStage
<1>5. CASE StopCancelled \/ StageFails \/ Complete
    <2>1. PICK s \in States \ Running : WorkerSave([wrow EXCEPT !.state = s])
        BY <1>5, StateNames DEF StopCancelled, StageFails, Complete
    <2>2. /\ [wrow EXCEPT !.state = s] \in Row
          /\ [wrow EXCEPT !.state = s].state \notin Running
        BY BlankType DEF TypeOK
    <2>3. QED
        BY <1>1, <1>5, <2>1, <2>2 DEF StopCancelled, StageFails, Complete
<1>6. CASE WriteResult
    BY <1>1, <1>6 DEF WriteResult, TypeOK
<1>7. CASE EnterOutbox
    <2>1. [wrow EXCEPT !.state = "SYNCING", !.sync = "WAITING_TO_SYNC"] \in Row
        BY DEF TypeOK, Row, States, Active, Running, SyncStates, Unsynced
    <2>2. QED
        BY <1>1, <1>7, <2>1 DEF EnterOutbox
<1>8. CASE WorkerDone
    BY <1>8, JobsAssumption DEF WorkerDone, OneJobAtATime, CopiesNotRunning, TypeOK,
       durable, process, receiver, syncer
<1>9. QED
    BY <1>2, <1>3, <1>4, <1>5, <1>6, <1>7, <1>8 DEF Work

\* The syncer writes back completed rows only, so it makes no job run.
LEMMA OneJobSync ==
    ASSUME OneJobInv, SyncLocal \/ SyncCall
    PROVE  OneJobAtATime' /\ CopiesNotRunning'
<1> USE DEF OneJobInv
<1>1. Blank.state \notin Running
    BY DEF Blank, Running, Stages
<1>2. ASSUME NEW j \in Jobs, NEW row \in Row, row.state \notin Running, Save(j, row),
             UNCHANGED <<process, worker, receiver>>,
             srow'.state \notin Running, \A k \in Jobs : batch'[k].state \notin Running
      PROVE  OneJobAtATime' /\ CopiesNotRunning'
    BY <1>2, SaveNotRunning DEF CopiesNotRunning, process, worker, receiver
<1>3. CASE SyncScan
    <2>1. \A k \in Jobs : batch'[k].state \notin Running
        BY <1>1, <1>3, StateNames DEF SyncScan, Pending
    <2>2. QED
        BY <1>3, <2>1 DEF SyncScan, OneJobAtATime, CopiesNotRunning, durable, process,
           receiver, worker
<1>4. CASE SyncFinish
    <2>1. /\ [srow EXCEPT !.sync = "SYNCED", !.due = "now"] \in Row
          /\ [srow EXCEPT !.sync = "SYNCED", !.due = "now"].state = srow.state
        BY DEF TypeOK, Row, SyncStates
    <2>2. sjob \in Jobs
        BY <1>4 DEF SyncFinish, TypeOK
    <2>3. QED
        BY <1>1, <1>2, <1>4, <2>1, <2>2 DEF SyncFinish, CopiesNotRunning
<1>5. CASE ForgetToken \/ BatchDone
    BY <1>5 DEF ForgetToken, BatchDone, OneJobAtATime, CopiesNotRunning, durable, process,
       receiver, worker
<1>6. ASSUME NEW j \in Jobs, SyncSkip(j) PROVE OneJobAtATime' /\ CopiesNotRunning'
    BY <1>1, <1>6 DEF SyncSkip, OneJobAtATime, CopiesNotRunning, TypeOK, durable, process,
       receiver, worker
<1>7. ASSUME NEW j \in Jobs, SyncBegin(j) PROVE OneJobAtATime' /\ CopiesNotRunning'
    <2>1. PICK row \in Row : /\ row.state = batch[j].state /\ Save(j, row)
                             /\ srow' = srow \/ srow' = Saved(j, row)
        <3>1. OneMore(batch[j].attempts) \in 0..MaxAttempts
            BY SMTT(60), SettingsAssumption DEF OneMore, TypeOK, Row
        <3>2. /\ [batch[j] EXCEPT !.sync = "SYNCING", !.attempts = OneMore(@)] \in Row
              /\ [batch[j] EXCEPT !.sync = "SYNCING", !.attempts = OneMore(@)].state
                     = batch[j].state
              /\ [batch[j] EXCEPT !.sync = "SYNC_FAILED"] \in Row
              /\ [batch[j] EXCEPT !.sync = "SYNC_FAILED"].state = batch[j].state
            BY ZenonT(60), <3>1 DEF TypeOK, Row, SyncStates, Unsynced
        <3>3. QED
            BY <1>7, <3>2 DEF SyncBegin
    <2>2. row.state \notin Running /\ srow'.state \notin Running
        BY <2>1, SavedFields DEF CopiesNotRunning
    <2>3. \A k \in Jobs : batch'[k].state \notin Running
        BY <1>1, <1>7 DEF SyncBegin, CopiesNotRunning, TypeOK
    <2>4. QED
        BY <1>2, <1>7, <2>1, <2>2, <2>3 DEF SyncBegin
<1>8. ASSUME NEW reply \in Replies, Submit(reply) \/ Upload(reply), SyncError(reply)
      PROVE  OneJobAtATime' /\ CopiesNotRunning'
    <2>1. AfterError(reply) \in Row /\ AfterError(reply).state = srow.state
        BY DEF AfterError, TypeOK, Row, SyncStates, Unsynced
    <2>2. sjob \in Jobs
        BY <1>8 DEF Submit, Upload, TypeOK
    <2>3. QED
        BY <1>1, <1>2, <1>8, <2>1, <2>2 DEF SyncError, CopiesNotRunning
<1>9. ASSUME NEW reply \in Replies, Submit(reply), ~SyncError(reply)
      PROVE  OneJobAtATime' /\ CopiesNotRunning'
    <2>1. /\ [srow EXCEPT !.resultSent = TRUE] \in Row
          /\ [srow EXCEPT !.resultSent = TRUE].state = srow.state
        BY DEF TypeOK, Row
    <2>2. sjob \in Jobs
        BY <1>9 DEF Submit, TypeOK
    <2>3. srow'.state = srow.state
        BY ZenonT(60), <1>9, <2>1, <2>2, SavedFields DEF Submit
    <2>4. QED
        BY <1>2, <1>9, <2>1, <2>2, <2>3 DEF Submit, CopiesNotRunning
<1>10. ASSUME NEW reply \in Replies, Upload(reply), ~SyncError(reply)
       PROVE  OneJobAtATime' /\ CopiesNotRunning'
    <2>1. srow'.state = srow.state
        BY <1>10 DEF Upload, TypeOK, Row
    <2>2. QED
        BY <1>10, <2>1 DEF Upload, OneJobAtATime, CopiesNotRunning, durable, process,
           receiver, worker
<1>11. QED
    BY <1>3, <1>4, <1>5, <1>6, <1>7, <1>8, <1>9, <1>10, SkippedUpload DEF SyncLocal

\* A stop leaves no copies, and the agent starts only after all rows are recovered.
LEMMA OneJobProcess ==
    ASSUME OneJobInv, Stop \/ Restart
    PROVE  OneJobAtATime' /\ CopiesNotRunning'
<1> USE DEF OneJobInv
<1>1. CASE Stop
    BY <1>1, StateNames DEF Stop, OneJobAtATime, CopiesNotRunning, Blank
<1>2. CASE Start
    BY <1>2 DEF Start, OneJobAtATime, CopiesNotRunning, Active, durable, receiver,
       worker, syncer
<1>3. ASSUME NEW j \in Jobs, RecoverJob(j) PROVE OneJobAtATime' /\ CopiesNotRunning'
    <2>1. /\ [store[j] EXCEPT !.state = "FAILED"] \in Row
          /\ [store[j] EXCEPT !.state = "FAILED"].state \notin Running
        BY BlankType, StateNames DEF TypeOK
    <2>2. QED
        BY <1>3, <2>1, SaveNotRunning
           DEF RecoverJob, CopiesNotRunning, process, receiver, worker, syncer
<1>4. QED
    BY <1>1, <1>2, <1>3 DEF Restart

\* The clock, the cleanup and a lost recording change no state.
LEMMA OneJobTime ==
    ASSUME OneJobInv, NEW j \in Jobs, BackoffElapses(j) \/ CleanUp(j) \/ LoseOriginal(j)
    PROVE  OneJobAtATime' /\ CopiesNotRunning'
<1> USE DEF OneJobInv
<1>1. CASE BackoffElapses(j)
    <2>1. \A k \in Jobs : store'[k].state = store[k].state
        <3>1. [store[j] EXCEPT !.due = "now"].state = store[j].state
            BY DEF TypeOK, Row
        <3>2. QED
            BY <1>1, <3>1 DEF BackoffElapses, TypeOK
    <2>2. wpc = "done" => wjob \in Jobs
        BY DEF TypeOK
    <2>3. QED
        BY <1>1, <2>1, <2>2 DEF BackoffElapses, OneJobAtATime, CopiesNotRunning, process,
           receiver, worker, syncer
<1>2. CASE CleanUp(j) \/ LoseOriginal(j)
    BY <1>2 DEF CleanUp, LoseOriginal, OneJobAtATime, CopiesNotRunning, process, receiver, worker, syncer
<1>3. QED
    BY <1>1, <1>2

\* While the agent is up, the only job in a running state is the one its worker
\* has in hand (JobManager._run, start), for any number of jobs and restarts.
THEOREM OneJobAtATimeHolds == Spec => []OneJobAtATime
<1>1. Init => OneJobInv
    BY TypeInit, StateNames DEF Init, OneJobInv, OneJobAtATime, CopiesNotRunning, Blank
<1>2. OneJobInv /\ [Next]_vars => OneJobInv'
    <2> SUFFICES ASSUME OneJobInv, [Next]_vars PROVE OneJobInv'
        OBVIOUS
    <2>1. TypeOK'
        BY NextType DEF OneJobInv
    <2>2. CASE Next
        BY <2>1, <2>2, OneJobReceive, OneJobCancel, OneJobWork, OneJobSync, OneJobProcess,
           OneJobTime DEF Next, OneJobInv
    <2>3. CASE UNCHANGED vars
        BY <2>1, <2>3 DEF vars, durable, process, receiver, worker, syncer, OneJobInv,
           OneJobAtATime, CopiesNotRunning
    <2>4. QED
        BY <2>2, <2>3
<1>3. OneJobInv => OneJobAtATime
    BY DEF OneJobInv
<1>4. QED
    BY <1>1, <1>2, <1>3, PTL DEF Spec

----------------------------------------------------------------------------
(* Finished rows, the outbox and failure reports.  The four threads keep   *)
(* copies of a row, each at a certain time of the job's life; what follows *)
(* says at which, and how far a copy can be behind the table.              *)

InQueue(j) == \E i \in DOMAIN queue : queue[i] = j
Distinct == \A i, k \in DOMAIN queue : queue[i] = queue[k] => i = k

\* The worker has the job and will still write its row.
Busy(j) == wjob = j /\ wpc # "done"

\* Receiver and worker are done with the job: it never comes back to them.
Past(j) == j \in nonces /\ rpc[j] = "idle" /\ ~InQueue(j) /\ ~Busy(j)

\* The server was told that the job has failed.
Dead(j) == [job |-> j, state |-> "FAILED"] \in reports

IdleWhenDown ==
    ~up => /\ queue = <<>> /\ wpc = "idle" /\ spc = "idle"
           /\ \A j \in Jobs : rpc[j] = "idle" /\ cpc[j] = "idle"

\* A job is with the receiver, then in the queue, then with the worker; until it
\* leaves the worker its token is kept.
Placed(j) ==
    /\ j \notin nonces => rpc[j] = "idle" /\ ~InQueue(j) /\ wjob # j /\ store[j].state = "NONE"
    /\ rpc[j] # "idle" => ~InQueue(j) /\ wjob # j
    /\ InQueue(j) => wjob # j
    /\ rpc[j] = "accepted" => store[j].state = "NONE"
    /\ rpc[j] \in {"created", "streaming"} \/ InQueue(j) \/ Busy(j) => j \in tokens

\* A canceller has found a row, and one that goes on has set the request.
Cancelled(j) ==
    /\ cpc[j] # "idle" => store[j].state # "NONE"
    /\ cpc[j] \in {"check", "load", "save"} => store[j].cancel

\* Only a cancellation can make the row differ from the receiver's copy ...
Receiving(j) ==
    /\ rpc[j] = "created" => rrow[j].state = "CREATED"
    /\ rpc[j] = "streaming" => rrow[j].state = "RECEIVING_AUDIO"
    /\ rpc[j] \in {"created", "streaming"} =>
        /\ rrow[j].sync # "SYNCED" /\ ~rrow[j].resultSent
        /\ store[j].cancel \/ store[j].state = rrow[j].state
    /\ InQueue(j) => store[j].cancel \/ store[j].state = "RECEIVING_AUDIO"

\* ... or from the worker's.
Working(j) ==
    Busy(j) =>
        /\ wrow.state \in Active /\ ~wrow.resultSent /\ wrow.sync # "SYNCED"
        /\ store[j].cancel \/ store[j].state = wrow.state
        /\ wpc \in {"outbox", "complete"} => "result" \in files[j]

\* What belongs to the end of a job's life.
Ended(j) ==
    \/ store[j].state = "COMPLETED" \/ store[j].resultSent \/ store[j].sync = "SYNCED"
    \/ cpc[j] = "save" /\ (crow[j].resultSent \/ crow[j].sync = "SYNCED")
    \/ sjob = j \/ batch[j].state # "NONE" \/ Dead(j)

\* A row to be sent, with the means to send it.
Owed(j, row) == Pending(row) /\ j \in tokens /\ "result" \in files[j]

\* The syncer's copies are of jobs still owed, at most behind a cancellation.
Syncing(j) ==
    /\ batch[j].state # "NONE" =>
        /\ spc # "idle" /\ sjob # j /\ Owed(j, batch[j]) /\ ~Dead(j)
        /\ store[j].cancel \/ Pending(store[j])
    /\ sjob = j /\ spc # "forget" =>
        /\ Owed(j, srow) /\ (store[j].cancel \/ Pending(store[j]))
    /\ sjob = j =>
        /\ store[j].state \in {"COMPLETED", "CANCELLED"} /\ ~Dead(j)
        /\ spc = "forget" => ~Pending(store[j])

\* A failed job stays so, and nothing says that it has been handed in.
Failed(j) ==
    Dead(j) => /\ store[j].state \in {"FAILED", "CANCELLED"} /\ ~store[j].resultSent
               /\ cpc[j] = "save" => ~crow[j].resultSent

JobSound(j) ==
    /\ Placed(j) /\ Cancelled(j) /\ Receiving(j) /\ Working(j)
    /\ Ended(j) => Past(j)
    /\ Syncing(j) /\ Failed(j)
    /\ Pending(store[j]) => Owed(j, store[j])
    /\ store[j].sync = "SYNCED" /\ ~store[j].cancel =>
        ~(sjob = j /\ spc # "forget") /\ batch[j].state = "NONE"

JobsSound == \A j \in Jobs : JobSound(j)
AgentInv == TypeOK /\ IdleWhenDown /\ Distinct /\ JobsSound

\* The fields of a row that was saved, and of the same row with another state.
LEMMA SavedRow ==
    ASSUME TypeOK, NEW j \in Jobs, NEW row \in Row, Save(j, row)
    PROVE  /\ store'[j] = Saved(j, row)
           /\ Saved(j, row).state = row.state /\ Saved(j, row).sync = row.sync
           /\ Saved(j, row).resultSent = row.resultSent
           /\ store[j].cancel => Saved(j, row).cancel
           /\ \A k \in Jobs \ {j} : store'[k] = store[k]
BY DEF TypeOK, Save, Saved, Row

LEMMA RestatedRow ==
    \A row \in Row, s \in States : /\ [row EXCEPT !.state = s] \in Row
                                   /\ [row EXCEPT !.state = s].state = s
                                   /\ [row EXCEPT !.state = s].sync = row.sync
                                   /\ [row EXCEPT !.state = s].resultSent = row.resultSent
                                   /\ [row EXCEPT !.state = s].cancel = row.cancel
BY DEF Row

LEMMA BlankRow ==
    /\ Blank \in Row /\ Blank.state = "NONE" /\ Blank.sync = "NOT_STARTED"
    /\ Blank.cancel = FALSE /\ Blank.resultSent = FALSE
BY SettingsAssumption DEF Blank, Row, SyncStates, States

\* What a step that does not concern a job leaves as it is.
LEMMA Elsewhere ==
    ASSUME NEW k \in Jobs, JobSound(k),
           store'[k] = store[k], rpc'[k] = rpc[k], rrow'[k] = rrow[k],
           cpc'[k] = cpc[k], crow'[k] = crow[k], batch'[k] = batch[k], files'[k] = files[k],
           k \in tokens' <=> k \in tokens, k \in nonces' <=> k \in nonces,
           InQueue(k)' => InQueue(k), wjob' = k <=> wjob = k,
           wjob = k => wpc' = wpc /\ wrow' = wrow,
           sjob' = k <=> sjob = k, sjob = k => spc' = spc /\ srow' = srow,
           batch[k].state # "NONE" /\ spc # "idle" => spc' # "idle",
           Dead(k)' <=> Dead(k)
    PROVE  JobSound(k)'
<1>1. Placed(k)' /\ Cancelled(k)' /\ Receiving(k)' /\ Working(k)'
    BY DEF JobSound, Placed, Cancelled, Receiving, Working, Busy
<1>2. Ended(k)' => Past(k)'
    BY DEF JobSound, Ended, Past, Busy
<1>3. Syncing(k)' /\ Failed(k)'
    BY DEF JobSound, Syncing, Failed, Owed, Pending
<1>4. QED
    BY <1>1, <1>2, <1>3 DEF JobSound, Owed, Pending

\* A job's parts, from the invariant.
LEMMA Parts ==
    ASSUME NEW k \in Jobs, JobSound(k)
    PROVE  /\ Placed(k) /\ Cancelled(k) /\ Receiving(k) /\ Working(k)
           /\ Ended(k) => Past(k)
           /\ Syncing(k) /\ Failed(k)
           /\ Pending(store[k]) => Owed(k, store[k])
BY DEF JobSound

LEMMA SameQueue ==
    ASSUME UNCHANGED queue
    PROVE  (Distinct => Distinct') /\ \A k : InQueue(k)' = InQueue(k)
BY DEF Distinct, InQueue

\* Reports other than of a failure kill no job.
LEMMA Told ==
    ASSUME NEW j \in Jobs, NEW states, Tell(j, states)
    PROVE  /\ "FAILED" \notin states => \A k : Dead(k)' <=> Dead(k)
           /\ \A k : k # j => (Dead(k)' <=> Dead(k))
BY DEF Tell, Dead

LEMMA NothingTold == ASSUME UNCHANGED reports PROVE \A k : Dead(k)' <=> Dead(k)
BY DEF Dead

\* A receiver's step concerns its own job.
LEMMA ReceiverElsewhere ==
    ASSUME AgentInv, NEW j \in Jobs,
           UNCHANGED <<process, canceller, wpc, wjob, wrow, syncer>>, up,
           \A k \in Jobs \ {j} :
               /\ store'[k] = store[k] /\ rpc'[k] = rpc[k] /\ rrow'[k] = rrow[k]
               /\ files'[k] = files[k] /\ (k \in tokens' <=> k \in tokens)
               /\ (k \in nonces' <=> k \in nonces) /\ (InQueue(k)' => InQueue(k))
               /\ (Dead(k)' <=> Dead(k)),
           Distinct', JobSound(j)'
    PROVE  IdleWhenDown' /\ Distinct' /\ JobsSound'
<1>1. ASSUME NEW k \in Jobs \ {j} PROVE JobSound(k)'
    BY <1>1, Elsewhere DEF AgentInv, JobsSound, canceller, syncer
<1>2. IdleWhenDown'
    BY DEF process, IdleWhenDown
<1>3. QED
    BY <1>1, <1>2 DEF JobsSound

LEMMA AcceptTokenSound ==
    ASSUME AgentInv, NEW j \in Jobs, AcceptToken(j)
    PROVE  IdleWhenDown' /\ Distinct' /\ JobsSound'
<1>1. JobSound(j)
    BY DEF AgentInv, JobsSound
<1>2. /\ up /\ rpc[j] = "idle" /\ j \notin nonces /\ nonces' = nonces \cup {j}
      /\ rpc'[j] \in {"accepted", "idle"} /\ \A k \in Jobs \ {j} : rpc'[k] = rpc[k]
      /\ UNCHANGED <<store, tokens, files, reports, rrow, process, canceller, worker, syncer>>
    BY DEF AcceptToken, AgentInv, TypeOK
<1>3. Distinct' /\ (\A k : InQueue(k)' = InQueue(k)) /\ (\A k : Dead(k)' <=> Dead(k))
    BY <1>2, SameQueue, NothingTold DEF worker, AgentInv
<1>4. JobSound(j)'
    <2>1. Placed(j)'
        BY <1>1, <1>2, <1>3 DEF JobSound, Placed, Busy, worker
    <2>2. Cancelled(j)' /\ Receiving(j)' /\ Working(j)'
        BY <1>1, <1>2, <1>3 DEF JobSound, Cancelled, Receiving, Working, Busy, worker, canceller
    <2>3. ~Ended(j)
        BY <1>1, <1>2 DEF JobSound, Past
    <2>4. ~Ended(j)'
        BY <2>3, <1>2, <1>3 DEF Ended, canceller, syncer
    <2>5. QED
        BY <1>1, <1>2, <1>3, <2>1, <2>2, <2>3, <2>4
           DEF JobSound, Ended, Syncing, Failed, Pending, Owed
<1>5. QED
    BY <1>2, <1>3, <1>4, ReceiverElsewhere DEF worker

\* What a receiver saves is a row of a job that has not ended.
LEMMA ReceiverSaves ==
    ASSUME AgentInv, NEW j \in Jobs, NEW row \in Row, Save(j, row), up,
           rpc[j] # "idle", ~row.resultSent, row.sync # "SYNCED",
           row.state \in {"CREATED", "RECEIVING_AUDIO"},
           UNCHANGED <<process, canceller, wpc, wjob, wrow, syncer>>,
           j \in nonces', Dead(j)' <=> Dead(j), j \in tokens',
           \/ /\ rrow'[j] = Saved(j, row)
              /\ InQueue(j)' <=> InQueue(j)
              /\ \/ row.state = "CREATED" /\ rpc'[j] = "created"
                 \/ row.state = "RECEIVING_AUDIO" /\ rpc'[j] = "streaming"
           \/ row.state = "RECEIVING_AUDIO" /\ rpc'[j] = "idle"
    PROVE  JobSound(j)'
<1>1. JobSound(j)
    BY DEF AgentInv, JobsSound
<1>2. /\ store'[j] = Saved(j, row)
      /\ store'[j].state = row.state /\ store'[j].sync = row.sync
      /\ store'[j].resultSent = row.resultSent
      /\ store[j].cancel => store'[j].cancel
    BY SavedRow DEF AgentInv
<1>3. ~Past(j) /\ ~Ended(j)
    BY <1>1 DEF JobSound, Past
<1>4. ~InQueue(j) /\ wjob # j
    BY <1>1 DEF JobSound, Placed
<1>5. Placed(j)'
    BY <1>4 DEF Placed, Busy
<1>6. Cancelled(j)' /\ Receiving(j)' /\ Working(j)'
    BY <1>1, <1>2, <1>4 DEF JobSound, Cancelled, Receiving, Working, Busy, canceller
<1>7. ~Ended(j)' /\ ~Pending(store'[j])
    BY <1>2, <1>3 DEF Ended, canceller, syncer, Pending
<1>8. QED
    BY <1>2, <1>5, <1>6, <1>7 DEF JobSound, Ended, Syncing, Failed, Owed

LEMMA CreateRowSound ==
    ASSUME AgentInv, NEW j \in Jobs, CreateRow(j)
    PROVE  IdleWhenDown' /\ Distinct' /\ JobsSound'
<1> DEFINE row == [Blank EXCEPT !.state = "CREATED"]
<1>1. /\ row \in Row /\ row.state = "CREATED" /\ row.sync = "NOT_STARTED" /\ ~row.resultSent
    BY BlankRow, RestatedRow DEF States, Active
<1>2. /\ up /\ rpc[j] = "accepted" /\ Save(j, row) /\ tokens' = tokens \cup {j}
      /\ rpc' = [rpc EXCEPT ![j] = "created"] /\ rrow' = [rrow EXCEPT ![j] = Saved(j, row)]
      /\ UNCHANGED <<nonces, files, reports, process, canceller, worker, syncer>>
    BY DEF CreateRow
<1> HIDE DEF row
<1>3. Distinct' /\ (\A k : InQueue(k)' = InQueue(k)) /\ (\A k : Dead(k)' <=> Dead(k))
    BY <1>2, SameQueue, NothingTold DEF worker, AgentInv
<1>4. j \in nonces
    BY <1>2 DEF AgentInv, JobsSound, JobSound, Placed
<1>5. JobSound(j)'
    BY <1>1, <1>2, <1>3, <1>4, ReceiverSaves DEF worker, AgentInv, TypeOK
<1>6. QED
    BY <1>1, <1>2, <1>3, <1>5, SavedRow, ReceiverElsewhere DEF worker, AgentInv, TypeOK

LEMMA MarkReceivingSound ==
    ASSUME AgentInv, NEW j \in Jobs, MarkReceiving(j)
    PROVE  IdleWhenDown' /\ Distinct' /\ JobsSound'
<1> DEFINE row == [rrow[j] EXCEPT !.state = "RECEIVING_AUDIO"]
<1>1. j \in nonces /\ j \in tokens /\ rrow[j].sync # "SYNCED" /\ ~rrow[j].resultSent
    BY DEF AgentInv, JobsSound, JobSound, Placed, Receiving, MarkReceiving
<1>2. /\ row \in Row /\ row.state = "RECEIVING_AUDIO" /\ row.sync # "SYNCED" /\ ~row.resultSent
    <2>1. rrow[j] \in Row /\ "RECEIVING_AUDIO" \in States
        BY DEF States, Active, AgentInv, TypeOK
    <2>2. QED
        BY <1>1, <2>1, RestatedRow
<1>3. /\ up /\ rpc[j] = "created" /\ Save(j, row) /\ Tell(j, {"CREATED", "RECEIVING_AUDIO"})
      /\ rpc' = [rpc EXCEPT ![j] = "streaming"] /\ rrow' = [rrow EXCEPT ![j] = Saved(j, row)]
      /\ UNCHANGED <<tokens, nonces, files, process, canceller, worker, syncer>>
    BY DEF MarkReceiving
<1> HIDE DEF row
<1>4. Distinct' /\ (\A k : InQueue(k)' = InQueue(k)) /\ (\A k : Dead(k)' <=> Dead(k))
    BY <1>3, SameQueue, Told DEF worker, AgentInv
<1>5. JobSound(j)'
    BY <1>1, <1>2, <1>3, <1>4, ReceiverSaves DEF worker, AgentInv, TypeOK
<1>6. QED
    BY <1>2, <1>3, <1>4, <1>5, SavedRow, ReceiverElsewhere DEF worker, AgentInv, TypeOK

LEMMA EnqueueSound ==
    ASSUME AgentInv, NEW j \in Jobs, Enqueue(j)
    PROVE  IdleWhenDown' /\ Distinct' /\ JobsSound'
<1>1. /\ j \in nonces /\ j \in tokens /\ rrow[j].sync # "SYNCED" /\ ~rrow[j].resultSent
      /\ rrow[j].state = "RECEIVING_AUDIO" /\ rrow[j] \in Row /\ ~InQueue(j)
    BY DEF AgentInv, JobsSound, JobSound, Placed, Receiving, Enqueue, TypeOK
<1>2. /\ up /\ rpc[j] = "streaming" /\ Save(j, rrow[j])
      /\ files' = [files EXCEPT ![j] = @ \cup {"original"}] /\ queue' = Append(queue, j)
      /\ rpc' = [rpc EXCEPT ![j] = "idle"] /\ rrow' = [rrow EXCEPT ![j] = Blank]
      /\ UNCHANGED <<tokens, nonces, reports, process, canceller, current, wpc, wjob, wrow, syncer>>
    BY DEF Enqueue, EndReceiving
<1>3. Distinct' /\ \A k \in Jobs \ {j} : InQueue(k)' => InQueue(k)
    BY <1>1, <1>2 DEF Distinct, InQueue, AgentInv, TypeOK
<1>4. \A k : Dead(k)' <=> Dead(k)
    BY <1>2, NothingTold
<1>5. JobSound(j)'
    BY <1>1, <1>2, <1>4, ReceiverSaves DEF AgentInv, TypeOK
<1>6. QED
    BY <1>1, <1>2, <1>3, <1>4, <1>5, SavedRow, ReceiverElsewhere DEF AgentInv, TypeOK

LEMMA DiscardSound ==
    ASSUME AgentInv, NEW j \in Jobs, Discard(j)
    PROVE  IdleWhenDown' /\ Distinct' /\ JobsSound'
<1> DEFINE row == [rrow[j] EXCEPT !.state = "FAILED"]
<1>1. JobSound(j)
    BY DEF AgentInv, JobsSound
<1>2. /\ j \in nonces /\ ~InQueue(j) /\ wjob # j /\ rrow[j].sync # "SYNCED" /\ ~rrow[j].resultSent
    BY <1>1 DEF JobSound, Placed, Receiving, Discard
<1>3. /\ row \in Row /\ row.state = "FAILED" /\ row.sync # "SYNCED" /\ ~row.resultSent
    <2>1. rrow[j] \in Row /\ "FAILED" \in States
        BY DEF States, Terminal, AgentInv, TypeOK
    <2>2. QED
        BY <1>2, <2>1, RestatedRow
<1>4. /\ up /\ rpc[j] = "streaming" /\ Save(j, row) /\ Tell(j, {"FAILED"})
      /\ files' = [files EXCEPT ![j] = {}]
      /\ rpc' = [rpc EXCEPT ![j] = "idle"] /\ rrow' = [rrow EXCEPT ![j] = Blank]
      /\ UNCHANGED <<tokens, nonces, process, canceller, worker, syncer>>
    BY DEF Discard, EndReceiving
<1> HIDE DEF row
<1>5. Distinct' /\ (\A k : InQueue(k)' = InQueue(k)) /\ (\A k : k # j => (Dead(k)' <=> Dead(k)))
    BY <1>4, SameQueue, Told DEF worker, AgentInv
<1>6. JobSound(j)'
    <2>1. /\ store'[j].state = "FAILED" /\ store'[j].sync # "SYNCED" /\ ~store'[j].resultSent
          /\ store[j].cancel => store'[j].cancel
        BY <1>3, <1>4, SavedRow DEF AgentInv
    <2>2. ~Ended(j)
        BY <1>1, <1>4 DEF JobSound, Past
    <2>3. Past(j)'
        BY <1>2, <1>4, <1>5 DEF Past, Busy, worker, AgentInv, TypeOK
    <2>4. Placed(j)'
        BY <1>2, <1>4, <1>5, <2>3 DEF Placed, Busy, Past, worker
    <2>5. Cancelled(j)' /\ Receiving(j)' /\ Working(j)'
        BY <1>1, <1>4, <2>1, <2>3 DEF JobSound, Cancelled, Receiving, Working, Past, canceller
    <2>6. Syncing(j)' /\ Failed(j)'
        BY <1>4, <2>1, <2>2 DEF Ended, Syncing, Failed, canceller, syncer
    <2>7. QED
        BY <2>1, <2>3, <2>4, <2>5, <2>6 DEF JobSound, Pending
<1>7. QED
    BY <1>3, <1>4, <1>5, <1>6, SavedRow, ReceiverElsewhere DEF worker, AgentInv, TypeOK

LEMMA StreamBreaksSound ==
    ASSUME AgentInv, NEW j \in Jobs, StreamBreaks(j)
    PROVE  IdleWhenDown' /\ Distinct' /\ JobsSound'
<1>1. JobSound(j)
    BY DEF AgentInv, JobsSound
<1>2. /\ up /\ rpc[j] = "streaming"
      /\ rpc' = [rpc EXCEPT ![j] = "idle"] /\ rrow' = [rrow EXCEPT ![j] = Blank]
      /\ UNCHANGED <<store, tokens, nonces, files, reports, process, canceller, worker, syncer>>
    BY DEF StreamBreaks, EndReceiving, durable
<1>3. Distinct' /\ (\A k : InQueue(k)' = InQueue(k)) /\ (\A k : Dead(k)' <=> Dead(k))
    BY <1>2, SameQueue, NothingTold DEF worker, AgentInv
<1>4. JobSound(j)'
    <2>1. ~Ended(j) /\ ~InQueue(j) /\ wjob # j /\ j \in nonces
        BY <1>1, <1>2 DEF JobSound, Past, Placed
    <2>2. ~Ended(j)'
        BY <2>1, <1>2, <1>3 DEF Ended, canceller, syncer
    <2>3. Placed(j)'
        BY <1>2, <1>3, <2>1 DEF Placed, Busy, worker, AgentInv, TypeOK
    <2>4. Cancelled(j)' /\ Receiving(j)' /\ Working(j)'
        BY <1>1, <1>2, <1>3, <2>1
           DEF JobSound, Cancelled, Receiving, Working, Busy, worker, canceller, AgentInv, TypeOK
    <2>5. QED
        BY <1>1, <1>2, <1>3, <2>1, <2>2, <2>3, <2>4 DEF JobSound, Ended, Syncing, Failed, Pending, Owed
<1>5. QED
    BY <1>2, <1>3, <1>4, ReceiverElsewhere DEF worker, AgentInv, TypeOK

\* A canceller's step concerns its own job.
LEMMA CancellerElsewhere ==
    ASSUME AgentInv, NEW j \in Jobs, up,
           UNCHANGED <<tokens, nonces, files, process, receiver, worker, syncer>>,
           \A k \in Jobs \ {j} :
               /\ store'[k] = store[k] /\ cpc'[k] = cpc[k] /\ crow'[k] = crow[k]
               /\ (Dead(k)' <=> Dead(k)),
           JobSound(j)'
    PROVE  IdleWhenDown' /\ Distinct' /\ JobsSound'
<1>1. Distinct' /\ (\A k : InQueue(k)' = InQueue(k))
    BY SameQueue DEF worker, AgentInv
<1>2. ASSUME NEW k \in Jobs \ {j} PROVE JobSound(k)'
    BY <1>1, <1>2, Elsewhere DEF AgentInv, JobsSound, receiver, worker, syncer
<1>3. IdleWhenDown'
    BY DEF process, IdleWhenDown
<1>4. QED
    BY <1>1, <1>2, <1>3 DEF JobsSound

\* A canceller that leaves the row as it is, but for the request.
LEMMA CancellerSteps ==
    ASSUME AgentInv, NEW j \in Jobs, up, JobSound(j),
           UNCHANGED <<tokens, nonces, files, reports, process, receiver, worker, syncer>>,
           store'[j].state = store[j].state, store'[j].sync = store[j].sync,
           store'[j].resultSent = store[j].resultSent,
           store[j].cancel => store'[j].cancel,
           cpc'[j] # "idle" => store[j].state # "NONE",
           cpc'[j] \in {"check", "load", "save"} => store'[j].cancel,
           cpc'[j] = "save" => crow'[j] = store[j] \/ (cpc[j] = "save" /\ crow'[j] = crow[j])
    PROVE  JobSound(j)'
<1>1. /\ InQueue(j)' = InQueue(j) /\ (Dead(j)' <=> Dead(j))
    BY SameQueue, NothingTold DEF worker
<1>2. Placed(j)'
    BY <1>1 DEF JobSound, Placed, Busy, receiver, worker
<1>3. Cancelled(j)' /\ Receiving(j)' /\ Working(j)'
    BY <1>1 DEF JobSound, Cancelled, Receiving, Working, Busy, receiver, worker
<1>4. Ended(j)' => Past(j)'
    BY <1>1 DEF JobSound, Ended, Past, Busy, receiver, worker, syncer
<1>5. Syncing(j)' /\ Failed(j)'
    BY <1>1 DEF JobSound, Syncing, Failed, Pending, Owed, syncer
<1>6. QED
    BY <1>2, <1>3, <1>4, <1>5 DEF JobSound, Pending, Owed, syncer

LEMMA CancelSound ==
    ASSUME AgentInv, NEW j \in Jobs, Cancel(j)
    PROVE  IdleWhenDown' /\ Distinct' /\ JobsSound'
<1>1. JobSound(j)
    BY DEF AgentInv, JobsSound
<1>2. CASE CancelRead(j) \/ CancelCheck(j) \/ CancelLoad(j)
    <2>1. /\ up /\ UNCHANGED <<store, tokens, nonces, files, reports, process, receiver, worker, syncer>>
          /\ \A k \in Jobs \ {j} : cpc'[k] = cpc[k] /\ crow'[k] = crow[k]
          /\ cpc'[j] \in {"check", "load", "save"} => cpc[j] \in {"check", "load"}
          /\ cpc'[j] = "save" => crow'[j] = store[j]
        BY <1>2 DEF CancelRead, CancelCheck, CancelLoad, durable, AgentInv, TypeOK
    <2>2. /\ cpc'[j] # "idle" => store[j].state # "NONE"
          /\ cpc'[j] \in {"check", "load", "save"} => store'[j].cancel
        <3>1. cpc'[j] # "idle" => cpc[j] # "idle" \/ store[j].state \in Active
            BY <1>2 DEF CancelRead, CancelCheck, CancelLoad, AgentInv, TypeOK
        <3>2. "NONE" \notin Active
            BY DEF Active, Running, Stages
        <3>3. QED
            BY <1>1, <2>1, <3>1, <3>2 DEF JobSound, Cancelled
    <2>3. JobSound(j)'
        BY <1>1, <2>1, <2>2, CancellerSteps
    <2>4. \A k : Dead(k)' <=> Dead(k)
        BY <2>1, NothingTold
    <2>5. QED
        BY <2>1, <2>3, <2>4, CancellerElsewhere
<1>3. CASE CancelFlag(j)
    <2>1. /\ up /\ UNCHANGED <<tokens, nonces, files, reports, process, receiver, crow, worker, syncer>>
          /\ \A k \in Jobs \ {j} : cpc'[k] = cpc[k] /\ store'[k] = store[k]
          /\ cpc'[j] = "check" /\ store'[j] = [store[j] EXCEPT !.cancel = TRUE]
        BY <1>3 DEF CancelFlag, AgentInv, TypeOK
    <2>2. /\ store'[j].state = store[j].state /\ store'[j].sync = store[j].sync
          /\ store'[j].resultSent = store[j].resultSent /\ store'[j].cancel
          /\ store[j].state # "NONE"
        BY <1>1, <1>3, <2>1 DEF AgentInv, TypeOK, Row, JobSound, Cancelled, CancelFlag
    <2>3. JobSound(j)'
        BY <1>1, <2>1, <2>2, CancellerSteps
    <2>4. \A k : Dead(k)' <=> Dead(k)
        BY <2>1, NothingTold
    <2>5. QED
        BY <2>1, <2>3, <2>4, CancellerElsewhere
<1>4. CASE CancelSave(j)
    <2> DEFINE row == [crow[j] EXCEPT !.state = "CANCELLED"]
    <2>1. /\ row \in Row /\ row.state = "CANCELLED" /\ row.sync = crow[j].sync
          /\ row.resultSent = crow[j].resultSent
        <3>1. crow[j] \in Row /\ "CANCELLED" \in States
            BY DEF States, Terminal, AgentInv, TypeOK
        <3>2. QED
            BY <3>1, RestatedRow
    <2>2. /\ up /\ cpc[j] = "save" /\ Save(j, row) /\ Tell(j, {"CANCELLED"})
          /\ cpc' = [cpc EXCEPT ![j] = "idle"] /\ crow' = [crow EXCEPT ![j] = Blank]
          /\ UNCHANGED <<tokens, nonces, files, process, receiver, worker, syncer>>
        BY <1>4 DEF CancelSave
    <2> HIDE DEF row
    <2>3. /\ store'[j].state = "CANCELLED" /\ store'[j].sync = crow[j].sync
          /\ store'[j].resultSent = crow[j].resultSent
          /\ store[j].cancel => store'[j].cancel
        BY <2>1, <2>2, SavedRow DEF AgentInv
    <2>4. /\ cpc'[j] = "idle" /\ store'[j].cancel
        BY <1>1, <2>2, <2>3 DEF JobSound, Cancelled, AgentInv, TypeOK
    <2>5. /\ InQueue(j)' = InQueue(j) /\ (\A k : Dead(k)' <=> Dead(k))
        BY <2>2, SameQueue, Told DEF worker
    <2>6. JobSound(j)'
        <3>1. store[j].state # "NONE"
            BY <1>1, <2>2 DEF JobSound, Cancelled
        <3>2. Placed(j)'
            BY <1>1, <2>2, <2>3, <2>5, <3>1 DEF JobSound, Placed, Busy, receiver, worker
        <3>3. Cancelled(j)' /\ Receiving(j)' /\ Working(j)'
            BY <1>1, <2>2, <2>4, <2>5 DEF JobSound, Cancelled, Receiving, Working, Busy, receiver, worker
        <3>4. Ended(j)' => Past(j)'
            BY <1>1, <2>2, <2>3, <2>4, <2>5 DEF JobSound, Ended, Past, Busy, receiver, worker, syncer
        <3>5. Syncing(j)' /\ Failed(j)'
            BY <1>1, <2>2, <2>3, <2>4, <2>5 DEF JobSound, Syncing, Failed, Pending, Owed, syncer
        <3>6. QED
            BY <2>3, <2>4, <3>2, <3>3, <3>4, <3>5 DEF JobSound, Pending
    <2>7. QED
        BY <2>1, <2>2, <2>5, <2>6, SavedRow, CancellerElsewhere DEF AgentInv, TypeOK
<1>5. QED
    BY <1>2, <1>3, <1>4 DEF Cancel

\* A step of the worker concerns the job it has, or takes.
LEMMA WorkerElsewhere ==
    ASSUME AgentInv, NEW j \in Jobs, up,
           UNCHANGED <<tokens, nonces, process, receiver, canceller, syncer>>,
           wjob \in {j, NoJob}, wjob' \in {j, NoJob},
           \A k \in Jobs \ {j} :
               /\ store'[k] = store[k] /\ files'[k] = files[k]
               /\ (InQueue(k)' => InQueue(k)) /\ (Dead(k)' <=> Dead(k)),
           Distinct', JobSound(j)'
    PROVE  IdleWhenDown' /\ Distinct' /\ JobsSound'
<1>1. ASSUME NEW k \in Jobs \ {j} PROVE JobSound(k)'
    <2>1. wjob # k /\ wjob' # k
        BY JobsAssumption
    <2>2. QED
        BY <1>1, <2>1, Elsewhere DEF AgentInv, JobsSound, receiver, canceller, syncer
<1>2. IdleWhenDown'
    BY DEF process, IdleWhenDown
<1>3. QED
    BY <1>1, <1>2 DEF JobsSound

\* What is known of the worker's job while the worker writes it.
LEMMA BusyFacts ==
    ASSUME AgentInv, wpc \in {"taken", "running", "outbox", "complete"}
    PROVE  /\ wjob \in Jobs /\ JobSound(wjob) /\ Busy(wjob) /\ wrow \in Row
           /\ wrow.state \in Active /\ ~wrow.resultSent /\ wrow.sync # "SYNCED"
           /\ wjob \in tokens /\ wjob \in nonces /\ rpc[wjob] = "idle" /\ ~InQueue(wjob)
           /\ ~Ended(wjob)
           /\ wpc \in {"outbox", "complete"} => "result" \in files[wjob]
<1>1. wjob \in Jobs /\ wrow \in Row
    BY DEF AgentInv, TypeOK
<1>2. JobSound(wjob) /\ Busy(wjob)
    BY <1>1 DEF AgentInv, JobsSound, Busy
<1>3. QED
    BY <1>1, <1>2 DEF JobSound, Working, Placed, Past, Busy

\* The worker saves a row that is still being worked on.
LEMMA WorkerGoesOn ==
    ASSUME AgentInv, wpc \in {"running", "outbox"}, NEW row \in Row, WorkerSave(row),
           row.state \in Active, ~row.resultSent, row.sync # "SYNCED",
           wpc' # "done", wpc' \in {"outbox", "complete"} => "result" \in files'[wjob],
           UNCHANGED <<tokens, nonces, process, receiver, canceller, queue, wjob, syncer>>,
           Dead(wjob)' <=> Dead(wjob)
    PROVE  JobSound(wjob)'
<1>1. /\ wjob \in Jobs /\ JobSound(wjob) /\ Busy(wjob) /\ wjob \in tokens /\ wjob \in nonces
      /\ rpc[wjob] = "idle" /\ ~InQueue(wjob) /\ ~Ended(wjob)
    BY BusyFacts
<1>2. /\ store'[wjob] = wrow' /\ wrow'.state = row.state /\ wrow'.sync = row.sync
      /\ wrow'.resultSent = row.resultSent
      /\ store[wjob].cancel => store'[wjob].cancel
    BY <1>1, SavedRow DEF WorkerSave, AgentInv
<1>3. ~InQueue(wjob)'
    BY <1>1, SameQueue
<1>4. row.state \notin {"NONE", "COMPLETED"}
    BY DEF Active, Running, Stages
<1>5. Placed(wjob)'
    BY <1>1, <1>2, <1>3, <1>4 DEF Placed, receiver
<1>6. Cancelled(wjob)' /\ Receiving(wjob)'
    BY <1>1, <1>2, <1>3, <1>4 DEF JobSound, Cancelled, Receiving, receiver, canceller
<1>7. Working(wjob)'
    BY <1>2 DEF Working
<1>8. ~Ended(wjob)'
    BY <1>1, <1>2, <1>4 DEF Ended, canceller, syncer
<1>9. QED
    BY <1>2, <1>4, <1>5, <1>6, <1>7, <1>8 DEF JobSound, Syncing, Failed, Ended, Pending

\* The worker saves a row for the last time, and not as completed.
LEMMA WorkerGivesUp ==
    ASSUME AgentInv, wpc = "running", NEW row \in Row, WorkerSave(row),
           row.state \in {"FAILED", "CANCELLED"}, ~row.resultSent, row.sync # "SYNCED",
           wpc' = "done",
           UNCHANGED <<tokens, nonces, process, receiver, canceller, queue, wjob, syncer>>
    PROVE  JobSound(wjob)'
<1>1. /\ wjob \in Jobs /\ JobSound(wjob) /\ Busy(wjob) /\ wjob \in tokens /\ wjob \in nonces
      /\ rpc[wjob] = "idle" /\ ~InQueue(wjob) /\ ~Ended(wjob)
    BY BusyFacts
<1>2. /\ store'[wjob].state = row.state /\ store'[wjob].sync = row.sync
      /\ store'[wjob].resultSent = row.resultSent
      /\ store[wjob].cancel => store'[wjob].cancel
    BY <1>1, SavedRow DEF WorkerSave, AgentInv
<1>3. ~InQueue(wjob)' /\ ~Busy(wjob)'
    BY <1>1, SameQueue DEF Busy
<1>4. Past(wjob)'
    BY <1>1, <1>3 DEF Past, receiver
<1>5. Placed(wjob)'
    BY <1>1, <1>2, <1>3 DEF Placed, receiver
<1>6. Cancelled(wjob)' /\ Receiving(wjob)' /\ Working(wjob)'
    BY <1>1, <1>2, <1>3 DEF JobSound, Cancelled, Receiving, Working, receiver, canceller
<1>7. Syncing(wjob)' /\ Failed(wjob)'
    BY <1>1, <1>2 DEF Syncing, Failed, Ended, canceller, syncer
<1>8. QED
    BY <1>2, <1>4, <1>5, <1>6, <1>7 DEF JobSound, Pending

\* The first of the queue leaves it.
LEMMA TakeQueue ==
    ASSUME queue \in Seq(Jobs), queue # <<>>, Distinct, queue' = Tail(queue)
    PROVE  /\ Head(queue) \in Jobs /\ InQueue(Head(queue)) /\ Distinct'
           /\ \A k : InQueue(k)' => InQueue(k) /\ k # Head(queue)
<1>1. /\ Len(queue) \in Nat \ {0} /\ DOMAIN queue = 1..Len(queue)
      /\ DOMAIN queue' = 1..Len(queue) - 1 /\ Head(queue) = queue[1] /\ queue[1] \in Jobs
      /\ \A i \in 1..Len(queue) - 1 : queue'[i] = queue[i + 1]
    OBVIOUS
<1>2. \A i \in DOMAIN queue' : i + 1 \in DOMAIN queue /\ i \in Nat /\ i + 1 # 1
    BY <1>1
<1>3. \A i \in DOMAIN queue' : queue'[i] # queue[1]
    BY <1>1, <1>2 DEF Distinct
<1>4. Distinct'
    BY <1>1, <1>2 DEF Distinct
<1>5. QED
    BY <1>1, <1>2, <1>3, <1>4 DEF InQueue

LEMMA WorkerTakeSound ==
    ASSUME AgentInv, WorkerTake
    PROVE  IdleWhenDown' /\ Distinct' /\ JobsSound'
<1>0. queue \in Seq(Jobs) /\ queue # <<>> /\ Distinct /\ queue' = Tail(queue)
    BY DEF WorkerTake, AgentInv, TypeOK
<1>1. PICK j \in Jobs : j = Head(queue)
    BY <1>0, TakeQueue
<1>2. /\ up /\ wpc = "idle" /\ wjob = NoJob
      /\ \/ UNCHANGED <<wpc, wjob, wrow>>
         \/ /\ store[j].state \notin Terminal \cup {"NONE"}
            /\ wpc' = "taken" /\ wjob' = j /\ wrow' = store[j]
      /\ UNCHANGED <<store, tokens, nonces, files, reports, process, receiver, canceller, syncer>>
    BY <1>1 DEF WorkerTake, durable, AgentInv, TypeOK
<1>3. /\ JobSound(j) /\ store[j] \in Row /\ InQueue(j) /\ Distinct'
      /\ \A k : InQueue(k)' => InQueue(k) /\ k # j
    BY <1>0, <1>1, TakeQueue DEF AgentInv, JobsSound, TypeOK
<1>4. \A k : Dead(k)' <=> Dead(k)
    BY <1>2, NothingTold
<1>5. JobSound(j)'
    <2>1. /\ j \in tokens /\ j \in nonces /\ rpc[j] = "idle" /\ wjob # j /\ ~Ended(j)
        BY <1>3 DEF JobSound, Placed, Past
    <2>2. Placed(j)'
        BY <1>2, <1>3, <2>1, JobsAssumption DEF Placed, receiver
    <2>3. Cancelled(j)' /\ Receiving(j)'
        BY <1>2, <1>3, <2>1 DEF JobSound, Cancelled, Receiving, receiver, canceller
    <2>4. Working(j)'
        <3>1. store[j].state \notin Terminal \cup {"NONE"} => store[j].state \in Active
            BY <1>3 DEF Row, States
        <3>2. QED
            BY <1>2, <1>3, <2>1, <3>1, JobsAssumption DEF JobSound, Working, Busy, Ended, Receiving
    <2>5. ~Ended(j)'
        BY <1>2, <1>4, <2>1 DEF Ended, canceller, syncer
    <2>6. QED
        BY <1>2, <1>3, <2>1, <2>2, <2>3, <2>4, <2>5
           DEF JobSound, Syncing, Failed, Ended, Owed, Pending, syncer
<1>6. QED
    BY <1>2, <1>3, <1>4, <1>5, WorkerElsewhere

LEMMA WorkSound ==
    ASSUME AgentInv, Work
    PROVE  IdleWhenDown' /\ Distinct' /\ JobsSound'
<1>1. CASE WorkerTake
    BY <1>1, WorkerTakeSound
<1>2. ASSUME wjob \in Jobs, NEW row \in Row, WorkerSave(row), up,
             UNCHANGED <<tokens, nonces, process, receiver, canceller, queue, wjob, syncer>>,
             \A k \in Jobs \ {wjob} : files'[k] = files[k] /\ (Dead(k)' <=> Dead(k)),
             JobSound(wjob)'
      PROVE  IdleWhenDown' /\ Distinct' /\ JobsSound'
    <2>1. Distinct' /\ \A k : InQueue(k)' = InQueue(k)
        BY <1>2, SameQueue DEF AgentInv
    <2>2. \A k \in Jobs \ {wjob} : store'[k] = store[k]
        BY <1>2, SavedRow DEF WorkerSave, AgentInv
    <2>3. QED
        BY <1>2, <2>1, <2>2, WorkerElsewhere
<1>3. CASE WorkerStart
    <2>1. /\ up /\ wpc = "taken" /\ wpc' = "running" /\ wjob \in Jobs /\ JobSound(wjob)
          /\ UNCHANGED <<store, tokens, nonces, files, reports, process, receiver, canceller,
                         queue, wjob, wrow, syncer>>
        BY <1>3, BusyFacts DEF WorkerStart, durable
    <2>2. /\ Distinct' /\ \A k : InQueue(k)' = InQueue(k)
          /\ \A k : Dead(k)' <=> Dead(k)
        BY <2>1, SameQueue, NothingTold DEF AgentInv
    <2>3. JobSound(wjob)'
        <3>1. Placed(wjob)' /\ Cancelled(wjob)' /\ Receiving(wjob)' /\ Working(wjob)'
            BY <2>1, <2>2 DEF JobSound, Placed, Cancelled, Receiving, Working, Busy, receiver, canceller
        <3>2. ~Ended(wjob)
            BY <2>1 DEF JobSound, Past, Busy
        <3>3. ~Ended(wjob)'
            BY <2>1, <2>2, <3>2 DEF Ended, canceller, syncer
        <3>4. QED
            BY <2>1, <2>2, <3>1, <3>2, <3>3 DEF JobSound, Ended, Syncing, Failed, Owed, Pending, syncer
    <2>4. QED
        BY <2>1, <2>2, <2>3, WorkerElsewhere
<1>4. CASE NextStage
    <2>1. /\ wjob \in Jobs /\ wrow \in Row /\ ~wrow.resultSent /\ wrow.sync # "SYNCED"
          /\ wpc = "running" /\ up
        BY <1>4, BusyFacts DEF NextStage
    <2>2. PICK stage \in Stages : /\ WorkerSave([wrow EXCEPT !.state = stage])
                                  /\ Tell(wjob, {stage})
        BY <1>4, StageAfterType DEF NextStage
    <2> DEFINE row == [wrow EXCEPT !.state = stage]
    <2>3. stage \in Active /\ stage \in States /\ stage # "FAILED"
        BY DEF Active, Running, Stages, States
    <2>4. row \in Row /\ row.state = stage /\ ~row.resultSent /\ row.sync # "SYNCED"
        BY <2>1, <2>3, RestatedRow
    <2> HIDE DEF row
    <2>5. \A k : Dead(k)' <=> Dead(k)
        BY <2>2, <2>3, Told, <2>1
    <2>6. /\ WorkerSave(row) /\ wpc' = "running"
          /\ UNCHANGED <<tokens, nonces, files, process, receiver, canceller, queue, wjob, syncer>>
        BY <1>4, <2>2 DEF NextStage, row
    <2>7. JobSound(wjob)'
        BY <2>1, <2>3, <2>4, <2>5, <2>6, WorkerGoesOn
    <2>8. QED
        BY <1>2, <2>1, <2>4, <2>5, <2>6, <2>7
<1>5. CASE StopCancelled \/ StageFails
    <2>1. /\ wjob \in Jobs /\ wrow \in Row /\ ~wrow.resultSent /\ wrow.sync # "SYNCED"
          /\ wpc = "running" /\ up
        BY <1>5, BusyFacts DEF StopCancelled, StageFails
    <2>2. PICK s \in {"FAILED", "CANCELLED"} : /\ WorkerSave([wrow EXCEPT !.state = s])
                                               /\ Tell(wjob, {s})
        BY <1>5 DEF StopCancelled, StageFails
    <2> DEFINE row == [wrow EXCEPT !.state = s]
    <2>3. s \in States
        BY DEF States, Terminal
    <2>4. row \in Row /\ row.state = s /\ ~row.resultSent /\ row.sync # "SYNCED"
        BY <2>1, <2>3, RestatedRow
    <2> HIDE DEF row
    <2>5. \A k : k # wjob => (Dead(k)' <=> Dead(k))
        BY <2>1, <2>2, Told
    <2>6. /\ WorkerSave(row) /\ wpc' = "done"
          /\ UNCHANGED <<tokens, nonces, files, process, receiver, canceller, queue, wjob, syncer>>
        BY <1>5, <2>2 DEF StopCancelled, StageFails, row
    <2>7. JobSound(wjob)'
        BY <2>1, <2>4, <2>6, WorkerGivesUp
    <2>8. QED
        BY <1>2, <2>1, <2>4, <2>5, <2>6, <2>7
<1>6. CASE WriteResult
    <2>1. /\ wjob \in Jobs /\ wrow \in Row /\ ~wrow.resultSent /\ wrow.sync # "SYNCED"
          /\ wrow.state \in Active
          /\ wpc = "running" /\ wpc' = "outbox" /\ up /\ WorkerSave(wrow)
          /\ files' = [files EXCEPT ![wjob] = @ \cup {"result"}]
          /\ UNCHANGED <<tokens, nonces, reports, process, receiver, canceller, queue, wjob, syncer>>
        BY <1>6, BusyFacts DEF WriteResult
    <2>2. "result" \in files'[wjob] /\ \A k \in Jobs \ {wjob} : files'[k] = files[k]
        BY <2>1 DEF AgentInv, TypeOK
    <2>3. \A k : Dead(k)' <=> Dead(k)
        BY <2>1, NothingTold
    <2>4. JobSound(wjob)'
        BY <2>1, <2>2, <2>3, WorkerGoesOn
    <2>5. QED
        BY <1>2, <2>1, <2>2, <2>3, <2>4
<1>7. CASE EnterOutbox
    <2> DEFINE row == [wrow EXCEPT !.state = "SYNCING", !.sync = "WAITING_TO_SYNC"]
    <2>1. /\ wjob \in Jobs /\ wrow \in Row /\ ~wrow.resultSent /\ "result" \in files[wjob]
        BY <1>7, BusyFacts DEF EnterOutbox
    <2>2. /\ row \in Row /\ row.state = "SYNCING" /\ row.sync = "WAITING_TO_SYNC"
          /\ row.resultSent = wrow.resultSent
        BY <2>1 DEF Row, States, Active, Running, SyncStates, Unsynced
    <2>3. /\ wpc = "outbox" /\ wpc' = "complete" /\ up /\ WorkerSave(row)
          /\ UNCHANGED <<tokens, nonces, files, reports, process, receiver, canceller, queue, wjob, syncer>>
        BY <1>7 DEF EnterOutbox
    <2> HIDE DEF row
    <2>4. \A k : Dead(k)' <=> Dead(k)
        BY <2>3, NothingTold
    <2>5. row.state \in Active
        BY <2>2 DEF Active, Running
    <2>6. JobSound(wjob)'
        BY <2>1, <2>2, <2>3, <2>4, <2>5, WorkerGoesOn
    <2>7. QED
        BY <1>2, <2>1, <2>2, <2>3, <2>4, <2>6
<1>8. CASE Complete
    <2> DEFINE row == [wrow EXCEPT !.state = "COMPLETED"]
    <2>1. /\ wjob \in Jobs /\ wrow \in Row /\ ~wrow.resultSent /\ wrow.sync # "SYNCED"
          /\ JobSound(wjob) /\ ~Ended(wjob) /\ wjob \in tokens /\ wjob \in nonces
          /\ rpc[wjob] = "idle" /\ ~InQueue(wjob) /\ "result" \in files[wjob]
        BY <1>8, BusyFacts DEF Complete
    <2>2. /\ row \in Row /\ row.state = "COMPLETED" /\ row.sync = wrow.sync
          /\ row.resultSent = wrow.resultSent
        <3>1. "COMPLETED" \in States
            BY DEF States, Terminal
        <3>2. QED
            BY <2>1, <3>1, RestatedRow
    <2>3. /\ wpc = "complete" /\ wpc' = "done" /\ up /\ WorkerSave(row)
          /\ UNCHANGED <<tokens, nonces, files, reports, process, receiver, canceller, queue, wjob, syncer>>
        BY <1>8 DEF Complete
    <2> HIDE DEF row
    <2>4. (\A k : Dead(k)' <=> Dead(k)) /\ \A k : InQueue(k)' = InQueue(k)
        BY <2>3, NothingTold, SameQueue
    <2>5. /\ store'[wjob].state = "COMPLETED" /\ store'[wjob].sync # "SYNCED"
          /\ ~store'[wjob].resultSent
          /\ store[wjob].cancel => store'[wjob].cancel
        BY <2>1, <2>2, <2>3, SavedRow DEF WorkerSave, AgentInv
    <2>6. JobSound(wjob)'
        <3>1. Past(wjob)'
            BY <2>1, <2>3, <2>4 DEF Past, Busy, receiver
        <3>2. Placed(wjob)' /\ Working(wjob)'
            BY <2>1, <2>3, <2>4, <3>1 DEF Placed, Working, Past, receiver
        <3>3. Cancelled(wjob)' /\ Receiving(wjob)'
            BY <2>1, <2>3, <2>4, <2>5 DEF JobSound, Cancelled, Receiving, receiver, canceller
        <3>4. Syncing(wjob)' /\ Failed(wjob)'
            BY <2>1, <2>3, <2>4, <2>5 DEF Syncing, Failed, Ended, syncer
        <3>5. Pending(store'[wjob]) => Owed(wjob, store[wjob])'
            BY <2>1, <2>3 DEF Owed, Pending
        <3>6. QED
            BY <2>3, <2>5, <3>1, <3>2, <3>3, <3>4, <3>5 DEF JobSound, Pending
    <2>7. QED
        BY <1>2, <2>1, <2>2, <2>3, <2>4, <2>6
<1>9. CASE WorkerDone
    <2>1. PICK j \in Jobs : j = wjob
        BY <1>9 DEF WorkerDone, AgentInv, TypeOK
    <2>2. /\ up /\ wpc = "done" /\ wjob' = NoJob /\ j # NoJob /\ JobSound(j)
          /\ UNCHANGED <<store, tokens, nonces, files, reports, process, receiver, canceller,
                         queue, syncer>>
        BY <1>9, JobsAssumption DEF WorkerDone, durable, AgentInv, JobsSound
    <2>3. /\ Distinct' /\ \A k : InQueue(k)' = InQueue(k)
          /\ \A k : Dead(k)' <=> Dead(k)
        BY <2>2, SameQueue, NothingTold DEF AgentInv
    <2>4. JobSound(j)'
        <3>1. ~Busy(j)'
            BY <2>2 DEF Busy
        <3>2. /\ Placed(j)' /\ Cancelled(j)' /\ Receiving(j)' /\ Working(j)'
              /\ Ended(j)' => Past(j)'
            BY <2>1, <2>2, <2>3, <3>1
               DEF JobSound, Placed, Cancelled, Receiving, Working, Ended, Past, receiver,
                   canceller, syncer
        <3>3. Syncing(j)' /\ Failed(j)'
            BY <2>2, <2>3 DEF JobSound, Syncing, Failed, Owed, Pending, canceller, syncer
        <3>4. QED
            BY <2>2, <3>2, <3>3 DEF JobSound, Owed, Pending, syncer
    <2>5. QED
        BY <2>1, <2>2, <2>3, <2>4, WorkerElsewhere
<1>10. QED
    BY <1>1, <1>3, <1>4, <1>5, <1>6, <1>7, <1>8, <1>9 DEF Work

\* A step of the syncer concerns the job it has, or takes.
LEMMA SyncerElsewhere ==
    ASSUME AgentInv, NEW j \in Jobs, up,
           UNCHANGED <<nonces, files, reports, process, receiver, canceller, worker>>,
           sjob \in {j, NoJob}, sjob' \in {j, NoJob},
           spc # "idle" => spc' # "idle",
           \A k \in Jobs \ {j} :
               /\ store'[k] = store[k] /\ batch'[k] = batch[k] /\ (k \in tokens' <=> k \in tokens),
           JobSound(j)'
    PROVE  IdleWhenDown' /\ Distinct' /\ JobsSound'
<1>1. /\ Distinct' /\ \A k : InQueue(k)' = InQueue(k)
      /\ \A k : Dead(k)' <=> Dead(k)
    BY SameQueue, NothingTold DEF worker, AgentInv
<1>2. ASSUME NEW k \in Jobs \ {j} PROVE JobSound(k)'
    <2>1. sjob # k /\ sjob' # k
        BY JobsAssumption
    <2>2. QED
        BY <1>1, <1>2, <2>1, Elsewhere DEF AgentInv, JobsSound, receiver, canceller, worker
<1>3. IdleWhenDown'
    BY DEF process, IdleWhenDown
<1>4. QED
    BY <1>1, <1>2, <1>3 DEF JobsSound

\* Steps that change no row and take no job.
LEMMA SyncerIdles ==
    ASSUME AgentInv, up, spc \in {"idle", "batch"}, spc' \in {"idle", "batch"},
           UNCHANGED <<durable, process, receiver, canceller, worker, sjob, srow>>,
           \A k \in Jobs :
               batch'[k].state # "NONE" =>
                   /\ spc' # "idle"
                   /\ batch'[k] = batch[k] \/ (batch'[k] = store[k] /\ Pending(store[k]))
    PROVE  IdleWhenDown' /\ Distinct' /\ JobsSound'
<1>1. /\ Distinct' /\ \A k : InQueue(k)' = InQueue(k)
      /\ \A k : Dead(k)' <=> Dead(k)
    BY SameQueue, NothingTold DEF worker, AgentInv, durable
<1>2. ASSUME NEW k \in Jobs PROVE JobSound(k)'
    <2>1. JobSound(k) /\ sjob # k
        BY JobsAssumption DEF AgentInv, JobsSound, TypeOK
    <2>2. Placed(k)' /\ Cancelled(k)' /\ Receiving(k)' /\ Working(k)'
        BY <1>1, <2>1 DEF JobSound, Placed, Cancelled, Receiving, Working, Busy, durable,
           receiver, canceller, worker
    <2>3. batch'[k].state # "NONE" => Ended(k)
        BY DEF Ended, Pending
    <2>4. Ended(k)' => Past(k)'
        <3>1. Ended(k)' => Ended(k)
            BY <1>1, <2>3 DEF Ended, durable, canceller
        <3>2. Past(k) => Past(k)'
            BY <1>1 DEF Past, Busy, durable, receiver, worker
        <3>3. QED
            BY <2>1, <3>1, <3>2 DEF JobSound
    <2>5. Syncing(k)'
        BY <1>1, <2>1 DEF JobSound, Syncing, Failed, Owed, Pending, durable
    <2>6. Failed(k)'
        BY <1>1, <2>1 DEF JobSound, Failed, durable, canceller
    <2>7. QED
        BY <2>1, <2>2, <2>4, <2>5, <2>6 DEF JobSound, Owed, Pending, Unsynced, durable
<1>3. IdleWhenDown'
    BY DEF process, IdleWhenDown
<1>4. QED
    BY <1>1, <1>2, <1>3 DEF JobsSound

\* The syncer's row of a job that is owed is saved, and the job kept or let go.
LEMMA SyncerSaves ==
    ASSUME AgentInv, NEW j \in Jobs, up, sjob = j \/ batch[j].state # "NONE",
           spc # "forget", NEW row \in Row, Save(j, row),
           row.state = "COMPLETED",
           UNCHANGED <<tokens, nonces, files, reports, process, receiver, canceller, worker>>,
           (sjob = j /\ batch'[j] = batch[j]) \/ batch'[j].state = "NONE",
           \/ sjob' = NoJob /\ row.sync \in Unsynced
           \/ /\ sjob' = j /\ srow' = Saved(j, row) /\ row.sync \in Unsynced
              /\ spc' \in {"submit", "upload", "finish"}
           \/ sjob' = j /\ row.sync = "SYNCED" /\ spc' = "forget"
    PROVE  JobSound(j)'
<1>1. JobSound(j) /\ j # NoJob
    BY JobsAssumption DEF AgentInv, JobsSound
<1>2. /\ store'[j] = Saved(j, row)
      /\ store'[j].state = "COMPLETED" /\ store'[j].sync = row.sync
      /\ store'[j].resultSent = row.resultSent
      /\ store[j].cancel => store'[j].cancel
    BY SavedRow DEF AgentInv
<1>3. /\ InQueue(j)' = InQueue(j) /\ (Dead(j)' <=> Dead(j))
    BY SameQueue, NothingTold DEF worker
<1>4. /\ ~Dead(j) /\ j \in tokens /\ "result" \in files[j] /\ Past(j)
      /\ batch'[j].state = "NONE"
    BY <1>1 DEF JobSound, Syncing, Owed, Ended
<1>5. Past(j)'
    BY <1>3, <1>4 DEF Past, Busy, receiver, worker
<1>6. Placed(j)' /\ Cancelled(j)' /\ Receiving(j)' /\ Working(j)'
    BY <1>1, <1>2, <1>3, <1>4, <1>5
       DEF JobSound, Placed, Cancelled, Receiving, Working, Past, receiver, canceller, worker
<1>7. Syncing(j)' /\ Failed(j)'
    BY <1>1, <1>2, <1>3, <1>4 DEF Syncing, Failed, Owed, Pending, Unsynced
<1>8. QED
    BY <1>1, <1>2, <1>4, <1>5, <1>6, <1>7 DEF JobSound, Owed, Pending, Unsynced

LEMMA SyncBeginSound ==
    ASSUME AgentInv, NEW j \in Jobs, SyncBegin(j)
    PROVE  IdleWhenDown' /\ Distinct' /\ JobsSound'
<1> DEFINE row == [batch[j] EXCEPT !.sync = "SYNCING", !.attempts = OneMore(@)]
<1>1. /\ batch[j].state = "COMPLETED" /\ j \in tokens /\ batch[j] \in Row
      /\ sjob = NoJob /\ batch[j].state # "NONE"
    BY DEF SyncBegin, Batched, AgentInv, JobsSound, JobSound, Syncing, Owed, Pending, TypeOK
<1>2. OneMore(batch[j].attempts) \in 0..MaxAttempts
    BY <1>1, SettingsAssumption DEF OneMore, Row
<1>3. row \in Row /\ row.state = "COMPLETED" /\ row.sync = "SYNCING"
    BY <1>1, <1>2 DEF Row, SyncStates, Unsynced
<1>4. /\ up /\ spc = "batch" /\ Save(j, row) /\ batch' = [batch EXCEPT ![j] = Blank]
      /\ sjob' = j /\ srow' = Saved(j, row)
      /\ spc' = IF row.resultSent THEN AfterResult(row) ELSE "submit"
      /\ UNCHANGED <<tokens, nonces, files, reports, process, receiver, canceller, worker>>
    BY <1>1 DEF SyncBegin, Batched
<1> HIDE DEF row
<1>5. spc' \in {"submit", "upload", "finish"}
    BY <1>4 DEF AfterResult
<1>6. batch'[j].state = "NONE" /\ \A k \in Jobs \ {j} : batch'[k] = batch[k]
    BY <1>4, BlankRow DEF AgentInv, TypeOK
<1>7. JobSound(j)'
    BY <1>1, <1>3, <1>4, <1>5, <1>6, SyncerSaves DEF Unsynced
<1>8. QED
    BY <1>1, <1>3, <1>4, <1>5, <1>6, <1>7, SavedRow, SyncerElsewhere DEF AgentInv

LEMMA SyncLocalSound ==
    ASSUME AgentInv, SyncLocal
    PROVE  IdleWhenDown' /\ Distinct' /\ JobsSound'
<1>1. CASE SyncScan
    <2>1. /\ up /\ spc = "idle" /\ spc' = "batch"
          /\ \A k \in Jobs : batch'[k] = IF Pending(store[k]) THEN store[k] ELSE Blank
          /\ UNCHANGED <<durable, process, receiver, canceller, worker, sjob, srow>>
        BY <1>1 DEF SyncScan
    <2>2. QED
        BY <2>1, BlankRow, SyncerIdles
<1>2. ASSUME NEW j \in Jobs, SyncSkip(j) PROVE IdleWhenDown' /\ Distinct' /\ JobsSound'
    <2>1. /\ up /\ spc = "batch" /\ spc' = "batch" /\ batch'[j] = Blank
          /\ \A k \in Jobs \ {j} : batch'[k] = batch[k]
          /\ UNCHANGED <<durable, process, receiver, canceller, worker, sjob, srow>>
        BY <1>2 DEF SyncSkip, Batched, AgentInv, TypeOK
    <2>2. QED
        BY <2>1, BlankRow, SyncerIdles
<1>3. CASE BatchDone
    <2>1. /\ up /\ spc = "batch" /\ spc' = "idle" /\ batch' = batch
          /\ \A k \in Jobs : batch[k].state = "NONE"
          /\ UNCHANGED <<durable, process, receiver, canceller, worker, sjob, srow>>
        BY <1>3 DEF BatchDone
    <2>2. QED
        BY <2>1, SyncerIdles
<1>4. ASSUME NEW j \in Jobs, SyncBegin(j) PROVE IdleWhenDown' /\ Distinct' /\ JobsSound'
    BY <1>4, SyncBeginSound
<1>5. CASE SyncFinish
    <2> DEFINE row == [srow EXCEPT !.sync = "SYNCED", !.due = "now"]
    <2>1. PICK j \in Jobs : j = sjob
        BY <1>5 DEF SyncFinish, AgentInv, TypeOK
    <2>2. srow \in Row /\ srow.state = "COMPLETED" /\ batch[j].state = "NONE"
        BY <1>5, <2>1 DEF SyncFinish, AgentInv, JobsSound, JobSound, Syncing, Owed, Pending, TypeOK
    <2>3. row \in Row /\ row.state = "COMPLETED" /\ row.sync = "SYNCED"
        BY <2>2 DEF Row, SyncStates
    <2>4. /\ up /\ spc = "finish" /\ spc' = "forget" /\ Save(j, row) /\ sjob' = j
          /\ UNCHANGED <<tokens, nonces, files, reports, process, receiver, canceller,
                         worker, batch>>
        BY <1>5, <2>1 DEF SyncFinish
    <2> HIDE DEF row
    <2>5. JobSound(j)'
        BY <2>1, <2>2, <2>3, <2>4, SyncerSaves
    <2>6. QED
        BY <2>1, <2>3, <2>4, <2>5, SavedRow, SyncerElsewhere DEF AgentInv
<1>6. CASE ForgetToken
    <2>1. PICK j \in Jobs : j = sjob
        BY <1>6 DEF ForgetToken, AgentInv, TypeOK
    <2>2. /\ up /\ spc = "forget" /\ tokens' = tokens \ {j} /\ spc' = "batch" /\ sjob' = NoJob
          /\ UNCHANGED <<store, nonces, files, reports, process, receiver, canceller,
                         worker, srow, batch>>
        BY <1>6, <2>1 DEF ForgetToken
    <2>3. JobSound(j) /\ j # NoJob
        BY JobsAssumption DEF AgentInv, JobsSound
    <2>4. /\ ~Pending(store[j]) /\ batch[j].state = "NONE" /\ ~Dead(j) /\ Past(j)
        BY <2>1, <2>2, <2>3 DEF JobSound, Syncing, Ended
    <2>5. (\A k : InQueue(k)' = InQueue(k)) /\ (\A k : Dead(k)' <=> Dead(k))
        BY <2>2, SameQueue, NothingTold DEF worker
    <2>6. JobSound(j)'
        <3>1. Past(j)'
            BY <2>2, <2>4, <2>5 DEF Past, Busy, receiver, worker
        <3>2. Placed(j)' /\ Cancelled(j)' /\ Receiving(j)' /\ Working(j)'
            BY <2>2, <2>3, <2>5, <3>1 DEF JobSound, Placed, Cancelled, Receiving, Working, Past,
               receiver, canceller, worker
        <3>3. Syncing(j)' /\ Failed(j)'
            BY <2>2, <2>3, <2>4, <2>5 DEF Syncing, Failed
        <3>4. QED
            BY <2>2, <2>3, <2>4, <3>1, <3>2, <3>3 DEF JobSound, Pending
    <2>7. QED
        BY <2>1, <2>2, <2>6, SyncerElsewhere
<1>7. QED
    BY <1>1, <1>2, <1>3, <1>4, <1>5, <1>6 DEF SyncLocal

LEMMA SyncCallSound ==
    ASSUME AgentInv, NEW reply \in Replies, Submit(reply) \/ Upload(reply)
    PROVE  IdleWhenDown' /\ Distinct' /\ JobsSound'
<1>1. PICK j \in Jobs : j = sjob
    BY DEF Submit, Upload, AgentInv, TypeOK
<1>2. /\ up /\ spc \in {"submit", "upload"} /\ srow \in Row /\ JobSound(j)
    BY DEF Submit, Upload, AgentInv, JobsSound, TypeOK
<1>3. srow.state = "COMPLETED" /\ srow.sync \in Unsynced /\ batch[j].state = "NONE"
    BY <1>1, <1>2 DEF JobSound, Syncing, Owed, Pending
<1>4. CASE SyncError(reply)
    <2> DEFINE row == AfterError(reply)
    <2>1. row \in Row /\ row.state = "COMPLETED" /\ row.sync \in Unsynced
        BY <1>2, <1>3 DEF AfterError, Row, SyncStates, Unsynced
    <2>2. /\ Save(j, row) /\ spc' = "batch" /\ sjob' = NoJob
          /\ UNCHANGED <<tokens, nonces, files, reports, process, receiver, canceller,
                         worker, batch>>
        BY <1>1, <1>4 DEF SyncError
    <2> HIDE DEF row
    <2>3. JobSound(j)'
        BY <1>1, <1>2, <1>3, <2>1, <2>2, SyncerSaves
    <2>4. QED
        BY <1>1, <1>2, <2>1, <2>2, <2>3, SavedRow, SyncerElsewhere DEF AgentInv
<1>5. CASE Submit(reply) /\ ~SyncError(reply)
    <2> DEFINE row == [srow EXCEPT !.resultSent = TRUE]
    <2>1. row \in Row /\ row.state = "COMPLETED" /\ row.sync = srow.sync
        BY <1>2, <1>3 DEF Row
    <2>2. /\ Save(j, row) /\ srow' = Saved(j, row) /\ sjob' = j
          /\ spc' \in {"upload", "finish"}
          /\ UNCHANGED <<tokens, nonces, files, reports, process, receiver, canceller,
                         worker, batch>>
        BY <1>1, <1>5 DEF Submit, AfterResult
    <2> HIDE DEF row
    <2>3. JobSound(j)'
        BY <1>1, <1>2, <1>3, <2>1, <2>2, SyncerSaves
    <2>4. QED
        BY <1>1, <1>2, <2>1, <2>2, <2>3, SavedRow, SyncerElsewhere DEF AgentInv
<1>6. CASE Upload(reply) /\ ~SyncError(reply)
    <2>1. /\ srow' = [srow EXCEPT !.audioSent = TRUE] /\ spc' = "finish" /\ sjob' = sjob
          /\ UNCHANGED <<durable, process, receiver, canceller, worker, batch>>
        BY <1>6 DEF Upload
    <2>2. srow'.state = srow.state /\ srow'.sync = srow.sync
        BY <1>2, <2>1 DEF Row
    <2>3. InQueue(j)' = InQueue(j) /\ (Dead(j)' <=> Dead(j))
        BY <2>1, SameQueue, NothingTold DEF worker, durable
    <2>4. JobSound(j)'
        <3>1. Placed(j)' /\ Cancelled(j)' /\ Receiving(j)' /\ Working(j)'
            BY <1>2, <2>1, <2>3 DEF JobSound, Placed, Cancelled, Receiving, Working, Busy, durable,
               receiver, canceller, worker
        <3>2. Ended(j)' => Past(j)'
            BY <1>2, <2>1, <2>3 DEF JobSound, Ended, Past, Busy, durable, receiver, canceller, worker
        <3>3. Syncing(j)' /\ Failed(j)'
            BY <1>1, <1>2, <2>1, <2>2, <2>3
               DEF JobSound, Syncing, Failed, Owed, Pending, durable, canceller
        <3>4. QED
            BY <1>1, <1>2, <2>1, <3>1, <3>2, <3>3 DEF JobSound, Owed, Pending, durable
    <2>5. QED
        BY <1>1, <1>2, <2>1, <2>4, SyncerElsewhere DEF durable
<1>7. QED
    BY <1>4, <1>5, <1>6

LEMMA StopSound ==
    ASSUME AgentInv, Stop
    PROVE  IdleWhenDown' /\ Distinct' /\ JobsSound'
<1>1. /\ up' = FALSE /\ queue' = <<>> /\ wpc' = "idle" /\ wjob' = NoJob
      /\ spc' = "idle" /\ sjob' = NoJob
      /\ \A k \in Jobs : /\ rpc'[k] = "idle" /\ cpc'[k] = "idle" /\ batch'[k].state = "NONE"
      /\ UNCHANGED <<store, tokens, nonces, files, reports>>
    BY BlankRow DEF Stop, durable
<1>2. /\ Distinct' /\ (\A k : ~InQueue(k)') /\ \A k : Dead(k)' <=> Dead(k)
    BY <1>1, NothingTold DEF Distinct, InQueue
<1>3. ASSUME NEW k \in Jobs PROVE JobSound(k)'
    <2>1. JobSound(k) /\ k # NoJob
        BY JobsAssumption DEF AgentInv, JobsSound
    <2>2. Ended(k)' => Past(k)'
        BY <1>1, <1>2, <2>1 DEF JobSound, Ended, Past, Busy
    <2>3. Placed(k)' /\ Cancelled(k)' /\ Receiving(k)' /\ Working(k)'
        BY <1>1, <1>2, <2>1 DEF JobSound, Placed, Cancelled, Receiving, Working, Busy
    <2>4. Syncing(k)' /\ Failed(k)'
        BY <1>1, <1>2, <2>1 DEF JobSound, Syncing, Failed
    <2>5. QED
        BY <1>1, <2>1, <2>2, <2>3, <2>4 DEF JobSound, Owed, Pending
<1>4. QED
    BY <1>1, <1>2, <1>3 DEF IdleWhenDown, JobsSound

\* While the process is down only the rows in the table are left.
LEMMA RecoverJobSound ==
    ASSUME AgentInv, NEW j \in Jobs, RecoverJob(j)
    PROVE  IdleWhenDown' /\ Distinct' /\ JobsSound'
<1> DEFINE row == [store[j] EXCEPT !.state = "FAILED"]
<1>1. /\ row \in Row /\ row.state = "FAILED" /\ row.sync = store[j].sync
      /\ row.resultSent = store[j].resultSent
    <2>1. store[j] \in Row /\ "FAILED" \in States
        BY DEF States, Terminal, AgentInv, TypeOK
    <2>2. QED
        BY <2>1, RestatedRow
<1>2. /\ ~up /\ store[j].state \in Active /\ Save(j, row)
      /\ UNCHANGED <<tokens, nonces, files, reports, process, receiver, canceller,
                     worker, syncer>>
    BY DEF RecoverJob
<1> HIDE DEF row
<1>3. /\ wpc = "idle" /\ spc = "idle" /\ rpc[j] = "idle" /\ cpc[j] = "idle"
      /\ wjob = NoJob /\ sjob = NoJob /\ j # NoJob /\ JobSound(j) /\ ~InQueue(j)
    BY <1>2, JobsAssumption DEF AgentInv, IdleWhenDown, TypeOK, JobsSound, InQueue
<1>4. /\ Distinct' /\ (\A k : InQueue(k)' = InQueue(k)) /\ \A k : Dead(k)' <=> Dead(k)
    BY <1>2, SameQueue, NothingTold DEF worker, AgentInv
<1>5. /\ store'[j].state = "FAILED" /\ store'[j].sync = store[j].sync
      /\ store'[j].resultSent = store[j].resultSent
      /\ store[j].cancel => store'[j].cancel
      /\ \A k \in Jobs \ {j} : store'[k] = store[k]
    BY <1>1, <1>2, SavedRow DEF AgentInv
<1>6. JobSound(j)'
    <2>1. store[j].state \notin {"NONE", "COMPLETED", "FAILED", "CANCELLED"}
        BY <1>2 DEF Active, Running, Stages
    <2>2. Ended(j)' => Past(j)'
        BY <1>2, <1>3, <1>4, <1>5
           DEF JobSound, Ended, Past, Busy, receiver, canceller, worker, syncer
    <2>3. Placed(j)' /\ Cancelled(j)' /\ Receiving(j)' /\ Working(j)'
        BY <1>2, <1>3, <1>4, <1>5, <2>1 DEF JobSound, Placed, Cancelled, Receiving, Working, Busy,
           receiver, canceller, worker
    <2>4. Syncing(j)' /\ Failed(j)'
        BY <1>2, <1>3, <1>4, <1>5, <2>1 DEF JobSound, Syncing, Failed, canceller, syncer
    <2>5. batch[j].state = "NONE"
        BY <1>3 DEF JobSound, Syncing
    <2>6. QED
        BY <1>2, <1>3, <1>5, <2>2, <2>3, <2>4, <2>5 DEF JobSound, Pending, syncer
<1>7. ASSUME NEW k \in Jobs \ {j} PROVE JobSound(k)'
    BY <1>2, <1>4, <1>5, <1>7, Elsewhere DEF AgentInv, JobsSound, receiver, canceller, worker, syncer
<1>8. IdleWhenDown'
    BY <1>2 DEF AgentInv, IdleWhenDown, process, receiver, canceller, worker, syncer
<1>9. QED
    BY <1>4, <1>6, <1>7, <1>8 DEF JobsSound

\* The agent starts, a retry becomes due, a directory is cleaned up or loses its
\* recording: of the rows nothing changes but due.
LEMMA QuietSound ==
    ASSUME AgentInv, Start \/ \E j \in Jobs : BackoffElapses(j) \/ CleanUp(j) \/ LoseOriginal(j)
    PROVE  IdleWhenDown' /\ Distinct' /\ JobsSound'
<1>1. /\ UNCHANGED <<tokens, nonces, reports, receiver, canceller, worker, syncer>>
      /\ IdleWhenDown'
    BY DEF Start, BackoffElapses, CleanUp, LoseOriginal, process, receiver, canceller, worker, syncer,
       durable, AgentInv, IdleWhenDown
<1>2. /\ Distinct' /\ (\A k : InQueue(k)' = InQueue(k)) /\ \A k : Dead(k)' <=> Dead(k)
    BY <1>1, SameQueue, NothingTold DEF worker, AgentInv
<1>3. ASSUME NEW k \in Jobs
      PROVE  /\ store'[k].state = store[k].state /\ store'[k].sync = store[k].sync
             /\ store'[k].resultSent = store[k].resultSent
             /\ store'[k].cancel = store[k].cancel
    <2>1. CASE UNCHANGED store
        BY <2>1
    <2>2. ASSUME NEW j \in Jobs, BackoffElapses(j)
          PROVE  /\ store'[k].state = store[k].state /\ store'[k].sync = store[k].sync
                 /\ store'[k].resultSent = store[k].resultSent
                 /\ store'[k].cancel = store[k].cancel
        <3>1. /\ [store[j] EXCEPT !.due = "now"].state = store[j].state
              /\ [store[j] EXCEPT !.due = "now"].sync = store[j].sync
              /\ [store[j] EXCEPT !.due = "now"].resultSent = store[j].resultSent
              /\ [store[j] EXCEPT !.due = "now"].cancel = store[j].cancel
            BY DEF AgentInv, TypeOK, Row
        <3>2. QED
            BY <2>2, <3>1 DEF BackoffElapses, AgentInv, TypeOK
    <2>3. QED
        BY <2>1, <2>2 DEF Start, CleanUp, LoseOriginal, durable
<1>4. ASSUME NEW k \in Jobs
      PROVE  ("result" \in files[k] => "result" \in files'[k])
                 \/ (wjob # k /\ ~Pending(store[k]) /\ sjob # k /\ batch[k].state = "NONE")
    BY DEF Start, BackoffElapses, CleanUp, LoseOriginal, durable, Untouched, Cleanable, Pending, AgentInv,
       TypeOK, Unsynced
<1>5. ASSUME NEW k \in Jobs PROVE JobSound(k)'
    <2>1. JobSound(k)
        BY DEF AgentInv, JobsSound
    <2>2. Placed(k)' /\ Cancelled(k)' /\ Receiving(k)' /\ Working(k)'
        BY <1>1, <1>2, <1>3, <1>4, <2>1 DEF JobSound, Placed, Cancelled, Receiving, Working, Busy,
           receiver, canceller, worker
    <2>3. Ended(k)' => Past(k)'
        BY <1>1, <1>2, <1>3, <2>1 DEF JobSound, Ended, Past, Busy, receiver, canceller, worker, syncer
    <2>4. Syncing(k)' /\ Failed(k)'
        BY <1>1, <1>2, <1>3, <1>4, <2>1 DEF JobSound, Syncing, Failed, Owed, Pending, canceller, syncer
    <2>5. QED
        BY <1>1, <1>3, <1>4, <2>1, <2>2, <2>3, <2>4 DEF JobSound, Owed, Pending, syncer
<1>6. QED
    BY <1>1, <1>2, <1>5 DEF JobsSound

LEMMA AgentInvInit == Init => AgentInv
<1> SUFFICES ASSUME Init PROVE AgentInv
    OBVIOUS
<1>1. TypeOK
    BY TypeInit
<1>2. IdleWhenDown /\ Distinct
    BY DEF Init, IdleWhenDown, Distinct
<1>3. ASSUME NEW k \in Jobs PROVE JobSound(k)
    <2>1. ~InQueue(k) /\ ~Busy(k) /\ ~Dead(k) /\ k # NoJob
        BY JobsAssumption DEF Init, InQueue, Busy, Dead
    <2>2. ~Ended(k) /\ ~Pending(store[k]) /\ store[k].state = "NONE"
        BY <2>1, BlankRow DEF Init, Ended, Pending
    <2>3. Placed(k) /\ Cancelled(k) /\ Receiving(k) /\ Working(k)
        BY <2>1, <2>2, JobsAssumption DEF Init, Placed, Cancelled, Receiving, Working
    <2>4. QED
        BY <2>1, <2>2, <2>3, BlankRow DEF Init, JobSound, Ended, Syncing, Failed
<1>4. QED
    BY <1>1, <1>2, <1>3 DEF AgentInv, JobsSound

LEMMA AgentInvStep == ASSUME AgentInv, [Next]_vars PROVE AgentInv'
<1>1. TypeOK'
    BY NextType DEF AgentInv
<1>2. CASE UNCHANGED vars
    <2>1. /\ Distinct' /\ (\A k : InQueue(k)' = InQueue(k)) /\ \A k : Dead(k)' <=> Dead(k)
        BY <1>2, SameQueue, NothingTold DEF vars, durable, worker, AgentInv
    <2>2. ASSUME NEW k \in Jobs PROVE JobSound(k)'
        BY <1>2, <2>1, Elsewhere
           DEF AgentInv, JobsSound, vars, durable, receiver, canceller, worker, syncer
    <2>3. IdleWhenDown'
        BY <1>2 DEF AgentInv, IdleWhenDown, vars, process, receiver, canceller, worker, syncer
    <2>4. QED
        BY <1>1, <2>1, <2>2, <2>3 DEF AgentInv, JobsSound
<1>3. ASSUME NEW j \in Jobs, Receive(j) PROVE IdleWhenDown' /\ Distinct' /\ JobsSound'
    BY <1>3, AcceptTokenSound, CreateRowSound, MarkReceivingSound, EnqueueSound, DiscardSound,
       StreamBreaksSound DEF Receive
<1>4. CASE Next
    BY <1>1, <1>3, <1>4, CancelSound, WorkSound, SyncLocalSound, SyncCallSound, StopSound,
       RecoverJobSound, QuietSound, SkippedUpload DEF Next, Restart, AgentInv
<1>5. QED
    BY <1>2, <1>4

LEMMA AgentInvariance == Spec => []AgentInv
BY AgentInvInit, AgentInvStep, PTL DEF Spec

\* While a job still has to be worked on or delivered, its recording is on the
\* disk, or other hands took it.
Wanted(j) ==
    \/ InQueue(j) /\ store[j].state \notin Terminal
    \/ wjob = j \/ Pending(store[j]) \/ sjob = j \/ batch[j].state # "NONE"
There(j) == "original" \in files[j] \/ j \in lost
RecordingKept == \A j \in Jobs : Wanted(j) => There(j)

\* Only a receiver and the cleanup take recordings away, of jobs they are not
\* wanted for.
LEMMA ReceiverKeeps ==
    ASSUME AgentInv, AgentInv', RecordingKept, NEW j \in Jobs, Receive(j) PROVE RecordingKept'
<1>1. JobSound(j) /\ JobSound(j)'
    BY DEF AgentInv, JobsSound
<1>2. CASE AcceptToken(j) \/ StreamBreaks(j)
    BY <1>2 DEF AcceptToken, StreamBreaks, RecordingKept, Wanted, There, InQueue, durable,
       process, worker, syncer
<1>3. CASE CreateRow(j) \/ MarkReceiving(j)
    <2>1. ~Wanted(j)'
        <3>1. rpc'[j] \in {"created", "streaming"}
            BY <1>3 DEF CreateRow, MarkReceiving, AgentInv, TypeOK
        <3>2. ~InQueue(j)' /\ wjob' # j /\ ~Ended(j)'
            BY <1>1, <3>1 DEF JobSound, Placed, Past
        <3>3. QED
            BY <3>2 DEF Wanted, Ended, Pending
    <2>2. \A k \in Jobs \ {j} : store'[k] = store[k]
        BY <1>3 DEF CreateRow, MarkReceiving, Save, AgentInv, TypeOK
    <2>3. UNCHANGED <<files, queue, wjob, sjob, batch, lost>>
        BY <1>3 DEF CreateRow, MarkReceiving, process, worker, syncer
    <2>4. QED
        BY <2>1, <2>2, <2>3 DEF RecordingKept, Wanted, There, InQueue
<1>4. CASE Enqueue(j)
    <2>1. /\ "original" \in files'[j] /\ \A k \in Jobs \ {j} : files'[k] = files[k] /\ store'[k] = store[k]
          /\ UNCHANGED <<wjob, sjob, batch, lost>>
        BY <1>4 DEF Enqueue, Save, AgentInv, TypeOK, process, syncer
    <2>2. \A k \in Jobs \ {j} : InQueue(k)' => InQueue(k)
        BY <1>4 DEF Enqueue, InQueue, AgentInv, TypeOK
    <2>3. QED
        BY <2>1, <2>2 DEF RecordingKept, Wanted, There
<1>5. CASE Discard(j)
    <2>1. store'[j].state = "FAILED"
        BY <1>5 DEF Discard, Save, Saved, AgentInv, TypeOK, Row
    <2>2. /\ \A k \in Jobs \ {j} : files'[k] = files[k] /\ store'[k] = store[k]
          /\ UNCHANGED <<queue, wjob, sjob, batch, lost>>
        BY <1>5 DEF Discard, Save, AgentInv, TypeOK, process, worker, syncer
    <2>3. rpc[j] = "streaming"
        BY <1>5 DEF Discard
    <2>4. wjob # j /\ sjob # j /\ batch[j].state = "NONE"
        BY <1>1, <2>3 DEF JobSound, Placed, Ended, Past
    <2>5. QED
        BY <2>1, <2>2, <2>4 DEF RecordingKept, Wanted, There, InQueue, Pending, Terminal
<1>6. QED
    BY <1>2, <1>3, <1>4, <1>5 DEF Receive

LEMMA CancellerKeeps ==
    ASSUME AgentInv, RecordingKept, NEW j \in Jobs, Cancel(j) PROVE RecordingKept'
<1>1. /\ \A k \in Jobs \ {j} : store'[k] = store[k]
      /\ \/ store'[j].state = store[j].state /\ store'[j].sync = store[j].sync
         \/ store'[j].state = "CANCELLED"
    <2>1. CASE CancelRead(j) \/ CancelCheck(j) \/ CancelLoad(j)
        BY <2>1 DEF CancelRead, CancelCheck, CancelLoad, durable
    <2>2. CASE CancelFlag(j)
        <3>1. /\ [store[j] EXCEPT !.cancel = TRUE].state = store[j].state
              /\ [store[j] EXCEPT !.cancel = TRUE].sync = store[j].sync
            BY DEF AgentInv, TypeOK, Row
        <3>2. QED
            BY <2>2, <3>1 DEF CancelFlag, AgentInv, TypeOK
    <2>3. CASE CancelSave(j)
        <3>1. crow[j] \in Row /\ "CANCELLED" \in States
            BY DEF States, Terminal, AgentInv, TypeOK
        <3> DEFINE row == [crow[j] EXCEPT !.state = "CANCELLED"]
        <3>2. row \in Row /\ row.state = "CANCELLED"
            BY <3>1, RestatedRow
        <3>3. Save(j, row)
            BY <2>3 DEF CancelSave
        <3> HIDE DEF row
        <3>4. QED
            BY <3>2, <3>3, SavedRow DEF AgentInv
    <2>4. QED
        BY <2>1, <2>2, <2>3 DEF Cancel
<1>2. UNCHANGED <<files, queue, wjob, sjob, batch, lost>>
    BY DEF Cancel, CancelRead, CancelFlag, CancelCheck, CancelLoad, CancelSave, durable,
       process, worker, syncer
<1>3. QED
    BY <1>1, <1>2 DEF RecordingKept, Wanted, There, InQueue, Pending, Terminal

LEMMA WorkerKeeps == ASSUME AgentInv, RecordingKept, Work PROVE RecordingKept'
<1>1. UNCHANGED <<sjob, batch, lost>> /\ \A k \in Jobs : "original" \in files[k] => "original" \in files'[k]
    BY DEF Work, WorkerTake, WorkerStart, NextStage, StopCancelled, StageFails, WriteResult,
       EnterOutbox, Complete, WorkerDone, durable, process, syncer, AgentInv, TypeOK
<1>2. CASE WorkerTake
    <2>1. queue \in Seq(Jobs) /\ queue # <<>> /\ Distinct /\ queue' = Tail(queue)
        BY <1>2 DEF WorkerTake, AgentInv, TypeOK
    <2>2. /\ Head(queue) \in Jobs /\ InQueue(Head(queue))
          /\ \A k : InQueue(k)' => InQueue(k)
        BY <2>1, TakeQueue
    <2>3. /\ UNCHANGED store
          /\ wjob' = wjob \/ (wjob' = Head(queue) /\ store[Head(queue)].state \notin Terminal)
        BY <1>2 DEF WorkerTake, durable
    <2>4. QED
        BY <1>1, <2>2, <2>3 DEF RecordingKept, Wanted, There
<1>3. CASE ~WorkerTake
    <2>1. UNCHANGED queue /\ wjob' \in {wjob, NoJob}
        BY <1>3 DEF Work, WorkerStart, NextStage, StopCancelled, StageFails, WriteResult,
           EnterOutbox, Complete, WorkerDone
    <2>2. \A k \in Jobs \ {wjob} : store'[k] = store[k]
        BY <1>3 DEF Work, WorkerStart, NextStage, StopCancelled, StageFails, WriteResult,
           EnterOutbox, Complete, WorkerDone, WorkerSave, Save, durable, AgentInv, TypeOK
    <2>3. QED
        BY <1>1, <2>1, <2>2, JobsAssumption DEF RecordingKept, Wanted, There, InQueue
<1>4. QED
    BY <1>2, <1>3

LEMMA SyncerKeeps == ASSUME AgentInv, RecordingKept, SyncLocal \/ SyncCall PROVE RecordingKept'
<1>1. UNCHANGED <<files, queue, wjob, lost>>
    BY DEF SyncLocal, SyncScan, SyncFinish, ForgetToken, BatchDone, SyncSkip, SyncBegin,
       SyncCall, SkipUpload, Submit, Upload, SyncError, durable, process, worker
<1>2. ASSUME NEW k \in Jobs, store'[k] # store[k] PROVE Wanted(k)
    BY <1>2 DEF Wanted, SyncLocal, SyncScan, SyncFinish, ForgetToken, BatchDone, SyncSkip,
       SyncBegin, Batched, SyncCall, SkipUpload, Submit, Upload, SyncError, Save, durable,
       AgentInv, TypeOK
<1>3. ASSUME NEW k \in Jobs, sjob' = k \/ batch'[k].state # "NONE" PROVE Wanted(k)
    BY <1>3, JobsAssumption, BlankRow
       DEF Wanted, SyncLocal, SyncScan, SyncFinish, ForgetToken, BatchDone, SyncSkip,
           SyncBegin, Batched, SyncCall, SkipUpload, Submit, Upload, SyncError, AgentInv, TypeOK
<1>4. QED
    BY <1>1, <1>2, <1>3 DEF RecordingKept, Wanted, There, InQueue

LEMMA OthersKeep ==
    ASSUME AgentInv, RecordingKept,
           Stop \/ Restart \/ \E j \in Jobs : BackoffElapses(j) \/ CleanUp(j) \/ LoseOriginal(j)
    PROVE  RecordingKept'
<1>1. CASE Stop
    BY <1>1, JobsAssumption, BlankRow DEF Stop, RecordingKept, Wanted, There, InQueue, durable
<1>2. CASE Start
    BY <1>2 DEF Start, RecordingKept, Wanted, There, InQueue, durable, worker, syncer
<1>3. ASSUME NEW j \in Jobs, RecoverJob(j) PROVE RecordingKept'
    <2>1. store'[j].state = "FAILED" /\ \A k \in Jobs \ {j} : store'[k] = store[k]
        BY <1>3 DEF RecoverJob, Save, Saved, AgentInv, TypeOK, Row
    <2>2. UNCHANGED <<files, queue, wjob, sjob, batch, lost>>
        BY <1>3 DEF RecoverJob, process, worker, syncer
    <2>3. QED
        BY <2>1, <2>2 DEF RecordingKept, Wanted, There, InQueue, Pending, Terminal
<1>4. ASSUME NEW j \in Jobs, BackoffElapses(j) PROVE RecordingKept'
    <2>1. \A k \in Jobs : store'[k].state = store[k].state /\ store'[k].sync = store[k].sync
        BY <1>4 DEF BackoffElapses, AgentInv, TypeOK, Row
    <2>2. UNCHANGED <<files, queue, wjob, sjob, batch, lost>>
        BY <1>4 DEF BackoffElapses, process, worker, syncer
    <2>3. QED
        BY <2>1, <2>2 DEF RecordingKept, Wanted, There, InQueue, Pending
<1>5. ASSUME NEW j \in Jobs, CleanUp(j) \/ LoseOriginal(j) PROVE RecordingKept'
    <2>1. /\ UNCHANGED <<store, queue, wjob, sjob, batch>>
          /\ \A k \in Jobs \ {j} : files'[k] = files[k]
          /\ lost \subseteq lost'
        BY <1>5 DEF CleanUp, LoseOriginal, process, worker, syncer, AgentInv, TypeOK
    <2>2. ~Wanted(j) \/ j \in lost'
        BY <1>5 DEF CleanUp, Untouched, Cleanable, Wanted, Pending, Unsynced, LoseOriginal
    <2>3. QED
        BY <2>1, <2>2 DEF RecordingKept, Wanted, There, InQueue
<1>6. QED
    BY <1>1, <1>2, <1>3, <1>4, <1>5 DEF Restart

LEMMA RecordingInit == Init => RecordingKept
<1>1. ASSUME Init, NEW j \in Jobs PROVE ~Wanted(j)
    BY <1>1, JobsAssumption, BlankRow DEF Init, Wanted, InQueue, Pending
<1>2. QED
    BY <1>1 DEF RecordingKept

LEMMA RecordingStep ==
    ASSUME AgentInv, AgentInv', RecordingKept, [Next]_vars PROVE RecordingKept'
<1>1. CASE UNCHANGED vars
    BY <1>1 DEF vars, RecordingKept, Wanted, There, InQueue, durable, process, worker, syncer
<1>2. CASE Next
    BY <1>2, ReceiverKeeps, CancellerKeeps, WorkerKeeps, SyncerKeeps, OthersKeep DEF Next
<1>3. QED
    BY <1>1, <1>2

LEMMA RecordingInvariance == Spec => []RecordingKept
BY RecordingInit, RecordingStep, AgentInvariance, PTL DEF Spec

\* A finished job that the central server does not have yet can be sent: its
\* result, its recording and its token are there (sync_worker.py:79-117), for any number of
\* jobs, restarts and late cancellations.
THEOREM OutboxCanBeSent == Spec => []OutboxDeliverable
<1>1. AgentInv /\ RecordingKept => OutboxDeliverable
    BY DEF AgentInv, JobsSound, JobSound, Owed, OutboxDeliverable, RecordingKept, Wanted, There
<1>2. QED
    BY <1>1, AgentInvariance, RecordingInvariance, PTL

\* A job that was reported as FAILED is not handed in afterwards: no copy that a
\* thread still holds can bring it back.
THEOREM FailedIsNotHandedIn == Spec => []FailureReportIsFinal
<1>1. AgentInv => FailureReportIsFinal
    BY DEF AgentInv, JobsSound, JobSound, Failed, Dead, FailureReportIsFinal
<1>2. QED
    BY <1>1, AgentInvariance, PTL

\* What FinishedRowsStay says of a job nobody asked to cancel.
Stays(k) ==
    ~store[k].cancel =>
        /\ store[k].state \in Terminal => store'[k].state = store[k].state
        /\ store[k].sync = "SYNCED" => store'[k].sync = "SYNCED"

\* A row is saved over one that is still being worked on, or over one that is
\* owed, as completed.
LEMMA SaveStays ==
    ASSUME AgentInv, NEW j \in Jobs, NEW row \in Row, Save(j, row),
           \/ store[j].cancel
           \/ store[j].state \notin Terminal /\ (store[j].sync # "SYNCED" \/ row.sync = store[j].sync)
           \/ Pending(store[j]) /\ row.state = "COMPLETED"
    PROVE  \A k \in Jobs : Stays(k)
<1>1. /\ store'[j].state = row.state /\ store'[j].sync = row.sync
      /\ \A k \in Jobs \ {j} : store'[k] = store[k]
    BY SavedRow DEF AgentInv
<1>2. QED
    BY <1>1 DEF Stays, Pending, Unsynced

LEMMA ReceiverStays == ASSUME AgentInv, NEW j \in Jobs, Receive(j) PROVE \A k \in Jobs : Stays(k)
<1>1. CASE AcceptToken(j) \/ StreamBreaks(j)
    BY <1>1 DEF AcceptToken, StreamBreaks, durable, Stays
<1>2. CASE CreateRow(j) \/ MarkReceiving(j) \/ Enqueue(j) \/ Discard(j)
    <2>1. PICK row \in Row : Save(j, row)
        <3>1. /\ rrow[j] \in Row /\ {"CREATED", "RECEIVING_AUDIO", "FAILED"} \subseteq States
            BY DEF AgentInv, TypeOK, States, Active, Terminal
        <3>2. QED
            BY <1>2, <3>1, BlankRow, RestatedRow DEF CreateRow, MarkReceiving, Enqueue, Discard
    <2>2. rpc[j] \in {"accepted", "created", "streaming"} /\ JobSound(j)
        BY <1>2 DEF CreateRow, MarkReceiving, Enqueue, Discard, AgentInv, JobsSound
    <2>3. /\ store[j].sync # "SYNCED"
          /\ store[j].cancel \/ store[j].state \in {"NONE", "CREATED", "RECEIVING_AUDIO"}
        BY <2>2 DEF JobSound, Placed, Receiving, Ended, Past
    <2>4. QED
        BY <2>1, <2>3, SaveStays DEF Terminal
<1>3. QED
    BY <1>1, <1>2 DEF Receive

LEMMA CancellerStays == ASSUME AgentInv, NEW j \in Jobs, Cancel(j) PROVE \A k \in Jobs : Stays(k)
<1>1. CASE CancelRead(j) \/ CancelCheck(j) \/ CancelLoad(j)
    BY <1>1 DEF CancelRead, CancelCheck, CancelLoad, durable, Stays
<1>2. CASE CancelFlag(j)
    <2>1. /\ [store[j] EXCEPT !.cancel = TRUE].state = store[j].state
          /\ [store[j] EXCEPT !.cancel = TRUE].sync = store[j].sync
        BY DEF AgentInv, TypeOK, Row
    <2>2. QED
        BY <1>2, <2>1 DEF CancelFlag, Stays, AgentInv, TypeOK
<1>3. CASE CancelSave(j)
    <2>1. crow[j] \in Row /\ "CANCELLED" \in States
        BY DEF States, Terminal, AgentInv, TypeOK
    <2>2. [crow[j] EXCEPT !.state = "CANCELLED"] \in Row
        BY <2>1, RestatedRow
    <2>3. store[j].cancel
        BY <1>3 DEF CancelSave, AgentInv, JobsSound, JobSound, Cancelled
    <2>4. QED
        BY <1>3, <2>2, <2>3, SaveStays DEF CancelSave
<1>4. QED
    BY <1>1, <1>2, <1>3 DEF Cancel

LEMMA WorkerStays == ASSUME AgentInv, Work PROVE \A k \in Jobs : Stays(k)
<1>1. CASE WorkerTake \/ WorkerStart \/ WorkerDone
    BY <1>1 DEF WorkerTake, WorkerStart, WorkerDone, durable, Stays
<1>2. CASE NextStage \/ StopCancelled \/ StageFails \/ WriteResult \/ EnterOutbox \/ Complete
    <2>1. /\ wjob \in Jobs /\ wrow \in Row /\ JobSound(wjob) /\ Busy(wjob) /\ ~Ended(wjob)
          /\ wrow.state \in Active
        BY <1>2, BusyFacts DEF NextStage, StopCancelled, StageFails, WriteResult, EnterOutbox, Complete
    <2>2. PICK row \in Row : Save(wjob, row)
        <3>1. Stages \cup Terminal \subseteq States
            BY DEF States, Active, Running
        <3>2. [wrow EXCEPT !.state = "SYNCING", !.sync = "WAITING_TO_SYNC"] \in Row
            BY <2>1 DEF Row, States, Active, Running, SyncStates, Unsynced
        <3>3. \A s \in Stages \cup Terminal : [wrow EXCEPT !.state = s] \in Row
            BY <2>1, <3>1, RestatedRow
        <3>4. QED
            BY <1>2, <2>1, <3>2, <3>3, StageAfterType
               DEF NextStage, StopCancelled, StageFails, WriteResult, EnterOutbox, Complete,
                   WorkerSave, Terminal
    <2>3. /\ store[wjob].sync # "SYNCED"
          /\ store[wjob].cancel \/ store[wjob].state \in Active
        BY <2>1 DEF JobSound, Working, Ended
    <2>4. Active \cap Terminal = {}
        BY DEF Active, Running, Stages, Terminal
    <2>5. QED
        BY <2>1, <2>2, <2>3, <2>4, SaveStays
<1>3. QED
    BY <1>1, <1>2 DEF Work

LEMMA SyncerStays == ASSUME AgentInv, SyncLocal \/ SyncCall PROVE \A k \in Jobs : Stays(k)
<1>1. CASE UNCHANGED store
    BY <1>1 DEF Stays
<1>2. ASSUME sjob \in Jobs, spc \in {"submit", "upload", "finish"}, NEW row \in Row,
             row.state = srow.state, Save(sjob, row)
      PROVE  \A k \in Jobs : Stays(k)
    <2>1. srow.state = "COMPLETED" /\ (store[sjob].cancel \/ Pending(store[sjob]))
        BY <1>2 DEF AgentInv, JobsSound, JobSound, Syncing, Owed, Pending
    <2>2. QED
        BY <1>2, <2>1, SaveStays
<1>3. ASSUME NEW j \in Jobs, SyncBegin(j) PROVE \A k \in Jobs : Stays(k)
    <2>1. /\ batch[j] \in Row /\ batch[j].state = "COMPLETED" /\ j \in tokens
          /\ store[j].cancel \/ Pending(store[j])
        BY <1>3 DEF SyncBegin, Batched, AgentInv, JobsSound, JobSound, Syncing, Owed, Pending, TypeOK
    <2> DEFINE row == [batch[j] EXCEPT !.sync = "SYNCING", !.attempts = OneMore(@)]
    <2>2. OneMore(batch[j].attempts) \in 0..MaxAttempts
        BY <2>1, SettingsAssumption DEF OneMore, Row
    <2>3. row \in Row /\ row.state = "COMPLETED"
        BY <2>1, <2>2 DEF Row, SyncStates, Unsynced
    <2>4. Save(j, row)
        BY <1>3, <2>1 DEF SyncBegin
    <2> HIDE DEF row
    <2>5. QED
        BY <2>1, <2>3, <2>4, SaveStays
<1>4. srow \in Row
    BY DEF AgentInv, TypeOK
<1>5. CASE SyncFinish
    <2>1. /\ [srow EXCEPT !.sync = "SYNCED", !.due = "now"] \in Row
          /\ [srow EXCEPT !.sync = "SYNCED", !.due = "now"].state = srow.state
        BY <1>4 DEF Row, SyncStates
    <2>2. sjob \in Jobs
        BY <1>5 DEF SyncFinish, AgentInv, TypeOK
    <2>3. QED
        BY <1>2, <1>5, <2>1, <2>2 DEF SyncFinish
<1>6. ASSUME NEW reply \in Replies, Submit(reply) \/ Upload(reply), ~UNCHANGED store
      PROVE  \A k \in Jobs : Stays(k)
    <2>1. sjob \in Jobs
        BY <1>6 DEF Submit, Upload, AgentInv, TypeOK
    <2>2. /\ AfterError(reply) \in Row /\ AfterError(reply).state = srow.state
          /\ [srow EXCEPT !.resultSent = TRUE] \in Row
          /\ [srow EXCEPT !.resultSent = TRUE].state = srow.state
        BY <1>4 DEF AfterError, Row, SyncStates, Unsynced
    <2>3. QED
        BY <1>2, <1>6, <2>1, <2>2 DEF Submit, Upload, SyncError, durable
<1>7. QED
    BY <1>1, <1>3, <1>5, <1>6, SkippedUpload DEF SyncLocal, SyncScan, ForgetToken, BatchDone, SyncSkip, durable

LEMMA OthersStay ==
    ASSUME AgentInv,
           Stop \/ Restart \/ \E j \in Jobs : BackoffElapses(j) \/ CleanUp(j) \/ LoseOriginal(j)
    PROVE  \A k \in Jobs : Stays(k)
<1>1. CASE UNCHANGED store
    BY <1>1 DEF Stays
<1>2. ASSUME NEW j \in Jobs, RecoverJob(j) PROVE \A k \in Jobs : Stays(k)
    <2>1. store[j] \in Row /\ "FAILED" \in States /\ store[j].state \notin Terminal
        BY <1>2 DEF RecoverJob, States, Terminal, Active, Running, Stages, AgentInv, TypeOK
    <2>2. /\ [store[j] EXCEPT !.state = "FAILED"] \in Row
          /\ [store[j] EXCEPT !.state = "FAILED"].sync = store[j].sync
        BY <2>1, RestatedRow
    <2>3. QED
        BY <1>2, <2>1, <2>2, SaveStays DEF RecoverJob
<1>3. ASSUME NEW j \in Jobs, BackoffElapses(j) PROVE \A k \in Jobs : Stays(k)
    <2>1. /\ [store[j] EXCEPT !.due = "now"].state = store[j].state
          /\ [store[j] EXCEPT !.due = "now"].sync = store[j].sync
        BY DEF AgentInv, TypeOK, Row
    <2>2. QED
        BY <1>3, <2>1 DEF BackoffElapses, Stays, AgentInv, TypeOK
<1>4. QED
    BY <1>1, <1>2, <1>3 DEF Stop, Restart, Start, CleanUp, LoseOriginal, durable

\* However late a thread writes its copy back, and however often the agent is
\* restarted: a row that has ended keeps its state, and a delivered one stays
\* delivered, unless somebody asked to cancel the job.
THEOREM FinishedStay == Spec => FinishedRowsStay
<1>1. ASSUME AgentInv, Next PROVE \A k \in Jobs : Stays(k)
    BY <1>1, ReceiverStays, CancellerStays, WorkerStays, SyncerStays, OthersStay DEF Next
<1>2. AgentInv /\ [Next]_vars =>
          [\A j \in Jobs : ~store[j].cancel =>
              /\ store[j].state \in Terminal => store'[j].state = store[j].state
              /\ store[j].sync = "SYNCED" => store'[j].sync = "SYNCED"]_vars
    BY <1>1 DEF Stays
<1>3. QED
    BY <1>2, AgentInvariance, PTL DEF Spec, FinishedRowsStay

=============================================================================
