--------------------------- MODULE ProcessingSync ---------------------------
(***************************************************************************)
(* The desktop agent (AgentJobs) and the central server (CentralJobs)      *)
(* joined by the calls the one makes to the other.                         *)
(*                                                                         *)
(* A call of the syncer is sent, is received and handled, and its answer   *)
(* is received, in separate steps.  The agent may stop waiting at any of   *)
(* them; the call it has given up may still reach the server, before or    *)
(* after the calls the agent makes instead.  State reports are sent by the *)
(* agent's other threads, best effort: they arrive in any order, more than *)
(* once (a thread does not know of the others), or never.                  *)
(*                                                                         *)
(* Each job has its own recording, named after it, and the key it was      *)
(* given when it was created.  The audio sent is the audio announced.      *)
(***************************************************************************)
EXTENDS AgentJobs

CONSTANTS
    NoKey,      \* no transcript stored; also: no recording
    MaxFaults   \* bound: calls not answered in time and restarts of the server

ASSUME FaultsAssumption == NoKey \notin Jobs /\ MaxFaults \in Nat
\* The session's lock is held by a job's request, by a client or by nobody.
ASSUME HoldersAssumption == {"none", "client"} \cap Jobs = {}

VARIABLES
    job, recording, created, result, audio, status, workflow,  \* CentralJobs
    request, holder, loop,
    call,       \* the syncer's call: how far it is
    abandoned,  \* [Calls -> how many of them are under way and no longer waited for]
    expired,    \* the jobs whose processing token has expired
    faults      \* how many calls were not answered in time, and server restarts

Central == INSTANCE CentralJobs WITH
    Recordings <- Jobs, NoRecording <- NoKey, Keys <- Jobs

agent   == vars
server  == <<job, recording, created, result, audio, status, workflow, request, holder, loop>>
network == <<call, abandoned, expired, faults>>
allVars == <<agent, server, network>>

Calls == [job: Jobs, kind: {"result", "audio"}]

\* Types; a call is served by the one request that holds the job's row lock.
SyncTypeOK ==
    /\ TypeOK /\ Central!TypeOK
    /\ call \in {"none", "sent", "served", "lost", "ok", "rejected"}
    /\ abandoned \in [Calls -> 0..MaxFaults + MaxCrashes]
    /\ expired \subseteq Jobs /\ faults \in 0..MaxFaults
    /\ call # "none" => spc \in {"submit", "upload"}
    /\ call = "served" => request[sjob].at # "none"

SyncInit ==
    /\ Init /\ Central!Init
    /\ call = "none" /\ abandoned = [c \in Calls |-> 0] /\ expired = {} /\ faults = 0

----------------------------------------------------------------------------
(* The agent's side *)

CurrentCall == [job |-> sjob, kind |-> IF spc = "submit" THEN "result" ELSE "audio"]

\* A call that is on its way when the agent stops waiting may still arrive.
GiveUp ==
    abandoned' = IF call = "sent" THEN [abandoned EXCEPT ![CurrentCall] = @ + 1] ELSE abandoned

\* The original is looked for just before its upload is sent.
Send ==
    /\ up /\ spc \in {"submit", "upload"} /\ call = "none"
    /\ spc = "upload" => "original" \in files[sjob]
    /\ call' = "sent"
    /\ UNCHANGED <<agent, server, abandoned, expired, faults>>

\* CentralClient returns or raises: the server's answer, or a network error, a
\* timeout or an answer that cannot be understood, whatever became of the call.
Return(reply) ==
    /\ reply \in {"ok", "rejected"} /\ call = reply
    /\ Submit(reply) \/ Upload(reply)
    /\ call' = "none"
    /\ UNCHANGED <<server, abandoned, expired, faults>>

Fail(reply) ==
    /\ reply \in {"transient", "unexpected"} /\ call # "none"
    /\ call # "lost" => faults < MaxFaults
    /\ faults' = IF call = "lost" THEN faults ELSE faults + 1
    /\ Submit(reply) \/ Upload(reply)
    /\ call' = "none" /\ GiveUp
    /\ UNCHANGED <<server, expired>>

\* The agent accepts a job only with a token the server has issued.
AgentLocal ==
    /\ \/ \E j \in Jobs : AcceptToken(j) /\ job[j] # "NONE" /\ j \notin expired
       \/ \E j \in Jobs :
            \/ CreateRow(j) \/ MarkReceiving(j) \/ Enqueue(j) \/ Discard(j) \/ StreamBreaks(j)
            \/ Cancel(j) \/ BackoffElapses(j) \/ CleanUp(j) \/ LoseOriginal(j)
       \/ Work \/ SyncLocal \/ Restart
       \/ call = "none" /\ SkipUpload
    /\ UNCHANGED <<server, network>>

AgentStopsStillWaiting ==
    /\ Stop
    /\ UNCHANGED <<server, network>>

AgentStops ==
    /\ Stop
    /\ call' = "none" /\ GiveUp
    /\ UNCHANGED <<server, expired, faults>>

----------------------------------------------------------------------------
(* The server's side *)

\* While the server works on the syncer's call, that call is "served"; what the
\* server answers to job j's request goes to that call or to nobody.
Answer(j, answer) == call' = IF call = "served" /\ j = sjob THEN answer ELSE call

\* get_agent_job refuses an expired token before anything else.
RefuseExpired ==
    /\ call = "sent" /\ sjob \in expired
    /\ call' = "rejected"
    /\ UNCHANGED <<agent, server, abandoned, expired, faults>>

\* A call reaches the server: the one the syncer waits for, which becomes `next',
\* or one that is no longer waited for.
Arrives(j, kind, next) ==
    LET c == [job |-> j, kind |-> kind] IN
    \/ call = "sent" /\ CurrentCall = c /\ call' = next /\ UNCHANGED abandoned
    \/ abandoned[c] > 0 /\ abandoned' = [abandoned EXCEPT ![c] = @ - 1] /\ UNCHANGED call

TakeResult(j) ==
    /\ j \notin expired
    /\ Central!BeginResult(j, j) /\ Arrives(j, "result", "served")
    /\ UNCHANGED <<agent, expired, faults>>

AnswerResultWithoutDuplicates(j) ==
    /\ j \notin expired /\ ~Central!Acceptable(j)
    /\ Central!RefuseResult(j)
    /\ Arrives(j, "result", "rejected")
    /\ UNCHANGED <<agent, expired, faults>>

AnswerResultAlwaysOk(j) ==
    /\ j \notin expired /\ ~Central!Acceptable(j)
    /\ Central!RefuseResult(j)
    /\ Arrives(j, "result", "ok")
    /\ UNCHANGED <<agent, expired, faults>>

\* The transcript is there already under this key: answered as before.  A closed
\* investigation or a cancelled job: 409.
AnswerResult(j) ==
    /\ j \notin expired /\ ~Central!Acceptable(j)
    /\ Central!RefuseResult(j)
    /\ Arrives(j, "result", IF result[j] = j THEN "ok" ELSE "rejected")
    /\ UNCHANGED <<agent, expired, faults>>

TakeUpload(j) ==
    /\ j \notin expired
    /\ Central!BeginUpload(j) /\ Arrives(j, "audio", "served")
    /\ UNCHANGED <<agent, expired, faults>>

AnswerDuplicateUpload(j) ==
    /\ j \notin expired /\ Central!Free(j) /\ recording[j] \in audio
    /\ Arrives(j, "audio", "ok")
    /\ UNCHANGED <<agent, server, expired, faults>>

\* agent_state as JobStatus
Reported(state) ==
    IF state \in {"CREATED", "RECEIVING_AUDIO"} THEN "ACCEPTED"
    ELSE IF state \in Terminal THEN state ELSE "PROCESSING"

ReceiveReport(r) ==
    LET to == Reported(r.state) IN
    /\ r.job \notin expired
    /\ IF to \in Terminal THEN Central!BeginEnd(r.job, to) ELSE Central!Report(r.job, to)
    /\ UNCHANGED <<agent, network>>

\* Requests go on, as in CentralJobs; some steps also answer the call.
Compute(j) == Central!ComputeEnd(j) /\ UNCHANGED <<agent, network>>
EndJob(j)  == Central!CommitEnd(j) /\ UNCHANGED <<agent, network>>
Unlock(j)  == Central!Teardown(j) /\ UNCHANGED <<agent, network>>
Commit(j)  == Central!CommitResult(j) /\ Answer(j, "ok") /\ UNCHANGED <<agent, abandoned, expired, faults>>
Stored(j)  == Central!FinishUpload(j) /\ Answer(j, "ok") /\ UNCHANGED <<agent, abandoned, expired, faults>>
Lock(j) ==
    /\ Central!LockForUpload(j)
    /\ IF Central!Open THEN UNCHANGED call ELSE Answer(j, "rejected")
    /\ UNCHANGED <<agent, abandoned, expired, faults>>

Serve(j) == Compute(j) \/ EndJob(j) \/ Unlock(j) \/ Commit(j) \/ Stored(j) \/ Lock(j)

\* Users: a new recording, a central cancellation, the workflow.
Users ==
    /\ \E j \in Jobs :
        \/ Central!CreateToken(j, j)
        \/ Central!BeginEnd(j, "CANCELLED")
        \/ \E target \in Central!Workflow : Central!Transition(target)
    /\ UNCHANGED <<agent, network>>

\* The server process is replaced: requests under way are rolled back.
ServerStops ==
    /\ request # [j \in Jobs |-> Central!NoRequest]
    /\ faults < MaxFaults /\ faults' = faults + 1
    /\ request' = [j \in Jobs |-> Central!NoRequest] /\ holder' = "none" /\ loop' = NoJob
    /\ call' = IF call = "served" THEN "lost" ELSE call
    /\ UNCHANGED <<agent, job, recording, created, result, audio, status, workflow,
                   abandoned, expired>>

\* 24 hours after CreateToken.  It is noticed when a call arrives.
TokenExpires(j) ==
    /\ call = "sent" /\ j = sjob /\ j \notin expired
    /\ expired' = expired \cup {j}
    /\ UNCHANGED <<agent, server, call, abandoned, faults>>

----------------------------------------------------------------------------
SyncNext ==
    \/ AgentLocal \/ AgentStops \/ Send \/ \E reply \in Replies : Return(reply) \/ Fail(reply)
    \/ RefuseExpired \/ Users \/ ServerStops
    \/ \E j \in Jobs :
        \/ TakeResult(j) \/ AnswerResult(j) \/ TakeUpload(j) \/ AnswerDuplicateUpload(j)
        \/ Serve(j) \/ TokenExpires(j)
    \/ \E r \in reports : ReceiveReport(r)

SyncSpec == SyncInit /\ [][SyncNext]_allVars

\* Both machines keep running, the clock advances, a call that is not lost is
\* received and served, an answer that is not lost is received (weak fairness);
\* of the faults there are MaxFaults at most.  Nobody is obliged to record,
\* cancel, review or archive anything.
SyncFairness ==
    /\ WF_allVars(AgentLocal /\ (Work \/ Restart))
    /\ WF_allVars(Send \/ (AgentLocal /\ (SyncLocal \/ SkipUpload)))
    /\ WF_allVars(\E reply \in Replies : Return(reply) \/ Fail(reply))
    /\ \A j \in Jobs :
        /\ WF_allVars(AgentLocal /\ BackoffElapses(j))
        /\ WF_allVars(Serve(j))
        /\ WF_allVars(/\ TakeResult(j) \/ AnswerResult(j) \/ TakeUpload(j) \/ AnswerDuplicateUpload(j)
                      /\ call' # call)

FairSyncSpec == SyncSpec /\ SyncFairness

----------------------------------------------------------------------------
(* What the two machines promise together *)

Contract == INSTANCE Delivery WITH
    AudioOwed   <- UploadAudio,
    stored      <- {j \in Jobs : result[j] # NoKey},
    kept        <- {j \in Jobs : j \in audio},
    withdrawn   <- {j \in Jobs : job[j] = "CANCELLED"},
    responsible <- tokens,
    taken       <- lost

\* However calls are lost, repeated and delayed and whichever side stops: a
\* transcript is stored once and never after a central cancellation, and the
\* agent deletes the job's token only when transcript and audio are stored, the
\* audio excepted that somebody deleted on the workstation
\* (sync_worker.py:98-117 against processing.py:393-404, 553-554).
ImplementsDelivery == Contract!DeliverySpec

\* The server and the agent never contradict each other: what the server has as
\* COMPLETED was finished on the workstation, and what it has as FAILED is not
\* finished there, although state reports arrive late, out of order or never.
OutcomesAgree ==
    \A j \in Jobs :
        /\ job[j] = "COMPLETED" => store[j].state \in {"COMPLETED", "CANCELLED"}
        /\ job[j] = "FAILED" => store[j].state # "COMPLETED"

\* A transcript that is not stored yet is refused only because somebody cancelled
\* the job centrally or because its token expired: no review, closing or archive
\* can shut it out, since the job is still active on the server.
RefusedOnlyIfWithdrawn ==
    [][\A j \in Jobs :
        call # "rejected" /\ call' = "rejected" /\ spc = "submit" /\ j = sjob
            => job[j] = "CANCELLED" \/ j \in expired]_allVars

\* Finished work ends the same on both sides, and is turned away only where it was withdrawn.
SidesAgree == []OutcomesAgree /\ RefusedOnlyIfWithdrawn

\* A finished job is delivered, with the audio there is, whatever is lost on the way,
\* unless it is cancelled on either side, its token expires, or the
\* investigation is archived while the audio is still owed.
DeliveredAtLast ==
    \A j \in Jobs :
        Pending(store[j]) ~>
            \/ store[j].sync = "SYNCED" \/ store[j].state = "CANCELLED"
            \/ job[j] = "CANCELLED" \/ j \in expired \/ workflow \in Central!Closed
=============================================================================
