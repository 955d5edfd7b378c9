# Verification of the offline speech transcription system

The repository is a central FastAPI server (`central/backend`), a web client
(`central/frontend`) and a desktop agent (`desktop-agent`) that transcribes
recordings offline. This directory holds TLA+ modules of the parts where steps of
several actors meet, the TLC configurations that check them on small instances,
and theorems TLAPS checks for every value of the constants. Paths below are
relative to the repository's root.

    tlc -workers 2 -config Agent.cfg MCAgentJobs.tla
    tlapm CentralJobs_proofs.tla

## 1. The system

### Components

| Component | State | Operations | Hard behaviour | What makes it correct |
|---|---|---|---|---|
| Agent job store, job manager (`desktop-agent/app/jobs/store.py`, `job_manager.py`, `api/jobs.py`) | SQLite tables `jobs`, `job_tokens`, `used_nonces`; job directories; queue, `_current` | create, receive audio, enqueue, discard, cancel, start, stop, cleanup | four kinds of threads write WHOLE rows from in-memory copies; stops between any two saves | no cancel request is lost, finished rows stay, one running job, no file of an unsent result is removed |
| Agent pipeline (`jobs/pipeline.py`) | the worker's copy of the row, `result.json` | stages, cancel checks, finalize, sync | cancellation during and after the last check; two saves at the end | a cancelled job ends, a failed one is never handed in |
| Agent outbox (`sync/sync_worker.py`, `central_client.py`) | `sync_state`, attempts, `next_sync_at`, the batch of a run | run_once, sync_job | lost answers, refusals, stops in mid-transfer, stale batch | every finished job is delivered at last |
| Agent token check (`security/token_validation.py`) | consumed nonces | validate, purge | a nonce is consumed before a 503 | one use per token |
| Central processing jobs (`central/backend/app/api/processing.py`) | `LocalProcessingJob`, transcripts, recordings, `session.status` | token, report, cancel, result, upload | row locks of jobs and of the session, reads without locks, the event loop | one transcript per job, final outcomes, status agrees with the jobs |
| Composition of agent and server | both of the above, calls under way | every call between them | lost answers, abandoned calls that arrive late, expiry, restarts of either side | a transcript is stored once, the token is given up only when everything is stored |
| Central workflow (`services/workflow.py`, `api/investigations.py`) | `workflow_state`, revision | transition, evidence_changed, archive | evidence changes while a review is decided | a review or closing rests on settled evidence |
| Reports (`api/reports.py`, `services/report_*.py`) | document, versions, tokens, artifacts | draft, review, issue, reopen | sources change between review and issue; artifacts before the commit | what was issued is what was reviewed |
| Dictation (`api/report_dictation.py`, `services/report_dictation.py`) | PENDING, READY, ACCEPTED, DISMISSED | request, result, decide | late results, reissued attempts | a dismissed text never enters the report |
| Person identities (`services/person_identity.py`) | persons, aliases, references of prints, subjects, speakers, profiles | resolve, merge, repoint | concurrent merges, chains, deadlocks, retries | no circle of aliases, nothing left behind |
| Voice prints and suggestions (`api/voice.py`, `services/voice_*.py`) | prints, suggestions, decisions | match, decide, deactivate, rescan | a print is deactivated between match and write | a suggestion names an active print |
| Transcripts (`api/transcripts.py`) | segments, corrections, speakers | correct, assign, review | lock order of segment and session | corrections are not lost |
| Sessions, subjects, documents (`api/investigations.py`, `api/subject_documents.py`) | subjects, documents and their scans, revision, stage | create, update from a form, upload, replace, transition | forms of old revisions, uploads during a closing, handlers that keep the row they read before the lock | nobody leaves the record unseen; a reviewed record is complete and its scans are there |
| Person numbers and profiles (`services/person_identity.py`, `api/users.py`) | identifiers, subjects, profiles | resolve, attach, assign | the same new number in several saves, merges in between | a number leads to the person of its row |
| Statements and question blocks (`services/report_context.py`, `report_html.py`) | statement in a draft, catalogue, imported facts | import, override, refresh, quote | the record and the transcript move while the draft is written | overrides stand; quotes are reviewed words; nothing said is lost |
| Voice gallery (`services/voice_matching.py`, `api/voice.py`) | prints of one person | best_match, coherence check | prints retired between two statements; ties | the two matchers agree; components are right |
| Segment planning, clean speech (`desktop-agent/app/ai/*_service.py`) | turns, regions, windows | clean, trim, merge, split, pad, embed | overlaps, limits, rests | no speech lost, no voice mixed |
| Accounts (`api/users.py`, `core/deps.py`, `core/permissions.py`) | users, roles, tokens | create, roles, status, reset, sign in, bootstrap | administrators who act on each other | an administrator remains; lists agree with access |
| Formal wording (`services/llm/*`) | settings, cached hardware, installed models | choose provider, profile and model; answer | models come and go after the one look at the machine | only approved models; nothing leaves the machine outside development |
| Wipe script (`scripts/wipe_all_data.py`) | tables, files, agent | ten stages | dies at any stage, the server runs on | no row without its file; a finished run leaves nothing |
| Web client (`frontend/src/lib/useReportDraft.ts`, `components/recording/*`) | text, tokens, takes, calls | autosave, operation, issue; record, submit, poll | late and lost answers, tabs, double clicks | typing is kept; a take is never lost |
| Runtime settings (`api/admin.py`, `core/config.py`) | settings in memory, pages that show them | load, validate, compare, assign, restart; check of prints | two saves checked against each other's old value; a check that reads one setting and then another | one similarity stays above the other; what nobody set is what was configured |
| LDAP, audit, deployment | rows or files | CRUD | few | see section 6 |

### How they interact

The web client asks the server for a token (`create_processing_token`) and hands it
with the audio to the agent (`POST /jobs`). The agent's receiver writes a row and
queues the job; the worker runs the stages, reports them to the server, and puts the
result in the outbox; the syncer sends result and audio. The server's requests meet
in PostgreSQL at READ COMMITTED: a request locks its job's row, the session's row or
the job and then the session. `def` endpoints run on threads,
`upload_original_audio` on the one event loop. Consolidations of persons touch rows
that every session's speakers and subjects point to.

## 2. Modules

| Module | Models | Used by |
|---|---|---|
| `AgentJobs` | agent: store, manager, pipeline, outbox | `MCAgentJobs`, `AgentJobs_proofs` |
| `CentralJobs` | server: jobs of one session and its workflow | `MCCentral`, `MCCentralJobs`, `CentralJobs_proofs` |
| `IdentityMerge` | server: merges of persons | `MCCentral`, `MCIdentityMerge`, `IdentityMerge_proofs` |
| `Delivery` | what agent and server promise together of a job (abstract) | `ProcessingSync` |
| `ProcessingSync` | `AgentJobs` (EXTENDS) and `CentralJobs` (INSTANCE), joined by calls | `MCProcessingSync`, `ProcessingSync_proofs` |
| `Reports` | server: draft, review, issue, reopening, dictations of a report | `MCServices`, `Reports_proofs` |
| `Statements` | server: one statement in a draft, its facts and quotes | `MCServices`, `Server_proofs` |
| `Transcripts` | server: transcripts of a session, labels, corrections, reviews | `MCServices`, `Speech_proofs` |
| `Dialogue` | server: `build_turns`, `build_qa_blocks` | `MCServices`, `Reports_proofs` |
| `Voices` | server: prints, suggestions, decisions, attestations | `MCServices`, `Speech_proofs` |
| `Gallery` | server: `best_match` and the coherence check of prints | `MCServices`, `Speech_proofs` |
| `Sessions` | server: record of a session, papers and scans, stages | `MCServices`, `Server_proofs` |
| `Registry` | server: persons behind service numbers and cards | `MCServices`, `Server_proofs` |
| `Accounts` | server: accounts, roles, access | `MCServices`, `Server_proofs` |
| `Wording` | server: which model words a statement | `MCServices`, `Server_proofs` |
| `Segments`, `Embeddings` | agent: `plan_segments`; the audio of a voice print | `MCServices`, `MCSegments` (`Segments` with the turns it was given kept beside it), `Speech_proofs` |
| `Composer` | browser: the report editor's save queue, a second window | `MCServices`, `Reports_proofs` |
| `Workspace` | browser: recorder, processing panel, dictation | `MCServices`, `Reports_proofs` |
| `RuntimeConfig` | server: the settings an administrator changes while it runs | `MCServices`, `Server_proofs` |
| `Wipe` | the wipe script beside a running stack | `MCServices`, `Server_proofs` |

`MCServices` combines the last sixteen modules in one run: `component` names the part
that moves, the others keep one initial state. They share no state in the code that
a property here depends on, so nothing is lost by moving them one at a time; where
parts do meet (agent and server, reports and the workflow, records and forms) they
are in one module. `Services_proofs` proves that every behaviour of the composition is
one of each part, and with it every property of the run. `MCCentral` does the same for
`CentralJobs` and `IdentityMerge`, which have no row in common: one of the two moves.

### AgentJobs

`store` is the `jobs` table, one record per job with the columns the control depends
on; `rrow`, `crow`, `wrow`, `srow` and `batch` are the `JobRecord` copies that the
receiver, the canceller, the worker, the syncer and `run_once` hold. `Save` is
`JobStore.save`: the row becomes the copy, except that `cancel_requested` is merged.
Every access of a thread to shared state is a step of its own: `CancelRead`,
`CancelFlag`, `CancelCheck`, `CancelLoad`, `CancelSave` are the lines of
`JobManager.cancel`, `EnterOutbox` and `Complete` the two saves of `_stage_sync`.
The server is the environment: a call ends with one of `Replies`, and `reports`
collects what it was told. `Stop` loses everything that is not in SQLite or on
disk; `RecoverJob` and `Start` are `JobManager.start`.

What is abstracted, and why it is sound:

- `_set_state` checks the cancel flag and then saves; here `NextStage` does both at
  once. A canceller sets the flag before it looks at `_current`: if a flag lands
  between check and save, the next check sees it, which is the order "save, then flag".
- the disk: `LoseOriginal` is somebody who deletes the original recording of a finished
  job, `lost` the jobs it happened to. `sync_job` then skips the upload and goes on as if
  it were done (`SkipUpload`). A loss before that is a stage that fails.
- attempts saturate at `MaxAttempts`: the code only compares them with it.
- `next_sync_at` is "now" or "later"; `BackoffElapses` is the clock.
- cleanup's retention (72 h) is taken to outlive every handler (`Untouched`).
- left out: the switch that disables central synchronisation, progress percentages,
  messages, logs, what a stage computes. Any stage may fail.

Known corners the model has and no property forbids: the nonce is consumed before a
missing model is answered with 503, so the same token is then a replay; an error
other than `HTTPException` while streaming leaves RECEIVING_AUDIO until a restart
(so `CancelEndsJob` speaks of queued and working jobs only); a cancel request after
the last check does not stop FINALIZING; `start` fails jobs without telling the
server.

### CentralJobs

One session, its jobs and recordings. `request[j]` is the request that holds job
j's row lock and what it has read; `holder` is the session's row lock; `loop` the
upload that blocks the event loop. A request that locks, works and commits at one
go is one step; `BeginEnd`, `ComputeEnd`, `CommitEnd` (cancellations and failure
reports: load `session.status`, recompute it, write it only if changed) and
`BeginResult`, `CommitResult` are several, because others run in between.
`RefuseResult`, `RejectUpload` and `RefuseClient` end without a commit and keep
their locks until the event loop starts `get_db`'s teardown.

Abstractions: a request that would change nothing (a report for a terminal job, a
second upload) is no step; the session's revision appears only as a refusal;
dictation jobs are not part of the session's summary in the code and are left out;
readiness of participants and of the report are chosen freely; a job's creation
time is modelled by the order of commits; a file so small that reading it does not
suspend is one of the schedules; the order of PostgreSQL's lock queue is not kept
(any waiter may be next).

### IdentityMerge

`mergedInto` is `merged_into_id`, `identity` the `identity_id` of prints, subjects,
speakers and profiles, `locked` the row locks of persons, `merge[m]` one consolidation
request: the pair of persons it walked to, the walk it is on. `resolve_identity` goes
row by row (`Hop`), since each hop is a statement of its own at READ COMMITTED.
`LockRow` is one row of the SELECT ... FOR UPDATE of `_lock_identities`, in the
order of ids. `TargetFoundAgain` compares the second walk with the first:
`StartOver` keeps the locks, as the code does; `AbortDeadlock` is PostgreSQL's detector.
`Assign` is another transaction that gives a record a person (`update_speaker`, the
edit of a subject); its foreign-key check takes FOR KEY SHARE on the person's row
and waits for a merge that has it FOR UPDATE.

Abstractions: a request starts with any two persons (the endpoint resolves them once
more before, and by then they may have become aliases); rows SQLAlchemy serves from
memory are walks made earlier, since a pointer is written once; the checks of lines
148 to 158 cannot fire when both persons are still survivors, which follows from the
proved invariant, and are left out; the write of the source's pointer, the writes of
the records and the commit are one step, as nobody sees them earlier; locks of
record rows are not modelled (they order `Assign` and `Commit`, which are atomic
here; a cycle of locks over them ends in an abort that changes nothing). Names,
service numbers and the creation of persons are not modelled.

Limit of the code, not a property: after more than 16 merges in a chain
`resolve_identity` returns an alias, although person_identity.py:119 calls merged ids
resolvable. That merges stay correct even then is checked with `MaxHops = 1`.

### ProcessingSync and Delivery

A call of the syncer is `Send`, then a server step (`TakeResult`, `AnswerResult`,
`TakeUpload`, ...), then `Return`. `Fail` is a network error or timeout at any of
these points; `abandoned` holds the calls nobody waits for, which may arrive at any
later time, also after a restart of the agent. `ServerStops` rolls back what is under
way; `TokenExpires` is the 24 hours of a processing token. Reports of the agent's
other threads are those in `reports`: they arrive in any order, repeatedly, or never.

`Delivery` has five sets of jobs: transcript stored, audio kept, withdrawn, the
workstation's responsibility, which is the token file, and the recordings taken from it.
`Contract` maps them to the server's `result`, `audio`, `job` and the agent's `tokens` and
`lost`; a recording that was deleted on the workstation is owed no more; `ImplementsDelivery` is
the refinement. It fails if a repeated result is answered as if the first had never
come, or if the agent drops its token on a refusal.

### Reports, Statements, Composer

`Reports` keeps what a report is about as two numbers: `evidence` moves under the
session's lock, `people` without it, because registry rows are shared between
sessions. A token is a hash of what it covers, so tokens are equal iff that is. A
review reads the sources twice (`ReviewCheck`, `ReviewStore`); an issue locks the
people, renders, writes three artifacts and commits, and may fail anywhere.
`CreateDraft` and `EditDetails` decide on the session as they had read it before the
lock, as the code does. Dictations (`narration`) have several attempts whose results
come late or twice.

`Statements` follows two facts or one quoted answer through a draft: `typed` is what an
operator wrote over an imported fact, `catalogue` the answer built at the last
refresh. `Composer` is `useReportDraft` with the operations around it: one save at a
time, conflicts, retries, reconciliation, operations that flush first, and the review
panel, which does not disable typing. Its text is the set of the changes made to it: a
change adds words or takes some out, and losing it is losing either. That a user takes a
change back before it is saved is not distinguished from not making it.

What the models show and no property forbids: the review panel shows the stored
report over whatever was typed while its request ran; a statement edited in a stale
preview counts as overridden.

### Transcripts and Dialogue

A label of the session stands for one diarized speaker of one recording; reviews carry a
token of text, attribution and names. A correction locks its segment, loads the
session, and waits for the session's lock without reading again (`Load`,
`EditSegment`), so a session may be sealed in between. `Dialogue` takes one step per
part of speech and one per turn, over every sequence of four parts.

### Voices and Gallery

`Voices` has the row locks of speakers, prints and session and the share lock of the
foreign key between flush and commit. Which print is closest is left open. A scan
matches first and locks each speaker later; `Rollback` ends any request. A print that
is deactivated between the query and the flush leaves a suggestion on an inactive
print: `ConfirmedOnLivePrint` shows that nobody is named on it.
`Gallery` checks `best_match` against the one statement the server runs (they agree
for every positive margin; with margin 0, which the settings page allows, they may name
different ones of two people who are equally close), and the
union-find of the coherence check against reachability, in every order of
identifiers, with prints retired between its two statements.

### Sessions and Registry

`Sessions` has forms that show an old revision, `Touched` with a revision computed from
a row read before the lock (a revision may therefore be used twice, and
`ParticipantsKept` holds all the same), scans whose upload holds the lock. Most handlers
that decide on the row as they had read it write no record. One does: the details of a
person are saved apart from the form (`update_participant_statement_details`,
`SaveDetails`), under the session's lock, with the person read again and the session not.
So a save that waits behind a transition may clear mandatory facts of a session that is
under review by then, or change a closed one. `RecordHolds` says that nothing else does:
`ReviewStaysComplete` and `ClosedButForDetails` name this request as their one exception
(`OvertakenDetails`), and `ClosedRecordStands`, without the exception, is violated.
`Registry` resolves each person of a body (row, chosen person, number, new), attaches
numbers under an advisory lock (service numbers) or only the unique constraint
(cards), while persons merge. One exception is stated in `NumbersLeadHome`: two
requests that register one profile for the first time.

### Accounts, Wording, Settings, Wipe, Workspace

`Accounts` authorises on arrival and writes later. `AccountsHold` names the two things
the code leaves open: a request of somebody who has lost the right meanwhile may take
the last administrator away, and two concurrent role changes may leave a user no
role. `accessible_sessions_stmt` never asks for `read_assigned`; lists agree with
access only because every role has it.
`Wording` looks at the machine once (`WarmUp`; nothing in the application calls
`refresh_hardware`). A look may fail in part (`Observations`): `nvidia-smi` is missing or
times out and no card is seen, the memory is not readable, the runtime does not answer.
What it saw is kept all the same, so after a look that missed the card a weaker profile
answers until the server starts again; `WordedAsApproved` therefore speaks of the machine
as it was seen where it says that no stronger profile was passed over, and of the machine
as it is where it says that the model fits.
`RuntimeConfig` has the settings in memory, where `PUT /admin/config` changes them until
the next restart. A page shows each setting in the unit people use and sends the fields
that differ from what it shows. The server validates all of them, compares the two
similarities as they would be, and then assigns attribute after attribute; nothing
locks the settings, and requests run in threads. So two saves can each pass against
the other's old value and leave the similarities crossed: `SimilaritiesOrdered` names
this exception (and an environment that has them crossed, which nobody validates).
While they are crossed, a save of anything else is refused until they are put right.
`ChosenOrGiven` is about the units: a page that shows a rounded size must not write
the rounded value back.
`Wipe` is `wipe_all_data.py` stage by stage, with its options,
dying anywhere, beside uploads, failed logins and restarts of the server.
`Workspace` has takes, tokens, submissions and polls of the browser; what it shows
and no property forbids: a take recorded while an older job is followed is let go
when that job completes (`overtaken`), a double click asks for two tokens, an upload
whose answer is lost withdraws a job the agent has.

### Segments and Embeddings

Stages of `plan_segments` are actions, loops are steps; times are whole ticks, windows
half ticks, a tick being longer than the 0.05 s under which a rest is dropped.

`WindowsShareNoAudio` is what segment_service.py:15-16 and docs/audio-pipeline.md:45 say of
windows. It is false: `build_windows` looks no further than the first turn of the list that
ends before the segment, and a short turn that begins later and ends earlier hides a long
one. What is left of it, and is checked and proved, is `WindowsApart`.
`LongTurnsCutAtTheWidest` is what docs/audio-pipeline.md:42-43 says of long turns. It is false
as well: `trim_to_vad` has cut a turn at every silence before `merge` joins it again, the
first pauses first, to no more than the limit, so a turn that is still too long lies in one
region of speech, and `split_long` looks in it for a silence and never finds one
(`LongTurnsHoldNoSilence`); its test calls it with turns that were not trimmed. `SegmentsPlan`
shows one plan in which both promises fail (`EitherPromiseKept`).

`Embeddings` is what the agent makes of the diarizer's answer for the voice prints: the labels
are numbered and overlaps flagged (`Diarize`), every speaker's clean spans are found
(`clean_diarized_speaker_spans`: other voices are taken away from each turn, the rests
joined, cut with the detected speech and joined again), and each voice is embedded from the
longest of them up to the limit (`collect_speaker_audio`), or skipped.

## 3. Runs

| Run | Instance | Shows |
|---|---|---|
| `Agent` | interview and dictation, audio uploaded, 1 attempt, 2 restarts, fairness; bounded while both jobs are known (below); 88,651 states | cancel requests survive, finished rows stay, a job reported FAILED is not handed in, only the worker's job is running, whatever is in the outbox can be sent and is sent, a cancelled job ends |
| `Central` | jobs: 3 on 2 recordings, 2 keys; persons: 3, 2 merges, 2 records, `MaxHops` 1, `MaxAttempts` 2; one of the two moves, symmetry; 1,087,819 states | evidence of a review is settled, a transcript exactly for COMPLETED, one active job per recording, both ARCHIVED agree, outcomes final, evidence reaches open investigations only; no circle, aliases final, no record left behind, no deadlock before a retry |
| `AgentRetry` | 1 job | violated: docs/desktop-agent.md:97 "no further retries" |
| `AgentLateCancel` | 1 job | violated: job_manager.py:184 "Not running yet" |
| `AgentRestartLoss` | 1 job, 1 restart | violated: docs/desktop-agent.md:98 "Results survive agent restarts" |
| `CentralStuck` | 2 jobs | violated: docs/troubleshooting.md:18, the advice for a session stuck in processing |
| `CentralLoop` | 2 jobs | violated: processing.py:388, requests take turns |
| `Sync` | 1 interview with audio, 1 restart of the agent, 1 fault (a call not answered in time, or a restart of the server), fairness; 272,322 states | agent and server implement `Delivery`; their outcomes agree and a finished transcript is refused only if withdrawn or expired; it is stored at last |
| `Services` | sixteen modules, one moving at a time, bounds below; 879,731 states | the safety properties of these modules |
| `MergeLostChoice` | 1 merge, 1 record | violated: person_identity.py:168 "everything that pointed at one identity" |
| `ClosedDetails` | 1 form, 1 reader, 1 person | violated: workflow.py:62 "reopen_investigation_before_editing", docs/investigation-workflow-field-lineage.md:19 |
| `SegmentsPlan` | 2 turns of 2 speakers, 3 regions of speech, 8 ticks | violated, both at once: docs/audio-pipeline.md:42-43 "cut at the widest VAD silence", segment_service.py:15 "two windows never cover the same audio" |

Why the bounds are enough. One agent job meets every thread that can hold a copy of
its row, and two restarts allow one stop in the transfer and one in what follows;
rows of different jobs meet only in the queue, `_current`, the batch and recovery,
which the second job exercises. A job that is alone meets all of it; while both are known
(`BoundedNext` in `MCAgentJobs`) there is one restart, no original is deleted, and nobody
cancels a dictation or is in the middle of cancelling. What is cut off this way belongs to
the client, the disk and the crash, for none of which anything fair is assumed, so no fair
action is disabled by a bound. The violations of the agent run without these bounds.
Three server jobs on two recordings let a recording
be retried while the other one is processed, and let two jobs end together; two keys
tell a repeated result from another one. Three persons give a chain of two hops,
longer than `MaxHops`, and merges that share a person in either role; a third
concurrent merge adds no new pair of conflicting rows. Where a theorem states the
property (section 5) the bounds do not matter to it: it holds for any number.

`Sync` needs one job: jobs meet on the two machines in ways `Agent` and
`Central` check; what is new are the copies of one job's calls. One fault and one
restart together give two abandoned calls, which may arrive in either order around a
third call that is waited for.

In `Services`, `PrintsHold` is `AttestedAsSeen` (`Voices`), `GalleryHolds` and `ConfigHolds`;
`SpeechHolds` is `SegmentsHold` and `VoicesUnmixed` (`Embeddings`): one property for the parts
speech and prints pass through.

`Services`, per part (constants in `Services.cfg`, further limits in `MCServices`):

| Part | Bounds | What they let happen |
|---|---|---|
| reports, narrations | 1 client, draft of 2 changes, 2 issues, 1 change of the sources (0 with dictations), 2 attempts at a dictation | a source changes between the reads of a review, or during rendering; an issue fails and is repeated; a late result of an attempt that ended |
| reading, observing | 2 editors (one corrects text only), 2 recordings, 3 results, 2 corrections and renames together | a recording transcribed anew between two others; a correction on each side of a review |
| scans, voices, attestations | 2 workers, 2 prints, 2 speakers, 2 versions | a scan against a decision, a retirement, a deletion or a merge; two attestations |
| record, uploads | 2 forms, 1 reader, 2 people, 1 paper, 2 scans, revision 3 | a form older than two saves; an upload around a closing; a scan replaced |
| facts, quotes | 2 facts, 1 operator, 3 revisions | an override before and after a correction; a quote older than the newest transcript |
| dialogue | 4 parts, 3 voices (one asks, one has no row), 2 recordings | an interruption of an answer in either recording |
| segments, embeddings | 3 turns of 2 speakers in 6 (4) ticks | overlaps, containment, limits and rests |
| people, profiles | 2 clerks, 2 persons, 1 number and 1 card, bodies of 1 or 2 people | the same new number in two saves, a merge between resolving and attaching |
| accounts | 2 users, 2 handlers, 3 requests | two administrators act on each other |
| wording | 3 profiles, 3 tags, 5 machines, 1 provision or restart | two small cards, a lookalike tag, a model removed before the answer |
| wipe | 2 files, 2 runs | one run dies and another follows while files come |
| matching, gallery | 3 rows; 4 prints in 3 orders, 1 toggle | ties, chains longer than one comparison |
| editor | 2 pieces typed, 1 foreign, 2 writes | a save, another window's write and a conflict |
| settings | 2 administrators (one changes a single similarity), 2 saves between restarts, 2 environments | two saves at once, a restart under a save, a page older than both |
| workspace | 2 takes, 2 tokens, 1 submission, 1 poll, 3 takes and tokens together | a job of the first take while the second is recorded |

Symmetry is used only in runs without liveness; persons are not symmetric because
their ids are ordered. Deadlock is not checked: each system may stop when every
request is done and no client asks for more. Besides the sizes of the constant sets,
the bounds that are not in the code are `MaxCrashes` and `MaxFaults` (restarts, calls
not answered in time) and the counters of `Services` (`MaxRevision`, `MaxIssues`, ...,
each named "bound" where it is declared); `MaxAttempts` of the agent, `MaxHops` and
`AliasHops` are limits of the code with smaller values (`MAX_ALIAS_HOPS` is 16 there).

## 4. Fairness

`AgentJobs` and `ProcessingSync` have liveness properties. `Fairness` of the first says: a thread that is up goes
on (the loops of `_run` and `_loop` wait on a queue and an event, never on each
other); the agent is started again after it stopped (it is a service); the clock
passes `next_sync_at`; and each row of a batch gets its turn, as `run_once` iterates
over it. These are weak fairness. Strong fairness is assumed of the environment
alone: a call sent again and again is answered "ok" at last. Nothing is assumed about
clients: uploads may never finish, nobody need cancel, and a stage may always fail.

`SyncFairness` replaces that assumption about the server by the server itself: the
agent's threads go on and it is started again, a send, a return and a backoff come at
last, a call that is waited for and not lost is received, a request under way is
served (all weak fairness). The network may lose what it likes, but `MaxFaults` times
at most: without that bound a call could be lost for ever, and no protocol delivers.
Abandoned copies and reports need never arrive.

The modules of `Services` have no fairness; their properties are safety properties.

## 5. Proofs

Eight modules of proofs, by what they are about. Each theorem has the form
`Spec => []P` or `Spec => [][A]_vars` and holds for every value of the constants; the
assumptions are the named ASSUMEs of the modules, nothing else. A safety property is
seldom inductive: each paragraph says what had to be added, and why the code makes it so.

`AgentJobs_proofs`. `TypeOK` and `CancelNeverCleared` follow from the type invariant
(`Saved` merges the flag). `OneJobAtATime` needs `CopiesNotRunning`: no copy other than
the worker's shows a running state, so only the worker's saves can set one. The other
three properties rest on `AgentInv`, which says for every job where in its life it
is and what each thread may then hold: until it is queued only a cancellation makes the
row differ from the receiver's copy, and while it is worked on from the worker's; once it
is `Past`, only a canceller that has set the flag and the syncer with a row that is owed
still write. Hence what is in the outbox has its files, but for an original somebody deleted (`OutboxDeliverable`), a
reported failure is not handed in (`FailureReportIsFinal`), a finished row stays
(`FinishedRowsStay`) although four threads save whole rows.

`CentralJobs_proofs`: every property of `Central` that is about jobs. The invariant adds to the
safety properties `RequestsSound`, what a request with several steps may rely on
while others run (an ending request still has its active job, because others
need the job's lock; a storing one has its job without a transcript and the
investigation open, because the workflow needs the session's lock), and
`JobsHaveRecordings`. `ArchivedStatus` is the interesting one: a session with an
active job cannot be archived (the gate of workflow.py), so a request that loaded
PROCESSING and still holds its active job never overwrites ARCHIVED.

`ProcessingSync_proofs`: `DeliveryImplemented` (`SyncSpec => ImplementsDelivery`, the
refinement, step by step), `SidesAgree` and `SyncTypeOK`. Each step of the composition
is a step or a stutter of either machine, so each keeps its own invariant, and
`SyncInv` is `AgentInv`, the server's `Inv` and `SyncSound`: every copy of a row that says
"sent" is truthful about the server (`RowsTruthful`), the syncer goes on only when the
server has what was handed in (`Handed`, `CallSound`), a transcript on its way is that of a
job the agent has finished, however late it comes (`ComesFinished`), and the server
fails a job only on the agent's word (`FailedOnReport`). Abandoned calls are covered
because none of this depends on whether anybody still waits.

`IdentityMerge_proofs`: every property of `Central` that is about persons, for any set of persons, any number
of merges, any limit of hops and attempts. `NoCircle` is not inductive in its own form;
the invariant has `Climbing`: there is a rank of persons that grows along every
pointer. A merge of survivors s into t keeps such a rank: t, and what points to it, is
lifted above s. `Locks` and `Settled` say that a merge that has passed the second
comparison holds both rows and that both are still survivors, which only the re-walk
after locking guarantees (`WalkAgain`): without it (mutant `GoOnAnyway`) TLC finds a
circle. `DeadlockNeedsRetry` adds `FirstTry`: a first attempt takes the smaller row
first, so all it holds is below what it waits for. In a circle of first attempts the
one that waits for the greatest row would wait for somebody who waits for a greater
one; that there is a greatest row follows from `LocksBounded`.

`Reports_proofs`, four modules between the editor and the microphone.

- `Reports`: the type invariant, `IssuedReportsHold`, `NarrationsHold`. The argument is who
  may move what between two steps of an issue: a client between its check and its
  commit holds the session's lock (`Locking`), so the draft and the sources are still
  the reviewed ones (`CheckStands`, `IssueStands`), what it rendered is of these sources
  (`RenderStands`), and its artifacts carry a number of their own (`FilesInOrder`).
- `Composer`: `EditorHolds`. What an answer on its way will put into the editor holds
  everything that is typed there, since whoever else writes moves the token and what
  is sent under an old token is refused. `Stored`, `ShownAsSaved`, `Modes` and `Kept` say this for
  a save, the text shown as saved, an operation and the issue.
- `Dialogue`: `TestimonyKept`. The turns gather the parts in their order (`Gathered`); the
  block being built stands under the latest question of its recording (`UnderWay`); what
  was taken from the turns is in exactly one block (`PlacedOnce`).
- `Workspace`: `WorkspaceHolds`. A take is in one place at a time (recorder, hand, grant,
  given up: `TakeKept`); what an agent has is never taken back (`Moved`); a dictation goes
  on with the one token it remembers, so it arrives once (`DictatedOnce`). The type
  invariant needs `WorkspaceBounds`: a recording begins and a token is issued only below its
  bound, so that a take, and the recording it is given, stay below it.

`Server_proofs`, the record of a session and its persons, and what serves every part.

- `Sessions`: `ScansKept`, `RecordHolds`. An acknowledged scan has one place
  (`OnePlaceEach`) because an upload holds the session's lock from choosing the place to
  acknowledging the file (`UploadHolds`). A session under review or closed stays complete because
  every change of the record takes it back or is refused, but for the details of a request
  that was overtaken.
- `Statements`: `StatementsHold`. A fact written over differs from the imported one in
  every draft (`WrittenOver`); a form whose revision is the draft's shows the stored
  statement but for what was typed (`FormsShow`). The attempt to prove it showed a fault of
  the model: its memory of typed values kept one that an operator had since replaced
  by the imported value itself.
- `Registry`: `NumbersLeadHome`. A number, once found or claimed by a request, leads to
  the person in hand until the commit (`InHand`): claims of one number exclude each
  other (`Unclaimed`, `SetApart`), and a merge moves holders, rows and survivors alike
  (`Same`). `Survivor` is a recursive function; what it computes is shown through the
  first number of hops where it would not (`WalksEnd`). It holds for as many merges as
  an alias may have hops. The attempt showed that the property's exception looked at
  rows still to be written only, not at those the request had already written.
  `ReferencesAreSettled`: whatever is committed (a number's holder, a row, an alias) and
  whatever an open request has read refers only to persons that no open transaction has
  created (`Settled`); what the request will write refers to those or to its own. A save
  that fails takes back the persons it made, and leaves nothing that points at them.
- `Wipe`: `WipeHolds` for any number of files and runs. The invariant follows the stages:
  what a stage has emptied is refilled by new files only, the agent is down from its
  stop to its start, rows have files (also those of open uploads). Its point is
  `RowsHaveFiles`: the files may be cleared because the tables were emptied first.
- `Accounts`: `AccountsHold` for any number of users, handlers and requests. The invariant
  is small (`Checked`: what a request was admitted with); the argument is that of all
  writes only a role change and a deactivation can take an administrator, that neither
  may be aimed at its author, and so the author remains, unless the author had lost the
  role before.
- `Wording`: `WordedAsApproved`. The choice that is remembered was made from what was
  detected (`ChosenHere`, `DetectedHere`), of which a look can miss but not invent anything,
  whatever is installed or removed later; that a
  first fitting profile exists is the least element of a set of naturals.
- `RuntimeConfig`: `ConfigHolds`. A save that is alone was checked against the settings as
  they are (`LoneSaves`), and while nothing is crossed only such saves assign
  (`OnlyLoneSaves`).

`Speech_proofs`.

- `Transcripts`: `TranscriptsHold`. What a token is read as is a function of the token
  (`Plain`), labels are only added, so every segment keeps a speaker of its recording
  (`WellAttributed`). `Observe` of a result is recursive over the diarizer's labels and is
  treated like `Survivor`; the proof needs that these labels are 0, 1, 2, ..., which the
  agent's pipeline makes them. The types need that labels do not run out: every label
  stands for one diarized speaker of one recording (`RowsBounded`), so the smallest free one
  is among those a session may give (`LabelIsBounded`); and that two corrections never
  hold one segment (`TranscriptsBounds`).
- `Voices`: `AttestedAsSeen`, `DecisionsHold`. A scan writes only speakers it has locked and
  found undecided (`WritesOpen`); a print's version moves with every fact an attestation
  vouches for (`Moves`), so a print that has its version is as it was seen.
- `Gallery`: `PrintsAreGrouped`. The parents are a `Forest`: some rank of prints grows along
  every pointer. Path halving (`OneHop`) keeps rank and roots, and since `find` climbs in
  rank it arrives within as many hops as there are prints (`FindsRoot`; the loop is
  a recursive function, `Repeated` says that it exists). Hanging one root on another joins
  two trees (`Uniting`), so the trees are always what the comparisons dealt with so far link
  (`Grown`), in whatever order they come. For the match, the people listed so far have
  their best score and the number of their prints (`MatchInv`); that the leader and its
  rival decide as the statement over all rows does is `VerdictsAgree`, where it matters
  that the margin is not 0. For the proofs the model's sort was replaced by the choice
  of the first of the highest, and the list of pairs by a set taken in the loops' order:
  `SortSeq` says nothing about ties, which Python's sort keeps in place.
- `Segments`: `SpeechIsPlanned` states `SegmentsHold`; the lemma `LongTurnsHoldNoSilence` shows
  that `split_long` never finds a silence. `SegmentsInv` follows the stages: from
  tidying on, what is in hand covers every instant of a tidied turn (`AllKept`) and no piece
  takes in the start of somebody else's turn outside its speaker's own (`OwnVoice`). A
  tidied turn lies within one region of speech (`InSpeech`), so a cut, which falls in a
  silence or takes no time, loses nothing (`CutHolds`); a turn is joined to the one before
  it only over a gap in which nobody else begins (`MergedOwnVoice`). Two windows meet half way
  because turns are sorted by start (`WindowsMeet`). `Sorted` and `Picked` give a member its
  place by counting those before it; `RankedOnce` shows that each place is then taken once.
  They replace `SortSeq` and `SelectSeq`, of which the first leaves ties open and the second
  is recursive. Assumed: regions of speech come in order and the length of the audio is
  known; with length 0 the program does not clip, and takes other windows.

- `Embeddings`: `PrintsAreUnmixed` states `VoicesUnmixed`. A set of spans stands for the
  instants it covers (`Cover`), and each stage is described by what it does to these: a rival
  turn is taken away (`WithoutHolds`, `PiecesHold`), joining adds nothing and leaves spans
  apart (`JoinHolds`, `JoinedHolds`), so a voice's clean spans cover exactly the
  instants at which it is alone (`CleanSpansHold`). How long spans are is how many instants
  they cover once they are disjoint (`OneMore`, `AmountIsCover`), and what is collected of them is
  as much as the limit allows (`CollectedHolds`). It needs that no turn is flagged without
  somebody else in it: `mark_overlaps` flags only where two different labels overlap, and
  numbering keeps labels apart (`NumberedOnce`). The loops are recursive functions of the number of
  turns or spans; `Defined` says that such a function exists. The theorem found nothing wrong;
  for it the model's sorts and sums were rewritten in the form `Segments` has.

`Services_proofs`: the run `Services` checks the composition `ServicesSpec`, in which one part
moves and the others keep an initial state; its type invariant and two of its safety
invariants join several modules. The composition starts every part in one of its own
initial states, and each of its steps is a step of a part or leaves that part alone: one
lemma per part (`ReportsPart`, ...) says so. So whatever a part promises it promises here:
`ServicesTyping`, `SpeechIsSafe`, `PrintsAreSafe`, `RecordsAreSafe` and `StepsAreSafe` state every
property of the run, for every value of the constants. What this needs of the
constants is `ServicesAssumption`: the recording, the speaker, the person and the form that
the run names are among those there are. Each type invariant first had to be one: most
hold in their part's invariant, but the bounds of counters in them needed their own
(`TranscriptsBounds`, `WorkspaceBounds`), and the registry's needed `ReferencesStand`.

The induction theorems of the library take an operator as a parameter, which the
provers here cannot instantiate. Where a recursive function of naturals is reasoned
about, the proof takes the least counterexample instead (`WFMin` of
WellFoundedInduction, which speaks of sets).

Model-checked only:

- `CancelEndsJob`, `FinishedIsDelivered`, `DeliveredAtLast`: liveness is out of the
  prover's reach.

Every other property of a passing run is stated by a theorem; `CentralTypeOK` by two, one for
each module of the run (`Typing`).

## 6. Not modelled

- Machine-learning wrappers and FFmpeg: numeric; their failures are `StageFails`, and
  from their results only turns and regions are used.
- LDAP, passwords, signatures and clock checks of tokens: each decides one request by
  itself. Two processes that start for the first time may each write a key pair
  (`ensure_keypair`); the system starts one.
- Audit and logs: rows in the same transaction, or no effect. Of the settings, those that are
  compared with one another or shown rounded stand for the rest.
- Searching, listing and rendering: they change nothing. The pages that show and
  submit one form are inputs of the server's modules.
- Deployment, migrations, browser scripts: they keep no state of the program.

## 7. Plan

Done: all modules of section 2 and the proofs of section 5. Left, most useful first:

1. Corrections of segments against the workflow of the session in `Transcripts` with the
   report's tokens of `Reports` (one module today reads the other's state as a number).
