-------------------------------- MODULE Wipe --------------------------------
(***************************************************************************)
(* scripts/wipe_all_data.py: empties three stores that no transaction      *)
(* spans, the agent's, the server's tables and the server's files, while   *)
(* the server keeps running.  It may die at every step and is run again.   *)
(***************************************************************************)
EXTENDS Naturals, FiniteSets

CONSTANTS
    StoredFiles, \* recordings and papers, each stored once
    MaxRuns      \* bound: runs of the script

ASSUME WipeAssumption == MaxRuns \in Nat

VARIABLES
    referenced,  \* files that a row of the server's tables refers to
    stored,      \* files below storage/recordings and storage/subject-documents
    users,       \* the table `users` is not empty
    noise,       \* the audit log is not empty
    uploading,   \* files of requests whose transaction is open
    container,   \* of the agent: "running", "exited" or "none"
    folders,     \* the agent's job folders
    jobs,        \* rows of the agent's store
    wiping,      \* where the script is, or "idle" or "done"
    options,     \* what it was called with
    runs,
    newer        \* files that came after the tables were emptied

wipeVars == <<referenced, stored, users, noise, uploading, container, folders, jobs, wiping, options, runs, newer>>

WipeStages  == {"idle", "stop", "folders", "store", "truncate", "verify", "files", "restart",
                "start", "wait", "done"}
Options == {{}, {"keep_files"}, {"skip_agent"}, {"no_restart"}}

WipeTypeOK ==
    /\ referenced \cup stored \cup uploading \cup folders \cup jobs \cup newer \subseteq StoredFiles
    /\ users \in BOOLEAN /\ noise \in BOOLEAN /\ container \in {"running", "exited", "none"}
    /\ wiping \in WipeStages /\ options \in Options /\ runs \in 0..MaxRuns

WipeInit ==
    /\ referenced = {} /\ stored = {} /\ users = TRUE /\ noise \in BOOLEAN /\ uploading = {} /\ newer = {}
    /\ container \in {"running", "none"} /\ folders = {} /\ jobs = {}
    /\ wiping = "idle" /\ options = {} /\ runs = 0

Unused == StoredFiles \ (referenced \cup stored \cup uploading \cup folders \cup jobs \cup newer)

\* A file that comes once the tables were emptied does not belong to what is wiped.
Come(f) == newer' = IF wiping \in {"verify", "files", "restart", "start", "wait", "done"} THEN newer \cup {f} ELSE newer

----------------------------------------------------------------------------
(* The server and the agent, which run on *)

\* An upload belongs to a user or to a job: without rows nobody is let in.
UploadBegins ==
    /\ users
    /\ \E f \in Unused : uploading' = uploading \cup {f} /\ stored' = stored \cup {f} /\ Come(f)
    /\ UNCHANGED <<referenced, users, noise, container, folders, jobs, wiping, options, runs>>

CommitUpload ==
    /\ \E f \in uploading : uploading' = uploading \ {f} /\ referenced' = referenced \cup {f}
    /\ UNCHANGED <<stored, users, noise, container, folders, jobs, wiping, options, runs, newer>>

\* An error removes the file with the row.
UploadFails ==
    /\ \E f \in uploading : uploading' = uploading \ {f} /\ stored' = stored \ {f}
    /\ UNCHANGED <<referenced, users, noise, container, folders, jobs, wiping, options, runs, newer>>

\* login: also a failed attempt leaves a row.
FailedLogin ==
    /\ ~noise /\ noise' = TRUE
    /\ UNCHANGED <<referenced, stored, users, uploading, container, folders, jobs, wiping, options, runs, newer>>

AgentReceives ==
    /\ container = "running"
    /\ \E f \in Unused : folders' = folders \cup {f} /\ jobs' = jobs \cup {f} /\ Come(f)
    /\ UNCHANGED <<referenced, stored, users, noise, uploading, container, wiping, options, runs>>

\* Open transactions are lost, their files stay; run_bootstrap gives an empty table its administrator.
ServerRestarts ==
    /\ uploading' = {} /\ users' = TRUE
    /\ UNCHANGED <<referenced, stored, noise, container, folders, jobs, options, runs, newer>>

----------------------------------------------------------------------------
(* The script *)

\* Mutant of StageAfter.
StageAfterFilesFirst(s) ==
    IF s = "store" THEN "files" ELSE IF s = "files" THEN "truncate"
    ELSE IF s = "verify" THEN "restart" ELSE IF s = "truncate" THEN "verify" ELSE "done"

\* main: the next stage, where no option skips one.
StageAfter(s) ==
    IF s = "store" THEN "truncate" ELSE IF s = "truncate" THEN "verify"
    ELSE IF s = "verify" THEN "files" ELSE IF s = "files" THEN "restart" ELSE "done"

Go(from, to) == wiping = from /\ wiping' = to /\ UNCHANGED options

\* Safety checks: the environment is a development one and the operator confirms.
WipeStarts ==
    /\ wiping \in {"idle", "done"} /\ runs < MaxRuns /\ runs' = runs + 1
    /\ options' \in Options
    /\ wiping' = IF "skip_agent" \in options' THEN StageAfter("store") ELSE "stop"
    /\ newer' = (referenced \cup uploading) \ stored
    /\ UNCHANGED <<referenced, stored, users, noise, uploading, container, folders, jobs>>

StopAgent ==
    /\ Go("stop", IF "keep_files" \in options THEN "store" ELSE "folders")
    /\ container' = IF container = "running" THEN "exited" ELSE container
    /\ UNCHANGED <<referenced, stored, users, noise, uploading, folders, jobs, runs, newer>>

\* clear_contents: one entry after another.
ClearFolder ==
    /\ wiping = "folders" /\ \E f \in folders : folders' = folders \ {f}
    /\ UNCHANGED <<referenced, stored, users, noise, uploading, container, jobs, wiping, options, runs, newer>>

FoldersCleared ==
    /\ folders = {} /\ Go("folders", "store")
    /\ UNCHANGED <<referenced, stored, users, noise, uploading, container, folders, jobs, runs, newer>>

\* The agent's tables, in one transaction.
ClearStore ==
    /\ Go("store", StageAfter("store")) /\ jobs' = {}
    /\ UNCHANGED <<referenced, stored, users, noise, uploading, container, folders, runs, newer>>

\* One statement over every table, which waits for the transactions that have touched one.
Truncate ==
    /\ uploading = {} /\ Go("truncate", StageAfter("truncate"))
    /\ referenced' = {} /\ users' = FALSE /\ noise' = FALSE
    /\ UNCHANGED <<stored, uploading, container, folders, jobs, runs, newer>>

VerifyEmpty ==
    /\ referenced = {} /\ ~users /\ ~noise
    /\ Go("verify", IF "keep_files" \in options THEN "restart" ELSE StageAfter("verify"))
    /\ UNCHANGED <<referenced, stored, users, noise, uploading, container, folders, jobs, runs, newer>>

ClearFile ==
    /\ wiping = "files" /\ \E f \in stored : stored' = stored \ {f}
    /\ UNCHANGED <<referenced, users, noise, uploading, container, folders, jobs, wiping, options, runs, newer>>

FilesCleared ==
    /\ stored = {} /\ Go("files", StageAfter("files"))
    /\ UNCHANGED <<referenced, stored, users, noise, uploading, container, folders, jobs, runs, newer>>

\* docker compose restart.
RestartStack == "no_restart" \notin options /\ Go("restart", "start") /\ ServerRestarts

LeaveStopped ==
    /\ "no_restart" \in options /\ Go("restart", "done")
    /\ UNCHANGED <<referenced, stored, users, noise, uploading, container, folders, jobs, runs, newer>>

StartAgent ==
    /\ Go("start", "wait")
    /\ container' = IF container = "exited" /\ "skip_agent" \notin options THEN "running" ELSE container
    /\ UNCHANGED <<referenced, stored, users, noise, uploading, folders, jobs, runs, newer>>

\* The poll for the administrator.
AdminFound ==
    /\ users /\ Go("wait", "done")
    /\ UNCHANGED <<referenced, stored, users, noise, uploading, container, folders, jobs, runs, newer>>

\* A command fails, a table is not empty, the operator interrupts: everything done so far stays.
WipeDies ==
    /\ wiping \notin {"idle", "done"} /\ wiping' = "idle" /\ options' = {}
    /\ UNCHANGED <<referenced, stored, users, noise, uploading, container, folders, jobs, runs, newer>>

ScriptSteps ==
    \/ WipeStarts \/ StopAgent \/ ClearFolder \/ FoldersCleared \/ ClearStore \/ Truncate \/ VerifyEmpty
    \/ ClearFile \/ FilesCleared \/ RestartStack \/ LeaveStopped \/ StartAgent \/ AdminFound \/ WipeDies

WipeNext ==
    \/ UploadBegins \/ CommitUpload \/ UploadFails \/ FailedLogin \/ AgentReceives
    \/ (ServerRestarts /\ UNCHANGED wiping) \/ ScriptSteps

WipeSpec == WipeInit /\ [][WipeNext]_wipeVars

----------------------------------------------------------------------------
\* Wherever a run of the script dies, no row is left without its file, on the server at any time
\* and in an agent that runs; a run that ends, after however many that died, has left nothing of
\* what was there before it, the server has its administrator, and the agent runs again.  Excepted
\* are files that come when a server restarts by itself after the tables were emptied: the script
\* then clears the new files under their new rows.
WipeHolds ==
    /\ referenced \ newer \subseteq stored
    /\ container = "running" => jobs \subseteq folders
    /\ wiping = "done" =>
          /\ referenced \subseteq newer
          /\ options \in {{}, {"no_restart"}} => stored \cup folders \cup jobs \subseteq newer
          /\ options \in {{}, {"keep_files"}} => users /\ container # "exited"
=============================================================================
