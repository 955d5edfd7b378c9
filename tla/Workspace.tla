------------------------------ MODULE Workspace ------------------------------
(***************************************************************************)
(* The browser between the microphone, the server and the agent: Recorder, *)
(* ProcessingPanel on the page of a session, and ReportDictation in the    *)
(* report editor.                                                          *)
(*                                                                         *)
(* The page holds the only copy of a take (PendingAudio) until the agent   *)
(* has it.  To process it, the page asks the server for a token, uploads   *)
(* the take to the agent with it, and then, for an interview, asks the     *)
(* agent again and again how the job goes.  Any answer may be lost.        *)
(*                                                                         *)
(* An agent takes a token once, and may then still refuse the job.  The    *)
(* event that ends a recording is taken to come before the user's next     *)
(* action.  The two purposes are two pages, of which one is open.          *)
(***************************************************************************)
EXTENDS Naturals, FiniteSets, Sequences

CONSTANTS
    MaxTakes,     \* bound: takes recorded
    MaxTokens,    \* bound: processing tokens issued
    Clicks,       \* the submissions that may be under way at once
    MaxPolls      \* bound: answers of the agent on their way

ASSUME WorkspaceAssumption == MaxTakes \in Nat /\ MaxTokens \in Nat /\ MaxPolls \in Nat

VARIABLES
    purpose,    \* "INTERVIEW" or "REPORT_DICTATION"
    mounted,    \* the recorder and the panel are on the screen
    mic,        \* "idle", "requesting", "live"
    takes,      \* how many recordings have begun
    held,       \* the take the page holds, and the recording it was given
    remembered, \* the token a dictation was given
    sends,      \* [Clicks -> the submission under way]
    grants,     \* the tokens issued, and what became of their jobs
    job,        \* the job on the screen
    waiting,    \* onBusyChange(TRUE): the recorder is disabled
    told,       \* completedNotified
    polls,      \* answers of the agent on their way
    discarded,  \* takes the user has given up
    overtaken   \* takes that were dropped because some job had completed

workspaceVars == <<purpose, mounted, mic, takes, held, remembered, sends, grants, job, waiting,
                   told, polls, discarded, overtaken>>

Interview == purpose = "INTERVIEW"
NoTake    == [take |-> 0, recording |-> 0]
NoSend    == [step |-> "none", take |-> 0, token |-> 0]
NoJob     == [token |-> 0, state |-> "none"]
Ended     == {"synced", "failed", "cancelled"}

\* Types, and: a job is only where its token has been used.
WorkspaceTypeOK ==
    /\ mic \in {"idle", "requesting", "live"} /\ takes \in 0..MaxTakes
    /\ held.take \in 0..takes /\ held.recording \in 0..MaxTokens
    /\ \A c \in Clicks : sends[c].step \in {"none", "asking", "answered", "uploading", "taken", "refused", "checking"}
    /\ \A n \in DOMAIN grants :
          grants[n].job \in {"none", "running", "done"} \cup Ended
          /\ (grants[n].job # "none" => grants[n].used)

WorkspaceInit ==
    /\ purpose \in {"INTERVIEW", "REPORT_DICTATION"}
    /\ mounted = TRUE /\ mic = "idle" /\ takes = 0 /\ held = NoTake /\ remembered = 0
    /\ sends = [c \in Clicks |-> NoSend] /\ grants = <<>> /\ job = NoJob
    /\ waiting = FALSE /\ told = FALSE /\ polls = {} /\ discarded = {} /\ overtaken = {}

----------------------------------------------------------------------------
(* Recorder *)

StartRecording ==
    /\ mounted /\ mic = "idle" /\ held = NoTake /\ ~waiting /\ takes < MaxTakes
    /\ mic' = "requesting" /\ remembered' = 0
    /\ UNCHANGED <<purpose, mounted, takes, held, sends, grants, job, waiting, told, polls, discarded, overtaken>>

\* The browser asks the user, who may refuse.
MicrophoneAnswered ==
    /\ mic = "requesting"
    /\ \/ mic' = "live" /\ takes' = takes + 1
       \/ mic' = "idle" /\ UNCHANGED takes
    /\ UNCHANGED <<purpose, mounted, held, remembered, sends, grants, job, waiting, told, polls, discarded, overtaken>>

Captured == held' = [take |-> takes, recording |-> 0]

StopRecording ==
    /\ mic = "live" /\ mic' = "idle" /\ Captured
    /\ UNCHANGED <<purpose, mounted, takes, remembered, sends, grants, job, waiting, told, polls, discarded, overtaken>>

Discard ==
    /\ mounted /\ held # NoTake /\ ~waiting
    /\ discarded' = discarded \cup {held.take}
    /\ held' = NoTake /\ remembered' = 0
    /\ UNCHANGED <<purpose, mounted, mic, takes, sends, grants, job, waiting, told, polls, overtaken>>

\* Mutant of LeftBehind: leaving the tab just releases the microphone.
LeftBehindReleased == mic' = "idle" /\ UNCHANGED held

\* A recording that runs is ended, and kept by the page; one not yet granted is given up.
LeftBehind ==
    /\ mic' = "idle"
    /\ IF mic = "live" THEN Captured ELSE UNCHANGED held

\* Another tab of the page.  What the panel knew is forgotten; its requests go on.
LeaveTab ==
    /\ Interview /\ mounted /\ mounted' = FALSE
    /\ LeftBehind
    /\ job' = NoJob /\ waiting' = FALSE /\ told' = FALSE /\ polls' = {}
    /\ UNCHANGED <<purpose, takes, remembered, sends, grants, discarded, overtaken>>

EnterTab ==
    /\ ~mounted /\ mounted' = TRUE
    /\ UNCHANGED <<purpose, mic, takes, held, remembered, sends, grants, job, waiting, told, polls, discarded, overtaken>>

----------------------------------------------------------------------------
(* Submission *)

ClickIdle(c) == sends[c].step = "none"

\* The button stays until the upload begins, so that a second click asks for a second token; a
\* dictation is busy from the first click.
MaySubmit ==
    /\ mounted /\ held # NoTake
    /\ IF Interview THEN job.state \in {"none"} \cup Ended /\ \A c \in Clicks : sends[c].step \in {"none", "asking"}
       ELSE ~waiting

\* Mutant of TokenToUse: every try asks for a token of its own.
TokenToUseAnew == 0

TokenToUse == IF Interview THEN 0 ELSE remembered

Submit(c) ==
    /\ ClickIdle(c) /\ MaySubmit
    /\ sends' = [sends EXCEPT ![c] = [take |-> held.take, token |-> TokenToUse,
                   step |-> IF TokenToUse = 0 THEN "asking" ELSE "uploading"]]
    /\ waiting' = TRUE /\ told' = FALSE
    /\ UNCHANGED <<purpose, mounted, mic, takes, held, remembered, grants, job, polls, discarded, overtaken>>

\* The server gives a token, for the recording the page names or for a new one.
Authorize(c) ==
    /\ sends[c].step = "asking" /\ Len(grants) < MaxTokens
    /\ LET n == Len(grants) + 1
           known == IF held.take = sends[c].take THEN held.recording ELSE 0
       IN  /\ grants' = Append(grants, [take |-> sends[c].take, used |-> FALSE, job |-> "none",
                                        recording |-> IF known = 0 THEN n ELSE known, withdrawn |-> FALSE])
           /\ sends' = [sends EXCEPT ![c].step = "answered", ![c].token = n]
    /\ UNCHANGED <<purpose, mounted, mic, takes, held, remembered, job, waiting, told, polls, discarded, overtaken>>

\* Refused, or the request or its answer is lost.
NotAuthorized(c) ==
    /\ sends[c].step \in {"asking", "answered"}
    /\ sends' = [sends EXCEPT ![c] = NoSend]
    /\ waiting' = IF mounted THEN FALSE ELSE waiting
    /\ UNCHANGED <<purpose, mounted, mic, takes, held, remembered, grants, job, told, polls, discarded, overtaken>>

Authorized(c) ==
    /\ sends[c].step = "answered"
    /\ sends' = [sends EXCEPT ![c].step = "uploading"]
    /\ held' = IF Interview /\ held.take = sends[c].take
                  THEN [held EXCEPT !.recording = grants[sends[c].token].recording] ELSE held
    /\ remembered' = IF Interview THEN remembered ELSE sends[c].token
    /\ UNCHANGED <<purpose, mounted, mic, takes, grants, job, waiting, told, polls, discarded, overtaken>>

\* The agent: a token counts once; the job may be refused after it was counted.
AgentTakes(c, agrees) ==
    /\ sends[c].step = "uploading"
    /\ LET n == sends[c].token
       IN  IF grants[n].used
           THEN sends' = [sends EXCEPT ![c].step = "refused"] /\ UNCHANGED grants
           ELSE /\ sends' = [sends EXCEPT ![c].step = IF agrees THEN "taken" ELSE "refused"]
                /\ grants' = [grants EXCEPT ![n].used = TRUE, ![n].job = IF agrees THEN "running" ELSE "none"]
    /\ UNCHANGED <<purpose, mounted, mic, takes, held, remembered, job, waiting, told, polls, discarded, overtaken>>

\* The agent's answer arrives: the panel shows the job; a dictation is handed over.
Uploaded(c) ==
    /\ sends[c].step = "taken" /\ sends' = [sends EXCEPT ![c] = NoSend]
    /\ IF Interview
       THEN /\ job' = IF mounted THEN [token |-> sends[c].token, state |-> "running"] ELSE job
            /\ UNCHANGED <<held, remembered, waiting>>
       ELSE held' = NoTake /\ remembered' = 0 /\ waiting' = FALSE /\ UNCHANGED job
    /\ UNCHANGED <<purpose, mounted, mic, takes, grants, told, polls, discarded, overtaken>>

\* It was refused, or lost on either way.  The panel tells the server that the job never began;
\* a dictation asks the agent whether it did.
UploadFailed(c) ==
    /\ sends[c].step \in {"uploading", "taken", "refused"}
    /\ IF Interview
       THEN /\ sends' = [sends EXCEPT ![c] = NoSend]
            /\ grants' \in {grants, [grants EXCEPT ![sends[c].token].withdrawn = TRUE]}
            /\ waiting' = IF mounted THEN FALSE ELSE waiting
       ELSE sends' = [sends EXCEPT ![c].step = "checking"] /\ UNCHANGED <<grants, waiting>>
    /\ UNCHANGED <<purpose, mounted, mic, takes, held, remembered, job, told, polls, discarded, overtaken>>

\* "The upload can succeed while its response is lost.  Reconcile the exact signed job."
TakeReconciled(c) ==
    /\ sends[c].step = "checking"
    /\ sends' = [sends EXCEPT ![c] = NoSend] /\ waiting' = FALSE
    /\ \/ grants[sends[c].token].job # "none" /\ held' = NoTake /\ remembered' = 0
       \/ UNCHANGED <<held, remembered>>
    /\ UNCHANGED <<purpose, mounted, mic, takes, grants, job, told, polls, discarded, overtaken>>

----------------------------------------------------------------------------
(* The job, and the panel that watches it *)

AgentWorks(n) ==
    /\ \/ grants[n].job = "running" /\ \E next \in {"done", "failed", "cancelled"} :
                                          grants' = [grants EXCEPT ![n].job = next]
       \/ grants[n].job = "done" /\ ~grants[n].withdrawn /\ grants' = [grants EXCEPT ![n].job = "synced"]
    /\ UNCHANGED <<purpose, mounted, mic, takes, held, remembered, sends, job, waiting, told, polls, discarded, overtaken>>

\* The panel looks for a job of the session that has not ended; afterwards it follows that one.
AskAgent(n) ==
    /\ Interview /\ mounted /\ Cardinality(polls) < MaxPolls
    /\ \/ job = NoJob /\ grants[n].job = "running"
       \/ job.token = n /\ job.state \notin Ended
    /\ polls' = polls \cup {[token |-> n, state |-> grants[n].job, first |-> job = NoJob]}
    /\ UNCHANGED <<purpose, mounted, mic, takes, held, remembered, sends, grants, job, waiting, told, discarded, overtaken>>

\* The answers come in any order.  The first one counts only while no job is shown.
AgentAnswers(p) ==
    /\ p \in polls /\ polls' = polls \ {p}
    /\ IF p.first /\ job # NoJob THEN UNCHANGED <<job, waiting>>
       ELSE /\ job' = [token |-> p.token, state |-> p.state]
            /\ waiting' = IF p.first THEN TRUE
                          ELSE IF p.state \in {"failed", "cancelled"} THEN FALSE ELSE waiting
    /\ UNCHANGED <<purpose, mounted, mic, takes, held, remembered, sends, grants, told, discarded, overtaken>>

\* onCompleted, once: the page reads the session again and lets go of the take.
AnnounceCompletion ==
    /\ job.state = "synced" /\ ~told
    /\ told' = TRUE /\ waiting' = FALSE /\ held' = NoTake
    /\ overtaken' = overtaken \cup ({held.take} \ {0})
    /\ UNCHANGED <<purpose, mounted, mic, takes, remembered, sends, grants, job, polls, discarded>>

\* "Process a recording": the ended job leaves the screen.
ClearJob ==
    /\ job.state \in Ended /\ job' = NoJob
    /\ UNCHANGED <<purpose, mounted, mic, takes, held, remembered, sends, grants, waiting, told, polls, discarded, overtaken>>

----------------------------------------------------------------------------
WorkspaceNext ==
    \/ StartRecording \/ MicrophoneAnswered \/ StopRecording \/ Discard \/ LeaveTab \/ EnterTab
    \/ \E c \in Clicks :
          \/ Submit(c) \/ Authorize(c) \/ NotAuthorized(c) \/ Authorized(c)
          \/ \E agrees \in BOOLEAN : AgentTakes(c, agrees)
          \/ Uploaded(c) \/ UploadFailed(c) \/ TakeReconciled(c)
    \/ \E n \in DOMAIN grants : AgentWorks(n) \/ AskAgent(n)
    \/ \E p \in polls : AgentAnswers(p)
    \/ AnnounceCompletion \/ ClearJob

WorkspaceSpec == WorkspaceInit /\ [][WorkspaceNext]_workspaceVars

----------------------------------------------------------------------------
(* Properties *)

WithAgent(t) == {n \in DOMAIN grants : grants[n].take = t /\ grants[n].job # "none"}

\* A take is never lost on the way: it is being recorded, the page still holds it, the user has
\* discarded it, the agent has it as a job, or the page let go of it when a job of the session
\* completed, whatever answers were lost and whenever the user changed tabs in the middle.
TakesKept ==
    \A t \in 1..takes :
        \/ mic = "live" /\ t = takes
        \/ held.take = t \/ t \in discarded \/ WithAgent(t) # {} \/ t \in overtaken

\* However often a dictation is sent again after an answer was lost, the agent has it once.
OneJobPerDictation == ~Interview => \A t \in 1..takes : Cardinality(WithAgent(t)) <= 1

\* What the panel says of a job's end is what the agent says: an answer that comes late makes no
\* job complete that did not.
NoFalseEnd == job.state \in Ended => grants[job.token].job = job.state

WorkspaceHolds == TakesKept /\ OneJobPerDictation /\ NoFalseEnd
=============================================================================
