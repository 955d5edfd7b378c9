------------------------------ MODULE Reports ------------------------------
(***************************************************************************)
(* The report of one investigation session: drafted, reviewed by the lead, *)
(* issued as immutable HTML and PDF, reopened; and the workflow that       *)
(* depends on it.                                                          *)
(*                                                                         *)
(* What a report is about (source_snapshot) has two halves: the evidence   *)
(* of the session, which every handler changes under the session's row     *)
(* lock, and the people, whose shared registry rows other sessions change  *)
(* without it.  A token is a hash: two are equal iff what they hash is.    *)
(* The draft's token is its revision.                                      *)
(*                                                                         *)
(* A handler that holds the session's lock from its first read to its      *)
(* commit is one action.  Three are not: a review reads the sources twice, *)
(* an issue writes files on the way, and some handlers read the session    *)
(* before they lock it and do not read it again.                           *)
(***************************************************************************)
EXTENDS Naturals, Sequences, FiniteSets

CONSTANTS
    Clients,      \* the requests that may be under way at once
    NoClient,
    Dictations,   \* the recordings of narrations
    MaxRevision,  \* bound: changes of the draft
    MaxIssues,    \* bound: attempts to issue
    MaxAttempts,  \* bound: processing jobs of one narration
    MaxEdits      \* bound: changes of the evidence and of the people

ASSUME ReportsAssumption ==
    /\ NoClient \notin Clients
    /\ MaxRevision \in Nat /\ MaxIssues \in Nat
    /\ MaxAttempts \in Nat /\ MaxEdits \in Nat

VARIABLES
    state,      \* InvestigationSession.workflow_state
    sources,    \* what source_snapshot reads
    gaps,       \* which of the checks before review and issue find something missing
    draft,      \* ReportDraft
    reports,    \* GeneratedReport rows, by version
    files,      \* the artifacts on disk
    issues,     \* how many attempts to issue have been made
    asked,      \* [Clients -> the request under way]
    lock,       \* who holds the session's row lock across steps
    narration,  \* [Dictations -> AudioRecording.report_context and the upload]
    attempts    \* [Dictations -> the status of its processing jobs, oldest first]

reportVars == <<state, sources, gaps, draft, reports, files, issues, asked, lock, narration, attempts>>

Snapshots == [evidence: 0..MaxEdits, people: 0..MaxEdits]
Original  == [evidence |-> 0, people |-> 0]
Gaps      == {"content", "participants", "evidence"}
Artifacts == {"html", "pdf", "context"}
Sealed    == {"CLOSED", "ARCHIVED"}
Following ==
    [DRAFT           |-> {"IN_PROGRESS", "ARCHIVED"},
     IN_PROGRESS     |-> {"AWAITING_REVIEW", "ARCHIVED"},
     AWAITING_REVIEW |-> {"IN_PROGRESS", "REVIEWED"},
     REVIEWED        |-> {"IN_PROGRESS", "CLOSED"},
     CLOSED          |-> {"IN_PROGRESS", "ARCHIVED"},
     ARCHIVED        |-> {"IN_PROGRESS"}]
States == DOMAIN Following

\* At most one of each: the review of a draft and the sources it was issued from.  The change of
\* sources a reviewer must acknowledge is acknowledged.
Reviews == [revision: 0..MaxRevision, sources: Snapshots]
NoDraft == [status |-> "NONE", revision |-> 0, review |-> {}, issued |-> {}]
NoRequest == [kind |-> "none", step |-> "idle", revision |-> 0,
              sources |-> Original, state |-> "DRAFT"]
Requests == [kind: {"none", "review", "issue", "create", "details"},
             step: {"idle", "sent", "checked", "rendered"},
             revision: 0..MaxRevision, sources: Snapshots, state: States]

\* Types, and: only a check or an issue under way holds the lock between two steps.
ReportsTypeOK ==
    /\ state \in States /\ sources \in Snapshots /\ gaps \subseteq Gaps
    /\ draft \in [status: {"NONE", "DRAFT", "FINAL"}, revision: 0..MaxRevision,
                  review: SUBSET Reviews, issued: SUBSET Snapshots]
    /\ issues \in 0..MaxIssues /\ files \subseteq (1..MaxIssues) \X Artifacts
    /\ \A n \in DOMAIN reports :
          reports[n] \in [id: 1..MaxIssues, revision: 0..MaxRevision,
                          sources: Snapshots, review: SUBSET Reviews]
    /\ asked \in [Clients -> Requests]
    /\ lock \in Clients \cup {NoClient}
    /\ \A c \in Clients : lock = c <=> asked[c].step \in {"checked", "rendered"}
    /\ narration \in [Dictations -> [status: {"NONE", "PENDING", "READY", "ACCEPTED", "DISMISSED"},
                                     result: BOOLEAN, audio: BOOLEAN, inserted: Nat]]
    /\ \A d \in Dictations : \A n \in DOMAIN attempts[d] :
          attempts[d][n] \in {"ACTIVE", "FAILED", "CANCELLED", "COMPLETED"}

ReportsInit ==
    /\ state = "DRAFT" /\ sources = Original
    /\ gaps \in {{"content"}, {"content", "participants"}, {"content", "evidence"}}
    /\ draft = NoDraft /\ reports = <<>> /\ files = {} /\ issues = 0
    /\ asked = [c \in Clients |-> NoRequest] /\ lock = NoClient
    /\ narration = [d \in Dictations |->
          [status |-> "NONE", result |-> FALSE, audio |-> FALSE, inserted |-> 0]]
    /\ attempts = [d \in Dictations |-> <<>>]

----------------------------------------------------------------------------
(* Guards shared by the handlers *)

Unlocked  == lock = NoClient
Mutable   == state \notin Sealed
Ready     == "participants" \notin gaps
Editable  == draft.status = "DRAFT"
CurrentToken == [revision |-> draft.revision, sources |-> sources]
Bump      == draft.revision < MaxRevision

\* No narration is undecided and every accepted one has its audio.
NarrationsDecided ==
    \A d \in Dictations :
        /\ narration[d].status \notin {"PENDING", "READY"}
        /\ narration[d].status = "ACCEPTED" => narration[d].audio

ContentMayChange == gaps' \in {gaps \ {"content"}, gaps \cup {"content"}}
MayEdit          == sources.evidence + sources.people < MaxEdits
EvidenceMoves    == MayEdit /\ sources' = [sources EXCEPT !.evidence = @ + 1]

\* evidence_changed, given the state the handler has in memory.  The column is
\* written only when that state says so.
EvidenceChanged(known) ==
    /\ known \notin Sealed
    /\ state' = IF known \in {"REVIEWED", "AWAITING_REVIEW"} THEN "IN_PROGRESS" ELSE state

\* Corrected facts are carried into a draft nobody has reviewed, where they were not overridden.
RefreshUntouchedPeople ==
    IF draft.status = "DRAFT" /\ draft.review = {} /\ Bump
    THEN \/ draft' = draft
         \/ draft' = [draft EXCEPT !.revision = @ + 1]
    ELSE draft' = draft

Done(c) == asked' = [asked EXCEPT ![c] = NoRequest]

----------------------------------------------------------------------------
(* Requests of several steps *)

\* The client composes its request from what it has been shown; its handler has loaded the
\* session and waits for the lock.
Ask(c, kind) ==
    /\ asked[c].kind = "none"
    /\ asked' = [asked EXCEPT ![c] =
          [NoRequest EXCEPT !.kind = kind, !.step = "sent",
             !.revision = IF kind \in {"review", "issue"} THEN draft.revision ELSE 0,
             !.sources = IF kind = "review" THEN sources ELSE Original,
             !.state = IF kind \in {"create", "details"} THEN state ELSE "DRAFT"]]
    /\ UNCHANGED <<state, sources, gaps, draft, reports, files, issues, lock, narration, attempts>>

\* It is refused, or never arrives.
Drop(c) ==
    /\ asked[c].step = "sent"
    /\ Done(c)
    /\ UNCHANGED <<state, sources, gaps, draft, reports, files, issues, lock, narration, attempts>>

Sent(c, kind) == asked[c].kind = kind /\ asked[c].step = "sent" /\ Unlocked

CreateDraft(c) ==
    /\ Sent(c, "create")
    /\ draft.status = "NONE" /\ Ready /\ asked[c].state \notin Sealed
    /\ draft' = [NoDraft EXCEPT !.status = "DRAFT"]
    /\ Done(c)
    /\ UNCHANGED <<state, sources, gaps, reports, files, issues, lock, narration, attempts>>

\* update_participant_statement_details decides on the state it loaded before the lock.
EditDetails(c) ==
    /\ Sent(c, "details")
    /\ EvidenceChanged(asked[c].state)
    /\ EvidenceMoves
    /\ gaps' \in {gaps \ {"participants"}, gaps \cup {"participants"}}
    /\ RefreshUntouchedPeople
    /\ Done(c)
    /\ UNCHANGED <<reports, files, issues, lock, narration, attempts>>

ReviewCheck(c) ==
    /\ Sent(c, "review")
    /\ Ready /\ Mutable /\ Editable
    /\ asked[c].revision = draft.revision
    /\ asked[c].sources = sources
    /\ "content" \notin gaps /\ NarrationsDecided
    /\ asked' = [asked EXCEPT ![c].step = "checked"] /\ lock' = c
    /\ UNCHANGED <<state, sources, gaps, draft, reports, files, issues, narration, attempts>>

\* review_token reads the sources again, and the registry is not locked.
ReviewStore(c) ==
    /\ asked[c].kind = "review" /\ asked[c].step = "checked"
    /\ draft' = [draft EXCEPT !.review = {CurrentToken}]
    /\ lock' = NoClient /\ Done(c)
    /\ UNCHANGED <<state, sources, gaps, reports, files, issues, narration, attempts>>

\* Mutant of IssueCheck.
IssueCheckAnySource(c) ==
    /\ Sent(c, "issue")
    /\ issues < MaxIssues
    /\ Editable /\ asked[c].revision = draft.revision
    /\ Mutable
    /\ gaps = {} /\ NarrationsDecided
    /\ draft.revision \in {r.revision : r \in draft.review}
    /\ asked' = [asked EXCEPT ![c].step = "checked"] /\ lock' = c
    /\ issues' = issues + 1
    /\ UNCHANGED <<state, sources, gaps, draft, reports, files, narration, attempts>>

\* finalize up to check_ready: the people are locked too from here on.
IssueCheck(c) ==
    /\ Sent(c, "issue")
    /\ issues < MaxIssues
    /\ Editable /\ asked[c].revision = draft.revision
    /\ Mutable
    /\ gaps = {} /\ NarrationsDecided
    /\ CurrentToken \in draft.review
    /\ asked' = [asked EXCEPT ![c].step = "checked"] /\ lock' = c
    /\ issues' = issues + 1
    /\ UNCHANGED <<state, sources, gaps, draft, reports, files, narration, attempts>>

\* The report is rendered and its context takes the sources.
IssueRender(c) ==
    /\ asked[c].kind = "issue" /\ asked[c].step = "checked"
    /\ asked' = [asked EXCEPT ![c].step = "rendered", ![c].sources = sources]
    /\ UNCHANGED <<state, sources, gaps, draft, reports, files, issues, lock, narration, attempts>>

\* The artifacts are written one after the other, under a name no other attempt uses.
IssueWrite(c) ==
    /\ asked[c].kind = "issue" /\ asked[c].step = "rendered"
    /\ LET written == {a \in Artifacts : <<issues, a>> \in files}
       IN \/ written = {} /\ files' = files \cup {<<issues, "html">>}
          \/ written = {"html"} /\ files' = files \cup {<<issues, "pdf">>}
          \/ written = {"html", "pdf"} /\ files' = files \cup {<<issues, "context">>}
    /\ UNCHANGED <<state, sources, gaps, draft, reports, issues, asked, lock, narration, attempts>>

IssueCommit(c) ==
    /\ asked[c].kind = "issue" /\ asked[c].step = "rendered"
    /\ <<issues, "context">> \in files
    /\ reports' = Append(reports, [id |-> issues, revision |-> draft.revision,
                                   sources |-> asked[c].sources, review |-> draft.review])
    /\ draft' = [draft EXCEPT !.status = "FINAL", !.issued = {asked[c].sources}]
    /\ lock' = NoClient /\ Done(c)
    /\ UNCHANGED <<state, sources, gaps, files, issues, narration, attempts>>

\* The renderer or the commit fails, or the server stops: the files written stay.
IssueFails(c) ==
    /\ asked[c].kind = "issue" /\ lock = c
    /\ lock' = NoClient /\ Done(c)
    /\ UNCHANGED <<state, sources, gaps, draft, reports, files, issues, narration, attempts>>

PeopleLocked == \E c \in Clients : asked[c].kind = "issue" /\ lock = c

----------------------------------------------------------------------------
(* Requests of one step *)

SaveReport ==
    /\ Unlocked /\ Editable /\ Mutable /\ Ready /\ Bump
    /\ draft' = [draft EXCEPT !.revision = @ + 1]
    /\ ContentMayChange
    /\ UNCHANGED <<state, sources, reports, files, issues, asked, lock, narration, attempts>>

RefreshSources ==
    /\ Unlocked /\ Ready /\ Mutable /\ Editable /\ Bump
    /\ draft' = [draft EXCEPT !.revision = @ + 1, !.review = {}]
    /\ UNCHANGED <<state, sources, gaps, reports, files, issues, asked, lock, narration, attempts>>

ReopenReport ==
    /\ Unlocked /\ draft.status = "FINAL" /\ Bump
    /\ draft' = [draft EXCEPT !.status = "DRAFT", !.review = {}, !.revision = @ + 1]
    /\ state' = "IN_PROGRESS"
    /\ UNCHANGED <<sources, gaps, reports, files, issues, asked, lock, narration, attempts>>

\* What transition requires of the report and the evidence.  A job under way keeps a
\* session out of the archive; "evidence" missing may mean that or something else.
ReportAllows(target) ==
    \/ target \in {"DRAFT", "IN_PROGRESS", "ARCHIVED"}
    \/ /\ target = "CLOSED" /\ "evidence" \notin gaps
       /\ draft.status = "FINAL" /\ sources \in draft.issued
    \/ /\ target \in {"AWAITING_REVIEW", "REVIEWED"} /\ gaps \cap {"content", "evidence"} = {}
       /\ draft.status # "NONE"
       /\ target = "REVIEWED" => CurrentToken \in draft.review

MoveWorkflow(target) ==
    /\ Unlocked /\ target \in Following[state]
    /\ (target # "ARCHIVED" /\ Mutable) => Ready
    /\ ReportAllows(target)
    /\ state' = target
    /\ UNCHANGED <<sources, gaps, draft, reports, files, issues, asked, lock, narration, attempts>>

\* A transcript, a speaker, a document, a recording, the session itself: the handlers that
\* read the session again under its lock.
EditEvidence ==
    /\ Unlocked
    /\ EvidenceChanged(state)
    /\ EvidenceMoves
    /\ gaps' \in SUBSET Gaps
    /\ RefreshUntouchedPeople
    /\ UNCHANGED <<reports, files, issues, asked, lock, narration, attempts>>

\* A person is renamed or merged, an investigator's profile edited, from anywhere.
EditPeople ==
    /\ ~PeopleLocked
    /\ MayEdit /\ sources' = [sources EXCEPT !.people = @ + 1]
    /\ ContentMayChange
    /\ UNCHANGED <<state, draft, reports, files, issues, asked, lock, narration, attempts>>

----------------------------------------------------------------------------
(* Narrations recorded for the report *)

NarrationOnly == UNCHANGED <<state, sources, reports, files, issues, asked, lock>>
MayNarrate    == Unlocked /\ Mutable /\ Ready /\ Editable

StartNarration(d) ==
    /\ MayNarrate /\ Len(attempts[d]) < MaxAttempts
    /\ narration[d].status \in {"NONE", "PENDING"}
    /\ \A n \in DOMAIN attempts[d] : attempts[d][n] # "ACTIVE"
    /\ narration' = [narration EXCEPT ![d].status = "PENDING"]
    /\ attempts' = [attempts EXCEPT ![d] = Append(@, "ACTIVE")]
    /\ NarrationOnly /\ UNCHANGED <<draft, gaps>>

\* The agent reports a failure, the token expires, or a user cancels.
EndAttempt(d, n, outcome) ==
    /\ n \in DOMAIN attempts[d] /\ attempts[d][n] = "ACTIVE"
    /\ attempts' = [attempts EXCEPT ![d][n] = outcome]
    /\ NarrationOnly /\ UNCHANGED <<draft, gaps, narration>>

\* Mutant of ReceiveNarration.
ReceiveNarrationAnew(d, n) ==
    /\ Unlocked /\ n \in DOMAIN attempts[d]
    /\ ~narration[d].result /\ attempts[d][n] # "CANCELLED"
    /\ narration' = [narration EXCEPT ![d].result = TRUE, ![d].status = "READY"]
    /\ attempts' = [attempts EXCEPT ![d][n] = "COMPLETED"]
    /\ NarrationOnly /\ UNCHANGED <<draft, gaps>>

\* The transcript of an attempt, perhaps of one that has failed meanwhile.  No check of the
\* workflow or of the draft.
ReceiveNarration(d, n) ==
    /\ Unlocked /\ n \in DOMAIN attempts[d]
    /\ ~narration[d].result /\ attempts[d][n] # "CANCELLED"
    /\ narration' = [narration EXCEPT ![d].result = TRUE,
          ![d].status = IF @ = "DISMISSED" THEN "DISMISSED" ELSE "READY"]
    /\ attempts' = [attempts EXCEPT ![d][n] = "COMPLETED"]
    /\ NarrationOnly /\ UNCHANGED <<draft, gaps>>

UploadNarration(d) ==
    /\ Unlocked /\ attempts[d] # <<>> /\ ~narration[d].audio
    /\ narration' = [narration EXCEPT ![d].audio = TRUE]
    /\ NarrationOnly /\ UNCHANGED <<draft, gaps, attempts>>

AcceptNarration(d) ==
    /\ MayNarrate /\ Bump
    /\ narration[d].status = "READY" /\ narration[d].audio
    /\ narration' = [narration EXCEPT ![d].status = "ACCEPTED", ![d].inserted = @ + 1]
    /\ draft' = [draft EXCEPT !.revision = @ + 1]
    /\ ContentMayChange
    /\ NarrationOnly /\ UNCHANGED attempts

DismissNarration(d) ==
    /\ Unlocked /\ Mutable
    /\ narration[d].status \notin {"NONE", "ACCEPTED"}
    /\ narration' = [narration EXCEPT ![d].status = "DISMISSED"]
    /\ NarrationOnly /\ UNCHANGED <<draft, gaps, attempts>>

----------------------------------------------------------------------------
ReportSteps ==
    \/ \E c \in Clients :
          \/ \E kind \in {"review", "issue", "create", "details"} : Ask(c, kind)
          \/ Drop(c)
          \/ CreateDraft(c) \/ EditDetails(c)
          \/ ReviewCheck(c) \/ ReviewStore(c)
          \/ IssueCheck(c) \/ IssueRender(c) \/ IssueWrite(c) \/ IssueCommit(c) \/ IssueFails(c)
    \/ SaveReport \/ RefreshSources \/ ReopenReport
    \/ \E target \in States : MoveWorkflow(target)
    \/ EditEvidence \/ EditPeople

NarrationSteps ==
    \E d \in Dictations :
       \/ StartNarration(d) \/ UploadNarration(d) \/ AcceptNarration(d) \/ DismissNarration(d)
       \/ \E n \in DOMAIN attempts[d] :
             \/ ReceiveNarration(d, n)
             \/ \E outcome \in {"FAILED", "CANCELLED"} : EndAttempt(d, n, outcome)

ReportsNext == ReportSteps \/ NarrationSteps

ReportsSpec == ReportsInit /\ [][ReportsNext]_reportVars

----------------------------------------------------------------------------
(* Properties *)

\* Every report on record is the text the lead reviewed, with the people and the evidence as
\* they were under that review, whatever the registry and the session did while it was rendered.
IssuedAsReviewed ==
    \A n \in DOMAIN reports :
        [revision |-> reports[n].revision, sources |-> reports[n].sources] \in reports[n].review

\* A row is never without its three artifacts and no two rows share one, though attempts fail
\* at any point and leave files behind.
ReportsOnDisk ==
    /\ \A n \in DOMAIN reports : \A a \in Artifacts : <<reports[n].id, a>> \in files
    /\ \A m, n \in DOMAIN reports : reports[m].id = reports[n].id => m = n

\* An issued draft is the newest report: nothing that runs later changes it until it is
\* reopened, and a closed session has an issued draft.
FinalIsLatestReport ==
    /\ draft.status = "FINAL" =>
          /\ reports # <<>>
          /\ reports[Len(reports)].revision = draft.revision
          /\ draft.issued = {reports[Len(reports)].sources}
    /\ state = "CLOSED" => draft.status = "FINAL"

\* What was issued is what was reviewed, and it stays on record as it was issued.
IssuedReportsHold == IssuedAsReviewed /\ ReportsOnDisk /\ FinalIsLatestReport

\* What a narration has become stays so, late results and retries included; an accepted one
\* went into the report once; none is undecided in an issued report.
NarrationsSettled ==
    /\ draft.status = "FINAL" => NarrationsDecided
    /\ \A d \in Dictations :
          /\ narration[d].inserted = IF narration[d].status = "ACCEPTED" THEN 1 ELSE 0
          /\ narration[d].status = "ACCEPTED" => narration[d].result /\ narration[d].audio

NarrationDecisionsHold ==
    [][\A d \in Dictations : narration[d].status \in {"ACCEPTED", "DISMISSED"} =>
          narration'[d].status = narration[d].status]_reportVars

NarrationsHold == []NarrationsSettled /\ NarrationDecisionsHold
=============================================================================
