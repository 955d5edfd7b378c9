------------------------------ MODULE Sessions ------------------------------
(***************************************************************************)
(* The record of one investigation session: the people in it, the papers   *)
(* they presented, the scans of those papers, and how far the session is.  *)
(*                                                                         *)
(* Several editors work on the record from forms they loaded earlier.  A   *)
(* save names the revision its form showed.  The handlers that change the  *)
(* record lock the session's row and read it again under the lock; the     *)
(* handlers of transcripts and of the details of a person go on with the   *)
(* row as they had read it before the lock, and write a stage and a        *)
(* revision computed from that (Touch, FinishTouch, SaveDetails).  An      *)
(* upload of a scan holds the lock while the file arrives.                 *)
(***************************************************************************)
EXTENDS Naturals, FiniteSets, Sequences

CONSTANTS
    Forms,         \* forms open in browsers
    Readers,       \* requests that go on with the session's row as they had read it
    Keys,          \* participant_key values
    Papers,        \* SubjectDocument rows
    Scans,         \* uploaded files, each under a path of its own
    Persons,       \* person identities
    Nothing,       \* no person, no key, no file, no form, no request
    MaxRecord      \* bound: the revision of the session

ASSUME SessionsAssumption ==
    /\ Nothing \notin Forms \cup Readers \cup Keys \cup Papers \cup Scans \cup Persons
    /\ IsFiniteSet(Scans)
    /\ MaxRecord \in Nat

VARIABLES
    participants,  \* [Keys -> Subject row]
    papers,        \* [Papers -> SubjectDocument row]
    disk,          \* files under the storage root
    accepted,      \* files whose upload was answered with 201
    record,        \* the session's row: revision and workflow_state
    forms,         \* [Forms -> the form as loaded]
    touching,      \* [Readers -> the session's row as a handler read it, before its lock]
    upload         \* the document whose scan is arriving: its handler holds the session's lock

sessionVars == <<participants, papers, disk, accepted, record, forms, touching, upload>>

Stages  == {"DRAFT", "IN_PROGRESS", "AWAITING_REVIEW", "REVIEWED", "CLOSED", "ARCHIVED"}
SealedStages == {"CLOSED", "ARCHIVED"}
Rows    == [revision: 0..MaxRecord, stage: Stages]
Known   == {k \in Keys : participants[k].status = "live"}
Live(k) == {d \in Papers : papers[d].owner = k /\ ~papers[d].removed}

SessionsTypeOK ==
    /\ \A k \in Keys : participants[k] \in
          [status: {"none", "live", "removed"}, person: Persons \cup {Nothing},
           facts: {"missing", "complete", "undocumented"}]
    /\ \A d \in Papers : /\ papers[d].owner \in Keys \cup {Nothing} /\ papers[d].removed \in BOOLEAN
                         /\ papers[d].scan \in Scans \cup {Nothing}
                         /\ papers[d].versions \in Seq(Scans)
    /\ accepted \subseteq Scans /\ disk \subseteq Scans
    /\ record \in Rows /\ upload \in Papers \cup {Nothing}
    /\ \A e \in Forms : forms[e] \in [revision: 0..MaxRecord, shown: SUBSET Keys] \cup {Nothing}
    /\ \A w \in Readers : touching[w] \in Rows \cup {Nothing}

\* create_investigation, with one person in the body; or a session that has come as far as its
\* review since (its revision is counted from there).
SessionsInit ==
    /\ \E first \in Keys, v \in Persons :
          participants = [k \in Keys |->
              IF k = first THEN [status |-> "live", person |-> v, facts |-> "undocumented"]
              ELSE [status |-> "none", person |-> Nothing, facts |-> "missing"]]
    /\ papers = [d \in Papers |-> [owner |-> Nothing, removed |-> FALSE, scan |-> Nothing, versions |-> <<>>]]
    /\ disk = {} /\ accepted = {} /\ upload = Nothing
    /\ \E stage \in {"DRAFT", "REVIEWED"} : record = [revision |-> 0, stage |-> stage]
    /\ forms = [e \in Forms |-> Nothing] /\ touching = [w \in Readers |-> Nothing]

----------------------------------------------------------------------------
NoUpload    == upload = Nothing
Amendable   == NoUpload /\ record.stage \notin SealedStages /\ record.revision < MaxRecord
Reviewing   == {"REVIEWED", "AWAITING_REVIEW"}

\* evidence_changed, on the row `read`, as it is now or as it was.
Touched(read) ==
    [revision |-> read.revision + 1,
     stage |-> IF read.stage \in Reviewing THEN "IN_PROGRESS" ELSE record.stage]

OpenForm(e) ==
    /\ forms' = [forms EXCEPT ![e] = [revision |-> record.revision, shown |-> Known]]
    /\ UNCHANGED <<participants, papers, disk, accepted, record, touching, upload>>

\* Mutant of Reconciled.
ReconciledByName(kept, gone) == kept \cup gone \subseteq Known /\ kept \cap gone = {}

\* _reconcile_participants: everybody the server knows is submitted or named for removal.
Reconciled(kept, gone) ==
    /\ kept \cup gone \subseteq Known /\ kept \cap gone = {}
    /\ Known \subseteq kept \cup gone

\* One person may be added, and their facts, papers and removals change with them.
SaveSubjects(kept, gone, added, fresh, dropped) ==
    /\ participants' = [k \in Keys |->
          IF k \in Known \ kept THEN [participants[k] EXCEPT !.status = "removed"]
          ELSE IF k \in kept /\ k \in DOMAIN fresh THEN [participants[k] EXCEPT !.facts = fresh[k]]
          ELSE IF k \in DOMAIN added THEN added[k] ELSE participants[k]]
    /\ \A d \in dropped : papers[d].owner \in kept /\ ~papers[d].removed

Bodies(e) ==
    LET unused == {k \in Keys : participants[k].status = "none"}
    IN  [kept: SUBSET forms[e].shown, gone: SUBSET forms[e].shown,
         added: {<<>>} \cup UNION {[{k} -> [status: {"live"}, person: Persons, facts: {"complete"}]] : k \in unused},
         fresh: {<<>>} \cup UNION {[{k} -> {"missing", "undocumented"}] : k \in forms[e].shown},
         dropped: {{}} \cup {{d} : d \in Papers}, paper: {Nothing} \cup {d \in Papers : papers[d].owner = Nothing}]

\* update_investigation.  The answer may be lost; then the form is as it was.
SaveForm(e, answered) ==
    /\ forms[e] # Nothing /\ Amendable /\ forms[e].revision = record.revision
    /\ \E b \in Bodies(e) :
          /\ Reconciled(b.kept, b.gone)
          /\ SaveSubjects(b.kept, b.gone, b.added, b.fresh, b.dropped)
          /\ \E owner \in b.kept \cup (DOMAIN b.added) \cup {Nothing} :
                /\ (owner = Nothing) <=> (b.paper = Nothing)
                /\ papers' = [d \in Papers |->
                      IF d \in b.dropped THEN [papers[d] EXCEPT !.removed = TRUE]
                      ELSE IF d = b.paper THEN [papers[d] EXCEPT !.owner = owner] ELSE papers[d]]
    /\ record' = Touched(record)
    /\ forms' = [forms EXCEPT ![e] =
          IF answered
          THEN [revision |-> record'.revision, shown |-> {k \in Keys : participants'[k].status = "live"}]
          ELSE @]
    /\ UNCHANGED <<disk, accepted, touching, upload>>

----------------------------------------------------------------------------
(* Scans *)

Presented(d) ==
    /\ papers[d].owner # Nothing /\ ~papers[d].removed
    /\ participants[papers[d].owner].status = "live"

BeginUpload(d) ==
    /\ Amendable /\ Presented(d) /\ papers[d].scan = Nothing
    /\ upload' = d
    /\ UNCHANGED <<participants, papers, disk, accepted, record, forms, touching>>

FinishUpload(c) ==
    /\ ~NoUpload /\ c \notin disk
    /\ disk' = disk \cup {c} /\ accepted' = accepted \cup {c}
    /\ papers' = [papers EXCEPT ![upload].scan = c]
    /\ record' = Touched(record) /\ upload' = Nothing
    /\ UNCHANGED <<participants, forms, touching>>

\* Not a document, the client gone, or the transaction lost after the file was moved into place.
AbandonUpload(left) ==
    /\ ~NoUpload /\ left \subseteq Scans \ disk /\ Cardinality(left) <= 1
    /\ upload' = Nothing /\ disk' = disk \cup left
    /\ UNCHANGED <<participants, papers, accepted, record, forms, touching>>

\* Mutant of DeleteScan.
DeleteScanForgotten(d) ==
    /\ Amendable /\ Presented(d)
    /\ papers' = [papers EXCEPT ![d].scan = Nothing]
    /\ record' = Touched(record)
    /\ UNCHANGED <<participants, disk, accepted, forms, touching, upload>>

DeleteScan(d) ==
    /\ Amendable /\ Presented(d)
    /\ papers' = [papers EXCEPT ![d].scan = Nothing,
                    ![d].versions = IF papers[d].scan = Nothing THEN @ ELSE Append(@, papers[d].scan)]
    /\ record' = Touched(record)
    /\ UNCHANGED <<participants, disk, accepted, forms, touching, upload>>

----------------------------------------------------------------------------
(* How far the session is *)

Transitions == [
    DRAFT |-> {"IN_PROGRESS", "ARCHIVED"},
    IN_PROGRESS |-> {"AWAITING_REVIEW", "ARCHIVED"},
    AWAITING_REVIEW |-> {"IN_PROGRESS", "REVIEWED"},
    REVIEWED |-> {"IN_PROGRESS", "CLOSED"},
    CLOSED |-> {"IN_PROGRESS", "ARCHIVED"},
    ARCHIVED |-> {"IN_PROGRESS"}]

\* participant_issues: the facts, and a paper or the reason why there is none.
Intake(k) ==
    \/ participants[k].facts = "undocumented"
    \/ participants[k].facts = "complete" /\ Live(k) # {}
IntakeComplete == \A k \in Known : Intake(k)

\* update_workflow; the report and the recordings, which it also asks, are left open.
UpdateWorkflow(e, to) ==
    /\ forms[e] # Nothing /\ NoUpload /\ record.revision < MaxRecord
    /\ forms[e].revision = record.revision /\ to \in Transitions[record.stage]
    /\ (to # "ARCHIVED" /\ record.stage \notin SealedStages) => IntakeComplete
    /\ record' = [revision |-> record.revision + 1, stage |-> to]
    /\ forms' = [forms EXCEPT ![e].revision = record.revision + 1]
    /\ UNCHANGED <<participants, papers, disk, accepted, touching, upload>>

\* review_transcript, edit_segment, review_attribution, update_participant_statement_details: the
\* row is read, then locked, and what was read decides.
Touch(w) ==
    /\ touching[w] = Nothing /\ record.revision < MaxRecord
    /\ touching' = [touching EXCEPT ![w] = record]
    /\ UNCHANGED <<participants, papers, disk, accepted, record, forms, upload>>

FinishTouch(w) ==
    /\ touching[w] # Nothing /\ NoUpload /\ touching[w].stage \notin SealedStages
    /\ record' = Touched(touching[w])
    /\ touching' = [touching EXCEPT ![w] = Nothing]
    /\ UNCHANGED <<participants, papers, disk, accepted, forms, upload>>

\* Details typed or cleared, one person's: "complete" and "undocumented" differ in the papers only.
Detailed(facts) == IF facts = "missing" THEN {"missing", "complete", "undocumented"} ELSE {facts, "missing"}

\* update_participant_statement_details: the person is read again under the lock, the session is not.
SaveDetails(w, k) ==
    /\ touching[w] # Nothing /\ NoUpload /\ touching[w].stage \notin SealedStages
    /\ participants[k].status = "live"
    /\ \E facts \in Detailed(participants[k].facts) : participants' = [participants EXCEPT ![k].facts = facts]
    /\ record' = Touched(touching[w])
    /\ touching' = [touching EXCEPT ![w] = Nothing]
    /\ UNCHANGED <<papers, disk, accepted, forms, upload>>

\* Read as closed or archived; the person removed, the token of their details another by now.
RefuseTouch(w) ==
    /\ touching[w] # Nothing /\ NoUpload
    /\ touching' = [touching EXCEPT ![w] = Nothing]
    /\ UNCHANGED <<participants, papers, disk, accepted, record, forms, upload>>

FormSteps(e) ==
    \/ OpenForm(e)
    \/ \E answered \in BOOLEAN : SaveForm(e, answered)
    \/ \E to \in Stages : UpdateWorkflow(e, to)

ReaderSteps(w) == Touch(w) \/ FinishTouch(w) \/ RefuseTouch(w) \/ \E k \in Keys : SaveDetails(w, k)

UploadSteps ==
    \/ \E d \in Papers : BeginUpload(d) \/ DeleteScan(d)
    \/ \E c \in Scans : FinishUpload(c)
    \/ \E left \in SUBSET Scans : AbandonUpload(left)

SessionsNext ==
    \/ \E e \in Forms : FormSteps(e)
    \/ \E w \in Readers : ReaderSteps(w)
    \/ UploadSteps

SessionsSpec == SessionsInit /\ [][SessionsNext]_sessionVars

----------------------------------------------------------------------------
(* Properties *)

\* A scan whose upload was acknowledged is evidence for good: its file is there, and one document
\* has it, as the current scan or among the earlier ones, whatever is deleted, removed or replaced.
ScansKept ==
    \A c \in accepted :
        /\ c \in disk
        /\ Cardinality({d \in Papers : papers[d].scan = c}
              \cup {x \in Papers \X (1..Cardinality(Scans)) :
                      x[2] \in DOMAIN papers[x[1]].versions /\ papers[x[1]].versions[x[2]] = c}) = 1

\* Nobody leaves the record through a save whose author did not have them on the form, although
\* a revision may be used twice; and the person behind a key is never exchanged for another.
ParticipantsKept ==
    [][\A k \in Keys : participants[k].status # "none" =>
          /\ participants'[k].person = participants[k].person
          /\ participants'[k].status # participants[k].status =>
                /\ participants[k].status = "live" /\ participants'[k].status = "removed"
                /\ \E e \in Forms : forms[e] # Nothing /\ k \in forms[e].shown]_sessionVars

\* A session under review or closed has complete intake for everyone in it.
Examined == {"AWAITING_REVIEW", "REVIEWED", "CLOSED"}
ReviewedIsComplete == record.stage \in Examined => IntakeComplete

\* A save of one person's details by a request that read the session's row before the session
\* reached one of `stages`.
OvertakenDetails(stages) ==
    \E w \in Readers, k \in Keys :
        /\ touching[w] # Nothing /\ touching[w].stage \notin stages /\ touching'[w] = Nothing
        /\ participants' = [participants EXCEPT ![k].facts = participants'[k].facts]
        /\ papers' = papers

\* The intake of a session under review or closed stays complete: whatever would make it incomplete
\* takes the session back or is refused.  One request of the program escapes this, the save of a
\* person's details that read the session before its review; nothing else does.
ReviewStaysComplete ==
    [][ReviewedIsComplete => ReviewedIsComplete' \/ OvertakenDetails(Examined)]_sessionVars

\* While a session is closed or archived its record does not change (workflow.py, guard_mutation:
\* "reopen_investigation_before_editing").  The program breaks this.
ClosedRecordStands ==
    [][record.stage \in SealedStages => participants' = participants /\ papers' = papers]_sessionVars

\* What a closed or archived record may still meet: no form, no upload that was under way and no
\* deletion, but one person's details from a request that had read the session while it was open.
ClosedButForDetails ==
    [][record.stage \in SealedStages =>
          \/ participants' = participants /\ papers' = papers
          \/ OvertakenDetails(SealedStages)]_sessionVars

\* People, their facts and their papers change by a decision taken on the record as it stood, but
\* for the details saved by a request that was overtaken.
RecordHolds == ParticipantsKept /\ ReviewStaysComplete /\ ClosedButForDetails
=============================================================================
