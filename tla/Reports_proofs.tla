--------------------------- MODULE Reports_proofs ---------------------------
(***************************************************************************)
(* Proofs about reports and narrations, for any requests under way at once *)
(* and any number of drafts, reports and recordings, about the editor in   *)
(* which a report is written, about the questions and answers that a draft *)
(* is made of, and about the browser between microphone and agent.         *)
(*                                                                         *)
(* Reports: the argument is about who may move what between two steps of   *)
(* an issue.  It holds the session's lock and locks the people, so the     *)
(* draft, its sources and its narrations are at every step still what its  *)
(* first step found reviewed.                                              *)
(*                                                                         *)
(* Composer: the argument follows the token.  As long as an answer is on   *)
(* its way, what it will put into the editor holds what is typed there,    *)
(* because whoever else has written moved the token, and whatever is sent  *)
(* under an old token is refused.                                          *)
(*                                                                         *)
(* Dialogue: the turns gather the parts in their order, and the block that *)
(* is being built stands under the last question of its recording.         *)
(*                                                                         *)
(* Workspace: a take is in one place at a time, and goes on with one token *)
(* if it is dictated; what an agent has is never taken back.               *)
(***************************************************************************)
EXTENDS Reports, Composer, Dialogue, Workspace, FiniteSetTheorems, WellFoundedInduction, TLAPS

Statuses   == {"NONE", "DRAFT", "FINAL"}
Drafts     == [status: Statuses, revision: 0..MaxRevision,
               review: SUBSET Reviews, issued: SUBSET Snapshots]
Issued     == [id: 1..MaxIssues, revision: 0..MaxRevision, sources: Snapshots, review: SUBSET Reviews]
Narrations == [status: {"NONE", "PENDING", "READY", "ACCEPTED", "DISMISSED"},
               result: BOOLEAN, audio: BOOLEAN, inserted: Nat]
JobEnds    == {"FAILED", "CANCELLED", "COMPLETED"}

ReportTyping ==
    /\ state \in States /\ sources \in Snapshots /\ gaps \subseteq Gaps
    /\ draft \in Drafts /\ reports \in Seq(Issued)
    /\ issues \in 0..MaxIssues /\ files \subseteq (1..MaxIssues) \X Artifacts
    /\ asked \in [Clients -> Requests] /\ lock \in Clients \cup {NoClient}
    /\ narration \in [Dictations -> Narrations]
    /\ attempts \in [Dictations -> Seq({"ACTIVE"} \cup JobEnds)]

Working(c) == asked[c].step \in {"checked", "rendered"}

\* Only a check or an issue under way holds the lock between two steps.
Locking == \A c \in Clients : (lock = c) <=> Working(c)

\* What the first step of a review or an issue found is so until its last.
CheckStands ==
    \A c \in Clients : Working(c) =>
        /\ asked[c].kind \in {"review", "issue"}
        /\ draft.status = "DRAFT" /\ NarrationsDecided

IssueStands ==
    \A c \in Clients : Working(c) /\ asked[c].kind = "issue" =>
        /\ CurrentToken \in draft.review
        /\ issues \in 1..MaxIssues
        /\ \A n \in DOMAIN reports : reports[n].id < issues

RenderStands ==
    \A c \in Clients : asked[c].step = "rendered" =>
        asked[c].kind = "issue" /\ asked[c].sources = sources

\* The artifacts of an attempt come one after the other, and attempts are counted.
FilesInOrder ==
    /\ \A i \in 1..MaxIssues : <<i, "context">> \in files => <<i, "html">> \in files /\ <<i, "pdf">> \in files
    /\ \A n \in DOMAIN reports : reports[n].id <= issues

\* A recording has jobs only from the moment it is to become a narration, and it is ready for a
\* decision only once it was heard.
Started ==
    \A d \in Dictations :
        /\ narration[d].status = "NONE" => attempts[d] = <<>>
        /\ narration[d].status = "READY" => narration[d].result

ReportsInv ==
    /\ ReportTyping /\ Locking /\ CheckStands /\ IssueStands /\ RenderStands /\ FilesInOrder
    /\ Started /\ IssuedReportsHold /\ NarrationsSettled

USE DEF reportVars

\* What is next to a handler that has the lock for itself: it leaves the reports and the files
\* alone, changes no issued draft except to reopen it, and settles what it decides.
LEMMA UnlockedSteps ==
    ASSUME ReportsInv, ReportTyping', Unlocked,
           reports' = reports, files' = files, issues' = issues, lock' = lock,
           \A c \in Clients : asked'[c].step \notin {"checked", "rendered"},
           draft'.status = "FINAL" => draft' = draft /\ NarrationsDecided',
           state' = "CLOSED" => draft'.status = "FINAL",
           Started',
           \A d \in Dictations :
              /\ narration'[d].inserted = IF narration'[d].status = "ACCEPTED" THEN 1 ELSE 0
              /\ narration'[d].status = "ACCEPTED" => narration'[d].result /\ narration'[d].audio
    PROVE  ReportsInv'
<1>1. Locking' /\ CheckStands' /\ IssueStands' /\ RenderStands'
  BY ReportsAssumption DEF Locking, CheckStands, IssueStands, RenderStands, Working, Unlocked
<1>2. FilesInOrder'
  BY DEF ReportsInv, FilesInOrder
<1>3. IssuedReportsHold'
  BY DEF ReportsInv, IssuedReportsHold, IssuedAsReviewed, ReportsOnDisk, FinalIsLatestReport
<1>4. NarrationsSettled'
  BY DEF NarrationsSettled
<1>5. QED
  BY <1>1, <1>2, <1>3, <1>4 DEF ReportsInv

\* A step between those of whoever has the lock, which touches no work under way.
LEMMA BesideTheLock ==
    ASSUME ReportsInv, ReportTyping',
           UNCHANGED <<state, draft, reports, files, issues, lock, narration>>,
           sources' = sources \/ ~PeopleLocked,
           \A c \in Clients : Working(c) \/ Working(c)' => asked'[c] = asked[c],
           Started'
    PROVE  ReportsInv'
<1>1. \A c \in Clients : Working(c)' <=> Working(c)
  BY DEF Working
<1>2. Locking' /\ CheckStands'
  BY <1>1 DEF ReportsInv, Locking, CheckStands, NarrationsDecided, Working
<1>3. \A c \in Clients : Working(c) /\ asked[c].kind = "issue" => sources' = sources
  BY DEF ReportsInv, Locking, PeopleLocked
<1>4. IssueStands'
  BY <1>1, <1>3 DEF ReportsInv, IssueStands, CurrentToken
<1>5. RenderStands'
  BY <1>1, <1>3 DEF ReportsInv, RenderStands, Working
<1>6. FilesInOrder' /\ IssuedReportsHold' /\ NarrationsSettled'
  BY DEF ReportsInv, FilesInOrder, IssuedReportsHold, IssuedAsReviewed, ReportsOnDisk,
     FinalIsLatestReport, NarrationsSettled, NarrationsDecided
<1>7. QED
  BY <1>2, <1>4, <1>5, <1>6 DEF ReportsInv

\* No row of the snapshot leaves its bound.
LEMMA SourcesMove ==
    ASSUME sources \in Snapshots, MayEdit
    PROVE  /\ [sources EXCEPT !.evidence = @ + 1] \in Snapshots
           /\ [sources EXCEPT !.people = @ + 1] \in Snapshots
BY ReportsAssumption DEF Snapshots, MayEdit

\* A draft whose text changes stays the same draft.
LEMMA DraftRevisionMoves ==
    ASSUME NEW d \in Drafts, d.revision < MaxRevision
    PROVE  /\ [d EXCEPT !.revision = @ + 1] \in Drafts
           /\ [d EXCEPT !.revision = @ + 1].status = d.status
BY ReportsAssumption DEF Drafts

LEMMA RefreshedHolds ==
    ASSUME draft \in Drafts, RefreshUntouchedPeople
    PROVE  draft' \in Drafts /\ draft'.status = draft.status /\ (draft.status # "DRAFT" => draft' = draft)
BY DraftRevisionMoves DEF RefreshUntouchedPeople, Bump

LEMMA RequestChanges ==
    ASSUME NEW r \in Requests
    PROVE  /\ \A s \in {"idle", "sent", "checked", "rendered"} :
                /\ [r EXCEPT !.step = s] \in Requests
                /\ [r EXCEPT !.step = s].step = s /\ [r EXCEPT !.step = s].kind = r.kind
                /\ [r EXCEPT !.step = s].sources = r.sources
           /\ \A x \in Snapshots :
                /\ [r EXCEPT !.step = "rendered", !.sources = x] \in Requests
                /\ [r EXCEPT !.step = "rendered", !.sources = x].step = "rendered"
                /\ [r EXCEPT !.step = "rendered", !.sources = x].kind = r.kind
                /\ [r EXCEPT !.step = "rendered", !.sources = x].sources = x
BY DEF Requests

LEMMA NoRequestTyped == NoRequest \in Requests /\ NoRequest.step = "idle" /\ NoRequest.kind = "none"
BY ReportsAssumption DEF NoRequest, Requests, Original, Snapshots, States, Following

LEMMA InvInit == ReportsInit => ReportsInv
<1> SUFFICES ASSUME ReportsInit PROVE ReportsInv
  OBVIOUS
<1> USE DEF ReportsInit
<1>1. Original \in Snapshots /\ NoDraft \in Drafts /\ NoDraft.status = "NONE"
  BY ReportsAssumption DEF Original, Snapshots, NoDraft, Drafts, Statuses
<1>2. \A c \in Clients : asked[c] \in Requests /\ asked[c].step = "idle"
  BY NoRequestTyped
<1>3. asked \in [Clients -> Requests]
  BY <1>2
<1>4. state \in States /\ gaps \subseteq Gaps
  BY DEF States, Following, Gaps
<1>5. reports \in Seq(Issued) /\ attempts \in [Dictations -> Seq({"ACTIVE"} \cup JobEnds)]
  OBVIOUS
<1>6. narration \in [Dictations -> Narrations] /\ issues \in 0..MaxIssues
  BY ReportsAssumption DEF Narrations
<1>7. ReportTyping
  BY <1>1, <1>3, <1>4, <1>5, <1>6 DEF ReportTyping
<1>8. Locking /\ CheckStands /\ IssueStands /\ RenderStands /\ FilesInOrder /\ Started
  BY <1>2, ReportsAssumption DEF Locking, Working, CheckStands, IssueStands, RenderStands, FilesInOrder, Started
<1>9. IssuedReportsHold /\ NarrationsSettled
  BY <1>1 DEF IssuedReportsHold, IssuedAsReviewed, ReportsOnDisk, FinalIsLatestReport, NarrationsSettled
<1>10. QED
  BY <1>7, <1>8, <1>9 DEF ReportsInv

----------------------------------------------------------------------------
(* Requests on their way, and the first step of each *)

LEMMA AskKeeps ==
    ASSUME ReportsInv, NEW c \in Clients, NEW kind \in {"review", "issue", "create", "details"}, Ask(c, kind)
    PROVE  ReportsInv'
<1>1. asked' \in [Clients -> Requests] /\ asked'[c].step = "sent"
  <2> DEFINE r == [NoRequest EXCEPT !.kind = kind, !.step = "sent",
             !.revision = IF kind \in {"review", "issue"} THEN draft.revision ELSE 0,
             !.sources = IF kind = "review" THEN sources ELSE Original,
             !.state = IF kind \in {"create", "details"} THEN state ELSE "DRAFT"]
  <2>1. r \in Requests /\ r.step = "sent"
    <3>1. "DRAFT" \in States /\ Original \in Snapshots /\ 0 \in 0..MaxRevision
      BY ReportsAssumption DEF Original, Snapshots, States, Following
    <3>2. state \in States /\ draft.revision \in 0..MaxRevision /\ sources \in Snapshots
      BY DEF ReportsInv, ReportTyping, Drafts
    <3>3. QED
      BY <3>1, <3>2 DEF NoRequest, Requests
  <2>2. asked' = [asked EXCEPT ![c] = r]
    BY DEF Ask
  <2> HIDE DEF r
  <2>3. QED
    BY <2>1, <2>2 DEF ReportsInv, ReportTyping
<1>2. ReportTyping'
  BY <1>1 DEF ReportsInv, ReportTyping, Ask, CurrentToken
<1>3. \A b \in Clients : Working(b) \/ Working(b)' => asked'[b] = asked[b]
  BY <1>1 DEF ReportsInv, ReportTyping, Ask, CheckStands, Working
<1>4. QED
  BY <1>2, <1>3, BesideTheLock DEF Ask, ReportsInv, Started

LEMMA DropKeeps ==
    ASSUME ReportsInv, NEW c \in Clients, Drop(c)
    PROVE  ReportsInv'
<1>1. asked' = [asked EXCEPT ![c] = NoRequest] /\ asked'[c].step = "idle"
  BY NoRequestTyped DEF ReportsInv, ReportTyping, Drop, Done
<1>2. ReportTyping'
  BY <1>1, NoRequestTyped DEF ReportsInv, ReportTyping, Drop
<1>3. \A b \in Clients : Working(b) \/ Working(b)' => asked'[b] = asked[b]
  BY <1>1 DEF ReportsInv, ReportTyping, Drop, Working
<1>4. QED
  BY <1>2, <1>3, BesideTheLock DEF Drop, ReportsInv, Started

\* While nobody has the lock, nobody is working, and a request that ends is not either.
LEMMA NobodyWorks ==
    ASSUME ReportsInv, Unlocked
    PROVE  /\ \A c \in Clients : asked[c].step \notin {"checked", "rendered"}
           /\ \A b, c \in Clients :
                 asked' = [asked EXCEPT ![b] = NoRequest] => asked'[c].step \notin {"checked", "rendered"}
BY ReportsAssumption, NoRequestTyped DEF ReportsInv, ReportTyping, Locking, Working, Unlocked

LEMMA NarrationsAreSettled ==
    ASSUME ReportsInv, narration' = narration, NEW d \in Dictations
    PROVE  /\ narration'[d].inserted = IF narration'[d].status = "ACCEPTED" THEN 1 ELSE 0
           /\ narration'[d].status = "ACCEPTED" => narration'[d].result /\ narration'[d].audio
BY DEF ReportsInv, NarrationsSettled

LEMMA CreateDraftKeeps ==
    ASSUME ReportsInv, NEW c \in Clients, CreateDraft(c)
    PROVE  ReportsInv'
<1> USE DEF CreateDraft, Sent, Done
<1>1. draft' \in Drafts /\ draft'.status = "DRAFT"
  BY ReportsAssumption DEF NoDraft, Drafts, Statuses
<1>2. ReportTyping'
  BY <1>1, NoRequestTyped DEF ReportsInv, ReportTyping
<1>3. \A b \in Clients : asked'[b].step \notin {"checked", "rendered"}
  BY NobodyWorks
<1>4. state' # "CLOSED"
  BY DEF ReportsInv, IssuedReportsHold, FinalIsLatestReport
<1>5. QED
  BY <1>1, <1>2, <1>3, <1>4, UnlockedSteps, NarrationsAreSettled DEF ReportsInv, Started

LEMMA EditDetailsKeeps ==
    ASSUME ReportsInv, NEW c \in Clients, EditDetails(c)
    PROVE  ReportsInv'
<1> USE DEF EditDetails, Sent, Done, EvidenceChanged, EvidenceMoves
<1>1. draft' \in Drafts /\ draft'.status = draft.status /\ (draft.status # "DRAFT" => draft' = draft)
  BY RefreshedHolds DEF ReportsInv, ReportTyping
<1>2. state' \in States /\ (state' = "CLOSED" => state = "CLOSED")
  BY DEF ReportsInv, ReportTyping, States, Following
<1>3. gaps' \subseteq Gaps
  BY DEF ReportsInv, ReportTyping, Gaps
<1>4. ReportTyping'
  BY <1>1, <1>2, <1>3, NoRequestTyped, SourcesMove DEF ReportsInv, ReportTyping
<1>5. \A b \in Clients : asked'[b].step \notin {"checked", "rendered"}
  BY NobodyWorks
<1>6. draft'.status = "FINAL" => draft' = draft /\ NarrationsDecided'
  BY <1>1 DEF ReportsInv, NarrationsSettled, NarrationsDecided
<1>7. state' = "CLOSED" => draft'.status = "FINAL"
  BY <1>1, <1>2 DEF ReportsInv, IssuedReportsHold, FinalIsLatestReport
<1>8. QED
  BY <1>4, <1>5, <1>6, <1>7, UnlockedSteps, NarrationsAreSettled DEF ReportsInv, Started

----------------------------------------------------------------------------
(* Reviews and issues *)

\* A handler that finds the lock free and takes it is the only one at work.
LEMMA TakesLock ==
    ASSUME ReportsInv, NEW c \in Clients, Unlocked, lock' = c,
           asked' = [asked EXCEPT ![c].step = "checked"]
    PROVE  /\ asked' \in [Clients -> Requests] /\ lock' \in Clients \cup {NoClient}
           /\ asked'[c].step = "checked" /\ asked'[c].kind = asked[c].kind
           /\ asked'[c].sources = asked[c].sources
           /\ \A b \in Clients \ {c} : ~Working(b) /\ asked'[b] = asked[b]
           /\ Locking'
<1>1. asked[c] \in Requests
  BY DEF ReportsInv, ReportTyping
<1>2. /\ [asked[c] EXCEPT !.step = "checked"] \in Requests
      /\ [asked[c] EXCEPT !.step = "checked"].step = "checked"
      /\ [asked[c] EXCEPT !.step = "checked"].kind = asked[c].kind
      /\ [asked[c] EXCEPT !.step = "checked"].sources = asked[c].sources
  BY <1>1, RequestChanges
<1>3. asked' = [asked EXCEPT ![c] = [asked[c] EXCEPT !.step = "checked"]]
  OBVIOUS
<1>4. \A b \in Clients \ {c} : ~Working(b) /\ asked'[b] = asked[b]
  BY <1>3, NobodyWorks DEF Working, ReportsInv, ReportTyping
<1>5. asked' \in [Clients -> Requests] /\ asked'[c] = [asked[c] EXCEPT !.step = "checked"]
  BY <1>2, <1>3 DEF ReportsInv, ReportTyping
<1>6. Locking'
  BY <1>2, <1>4, <1>5 DEF Locking, Working
<1>7. QED
  BY <1>2, <1>4, <1>5, <1>6

\* The lock is given back.
LEMMA GivesLockBack ==
    ASSUME ReportsInv, NEW c \in Clients, Working(c), lock' = NoClient, Done(c)
    PROVE  /\ asked' \in [Clients -> Requests] /\ lock' \in Clients \cup {NoClient}
           /\ \A b \in Clients : ~Working(b)'
           /\ Locking'
<1>1. \A b \in Clients \ {c} : ~Working(b)
  BY DEF ReportsInv, Locking
<1>2. asked' \in [Clients -> Requests]
  BY NoRequestTyped DEF ReportsInv, ReportTyping, Done
<1>3. \A b \in Clients : ~Working(b)'
  BY <1>1, NoRequestTyped DEF ReportsInv, ReportTyping, Done, Working
<1>4. QED
  BY <1>2, <1>3, ReportsAssumption DEF Locking

LEMMA ReviewCheckKeeps ==
    ASSUME ReportsInv, NEW c \in Clients, ReviewCheck(c)
    PROVE  ReportsInv'
<1>1. /\ asked' \in [Clients -> Requests] /\ lock' \in Clients \cup {NoClient}
      /\ asked'[c].step = "checked" /\ asked'[c].kind = "review"
      /\ \A b \in Clients \ {c} : ~Working(b) /\ asked'[b] = asked[b]
      /\ Locking'
  BY TakesLock DEF ReviewCheck, Sent
<1>2. ReportTyping'
  BY <1>1 DEF ReportsInv, ReportTyping, ReviewCheck
<1>3. CheckStands' /\ IssueStands' /\ RenderStands'
  BY <1>1 DEF CheckStands, IssueStands, RenderStands, Working, ReviewCheck, Editable, NarrationsDecided
<1>4. FilesInOrder' /\ Started' /\ IssuedReportsHold' /\ NarrationsSettled'
  BY DEF ReviewCheck, ReportsInv, FilesInOrder, Started, IssuedReportsHold, IssuedAsReviewed,
     ReportsOnDisk, FinalIsLatestReport, NarrationsSettled, NarrationsDecided
<1>5. QED
  BY <1>1, <1>2, <1>3, <1>4 DEF ReportsInv

\* The steps that end a review or an issue without a report leave at most another review.
LEMMA ReviewStoreKeeps ==
    ASSUME ReportsInv, NEW c \in Clients, ReviewStore(c)
    PROVE  ReportsInv'
<1>1. Working(c) /\ draft.status = "DRAFT"
  BY DEF ReviewStore, Working, ReportsInv, CheckStands
<1>2. /\ asked' \in [Clients -> Requests] /\ lock' \in Clients \cup {NoClient}
      /\ \A b \in Clients : ~Working(b)'
      /\ Locking'
  BY <1>1, GivesLockBack DEF ReviewStore
<1>3. CurrentToken \in Reviews
  BY DEF ReportsInv, ReportTyping, CurrentToken, Reviews, Drafts
<1>4. draft' \in Drafts /\ draft'.status = "DRAFT"
  BY <1>1, <1>3 DEF ReviewStore, ReportsInv, ReportTyping, Drafts
<1>5. ReportTyping'
  BY <1>2, <1>4 DEF ReportsInv, ReportTyping, ReviewStore
<1>6. CheckStands' /\ IssueStands' /\ RenderStands'
  BY <1>2 DEF CheckStands, IssueStands, RenderStands, Working
<1>7. FilesInOrder' /\ Started' /\ NarrationsSettled'
  BY <1>4 DEF ReviewStore, ReportsInv, FilesInOrder, Started, NarrationsSettled
<1>8. IssuedReportsHold'
  BY <1>1, <1>4 DEF ReviewStore, ReportsInv, IssuedReportsHold, IssuedAsReviewed, ReportsOnDisk,
     FinalIsLatestReport
<1>9. QED
  BY <1>2, <1>5, <1>6, <1>7, <1>8 DEF ReportsInv

LEMMA IssueCheckKeeps ==
    ASSUME ReportsInv, NEW c \in Clients, IssueCheck(c)
    PROVE  ReportsInv'
<1>1. /\ asked' \in [Clients -> Requests] /\ lock' \in Clients \cup {NoClient}
      /\ asked'[c].step = "checked" /\ asked'[c].kind = "issue"
      /\ \A b \in Clients \ {c} : ~Working(b) /\ asked'[b] = asked[b]
      /\ Locking'
  BY TakesLock DEF IssueCheck, Sent
<1>2. issues' \in 1..MaxIssues /\ issues \in Nat
  BY ReportsAssumption DEF ReportsInv, ReportTyping, IssueCheck
<1>3. ReportTyping'
  BY <1>1, <1>2 DEF ReportsInv, ReportTyping, IssueCheck
<1>4. \A n \in DOMAIN reports : reports[n].id \in Nat /\ reports[n].id < issues'
  <2>1. \A n \in DOMAIN reports : reports[n] \in Issued
    BY DEF ReportsInv, ReportTyping
  <2>2. \A n \in DOMAIN reports : reports[n].id <= issues
    BY DEF ReportsInv, FilesInOrder
  <2>3. QED
    BY <1>2, <2>1, <2>2, ReportsAssumption DEF Issued, IssueCheck
<1>5. CheckStands' /\ IssueStands' /\ RenderStands'
  BY <1>1, <1>2, <1>4 DEF CheckStands, IssueStands, RenderStands, Working, IssueCheck, Editable,
     NarrationsDecided, CurrentToken
<1>6. FilesInOrder'
  BY <1>2, <1>4 DEF IssueCheck, ReportsInv, FilesInOrder
<1>7. Started' /\ IssuedReportsHold' /\ NarrationsSettled'
  BY DEF IssueCheck, ReportsInv, Started, IssuedReportsHold, IssuedAsReviewed,
     ReportsOnDisk, FinalIsLatestReport, NarrationsSettled, NarrationsDecided
<1>8. QED
  BY <1>1, <1>3, <1>5, <1>6, <1>7 DEF ReportsInv

LEMMA IssueRenderKeeps ==
    ASSUME ReportsInv, NEW c \in Clients, IssueRender(c)
    PROVE  ReportsInv'
<1> DEFINE r == [asked[c] EXCEPT !.step = "rendered", !.sources = sources]
<1>1. r \in Requests /\ r.step = "rendered" /\ r.kind = asked[c].kind /\ r.sources = sources
  <2>1. asked[c] \in Requests /\ sources \in Snapshots
    BY DEF ReportsInv, ReportTyping
  <2>2. \A q \in Requests : \A x \in Snapshots :
           /\ [q EXCEPT !.step = "rendered", !.sources = x] \in Requests
           /\ [q EXCEPT !.step = "rendered", !.sources = x].step = "rendered"
           /\ [q EXCEPT !.step = "rendered", !.sources = x].kind = q.kind
           /\ [q EXCEPT !.step = "rendered", !.sources = x].sources = x
    BY RequestChanges
  <2>3. QED
    BY <2>1, <2>2
<1>2. asked' = [asked EXCEPT ![c] = r]
  BY DEF IssueRender
<1> HIDE DEF r
<1>3. /\ asked' \in [Clients -> Requests] /\ asked'[c] = r
      /\ \A b \in Clients \ {c} : asked'[b] = asked[b]
  BY <1>1, <1>2 DEF ReportsInv, ReportTyping
<1>4. ReportTyping'
  BY <1>3 DEF ReportsInv, ReportTyping, IssueRender
<1>5. Working(c) /\ \A b \in Clients : Working(b)' <=> Working(b)
  BY <1>1, <1>3 DEF Working, IssueRender
<1>6. Locking'
  BY <1>5 DEF Locking, ReportsInv, IssueRender
<1>7. \A b \in Clients : asked'[b].kind = asked[b].kind
  BY <1>1, <1>3
<1>8. CheckStands' /\ IssueStands'
  BY <1>5, <1>7 DEF IssueRender, ReportsInv, CheckStands, IssueStands, NarrationsDecided, CurrentToken
<1>9. RenderStands'
  BY <1>1, <1>3 DEF IssueRender, ReportsInv, RenderStands
<1>10. FilesInOrder' /\ Started' /\ IssuedReportsHold' /\ NarrationsSettled'
  BY DEF IssueRender, ReportsInv, FilesInOrder, Started, IssuedReportsHold, IssuedAsReviewed,
     ReportsOnDisk, FinalIsLatestReport, NarrationsSettled, NarrationsDecided
<1>11. QED
  BY <1>4, <1>6, <1>8, <1>9, <1>10 DEF ReportsInv

LEMMA IssueWriteKeeps ==
    ASSUME ReportsInv, NEW c \in Clients, IssueWrite(c)
    PROVE  ReportsInv'
<1>1. issues \in 1..MaxIssues
  BY DEF IssueWrite, ReportsInv, IssueStands, Working
<1>2. \E a \in Artifacts :
        /\ files' = files \cup {<<issues, a>>}
        /\ a = "context" => <<issues, "html">> \in files /\ <<issues, "pdf">> \in files
  BY DEF IssueWrite, Artifacts
<1>3. PICK a \in Artifacts :
        /\ files' = files \cup {<<issues, a>>}
        /\ a = "context" => <<issues, "html">> \in files /\ <<issues, "pdf">> \in files
  BY <1>2
<1>4. ReportTyping'
  BY <1>1, <1>3 DEF IssueWrite, ReportsInv, ReportTyping
<1>5. FilesInOrder'
  <2>1. \A i \in 1..MaxIssues : <<i, "context">> \in files' =>
           <<i, "html">> \in files' /\ <<i, "pdf">> \in files'
    BY <1>3 DEF ReportsInv, FilesInOrder, Artifacts
  <2>2. QED
    BY <2>1 DEF IssueWrite, ReportsInv, FilesInOrder
<1>6. IssuedReportsHold'
  BY <1>3 DEF IssueWrite, ReportsInv, IssuedReportsHold, IssuedAsReviewed, ReportsOnDisk, FinalIsLatestReport
<1>7. Locking' /\ CheckStands' /\ IssueStands' /\ RenderStands' /\ Started' /\ NarrationsSettled'
  BY DEF IssueWrite, ReportsInv, Locking, CheckStands, IssueStands, RenderStands, Working, Started,
     NarrationsSettled, NarrationsDecided, CurrentToken
<1>8. QED
  BY <1>4, <1>5, <1>6, <1>7 DEF ReportsInv

\* The report that is added is the one that was reviewed, the only one of its attempt, and on disk.
LEMMA IssueCommitKeeps ==
    ASSUME ReportsInv, NEW c \in Clients, IssueCommit(c)
    PROVE  ReportsInv'
<1> DEFINE new == [id |-> issues, revision |-> draft.revision,
                   sources |-> asked[c].sources, review |-> draft.review]
<1>1. /\ Working(c) /\ draft.status = "DRAFT" /\ NarrationsDecided
      /\ CurrentToken \in draft.review /\ asked[c].sources = sources
      /\ issues \in 1..MaxIssues
      /\ \A n \in DOMAIN reports : reports[n].id < issues
  BY DEF IssueCommit, Working, ReportsInv, CheckStands, IssueStands, RenderStands
<1>2. /\ asked' \in [Clients -> Requests] /\ lock' \in Clients \cup {NoClient}
      /\ \A b \in Clients : ~Working(b)'
      /\ Locking'
  BY <1>1, GivesLockBack DEF IssueCommit
<1>3. /\ new \in Issued /\ new.id = issues /\ new.revision = draft.revision
      /\ new.sources = sources /\ new.review = draft.review
  BY <1>1 DEF ReportsInv, ReportTyping, Drafts, Issued
<1>4. /\ draft' \in Drafts /\ draft'.status = "FINAL" /\ draft'.revision = draft.revision
      /\ draft'.issued = {sources}
  BY <1>1 DEF IssueCommit, ReportsInv, ReportTyping, Drafts, Statuses
<1>5. reports' = Append(reports, new)
  BY DEF IssueCommit
<1>6. [revision |-> new.revision, sources |-> new.sources] \in new.review
  BY <1>1, <1>3 DEF CurrentToken
<1> HIDE DEF new
<1>7. /\ reports \in Seq(Issued) /\ reports' \in Seq(Issued) /\ Len(reports') = Len(reports) + 1
      /\ reports'[Len(reports')] = new
      /\ \A n \in DOMAIN reports' : n = Len(reports') \/ (n \in DOMAIN reports /\ reports'[n] = reports[n])
  BY <1>3, <1>5 DEF ReportsInv, ReportTyping
<1>8. ReportTyping'
  BY <1>2, <1>4, <1>7 DEF ReportsInv, ReportTyping, IssueCommit
<1>9. CheckStands' /\ IssueStands' /\ RenderStands'
  BY <1>2 DEF CheckStands, IssueStands, RenderStands, Working
<1>10. FilesInOrder'
  <2>1. \A n \in DOMAIN reports : reports[n].id <= issues
    BY DEF ReportsInv, FilesInOrder
  <2>2. issues <= issues
    BY <1>1
  <2>3. \A n \in DOMAIN reports' : reports'[n].id <= issues
    BY <2>1, <2>2, <1>3, <1>7
  <2>4. QED
    BY <2>3 DEF IssueCommit, ReportsInv, FilesInOrder
<1>11. IssuedAsReviewed'
  BY <1>6, <1>7 DEF ReportsInv, IssuedReportsHold, IssuedAsReviewed
<1>12. ReportsOnDisk'
  <2>1. \A a \in Artifacts : <<issues, a>> \in files
    BY <1>1 DEF IssueCommit, ReportsInv, FilesInOrder, Artifacts
  <2>2. \A n \in DOMAIN reports' : \A a \in Artifacts : <<reports'[n].id, a>> \in files
    BY <2>1, <1>3, <1>7 DEF ReportsInv, IssuedReportsHold, ReportsOnDisk
  <2>3. \A m, n \in DOMAIN reports' : reports'[m].id = reports'[n].id => m = n
    <3>1. \A n \in DOMAIN reports : reports[n].id # issues
      BY SMTT(60), <1>1, <1>7 DEF Issued
    <3>2. \A m, n \in DOMAIN reports : reports[m].id = reports[n].id => m = n
      BY DEF ReportsInv, IssuedReportsHold, ReportsOnDisk
    <3>3. QED
      BY <3>1, <3>2, <1>3, <1>7
  <2>4. QED
    BY <2>2, <2>3 DEF ReportsOnDisk, IssueCommit
<1>13. FinalIsLatestReport'
  <2>1. reports' # <<>>
    BY <1>7
  <2>2. QED
    BY <2>1, <1>3, <1>4, <1>7 DEF FinalIsLatestReport
<1>14. NarrationsSettled' /\ Started'
  BY <1>1 DEF IssueCommit, ReportsInv, NarrationsSettled, NarrationsDecided, Started
<1>15. QED
  BY <1>2, <1>8, <1>9, <1>10, <1>11, <1>12, <1>13, <1>14 DEF ReportsInv, IssuedReportsHold

LEMMA IssueFailsKeeps ==
    ASSUME ReportsInv, NEW c \in Clients, IssueFails(c)
    PROVE  ReportsInv'
<1>1. Working(c)
  BY DEF IssueFails, ReportsInv, Locking
<1>2. /\ asked' \in [Clients -> Requests] /\ lock' \in Clients \cup {NoClient}
      /\ \A b \in Clients : ~Working(b)'
      /\ Locking'
  BY <1>1, GivesLockBack DEF IssueFails
<1>3. ReportTyping'
  BY <1>2 DEF ReportsInv, ReportTyping, IssueFails
<1>4. CheckStands' /\ IssueStands' /\ RenderStands'
  BY <1>2 DEF CheckStands, IssueStands, RenderStands, Working
<1>5. FilesInOrder' /\ Started' /\ IssuedReportsHold' /\ NarrationsSettled'
  BY DEF IssueFails, ReportsInv, FilesInOrder, Started, IssuedReportsHold, IssuedAsReviewed,
     ReportsOnDisk, FinalIsLatestReport, NarrationsSettled, NarrationsDecided
<1>6. QED
  BY <1>2, <1>3, <1>4, <1>5 DEF ReportsInv

----------------------------------------------------------------------------
(* Requests of one step *)

\* The text changes and its review is forgotten.
LEMMA ReviewForgotten ==
    ASSUME NEW d \in Drafts, d.revision < MaxRevision
    PROVE  /\ [d EXCEPT !.revision = @ + 1, !.review = {}] \in Drafts
           /\ [d EXCEPT !.revision = @ + 1, !.review = {}].status = d.status
           /\ [d EXCEPT !.status = "DRAFT", !.review = {}, !.revision = @ + 1] \in Drafts
           /\ [d EXCEPT !.status = "DRAFT", !.review = {}, !.revision = @ + 1].status = "DRAFT"
<1>1. d.revision + 1 \in 0..MaxRevision
  BY ReportsAssumption DEF Drafts
<1>2. \A i \in 0..MaxRevision :
        /\ [d EXCEPT !.revision = i, !.review = {}] \in Drafts
        /\ [d EXCEPT !.revision = i, !.review = {}].status = d.status
        /\ [d EXCEPT !.status = "DRAFT", !.review = {}, !.revision = i] \in Drafts
        /\ [d EXCEPT !.status = "DRAFT", !.review = {}, !.revision = i].status = "DRAFT"
  BY DEF Drafts, Statuses
<1>3. QED
  BY <1>1, <1>2

LEMMA SaveReportKeeps ==
    ASSUME ReportsInv, SaveReport \/ RefreshSources
    PROVE  ReportsInv'
<1>1. /\ Unlocked /\ draft.status = "DRAFT" /\ draft.revision < MaxRevision
      /\ UNCHANGED <<state, sources, reports, files, issues, asked, lock, narration, attempts>>
  BY DEF SaveReport, RefreshSources, Editable, Bump
<1>2. draft' \in Drafts /\ draft'.status = "DRAFT"
  <2>1. draft \in Drafts
    BY DEF ReportsInv, ReportTyping
  <2>2. /\ [draft EXCEPT !.revision = @ + 1, !.review = {}] \in Drafts
        /\ [draft EXCEPT !.revision = @ + 1, !.review = {}].status = draft.status
    BY <1>1, <2>1, ReviewForgotten
  <2>3. QED
    BY <1>1, <2>1, <2>2, DraftRevisionMoves DEF SaveReport, RefreshSources
<1>3. gaps' \subseteq Gaps
  BY DEF SaveReport, RefreshSources, ContentMayChange, ReportsInv, ReportTyping, Gaps
<1>4. ReportTyping'
  BY <1>1, <1>2, <1>3 DEF ReportsInv, ReportTyping
<1>5. \A c \in Clients : asked'[c].step \notin {"checked", "rendered"}
  BY <1>1, NobodyWorks
<1>6. state' # "CLOSED"
  BY <1>1 DEF ReportsInv, IssuedReportsHold, FinalIsLatestReport
<1>7. QED
  BY <1>1, <1>2, <1>4, <1>5, <1>6, UnlockedSteps, NarrationsAreSettled DEF ReportsInv, Started

LEMMA ReopenReportKeeps ==
    ASSUME ReportsInv, ReopenReport
    PROVE  ReportsInv'
<1> USE DEF ReopenReport
<1>1. draft' \in Drafts /\ draft'.status = "DRAFT"
  <2>1. draft \in Drafts
    BY DEF ReportsInv, ReportTyping
  <2>2. draft' = [draft EXCEPT !.status = "DRAFT", !.review = {}, !.revision = @ + 1]
    OBVIOUS
  <2>3. QED
    BY <2>1, <2>2, ReviewForgotten DEF Bump
<1>2. ReportTyping'
  BY <1>1 DEF ReportsInv, ReportTyping, States, Following
<1>3. \A c \in Clients : asked'[c].step \notin {"checked", "rendered"}
  BY NobodyWorks
<1>4. QED
  BY <1>1, <1>2, <1>3, UnlockedSteps, NarrationsAreSettled DEF ReportsInv, Started

LEMMA MoveWorkflowKeeps ==
    ASSUME ReportsInv, NEW target \in States, MoveWorkflow(target)
    PROVE  ReportsInv'
<1> USE DEF MoveWorkflow
<1>1. ReportTyping'
  BY DEF ReportsInv, ReportTyping
<1>2. \A c \in Clients : asked'[c].step \notin {"checked", "rendered"}
  BY NobodyWorks
<1>3. state' = "CLOSED" => draft'.status = "FINAL"
  BY DEF ReportAllows
<1>4. draft'.status = "FINAL" => draft' = draft /\ NarrationsDecided'
  BY DEF ReportsInv, NarrationsSettled, NarrationsDecided
<1>5. QED
  BY <1>1, <1>2, <1>3, <1>4, UnlockedSteps, NarrationsAreSettled DEF ReportsInv, Started

LEMMA EditEvidenceKeeps ==
    ASSUME ReportsInv, EditEvidence
    PROVE  ReportsInv'
<1> USE DEF EditEvidence, EvidenceChanged, EvidenceMoves
<1>1. draft' \in Drafts /\ draft'.status = draft.status /\ (draft.status # "DRAFT" => draft' = draft)
  BY RefreshedHolds DEF ReportsInv, ReportTyping
<1>2. state' \in States /\ (state' = "CLOSED" => state = "CLOSED")
  BY DEF ReportsInv, ReportTyping, States, Following
<1>3. ReportTyping'
  BY <1>1, <1>2, SourcesMove DEF ReportsInv, ReportTyping
<1>4. \A c \in Clients : asked'[c].step \notin {"checked", "rendered"}
  BY NobodyWorks
<1>5. draft'.status = "FINAL" => draft' = draft /\ NarrationsDecided'
  BY <1>1 DEF ReportsInv, NarrationsSettled, NarrationsDecided
<1>6. state' = "CLOSED" => draft'.status = "FINAL"
  BY <1>1, <1>2 DEF ReportsInv, IssuedReportsHold, FinalIsLatestReport
<1>7. QED
  BY <1>3, <1>4, <1>5, <1>6, UnlockedSteps, NarrationsAreSettled DEF ReportsInv, Started

LEMMA EditPeopleKeeps ==
    ASSUME ReportsInv, EditPeople
    PROVE  ReportsInv'
<1>1. gaps' \subseteq Gaps
  BY DEF EditPeople, ContentMayChange, ReportsInv, ReportTyping, Gaps
<1>2. ReportTyping'
  BY <1>1, SourcesMove DEF EditPeople, ReportsInv, ReportTyping
<1>3. QED
  BY <1>2, BesideTheLock DEF EditPeople, ReportsInv, Started

----------------------------------------------------------------------------
(* Narrations *)

\* A narration, field by field, after each change.
Becomes(x, s, result, audio, inserted) ==
    /\ x \in Narrations
    /\ x.status = s /\ x.result = result /\ x.audio = audio /\ x.inserted = inserted

LEMMA NarrationChanges ==
    ASSUME NEW x \in Narrations, NEW s \in {"NONE", "PENDING", "READY", "ACCEPTED", "DISMISSED"}
    PROVE  /\ Becomes([x EXCEPT !.status = s], s, x.result, x.audio, x.inserted)
           /\ Becomes([x EXCEPT !.result = TRUE, !.status = s], s, TRUE, x.audio, x.inserted)
           /\ Becomes([x EXCEPT !.status = s, !.inserted = @ + 1], s, x.result, x.audio, x.inserted + 1)
           /\ Becomes([x EXCEPT !.audio = TRUE], x.status, x.result, TRUE, x.inserted)
<1>1. Becomes([x EXCEPT !.status = s], s, x.result, x.audio, x.inserted)
  BY DEF Narrations, Becomes
<1>2. Becomes([x EXCEPT !.result = TRUE, !.status = s], s, TRUE, x.audio, x.inserted)
  BY DEF Narrations, Becomes
<1>3. Becomes([x EXCEPT !.status = s, !.inserted = @ + 1], s, x.result, x.audio, x.inserted + 1)
  <2>1. x.inserted + 1 \in Nat
    BY DEF Narrations
  <2>2. \A i \in Nat : Becomes([x EXCEPT !.status = s, !.inserted = i], s, x.result, x.audio, i)
    BY DEF Narrations, Becomes
  <2>3. QED
    BY <2>1, <2>2
<1>4. Becomes([x EXCEPT !.audio = TRUE], x.status, x.result, TRUE, x.inserted)
  BY DEF Narrations, Becomes
<1>5. QED
  BY <1>1, <1>2, <1>3, <1>4

\* One narration becomes x, and its jobs become `jobs`.
LEMMA NarrationBecomes ==
    ASSUME ReportsInv, Unlocked, NEW d \in Dictations, NEW x \in Narrations,
           NEW jobs \in Seq({"ACTIVE"} \cup JobEnds),
           narration' = [narration EXCEPT ![d] = x], attempts' = [attempts EXCEPT ![d] = jobs],
           UNCHANGED <<state, sources, reports, files, issues, asked, lock>>,
           draft' \in Drafts, draft'.status = draft.status, gaps' \subseteq Gaps,
           draft.status = "FINAL" => /\ draft' = draft
                                     /\ x.status \notin {"PENDING", "READY"}
                                     /\ x.status = "ACCEPTED" => x.audio,
           x.status = "NONE" => jobs = <<>>, x.status = "READY" => x.result,
           x.inserted = IF x.status = "ACCEPTED" THEN 1 ELSE 0,
           x.status = "ACCEPTED" => x.result /\ x.audio
    PROVE  ReportsInv'
<1>1. /\ narration' \in [Dictations -> Narrations] /\ narration'[d] = x /\ attempts'[d] = jobs
      /\ attempts' \in [Dictations -> Seq({"ACTIVE"} \cup JobEnds)]
      /\ \A e \in Dictations \ {d} : narration'[e] = narration[e] /\ attempts'[e] = attempts[e]
  BY DEF ReportsInv, ReportTyping
<1>2. ReportTyping'
  BY <1>1 DEF ReportsInv, ReportTyping
<1>3. \A c \in Clients : asked'[c].step \notin {"checked", "rendered"}
  BY NobodyWorks
<1>4. draft'.status = "FINAL" => draft' = draft /\ NarrationsDecided'
  BY <1>1 DEF ReportsInv, NarrationsSettled, NarrationsDecided
<1>5. state' = "CLOSED" => draft'.status = "FINAL"
  BY DEF ReportsInv, IssuedReportsHold, FinalIsLatestReport
<1>6. Started'
  BY <1>1 DEF ReportsInv, Started
<1>7. \A e \in Dictations :
        /\ narration'[e].inserted = IF narration'[e].status = "ACCEPTED" THEN 1 ELSE 0
        /\ narration'[e].status = "ACCEPTED" => narration'[e].result /\ narration'[e].audio
  BY <1>1 DEF ReportsInv, NarrationsSettled
<1>8. QED
  BY <1>2, <1>3, <1>4, <1>5, <1>6, <1>7, UnlockedSteps

\* What is known of one narration.
LEMMA OneNarration ==
    ASSUME ReportsInv, NEW d \in Dictations
    PROVE  /\ narration[d] \in Narrations /\ attempts[d] \in Seq({"ACTIVE"} \cup JobEnds)
           /\ narration[d].status \in {"NONE", "PENDING", "READY", "ACCEPTED", "DISMISSED"}
           /\ narration[d].inserted = IF narration[d].status = "ACCEPTED" THEN 1 ELSE 0
           /\ narration[d].status = "ACCEPTED" => narration[d].result /\ narration[d].audio
           /\ narration[d].status = "NONE" => attempts[d] = <<>>
           /\ narration[d].status = "READY" => narration[d].result
           /\ draft.status = "FINAL" => narration[d].status \notin {"PENDING", "READY"}
           /\ draft \in Drafts /\ gaps \subseteq Gaps
           /\ narration = [narration EXCEPT ![d] = narration[d]]
           /\ attempts = [attempts EXCEPT ![d] = attempts[d]]
BY DEF ReportsInv, ReportTyping, NarrationsSettled, NarrationsDecided, Started, Narrations

LEMMA StartNarrationKeeps ==
    ASSUME ReportsInv, NEW d \in Dictations, StartNarration(d)
    PROVE  ReportsInv'
<1> DEFINE x == [narration[d] EXCEPT !.status = "PENDING"]
           jobs == Append(attempts[d], "ACTIVE")
<1>1. x \in Narrations /\ x.status = "PENDING" /\ x.inserted = narration[d].inserted
  <2>1. narration[d] \in Narrations
    BY OneNarration
  <2>2. Becomes(x, "PENDING", narration[d].result, narration[d].audio, narration[d].inserted)
    BY <2>1, NarrationChanges
  <2> HIDE DEF x
  <2>3. QED
    BY <2>2 DEF Becomes
<1>2. /\ narration' = [narration EXCEPT ![d] = x] /\ attempts' = [attempts EXCEPT ![d] = jobs]
      /\ UNCHANGED <<state, sources, reports, files, issues, asked, lock, draft, gaps>>
      /\ Unlocked /\ draft.status = "DRAFT" /\ narration[d].status # "ACCEPTED"
  BY DEF StartNarration, NarrationOnly, MayNarrate, Editable
<1>3. jobs \in Seq({"ACTIVE"} \cup JobEnds)
  BY OneNarration
<1> HIDE DEF x, jobs
<1>4. x.inserted = 0 /\ draft \in Drafts /\ gaps \subseteq Gaps
  BY <1>1, <1>2, OneNarration
<1>5. QED
  BY <1>1, <1>2, <1>3, <1>4, NarrationBecomes

LEMMA EndAttemptKeeps ==
    ASSUME ReportsInv, NEW d \in Dictations, NEW n \in DOMAIN attempts[d],
           NEW outcome \in {"FAILED", "CANCELLED"}, EndAttempt(d, n, outcome)
    PROVE  ReportsInv'
<1> USE DEF EndAttempt, NarrationOnly
<1>1. attempts[d] # <<>> /\ [attempts[d] EXCEPT ![n] = outcome] \in Seq({"ACTIVE"} \cup JobEnds)
  BY OneNarration DEF JobEnds
<1>2. attempts' = [attempts EXCEPT ![d] = [attempts[d] EXCEPT ![n] = outcome]]
  OBVIOUS
<1>3. ReportTyping'
  BY <1>1, <1>2 DEF ReportsInv, ReportTyping
<1>4. Started'
  BY <1>1, <1>2 DEF ReportsInv, Started, ReportTyping
<1>5. QED
  BY <1>3, <1>4, BesideTheLock

LEMMA ReceiveNarrationKeeps ==
    ASSUME ReportsInv, NEW d \in Dictations, NEW n \in DOMAIN attempts[d], ReceiveNarration(d, n)
    PROVE  ReportsInv'
<1> DEFINE s == IF narration[d].status = "DISMISSED" THEN "DISMISSED" ELSE "READY"
           x == [narration[d] EXCEPT !.result = TRUE, !.status = s]
           jobs == [attempts[d] EXCEPT ![n] = "COMPLETED"]
<1>1. x \in Narrations /\ x.status = s /\ x.result /\ x.inserted = narration[d].inserted
  <2>1. s \in {"NONE", "PENDING", "READY", "ACCEPTED", "DISMISSED"} /\ narration[d] \in Narrations
    BY OneNarration
  <2> HIDE DEF s
  <2>2. Becomes(x, s, TRUE, narration[d].audio, narration[d].inserted)
    BY <2>1, NarrationChanges
  <2> HIDE DEF x
  <2>3. QED
    BY <2>2 DEF Becomes
<1>2. /\ narration' = [narration EXCEPT ![d] = x] /\ attempts' = [attempts EXCEPT ![d] = jobs]
      /\ UNCHANGED <<state, sources, reports, files, issues, asked, lock, draft, gaps>>
      /\ Unlocked /\ ~narration[d].result
  BY DEF ReceiveNarration, NarrationOnly
<1>3. jobs \in Seq({"ACTIVE"} \cup JobEnds) /\ attempts[d] # <<>>
  BY OneNarration DEF JobEnds
<1>4. narration[d].status \notin {"NONE", "ACCEPTED"} /\ narration[d].inserted = 0
  BY <1>2, <1>3, OneNarration
<1>5. draft.status = "FINAL" => s = "DISMISSED"
  BY <1>4, OneNarration
<1>6. s \in {"DISMISSED", "READY"} /\ draft \in Drafts /\ gaps \subseteq Gaps
  BY OneNarration
<1> HIDE DEF s, x, jobs
<1>7. QED
  BY <1>1, <1>2, <1>3, <1>4, <1>5, <1>6, NarrationBecomes

LEMMA UploadNarrationKeeps ==
    ASSUME ReportsInv, NEW d \in Dictations, UploadNarration(d)
    PROVE  ReportsInv'
<1> DEFINE x == [narration[d] EXCEPT !.audio = TRUE]
<1>1. /\ x \in Narrations /\ x.status = narration[d].status /\ x.inserted = narration[d].inserted
      /\ x.result = narration[d].result /\ x.audio
  BY OneNarration, NarrationChanges, ZenonT(60) DEF Becomes
<1>2. /\ narration' = [narration EXCEPT ![d] = x] /\ attempts' = [attempts EXCEPT ![d] = attempts[d]]
      /\ UNCHANGED <<state, sources, reports, files, issues, asked, lock, draft, gaps>>
      /\ Unlocked /\ attempts[d] # <<>>
  BY OneNarration DEF UploadNarration, NarrationOnly
<1> HIDE DEF x
<1>3. QED
  BY ZenonT(60), <1>1, <1>2, OneNarration, NarrationBecomes

LEMMA AcceptNarrationKeeps ==
    ASSUME ReportsInv, NEW d \in Dictations, AcceptNarration(d)
    PROVE  ReportsInv'
<1> DEFINE x == [narration[d] EXCEPT !.status = "ACCEPTED", !.inserted = @ + 1]
<1>1. /\ x \in Narrations /\ x.status = "ACCEPTED" /\ x.inserted = narration[d].inserted + 1
      /\ x.result = narration[d].result /\ x.audio = narration[d].audio
  BY ZenonT(60), OneNarration, NarrationChanges DEF Becomes
<1>2. /\ narration' = [narration EXCEPT ![d] = x] /\ attempts' = [attempts EXCEPT ![d] = attempts[d]]
      /\ UNCHANGED <<state, sources, reports, files, issues, asked, lock>>
      /\ Unlocked /\ draft.status = "DRAFT" /\ draft.revision < MaxRevision
      /\ draft' = [draft EXCEPT !.revision = @ + 1] /\ gaps' \subseteq Gaps
      /\ narration[d].status = "READY" /\ narration[d].audio
  BY ZenonT(60), OneNarration DEF AcceptNarration, NarrationOnly, MayNarrate, Editable, Bump, ContentMayChange, Gaps
<1> HIDE DEF x
<1>3. draft' \in Drafts /\ draft'.status = draft.status
  BY <1>2, DraftRevisionMoves, OneNarration
<1>4. narration[d].inserted = 0 /\ narration[d].result /\ attempts[d] \in Seq({"ACTIVE"} \cup JobEnds)
  BY <1>2, OneNarration
<1>5. x.inserted = 1 /\ x.result
  BY <1>1, <1>2, <1>4
<1>6. QED
  BY <1>1, <1>2, <1>3, <1>4, <1>5, NarrationBecomes

LEMMA DismissNarrationKeeps ==
    ASSUME ReportsInv, NEW d \in Dictations, DismissNarration(d)
    PROVE  ReportsInv'
<1> DEFINE x == [narration[d] EXCEPT !.status = "DISMISSED"]
<1>1. x \in Narrations /\ x.status = "DISMISSED" /\ x.inserted = narration[d].inserted
  <2>1. narration[d] \in Narrations
    BY OneNarration
  <2>2. Becomes(x, "DISMISSED", narration[d].result, narration[d].audio, narration[d].inserted)
    BY <2>1, NarrationChanges
  <2> HIDE DEF x
  <2>3. QED
    BY <2>2 DEF Becomes
<1>2. /\ narration' = [narration EXCEPT ![d] = x] /\ attempts' = [attempts EXCEPT ![d] = attempts[d]]
      /\ UNCHANGED <<state, sources, reports, files, issues, asked, lock, draft, gaps>>
      /\ Unlocked /\ narration[d].status # "ACCEPTED"
  BY OneNarration DEF DismissNarration, NarrationOnly
<1> HIDE DEF x
<1>3. QED
  BY <1>1, <1>2, OneNarration, NarrationBecomes

----------------------------------------------------------------------------
LEMMA InvNext == ReportsInv /\ [ReportsNext]_reportVars => ReportsInv'
<1> SUFFICES ASSUME ReportsInv, [ReportsNext]_reportVars PROVE ReportsInv'
  OBVIOUS
<1>1. ASSUME NEW c \in Clients, NEW kind \in {"review", "issue", "create", "details"}, Ask(c, kind)
      PROVE  ReportsInv'
  BY <1>1, AskKeeps
<1>2. ASSUME NEW c \in Clients, \/ Drop(c) \/ CreateDraft(c) \/ EditDetails(c)
      PROVE  ReportsInv'
  BY <1>2, DropKeeps, CreateDraftKeeps, EditDetailsKeeps
<1>3. ASSUME NEW c \in Clients, ReviewCheck(c) \/ ReviewStore(c)
      PROVE  ReportsInv'
  BY <1>3, ReviewCheckKeeps, ReviewStoreKeeps
<1>4. ASSUME NEW c \in Clients,
             IssueCheck(c) \/ IssueRender(c) \/ IssueWrite(c) \/ IssueCommit(c) \/ IssueFails(c)
      PROVE  ReportsInv'
  BY <1>4, IssueCheckKeeps, IssueRenderKeeps, IssueWriteKeeps, IssueCommitKeeps, IssueFailsKeeps
<1>5. ASSUME SaveReport \/ RefreshSources \/ ReopenReport \/ EditEvidence \/ EditPeople
      PROVE  ReportsInv'
  BY <1>5, SaveReportKeeps, ReopenReportKeeps, EditEvidenceKeeps, EditPeopleKeeps
<1>6. ASSUME NEW target \in States, MoveWorkflow(target) PROVE ReportsInv'
  BY <1>6, MoveWorkflowKeeps
<1>7. ReportSteps => ReportsInv'
  BY <1>1, <1>2, <1>3, <1>4, <1>5, <1>6 DEF ReportSteps
<1>8. ASSUME NEW d \in Dictations,
             StartNarration(d) \/ UploadNarration(d) \/ AcceptNarration(d) \/ DismissNarration(d)
      PROVE  ReportsInv'
  BY <1>8, StartNarrationKeeps, UploadNarrationKeeps, AcceptNarrationKeeps, DismissNarrationKeeps
<1>9. ASSUME NEW d \in Dictations, NEW n \in DOMAIN attempts[d], ReceiveNarration(d, n)
      PROVE  ReportsInv'
  BY <1>9, ReceiveNarrationKeeps
<1>10. ASSUME NEW d \in Dictations, NEW n \in DOMAIN attempts[d],
              NEW outcome \in {"FAILED", "CANCELLED"}, EndAttempt(d, n, outcome)
       PROVE  ReportsInv'
  BY <1>10, EndAttemptKeeps
<1>11. NarrationSteps => ReportsInv'
  BY <1>8, <1>9, <1>10 DEF NarrationSteps
<1>12. UNCHANGED reportVars => ReportsInv'
  BY DEF ReportsInv, ReportTyping, Locking, CheckStands, IssueStands, RenderStands, FilesInOrder, Started, Working,
     IssuedReportsHold, IssuedAsReviewed, ReportsOnDisk, FinalIsLatestReport, NarrationsSettled,
     NarrationsDecided, CurrentToken
<1>13. QED
  BY <1>7, <1>11, <1>12 DEF ReportsNext

LEMMA Invariance == ReportsSpec => []ReportsInv
BY InvInit, InvNext, PTL DEF ReportsSpec

\* Types, and that the lock is held between two steps by a check or an issue under way and by
\* nobody else (acquire_session_lock in review_report and finalize_report).
THEOREM ReportsTyping == ReportsSpec => []ReportsTypeOK
<1>1. ReportsInv => ReportsTypeOK
  <2> SUFFICES ASSUME ReportsInv PROVE ReportsTypeOK
    OBVIOUS
  <2>1. \A n \in DOMAIN reports : reports[n] \in Issued
    BY DEF ReportsInv, ReportTyping
  <2>2. \A d \in Dictations : \A n \in DOMAIN attempts[d] :
           attempts[d][n] \in {"ACTIVE", "FAILED", "CANCELLED", "COMPLETED"}
    <3> SUFFICES ASSUME NEW d \in Dictations, NEW n \in DOMAIN attempts[d]
                 PROVE  attempts[d][n] \in {"ACTIVE", "FAILED", "CANCELLED", "COMPLETED"}
      OBVIOUS
    <3>1. attempts[d] \in Seq({"ACTIVE"} \cup JobEnds)
      BY DEF ReportsInv, ReportTyping
    <3>2. QED
      BY <3>1 DEF JobEnds
  <2>3. QED
    BY <2>1, <2>2 DEF ReportsInv, ReportsTypeOK, ReportTyping, Locking, Working, Issued, Drafts, Statuses, Narrations
<1>2. QED
  BY <1>1, Invariance, PTL

\* Every issued report is the text and the sources its lead reviewed, has its three artifacts, and
\* is the newest report for as long as the draft is issued, for any number of requests under way,
\* whatever the registry and the session do while it is rendered, and wherever an attempt fails.
THEOREM ReportsAreReviewed == ReportsSpec => []IssuedReportsHold
<1>1. ReportsInv => IssuedReportsHold
  BY DEF ReportsInv
<1>2. QED
  BY <1>1, Invariance, PTL

\* A decided narration stays decided through late results and retries, an accepted one went into
\* the text once and has its audio, and an issued report leaves none undecided.
THEOREM NarrationsStay == ReportsSpec => NarrationsHold
<1> DEFINE Stay == \A d \in Dictations : narration[d].status \in {"ACCEPTED", "DISMISSED"} =>
                       narration'[d].status = narration[d].status
<1>1. ReportsInv /\ [ReportsNext]_reportVars => [Stay]_reportVars
  <2> SUFFICES ASSUME ReportsInv, ReportsNext PROVE Stay
    OBVIOUS
  <2>1. narration' = narration => Stay
    OBVIOUS
  <2>2. ReportSteps => narration' = narration
    BY DEF ReportSteps, Ask, Drop, CreateDraft, EditDetails, ReviewCheck, ReviewStore, IssueCheck,
       IssueRender, IssueWrite, IssueCommit, IssueFails, SaveReport, RefreshSources, ReopenReport,
       MoveWorkflow, EditEvidence, EditPeople
  <2>3. ASSUME NEW d \in Dictations, NEW x \in Narrations, narration' = [narration EXCEPT ![d] = x],
               narration[d].status \in {"ACCEPTED", "DISMISSED"} => x.status = narration[d].status
        PROVE  Stay
    BY <2>3 DEF ReportsInv, ReportTyping
  <2>4. ASSUME NEW d \in Dictations, StartNarration(d) \/ UploadNarration(d) \/ AcceptNarration(d)
                                       \/ DismissNarration(d)
        PROVE  Stay
    <3>1. PICK x : /\ narration' = [narration EXCEPT ![d] = x]
                   /\ x \in Narrations
                   /\ narration[d].status \in {"ACCEPTED", "DISMISSED"} => x.status = narration[d].status
      <4>1. narration[d] \in Narrations
        BY OneNarration
      <4>2. CASE StartNarration(d)
        <5>1. Becomes([narration[d] EXCEPT !.status = "PENDING"], "PENDING", narration[d].result,
                      narration[d].audio, narration[d].inserted)
          BY <4>1, NarrationChanges
        <5>2. QED
          BY <5>1, <4>2 DEF StartNarration, Becomes
      <4>3. CASE UploadNarration(d)
        <5>1. Becomes([narration[d] EXCEPT !.audio = TRUE], narration[d].status, narration[d].result,
                      TRUE, narration[d].inserted)
          BY <4>1, OneNarration, NarrationChanges
        <5>2. QED
          BY <5>1, <4>3 DEF UploadNarration, Becomes
      <4>4. CASE AcceptNarration(d)
        <5>1. Becomes([narration[d] EXCEPT !.status = "ACCEPTED", !.inserted = @ + 1], "ACCEPTED",
                      narration[d].result, narration[d].audio, narration[d].inserted + 1)
          BY <4>1, NarrationChanges
        <5>2. QED
          BY <5>1, <4>4 DEF AcceptNarration, Becomes
      <4>5. CASE DismissNarration(d)
        <5>1. Becomes([narration[d] EXCEPT !.status = "DISMISSED"], "DISMISSED", narration[d].result,
                      narration[d].audio, narration[d].inserted)
          BY <4>1, NarrationChanges
        <5>2. QED
          BY <5>1, <4>5 DEF DismissNarration, Becomes
      <4>6. QED
        BY <2>4, <4>2, <4>3, <4>4, <4>5
    <3>2. QED
      BY <3>1, <2>3
  <2>5. ASSUME NEW d \in Dictations, NEW n \in DOMAIN attempts[d], ReceiveNarration(d, n)
        PROVE  Stay
    <3> DEFINE s == IF narration[d].status = "DISMISSED" THEN "DISMISSED" ELSE "READY"
               x == [narration[d] EXCEPT !.result = TRUE, !.status = s]
    <3>1. s \in {"NONE", "PENDING", "READY", "ACCEPTED", "DISMISSED"} /\ narration[d] \in Narrations
      BY OneNarration
    <3>2. narration' = [narration EXCEPT ![d] = x]
      BY <2>5 DEF ReceiveNarration
    <3>3. narration[d].status # "ACCEPTED" /\ (narration[d].status = "DISMISSED" => s = "DISMISSED")
      BY <2>5, OneNarration DEF ReceiveNarration
    <3> HIDE DEF s
    <3>4. Becomes(x, s, TRUE, narration[d].audio, narration[d].inserted)
      BY <3>1, NarrationChanges
    <3> HIDE DEF x
    <3>5. QED
      BY <3>2, <3>3, <3>4, <2>3 DEF Becomes
  <2>6. ASSUME NEW d \in Dictations, NEW n \in DOMAIN attempts[d],
               NEW outcome \in {"FAILED", "CANCELLED"}, EndAttempt(d, n, outcome)
        PROVE  Stay
    BY <2>6 DEF EndAttempt
  <2> HIDE DEF Stay
  <2>7. NarrationSteps => Stay
    BY <2>4, <2>5, <2>6 DEF NarrationSteps
  <2>8. QED
    BY <2>1, <2>2, <2>7 DEF ReportsNext
<1>2. ReportsInv => NarrationsSettled
  BY DEF ReportsInv
<1>3. QED
  BY <1>1, <1>2, Invariance, PTL DEF ReportsSpec, NarrationsHold, NarrationDecisionsHold

-----------------------------------------------------------------------------
(* The editor *)

Flights == [step : {"idle", "sent", "saved", "refused", "lost"}, text : SUBSET TextPieces,
            token : 0..MaxToken, edition : Nat]

EditorTyping ==
    /\ server \in ReportAnswers /\ base \in ReportAnswers
    /\ history \in [0..MaxToken -> SUBSET TextPieces]
    /\ current \in SUBSET TextPieces /\ displayed \in SUBSET TextPieces
    /\ edition \in Nat /\ flight \in Flights
    /\ paused \in BOOLEAN /\ alarm \in BOOLEAN
    /\ clash = Silent \/ clash \in ReportAnswers
    /\ operating \in [step : {"idle", "saving", "posting", "posted"}, token : 0..MaxToken]
    /\ issuing \in [step : {"idle", "posting", "reading"}, token : 0..MaxToken]

Flying == flight.step \in {"sent", "saved"}

\* Every token that is held names the text it was given for.
Stored ==
    /\ history[server.token] = server.text
    /\ base.token <= server.token /\ history[base.token] = base.text
    /\ Flying => flight.token <= server.token
    /\ flight.step = "saved" => history[flight.token] = flight.text
    /\ clash # Silent => clash.token <= server.token /\ history[clash.token] = clash.text
    /\ operating.step \in {"posting", "posted"} => operating.token <= server.token
    /\ issuing.step = "posting" => issuing.token <= server.token

\* Whatever may be saved, or saved over, has been on the screen.
ShownAsSaved ==
    /\ base.text \subseteq displayed /\ current \subseteq displayed
    /\ Flying => flight.text \subseteq displayed
    /\ flight.step = "sent" => history[flight.token] \subseteq displayed
    /\ clash # Silent => clash.text \subseteq displayed

\* Nothing is sent while a conflict is open, and nothing is left to send while an operation is.
Modes ==
    /\ clash # Silent => paused /\ flight.step = "idle" /\ operating.step = "idle"
    /\ operating.step \in {"posting", "posted"} => flight.step = "idle" /\ ~Dirty

\* The review panel will show what is stored.
Serving == issuing.step = "reading" \/ (issuing.step = "posting" /\ issuing.token = server.token)

\* What is typed is in every text that an answer may put in its place.
Kept ==
    /\ Flying => flight.edition <= edition
    /\ Flying /\ flight.edition = edition => current \cap Typed \subseteq flight.text
    /\ Flying /\ issuing.step # "idle" => flight.text \cap Typed \subseteq current
    /\ Serving => server.text \cap Typed \subseteq current
    /\ Serving /\ Flying => server.text \cap Typed \subseteq flight.text
    /\ clash # Silent => server.text \cap Typed \subseteq clash.text
    /\ operating.step = "posting" /\ operating.token = server.token => current \cap Typed \subseteq server.text
    /\ operating.step = "posted" => /\ server.text \cap Typed \subseteq history[operating.token]
                                    /\ current \cap Typed \subseteq history[operating.token]

ComposerInv == EditorTyping /\ Stored /\ ShownAsSaved /\ Modes /\ Kept


\* Records of which a step changes a field.
LEMMA FlightStep ==
    ASSUME NEW f \in [step : {"idle", "sent", "saved", "refused", "lost"}, text : SUBSET TextPieces,
                      token : 0..MaxToken, edition : Nat], NEW s
    PROVE  [f EXCEPT !.step = s] = [step |-> s, text |-> f.text, token |-> f.token, edition |-> f.edition]
OBVIOUS

LEMMA OperatingBegins == [NoStep EXCEPT !.step = "saving"] = [step |-> "saving", token |-> 0]
BY DEF NoStep

LEMMA IssuingReads ==
    ASSUME NEW i \in [step : {"idle", "posting", "reading"}, token : 0..MaxToken]
    PROVE  [i EXCEPT !.step = "reading"] = [step |-> "reading", token |-> i.token]
OBVIOUS

LEMMA EditorInvInit == ComposerInit => ComposerInv
<1> SUFFICES ASSUME ComposerInit PROVE ComposerInv
  OBVIOUS
<1> USE ComposerAssumption DEF ComposerInit, Parked, NoStep
<1>1. 0 \in 0..MaxToken /\ {} \in SUBSET TextPieces
  OBVIOUS
<1>2. server \in ReportAnswers /\ base \in ReportAnswers
  BY <1>1 DEF ReportAnswers
<1>3. EditorTyping
  BY <1>1, <1>2 DEF EditorTyping, Flights
<1>4. Stored /\ ShownAsSaved /\ Modes /\ Kept
  BY <1>1 DEF Stored, ShownAsSaved, Modes, Kept, Flying, Serving, Dirty
<1>5. QED
  BY <1>3, <1>4 DEF ComposerInv

LEMMA SaveElsewhereKeeps ==
    ASSUME ComposerInv, NEW x \in Foreign, SaveElsewhere(x)
    PROVE  ComposerInv'
<1> USE DEF ComposerInv, SaveElsewhere, Writable, WriteText
<1>1. EditorTyping'
  BY ComposerAssumption DEF EditorTyping, Flights, ReportAnswers, TextPieces
<1>2. Stored'
  BY ComposerAssumption, SMTT(60) DEF EditorTyping, Stored, Modes, Flying, Flights, ReportAnswers, Dirty
<1>3. ShownAsSaved'
  BY ComposerAssumption DEF EditorTyping, Stored, ShownAsSaved, Modes, Flying, Flights, ReportAnswers, Dirty
<1>4. Modes'
  BY ComposerAssumption DEF EditorTyping, Modes, Flights, ReportAnswers, Dirty
<1>5. Kept'
  BY ComposerAssumption DEF EditorTyping, Stored, Modes, Kept, Flying, Serving, Flights, ReportAnswers,
     Dirty
<1>6. QED
  BY <1>1, <1>2, <1>3, <1>4, <1>5

LEMMA ChangeKeeps ==
    ASSUME ComposerInv, NEW x \in Typed, Change(x)
    PROVE  ComposerInv'
<1> USE DEF ComposerInv, Change, Disabled, NoStep
<1>1. EditorTyping'
  BY ComposerAssumption DEF EditorTyping, Flights, ReportAnswers, TextPieces
<1>2. Stored'
  BY DEF EditorTyping, Stored, Modes, Flying, Flights, ReportAnswers, Dirty
<1>3. ShownAsSaved'
  BY DEF EditorTyping, Stored, ShownAsSaved, Modes, Flying, Flights, ReportAnswers, Dirty
<1>4. Modes'
  BY ComposerAssumption DEF EditorTyping, Modes, Flights, ReportAnswers, Dirty
<1>5. Kept'
  BY DEF EditorTyping, Stored, Modes, Kept, Flying, Serving, Flights, ReportAnswers,
     Dirty
<1>6. QED
  BY <1>1, <1>2, <1>3, <1>4, <1>5

LEMMA StoreDraftKeeps ==
    ASSUME ComposerInv, StoreDraft
    PROVE  ComposerInv'
<1> USE DEF ComposerInv, StoreDraft, Writable, WriteText
<1>1. CASE flight.token = server.token
  <2>1. /\ server.token < MaxToken /\ flight.step = "sent" /\ flight.token \in 0..MaxToken
        /\ server' = [token |-> server.token + 1, text |-> flight.text]
        /\ history' = [history EXCEPT ![server.token + 1] = flight.text]
        /\ flight' = [step |-> "saved", text |-> flight.text, token |-> flight.token + 1, edition |-> flight.edition]
    BY <1>1 DEF EditorTyping, Flights
  <2>2. UNCHANGED <<base, current, edition, paused, alarm, clash, operating, issuing, displayed>>
    OBVIOUS
  <2>3. EditorTyping'
    BY ComposerAssumption, <1>1, <2>1, <2>2 DEF EditorTyping, Flights, ReportAnswers, TextPieces
  <2>4. Stored'
    BY ComposerAssumption, <1>1, <2>1, <2>2 DEF EditorTyping, Stored, Modes, Flying, Flights,
       ReportAnswers, Dirty
  <2>5. ShownAsSaved'
    BY ComposerAssumption, <1>1, <2>1, <2>2 DEF EditorTyping, Stored, ShownAsSaved, Modes, Flying, Flights,
       ReportAnswers, Dirty
  <2>6. Modes'
    BY ComposerAssumption, <1>1, <2>1, <2>2 DEF EditorTyping, Modes, Flights, ReportAnswers, Dirty
  <2>7. Kept'
    BY ComposerAssumption, <1>1, <2>1, <2>2 DEF EditorTyping, Stored, Modes, Kept, Flying, Serving,
       Flights, ReportAnswers, Dirty
  <2>8. QED
    BY <2>3, <2>4, <2>5, <2>6, <2>7
<1>2. CASE flight.token # server.token
  <2>1. /\ flight' = [step |-> "refused", text |-> flight.text, token |-> flight.token, edition |-> flight.edition]
        /\ flight.step = "sent" /\ UNCHANGED <<server, history>>
    BY <1>2, FlightStep DEF EditorTyping, Flights
  <2>2. UNCHANGED <<base, current, edition, paused, alarm, clash, operating, issuing, displayed>>
    OBVIOUS
  <2>3. EditorTyping' /\ Stored' /\ ShownAsSaved'
    BY <2>1, <2>2 DEF EditorTyping, Stored, ShownAsSaved, Flying, Flights
  <2>4. Modes' /\ Kept'
    BY <2>1, <2>2 DEF EditorTyping, Modes, Kept, Flying, Serving, Dirty, Flights, ReportAnswers
  <2>5. QED
    BY <2>3, <2>4
<1>3. QED
  BY <1>1, <1>2

LEMMA LoseSaveKeeps ==
    ASSUME ComposerInv, LoseSave
    PROVE  ComposerInv'
<1> USE FlightStep DEF ComposerInv, LoseSave
<1>1. EditorTyping'
  BY ComposerAssumption DEF EditorTyping, Flights, ReportAnswers, TextPieces
<1>2. Stored'
  BY DEF EditorTyping, Stored, Modes, Flying, Flights, ReportAnswers, Dirty
<1>3. ShownAsSaved'
  BY DEF EditorTyping, Stored, ShownAsSaved, Modes, Flying, Flights, ReportAnswers, Dirty
<1>4. Modes'
  BY ComposerAssumption DEF EditorTyping, Modes, Flights, ReportAnswers, Dirty
<1>5. Kept'
  BY DEF EditorTyping, Stored, Modes, Kept, Flying, Serving, Flights, ReportAnswers,
     Dirty
<1>6. QED
  BY <1>1, <1>2, <1>3, <1>4, <1>5

LEMMA AutosaveKeeps ==
    ASSUME ComposerInv, Autosave
    PROVE  ComposerInv'
<1> USE DEF ComposerInv, Autosave, Send, Dirty, AfterSave
<1>1. EditorTyping'
  BY ComposerAssumption DEF EditorTyping, Flights, ReportAnswers, TextPieces
<1>2. Stored'
  BY DEF EditorTyping, Stored, Modes, Flying, Flights, ReportAnswers
<1>3. ShownAsSaved'
  BY DEF EditorTyping, Stored, ShownAsSaved, Modes, Flying, Flights, ReportAnswers
<1>4. Modes'
  BY ComposerAssumption DEF EditorTyping, Modes, Flights, ReportAnswers
<1>5. Kept'
  BY DEF EditorTyping, Stored, Modes, Kept, Flying, Serving, Flights, ReportAnswers
<1>6. QED
  BY <1>1, <1>2, <1>3, <1>4, <1>5

LEMMA SaveAnsweredKeeps ==
    ASSUME ComposerInv, SaveAnswered
    PROVE  ComposerInv'
<1> USE DEF ComposerInv, SaveAnswered, Parked, AfterSave
<1>1. EditorTyping'
  <2>1. [token |-> flight.token, text |-> flight.text] \in ReportAnswers
    BY ComposerAssumption DEF EditorTyping, Flights, ReportAnswers, TextPieces
  <2>2. current' \in SUBSET TextPieces
    BY ComposerAssumption DEF EditorTyping, Flights, ReportAnswers, TextPieces
  <2>3. Parked \in Flights
    BY ComposerAssumption DEF EditorTyping, Flights, ReportAnswers, TextPieces
  <2>4. QED
    BY ComposerAssumption, <2>1, <2>2, <2>3 DEF EditorTyping, Flights, ReportAnswers, TextPieces
<1>2. Stored'
  BY DEF EditorTyping, Stored, Modes, Flying, Flights, ReportAnswers, Dirty
<1>3. ShownAsSaved'
  BY DEF EditorTyping, Stored, ShownAsSaved, Modes, Flying, Flights, ReportAnswers, Dirty
<1>4. Modes'
  BY ComposerAssumption DEF EditorTyping, Modes, Flights, ReportAnswers, Dirty
<1>5. Kept'
  BY DEF EditorTyping, Stored, Modes, Kept, Flying, Serving, Flights, ReportAnswers,
     Dirty
<1>6. QED
  BY <1>1, <1>2, <1>3, <1>4, <1>5

LEMMA SaveFailedKeeps ==
    ASSUME ComposerInv, SaveFailed
    PROVE  ComposerInv'
<1> USE DEF ComposerInv, SaveFailed, Parked, NoStep
<1>1. EditorTyping'
  BY ComposerAssumption DEF EditorTyping, Flights, ReportAnswers, TextPieces
<1>2. Stored'
  BY DEF EditorTyping, Stored, Modes, Flying, Flights, ReportAnswers, Dirty
<1>3. ShownAsSaved'
  BY DEF EditorTyping, Stored, ShownAsSaved, Modes, Flying, Flights, ReportAnswers, Dirty
<1>4. Modes'
  BY ComposerAssumption DEF EditorTyping, Modes, Flights, ReportAnswers, Dirty
<1>5. Kept'
  BY DEF EditorTyping, Stored, Modes, Kept, Flying, Serving, Flights, ReportAnswers,
     Dirty
<1>6. QED
  BY <1>1, <1>2, <1>3, <1>4, <1>5

LEMMA RetryKeeps ==
    ASSUME ComposerInv, Retry
    PROVE  ComposerInv'
<1> USE DEF ComposerInv, Retry, Send, Dirty
<1>1. EditorTyping'
  <2>1. [step |-> "sent", text |-> current, token |-> base.token, edition |-> edition] \in Flights
    BY ComposerAssumption DEF EditorTyping, Flights, ReportAnswers, TextPieces
  <2>2. QED
    BY ComposerAssumption, <2>1 DEF EditorTyping, Flights, ReportAnswers, TextPieces
<1>2. Stored'
  BY DEF EditorTyping, Stored, Modes, Flying, Flights, ReportAnswers
<1>3. ShownAsSaved'
  BY DEF EditorTyping, Stored, ShownAsSaved, Modes, Flying, Flights, ReportAnswers
<1>4. Modes'
  BY ComposerAssumption DEF EditorTyping, Modes, Flights, ReportAnswers
<1>5. Kept'
  BY DEF EditorTyping, Stored, Modes, Kept, Flying, Serving, Flights, ReportAnswers
<1>6. QED
  BY <1>1, <1>2, <1>3, <1>4, <1>5

LEMMA ReconcileKeeps ==
    ASSUME ComposerInv, NEW fromServer \in SUBSET TextPieces, Reconcile(fromServer)
    PROVE  ComposerInv'
<1> USE DEF ComposerInv, Reconcile, TextPieces
<1>1. EditorTyping'
  <2>1. clash \in ReportAnswers /\ edition + 1 \in Nat
    BY ComposerAssumption DEF EditorTyping, Flights, ReportAnswers
  <2>2. current' \in SUBSET TextPieces
    BY ComposerAssumption DEF EditorTyping, Flights, ReportAnswers
  <2>3. QED
    BY ComposerAssumption, <2>1, <2>2 DEF EditorTyping, Flights, ReportAnswers
<1>2. Stored'
  BY DEF EditorTyping, Stored, Modes, Flying, Flights, ReportAnswers, Dirty
<1>3. ShownAsSaved'
  BY DEF EditorTyping, Stored, ShownAsSaved, Modes, Flying, Flights, ReportAnswers, Dirty
<1>4. Modes'
  BY ComposerAssumption DEF EditorTyping, Modes, Flights, ReportAnswers, Dirty
<1>5. Kept'
  BY DEF EditorTyping, Stored, Modes, Kept, Flying, Serving, Flights, ReportAnswers,
     Dirty
<1>6. QED
  BY <1>1, <1>2, <1>3, <1>4, <1>5

LEMMA BeginOperationKeeps ==
    ASSUME ComposerInv, BeginOperation
    PROVE  ComposerInv'
<1> USE OperatingBegins DEF ComposerInv, BeginOperation, Disabled, NoStep
<1>1. EditorTyping'
  BY ComposerAssumption DEF EditorTyping, Flights, ReportAnswers, TextPieces
<1>2. Stored'
  BY DEF EditorTyping, Stored, Modes, Flying, Flights, ReportAnswers, Dirty
<1>3. ShownAsSaved'
  BY DEF EditorTyping, Stored, ShownAsSaved, Modes, Flying, Flights, ReportAnswers, Dirty
<1>4. Modes'
  BY ComposerAssumption DEF EditorTyping, Modes, Flights, ReportAnswers, Dirty
<1>5. Kept'
  BY DEF EditorTyping, Stored, Modes, Kept, Flying, Serving, Flights, ReportAnswers,
     Dirty
<1>6. QED
  BY <1>1, <1>2, <1>3, <1>4, <1>5

LEMMA FlushKeeps ==
    ASSUME ComposerInv, Flush
    PROVE  ComposerInv'
<1> USE DEF ComposerInv, Flush, Send, Dirty, NoStep
<1>1. EditorTyping'
  BY ComposerAssumption DEF EditorTyping, Flights, ReportAnswers, TextPieces
<1>2. Stored'
  BY DEF EditorTyping, Stored, Modes, Flying, Flights, ReportAnswers
<1>3. ShownAsSaved'
  BY DEF EditorTyping, Stored, ShownAsSaved, Modes, Flying, Flights, ReportAnswers
<1>4. Modes'
  BY ComposerAssumption DEF EditorTyping, Modes, Flights, ReportAnswers
<1>5. Kept'
  BY DEF EditorTyping, Stored, Modes, Kept, Flying, Serving, Flights, ReportAnswers
<1>6. QED
  BY <1>1, <1>2, <1>3, <1>4, <1>5

LEMMA PostOperationKeeps ==
    ASSUME ComposerInv, PostOperation
    PROVE  ComposerInv'
<1> USE DEF ComposerInv, PostOperation, Writable, WriteText, NoStep
<1>1. EditorTyping'
  BY SMTT(60), ComposerAssumption DEF EditorTyping, Flights, ReportAnswers, TextPieces
<1>2. Stored'
  BY ComposerAssumption, SMTT(60) DEF EditorTyping, Stored, Modes, Flying, Flights, ReportAnswers, Dirty
<1>3. ShownAsSaved'
  BY ComposerAssumption DEF EditorTyping, Stored, ShownAsSaved, Modes, Flying, Flights, ReportAnswers, Dirty
<1>4. Modes'
  BY ComposerAssumption DEF EditorTyping, Modes, Flights, ReportAnswers, Dirty
<1>5. Kept'
  BY ComposerAssumption DEF EditorTyping, Stored, Modes, Kept, Flying, Serving, Flights, ReportAnswers,
     Dirty
<1>6. QED
  BY <1>1, <1>2, <1>3, <1>4, <1>5

LEMMA OperationAnsweredKeeps ==
    ASSUME ComposerInv, OperationAnswered
    PROVE  ComposerInv'
<1> USE DEF ComposerInv, OperationAnswered, ShowAnswer, NoStep
<1>1. EditorTyping'
  <2>1. history[operating.token] \in SUBSET TextPieces
    BY ComposerAssumption DEF EditorTyping, Flights, ReportAnswers, TextPieces
  <2>2. [token |-> operating.token, text |-> history[operating.token]] \in ReportAnswers
    BY ComposerAssumption, <2>1 DEF EditorTyping, Flights, ReportAnswers, TextPieces
  <2>3. NoStep \in [step : {"idle", "saving", "posting", "posted"}, token : 0..MaxToken]
    BY ComposerAssumption DEF EditorTyping, Flights, ReportAnswers, TextPieces
  <2>4. base' \in ReportAnswers /\ current' \in SUBSET TextPieces /\ displayed' \in SUBSET TextPieces
    BY ComposerAssumption, <2>1, <2>2 DEF EditorTyping, Flights, ReportAnswers, TextPieces
  <2>5. QED
    BY ComposerAssumption, <2>3, <2>4 DEF EditorTyping, Flights, ReportAnswers, TextPieces
<1>2. Stored'
  BY DEF EditorTyping, Stored, Modes, Flying, Flights, ReportAnswers, Dirty
<1>3. ShownAsSaved'
  BY DEF EditorTyping, Stored, ShownAsSaved, Modes, Flying, Flights, ReportAnswers, Dirty
<1>4. Modes'
  BY ComposerAssumption DEF EditorTyping, Modes, Flights, ReportAnswers, Dirty
<1>5. Kept'
  BY DEF EditorTyping, Stored, Modes, Kept, Flying, Serving, Flights, ReportAnswers,
     Dirty
<1>6. QED
  BY <1>1, <1>2, <1>3, <1>4, <1>5

LEMMA OperationFailedKeeps ==
    ASSUME ComposerInv, OperationFailed
    PROVE  ComposerInv'
<1> USE DEF ComposerInv, OperationFailed, NoStep
<1>1. EditorTyping'
  BY ComposerAssumption DEF EditorTyping, Flights, ReportAnswers, TextPieces
<1>2. Stored'
  BY DEF EditorTyping, Stored, Modes, Flying, Flights, ReportAnswers, Dirty
<1>3. ShownAsSaved'
  BY DEF EditorTyping, Stored, ShownAsSaved, Modes, Flying, Flights, ReportAnswers, Dirty
<1>4. Modes'
  BY ComposerAssumption DEF EditorTyping, Modes, Flights, ReportAnswers, Dirty
<1>5. Kept'
  BY DEF EditorTyping, Stored, Modes, Kept, Flying, Serving, Flights, ReportAnswers,
     Dirty
<1>6. QED
  BY <1>1, <1>2, <1>3, <1>4, <1>5

LEMMA IssueKeeps ==
    ASSUME ComposerInv, Issue
    PROVE  ComposerInv'
<1> USE DEF ComposerInv, Issue, Dirty, NoStep
<1>1. EditorTyping'
  BY ComposerAssumption DEF EditorTyping, Flights, ReportAnswers, TextPieces
<1>2. Stored'
  BY DEF EditorTyping, Stored, Modes, Flying, Flights, ReportAnswers
<1>3. ShownAsSaved'
  BY DEF EditorTyping, Stored, ShownAsSaved, Modes, Flying, Flights, ReportAnswers
<1>4. Modes'
  BY ComposerAssumption DEF EditorTyping, Modes, Flights, ReportAnswers
<1>5. Kept'
  BY DEF EditorTyping, Stored, Modes, Kept, Flying, Serving, Flights, ReportAnswers
<1>6. QED
  BY <1>1, <1>2, <1>3, <1>4, <1>5

LEMMA PostIssueKeeps ==
    ASSUME ComposerInv, PostIssue
    PROVE  ComposerInv'
<1> USE IssuingReads DEF ComposerInv, PostIssue, Writable, WriteText, NoStep
<1>1. EditorTyping'
  <2>1. CASE issuing' = NoStep /\ UNCHANGED <<server, history>>
    BY ComposerAssumption, <2>1 DEF EditorTyping, Flights, ReportAnswers, TextPieces
  <2>2. CASE Writable /\ WriteText(server.text) /\ issuing' = [issuing EXCEPT !.step = "reading"]
    <3>1. issuing' \in [step : {"idle", "posting", "reading"}, token : 0..MaxToken]
      BY ComposerAssumption, <2>2 DEF EditorTyping, Flights, ReportAnswers, TextPieces
    <3>2. server' \in ReportAnswers /\ history' \in [0..MaxToken -> SUBSET TextPieces]
      BY ComposerAssumption, <2>2 DEF EditorTyping, Flights, ReportAnswers, TextPieces
    <3>3. QED
      BY ComposerAssumption, <3>1, <3>2 DEF EditorTyping, Flights, ReportAnswers, TextPieces
  <2>3. QED
    BY ComposerAssumption, <2>1, <2>2 DEF EditorTyping, Flights, ReportAnswers, TextPieces
<1>2. Stored'
  BY ComposerAssumption, SMTT(60) DEF EditorTyping, Stored, Modes, Flying, Flights, ReportAnswers, Dirty
<1>3. ShownAsSaved'
  <2>1. UNCHANGED <<base, current, flight, clash, displayed>>
    OBVIOUS
  <2>2. flight.step = "sent" => history'[flight.token] = history[flight.token]
    BY ComposerAssumption DEF EditorTyping, Stored, Flying, Flights, ReportAnswers
  <2>3. QED
    BY <2>1, <2>2 DEF ShownAsSaved, Flying
<1>4. Modes'
  BY ComposerAssumption DEF EditorTyping, Modes, Flights, ReportAnswers, Dirty
<1>5. Kept'
  BY ComposerAssumption DEF EditorTyping, Stored, Modes, Kept, Flying, Serving, Flights, ReportAnswers,
     Dirty
<1>6. QED
  BY <1>1, <1>2, <1>3, <1>4, <1>5

LEMMA IssueAnsweredKeeps ==
    ASSUME ComposerInv, IssueAnswered
    PROVE  ComposerInv'
<1> USE DEF ComposerInv, IssueAnswered, ShowAnswer, NoStep
<1>1. EditorTyping'
  <2>1. NoStep \in [step : {"idle", "posting", "reading"}, token : 0..MaxToken]
    BY ComposerAssumption DEF EditorTyping, Flights, ReportAnswers, TextPieces
  <2>2. base' \in ReportAnswers /\ current' \in SUBSET TextPieces /\ displayed' \in SUBSET TextPieces
    BY ComposerAssumption DEF EditorTyping, Flights, ReportAnswers, TextPieces
  <2>3. QED
    BY ComposerAssumption, <2>1, <2>2 DEF EditorTyping, Flights, ReportAnswers, TextPieces
<1>2. Stored'
  BY DEF EditorTyping, Stored, Modes, Flying, Flights, ReportAnswers, Dirty
<1>3. ShownAsSaved'
  BY DEF EditorTyping, Stored, ShownAsSaved, Modes, Flying, Flights, ReportAnswers, Dirty
<1>4. Modes'
  BY ComposerAssumption DEF EditorTyping, Modes, Flights, ReportAnswers, Dirty
<1>5. Kept'
  BY DEF EditorTyping, Stored, Modes, Kept, Flying, Serving, Flights, ReportAnswers,
     Dirty
<1>6. QED
  BY <1>1, <1>2, <1>3, <1>4, <1>5

----------------------------------------------------------------------------
LEMMA ComposerInvStep == ComposerInv /\ [ComposerNext]_composerVars => ComposerInv'
<1> SUFFICES ASSUME ComposerInv, [ComposerNext]_composerVars PROVE ComposerInv'
  OBVIOUS
<1>1. CASE ComposerNext
  BY <1>1, SaveElsewhereKeeps, ChangeKeeps, StoreDraftKeeps, LoseSaveKeeps, AutosaveKeeps,
     SaveAnsweredKeeps, SaveFailedKeeps, RetryKeeps, ReconcileKeeps, BeginOperationKeeps, FlushKeeps,
     PostOperationKeeps, OperationAnsweredKeeps, OperationFailedKeeps, IssueKeeps, PostIssueKeeps,
     IssueAnsweredKeeps DEF ComposerNext
<1>2. CASE UNCHANGED composerVars
  BY <1>2 DEF composerVars, ComposerInv, EditorTyping, Stored, ShownAsSaved, Modes, Kept, Flying, Serving, Dirty
<1>3. QED
  BY <1>1, <1>2

\* Only three answers and a reconciliation change the text otherwise than by adding to it.
LEMMA TypingStays ==
    ASSUME ComposerInv, [ComposerNext]_composerVars
    PROVE  \/ current \cap Typed \subseteq current'
           \/ clash # Silent /\ edition' # edition
           \/ issuing.step = "reading" /\ issuing' = NoStep
<1>1. CASE \E x \in Foreign : SaveElsewhere(x)
  BY <1>1 DEF SaveElsewhere
<1>2. CASE \E x \in Typed : Change(x)
  BY <1>2 DEF Change
<1>3. CASE StoreDraft \/ LoseSave \/ Autosave \/ SaveFailed \/ Retry
  BY <1>3 DEF StoreDraft, LoseSave, Autosave, SaveFailed, Retry
<1>4. CASE SaveAnswered
  BY <1>4 DEF SaveAnswered, AfterSave, ComposerInv, Kept, Flying
<1>5. CASE \E fromServer \in SUBSET TextPieces : Reconcile(fromServer)
  BY <1>5 DEF Reconcile, ComposerInv, EditorTyping
<1>6. CASE BeginOperation \/ Flush \/ PostOperation \/ OperationFailed \/ Issue \/ PostIssue
  BY <1>6 DEF BeginOperation, Flush, PostOperation, OperationFailed, Issue, PostIssue
<1>7. CASE OperationAnswered
  BY <1>7 DEF OperationAnswered, ShowAnswer, ComposerInv, Kept
<1>8. CASE IssueAnswered
  BY <1>8 DEF IssueAnswered
<1>9. CASE UNCHANGED composerVars
  BY <1>9 DEF composerVars
<1>10. QED
  BY <1>1, <1>2, <1>3, <1>4, <1>5, <1>6, <1>7, <1>8, <1>9 DEF ComposerNext

\* What is stored under the token of a save is what its window was shown under that token.
LEMMA UnseenStays ==
    ASSUME ComposerInv, [ComposerNext]_composerVars, flight.step = "sent", flight'.step = "saved"
    PROVE  server.text \ server'.text \subseteq displayed
<1>1. CASE StoreDraft
  <2>1. flight.token = server.token
    BY <1>1, FlightStep DEF StoreDraft, ComposerInv, EditorTyping, Flights
  <2>2. server.text = history[flight.token]
    BY <2>1 DEF ComposerInv, Stored
  <2>3. QED
    BY <2>2 DEF ComposerInv, ShownAsSaved
<1>2. CASE LoseSave
  <2>1. flight'.step = "lost"
    BY <1>2, FlightStep DEF LoseSave, ComposerInv, EditorTyping, Flights
  <2>2. QED
    BY <2>1
<1>3. CASE UNCHANGED flight
  BY <1>3
<1>4. CASE flight' = Parked \/ Send
  BY <1>4 DEF Parked, Send
<1>5. QED
  BY <1>1, <1>2, <1>3, <1>4 DEF ComposerNext, composerVars, SaveElsewhere, Change, Autosave, SaveAnswered,
     SaveFailed, Retry, Reconcile, BeginOperation, Flush, PostOperation, OperationAnswered,
     OperationFailed, Issue, PostIssue, IssueAnswered

\* The editor's promises, for any pieces of text and any number of writes of this window and of
\* others: typing leaves the editor only as EditorHolds says, a save takes nothing out of the
\* stored report that its user was not shown, and what counts as saved is stored.
THEOREM EditorKept == ComposerSpec => EditorHolds
<1>1. ComposerSpec => []ComposerInv
  BY EditorInvInit, ComposerInvStep, PTL DEF ComposerSpec
<1>2. ComposerSpec => TypingKept
  BY <1>1, TypingStays, PTL DEF ComposerSpec, TypingKept
<1>3. ComposerSpec => UnseenKept
  <2>1. ComposerInv /\ [ComposerNext]_composerVars =>
          ((flight.step = "sent" /\ flight'.step = "saved") => server.text \ server'.text \subseteq displayed)
    BY UnseenStays
  <2>2. QED
    BY <1>1, <2>1, PTL DEF ComposerSpec, UnseenKept
<1>4. ComposerSpec => CleanIsStored
  <2>1. ComposerInv => (~Dirty => history[base.token] = current)
    BY DEF ComposerInv, Stored, Dirty
  <2>2. QED
    BY <1>1, <2>1, PTL DEF CleanIsStored
<1>5. QED
  BY <1>2, <1>3, <1>4 DEF EditorHolds

\* The types of the editor, and what the server holds is what it last stored.
LEMMA ComposerTyped == ComposerSpec => []ComposerTypeOK
<1>1. ComposerInv => ComposerTypeOK
  BY DEF ComposerInv, ComposerTypeOK, EditorTyping, Stored, Flights
<1>2. QED
  BY <1>1, EditorInvInit, ComposerInvStep, PTL DEF ComposerSpec

-----------------------------------------------------------------------------
(* The questions and answers of a draft *)

AudibleIn(u, n) == n \in DOMAIN u /\ ~u[n].blank
AskedIn(u, n)   == AudibleIn(u, n) /\ u[n].label \in Asking

LastAskedIn(u, n) ==
    {m \in 1..(n - 1) : /\ AskedIn(u, m) /\ u[m].file = u[n].file
                        /\ \A k \in (m + 1)..(n - 1) : ~(AskedIn(u, k) /\ u[k].file = u[n].file)}

\* The parts come in the order of their recordings.
Chronological(u) == \A m, n \in DOMAIN u : m <= n => u[m].file <= u[n].file

\* What the turns ts make of the parts u: every audible part is in a turn of its own speaker
\* and recording, and the turns follow one another.
Gathered(u, ts) ==
    /\ \A k \in DOMAIN ts :
          /\ ts[k].text # {}
          /\ \A n \in ts[k].text : AudibleIn(u, n) /\ u[n].label = ts[k].label /\ u[n].file = ts[k].file
    /\ \A n \in DOMAIN u : AudibleIn(u, n) => \E k \in DOMAIN ts : n \in ts[k].text
    /\ \A j, k \in DOMAIN ts : j < k => \A m \in ts[j].text, n \in ts[k].text : m < n

\* The part is in one of the first p turns.
TakenUp(ts, n, p) == \E k \in 1..p : n \in ts[k].text

\* A block is right about every part in it.
Sound(b, u, ts, p) ==
    /\ b \in Block /\ (b.answer = {} => b.by = "None")
    /\ \A n \in b.question : TakenUp(ts, n, p) /\ AskedIn(u, n) /\ u[n].file = b.file
    /\ \A n \in b.answer : /\ TakenUp(ts, n, p) /\ AudibleIn(u, n) /\ ~AskedIn(u, n)
                           /\ u[n].file = b.file /\ SpeakerId(u[n].label) = b.by
                           /\ LastAskedIn(u, n) \subseteq b.question
                           /\ LastAskedIn(u, n) = {} => b.question = {}

\* The last thing the investigators said in the recording f, as far as the turns are taken.
Latest(m, f, u, ts, p) ==
    /\ TakenUp(ts, m, p) /\ AskedIn(u, m) /\ u[m].file = f
    /\ \A k \in DOMAIN u : TakenUp(ts, k, p) /\ AskedIn(u, k) /\ u[k].file = f => k <= m

\* The block under way is of the recording of the last turn, under the last question in it.
UnderWay(b, u, ts, p) ==
    /\ b.file = ts[p].file
    /\ \A m \in DOMAIN u : Latest(m, b.file, u, ts, p) => m \in b.question
    /\ b.question # {} => \E m \in b.question : Latest(m, b.file, u, ts, p)

\* The blocks bs, and those of pd under way, have every part that is taken in its place, once.
PlacedOnce(bs, pd, u, ts, p) ==
    /\ \A i \in DOMAIN bs : Sound(bs[i], u, ts, p)
    /\ \A b \in pd : Sound(b, u, ts, p)
    /\ \A i, j \in DOMAIN bs : i # j => bs[i].answer \cap bs[j].answer = {}
    /\ \A i \in DOMAIN bs, b \in pd : bs[i].answer \cap b.answer = {}
    /\ \A n \in DOMAIN u : TakenUp(ts, n, p) =>
          /\ AskedIn(u, n) => (\E i \in DOMAIN bs : n \in bs[i].question) \/ (\E b \in pd : n \in b.question)
          /\ ~AskedIn(u, n) => (\E i \in DOMAIN bs : n \in bs[i].answer) \/ (\E b \in pd : n \in b.answer)

DialogueTyping ==
    /\ utterances \in Seq(Part) /\ Len(utterances) <= MaxParts
    /\ turns \in Seq(Turn) /\ blocks \in Seq(Block)
    /\ phase \in {"reading", "pairing"} /\ paired \in 0..Len(turns)

DialogueInv ==
    /\ DialogueTyping /\ Chronological(utterances) /\ Gathered(utterances, turns)
    /\ pending = {} \/ \E b \in Block : pending = {b} /\ UnderWay(b, utterances, turns, paired)
    /\ PlacedOnce(blocks, pending, utterances, turns, paired)
    /\ phase = "reading" => paired = 0
    /\ paired = 0 => pending = {} /\ blocks = <<>>
    /\ pending = {} => paired \in {0, Len(turns)}

-----------------------------------------------------------------------------
\* A set of numbers up to n that is not empty has a greatest one.
LEMMA LastOfTurns ==
    ASSUME NEW n \in Nat, NEW S \in SUBSET (1..n), S # {}
    PROVE  \E m \in S : \A k \in S : k <= m
<1> DEFINE Less == {ss \in Nat \X Nat : ss[1] < ss[2]}
           T == {k \in Nat : k <= n /\ n - k \in S}
<1>1. IsWellFoundedOn(Less, Nat)
  BY NatLessThanWellFounded DEF OpToRel
<1>2. \A k, m \in Nat : k < m => <<k, m>> \in Less
  OBVIOUS
<1>3. T \in SUBSET Nat /\ T # {}
  <2>1. PICK x \in S : TRUE
    OBVIOUS
  <2>2. n - x \in Nat /\ n - x <= n /\ n - (n - x) = x
    BY <2>1
  <2>3. n - x \in T
    BY <2>1, <2>2
  <2>4. QED
    BY <2>3
<1> HIDE DEF Less
<1>4. PICK d \in T : \A k \in T : <<k, d>> \notin Less
  <2> HIDE DEF T
  <2>1. QED
    BY <1>1, <1>3, WFMin
<1>5. n - d \in S /\ d \in Nat /\ d <= n
  BY <1>4
<1>6. ASSUME NEW k \in S, ~(k <= n - d) PROVE FALSE
  <2>1. k \in 1..n
    OBVIOUS
  <2>2. n - k \in Nat /\ n - k <= n /\ n - (n - k) = k /\ n - k < d
    BY <1>5, <1>6, <2>1
  <2>3. n - k \in T /\ <<n - k, d>> \in Less
    BY <1>2, <1>5, <2>2
  <2>4. QED
    BY <1>4, <2>3
<1>7. QED
  BY <1>5, <1>6

\* What the property says in the terms used here.
LEMMA InTheseTerms ==
    /\ \A n : Audible(n) = AudibleIn(utterances, n) /\ Asked(n) = AskedIn(utterances, n)
    /\ \A n : LastAsked(n) = LastAskedIn(utterances, n)
BY DEF Audible, AudibleIn, Asked, AskedIn, LastAsked, LastAskedIn

-----------------------------------------------------------------------------
(* The next turn *)

LEMMA NextTurn ==
    ASSUME NEW u \in Seq(Part), NEW ts \in Seq(Turn), Gathered(u, ts), NEW p \in Nat, p + 1 \in DOMAIN ts,
           NEW n \in ts[p + 1].text
    PROVE  /\ n \in DOMAIN u /\ n \in Nat /\ AudibleIn(u, n) /\ TakenUp(ts, n, p + 1) /\ ~TakenUp(ts, n, p)
           /\ (AskedIn(u, n) <=> ts[p + 1].label \in Asking)
           /\ u[n].file = ts[p + 1].file /\ u[n].label = ts[p + 1].label
           /\ \A m : TakenUp(ts, m, p) => m \in Nat /\ m < n
           /\ ts[p + 1].label \notin Asking => \A m \in DOMAIN u : m < n /\ AskedIn(u, m) => TakenUp(ts, m, p)
<1>1. DOMAIN ts = 1..Len(ts) /\ Len(ts) \in Nat /\ DOMAIN u = 1..Len(u) /\ Len(u) \in Nat
  OBVIOUS
<1>2. p + 1 \in 1..(p + 1) /\ 1..p \subseteq DOMAIN ts /\ \A k \in 1..p : k < p + 1
  BY <1>1
<1>3. AudibleIn(u, n) /\ u[n].label = ts[p + 1].label /\ u[n].file = ts[p + 1].file
  BY DEF Gathered
<1>4. n \in DOMAIN u /\ n \in Nat
  BY <1>1, <1>3 DEF AudibleIn
<1>5. TakenUp(ts, n, p + 1)
  BY <1>2 DEF TakenUp
<1>6. \A m : TakenUp(ts, m, p) => m \in Nat /\ m < n
  <2> SUFFICES ASSUME NEW m, TakenUp(ts, m, p) PROVE m \in Nat /\ m < n
    OBVIOUS
  <2>1. PICK k \in 1..p : m \in ts[k].text
    BY DEF TakenUp
  <2>2. m \in DOMAIN u /\ m < n
    BY <1>2, <2>1 DEF Gathered, AudibleIn
  <2>3. QED
    BY <1>1, <2>2
<1>7. ~TakenUp(ts, n, p)
  BY <1>4, <1>6
<1>8. ASSUME ts[p + 1].label \notin Asking, NEW m \in DOMAIN u, m < n, AskedIn(u, m)
      PROVE  TakenUp(ts, m, p)
  <2>1. PICK k \in DOMAIN ts : m \in ts[k].text
    BY <1>8 DEF Gathered, AskedIn
  <2>2. u[m].label = ts[k].label
    BY <2>1 DEF Gathered
  <2>3. k # p + 1
    BY <1>8, <2>2 DEF AskedIn
  <2>4. ~(p + 1 < k)
    <3>1. p + 1 < k => n < m
      BY <2>1 DEF Gathered
    <3>2. ~(n < m)
      BY <1>1, <1>4, <1>8
    <3>3. QED
      BY <3>1, <3>2
  <2>5. k \in 1..p
    BY <1>1, <2>1, <2>3, <2>4
  <2>6. QED
    BY <2>1, <2>5 DEF TakenUp
<1>9. QED
  BY <1>3, <1>4, <1>5, <1>6, <1>7, <1>8 DEF AskedIn

\* What is taken stays taken, and the next turn is taken besides.
LEMMA TakenLater ==
    ASSUME NEW ts, NEW p \in Nat
    PROVE  /\ \A n : TakenUp(ts, n, p) => TakenUp(ts, n, p + 1)
           /\ \A n : TakenUp(ts, n, p + 1) => TakenUp(ts, n, p) \/ n \in ts[p + 1].text
<1>1. 1..(p + 1) = (1..p) \cup {p + 1}
  OBVIOUS
<1>2. QED
  BY <1>1 DEF TakenUp

LEMMA SoundLater ==
    ASSUME NEW b, NEW u, NEW ts, NEW p \in Nat, Sound(b, u, ts, p)
    PROVE  Sound(b, u, ts, p + 1)
BY TakenLater DEF Sound

\* A turn of somebody else answers the last question in its recording, that of the block under way.
LEMMA UnderTheLastQuestion ==
    ASSUME NEW u \in Seq(Part), NEW ts \in Seq(Turn), Gathered(u, ts), NEW p \in Nat, p + 1 \in DOMAIN ts,
           ts[p + 1].label \notin Asking, NEW n \in ts[p + 1].text, NEW b, UnderWay(b, u, ts, p),
           Sound(b, u, ts, p), b.file = ts[p + 1].file
    PROVE  /\ LastAskedIn(u, n) \subseteq b.question
           /\ LastAskedIn(u, n) = {} => b.question = {}
<1>1. /\ n \in DOMAIN u /\ n \in Nat /\ u[n].file = b.file
      /\ \A m : TakenUp(ts, m, p) => m \in Nat /\ m < n
      /\ \A m \in DOMAIN u : m < n /\ AskedIn(u, m) => TakenUp(ts, m, p)
  BY NextTurn
<1>2. DOMAIN u = 1..Len(u) /\ Len(u) \in Nat
  OBVIOUS
<1>3. ASSUME NEW m \in LastAskedIn(u, n)
      PROVE  m \in b.question
  <2>1. /\ m \in 1..(n - 1) /\ AskedIn(u, m) /\ u[m].file = b.file
        /\ \A k \in (m + 1)..(n - 1) : ~(AskedIn(u, k) /\ u[k].file = b.file)
    BY <1>1 DEF LastAskedIn
  <2>2. m \in DOMAIN u /\ m < n /\ m \in Nat
    BY <1>1, <1>2, <2>1
  <2>3. TakenUp(ts, m, p)
    BY <1>1, <2>1, <2>2
  <2>4. ASSUME NEW k \in DOMAIN u, TakenUp(ts, k, p), AskedIn(u, k), u[k].file = b.file
        PROVE  k <= m
    <3>1. k \in Nat /\ k < n
      BY <1>1, <2>4
    <3>2. k \notin (m + 1)..(n - 1)
      BY <2>1, <2>4
    <3>3. QED
      BY <1>1, <2>2, <3>1, <3>2
  <2>5. Latest(m, b.file, u, ts, p)
    BY <2>1, <2>3, <2>4 DEF Latest
  <2>6. QED
    BY <2>2, <2>5 DEF UnderWay
<1>4. ASSUME b.question # {}
      PROVE  LastAskedIn(u, n) # {}
  <2>1. PICK m \in b.question : Latest(m, b.file, u, ts, p)
    BY <1>4 DEF UnderWay
  <2>2. TakenUp(ts, m, p) /\ AskedIn(u, m) /\ u[m].file = u[n].file
    BY <1>1, <2>1 DEF Latest
  <2>3. m \in DOMAIN u /\ m < n /\ m \in Nat
    BY <1>1, <2>2 DEF AskedIn, AudibleIn
  <2>4. m \in 1..(n - 1)
    BY <1>1, <1>2, <2>3
  <2>5. ASSUME NEW k \in (m + 1)..(n - 1), AskedIn(u, k), u[k].file = u[n].file
        PROVE  FALSE
    <3>1. k \in Nat /\ m < k /\ k < n
      BY <1>1, <2>3
    <3>2. k \in DOMAIN u
      BY <2>5 DEF AskedIn, AudibleIn
    <3>3. TakenUp(ts, k, p)
      BY <1>1, <2>5, <3>1, <3>2
    <3>4. k <= m
      BY <1>1, <2>1, <2>5, <3>2, <3>3 DEF Latest
    <3>5. QED
      BY <2>3, <3>1, <3>4
  <2>6. m \in LastAskedIn(u, n)
    BY <2>2, <2>4, <2>5 DEF LastAskedIn
  <2>7. QED
    BY <2>6
<1>5. QED
  BY <1>3, <1>4

-----------------------------------------------------------------------------
(* Blocks *)

LEMMA Appended ==
    ASSUME NEW S, NEW q \in Seq(S), NEW e \in S
    PROVE  /\ q \o <<e>> \in Seq(S) /\ Len(q) \in Nat /\ DOMAIN q = 1..Len(q)
           /\ DOMAIN (q \o <<e>>) = 1..(Len(q) + 1) /\ (q \o <<e>>)[Len(q) + 1] = e
           /\ \A i \in DOMAIN q : i \in DOMAIN (q \o <<e>>) /\ (q \o <<e>>)[i] = q[i]
OBVIOUS

\* The block under way is put behind the others.
LEMMA BlockFlushed ==
    ASSUME NEW bs \in Seq(Block), NEW b \in Block, NEW u, NEW ts, NEW p, PlacedOnce(bs, {b}, u, ts, p)
    PROVE  PlacedOnce(bs \o <<b>>, {}, u, ts, p)
<1> DEFINE later == bs \o <<b>>
<1>1. /\ DOMAIN later = 1..(Len(bs) + 1) /\ later[Len(bs) + 1] = b /\ DOMAIN bs = 1..Len(bs) /\ Len(bs) \in Nat
      /\ \A i \in DOMAIN bs : i \in DOMAIN later /\ later[i] = bs[i]
  BY Appended
<1>2. Len(bs) + 1 \in DOMAIN later /\ \A i \in DOMAIN later : i \in DOMAIN bs \/ i = Len(bs) + 1
  BY <1>1
<1> HIDE DEF later
<1>3. \A i \in DOMAIN later : Sound(later[i], u, ts, p)
  BY <1>1, <1>2 DEF PlacedOnce
<1>4. \A i, j \in DOMAIN later : i # j => later[i].answer \cap later[j].answer = {}
  BY <1>1, <1>2 DEF PlacedOnce
<1>5. \A n \in DOMAIN u : TakenUp(ts, n, p) =>
          /\ AskedIn(u, n) => \E i \in DOMAIN later : n \in later[i].question
          /\ ~AskedIn(u, n) => \E i \in DOMAIN later : n \in later[i].answer
  BY <1>1, <1>2 DEF PlacedOnce
<1>6. QED
  BY <1>3, <1>4, <1>5 DEF PlacedOnce, later

\* A new block takes up the next turn.
LEMMA NewKeeps ==
    ASSUME NEW u \in Seq(Part), NEW ts \in Seq(Turn), Gathered(u, ts), NEW p \in Nat, p + 1 \in DOMAIN ts,
           NEW bs \in Seq(Block), PlacedOnce(bs, {}, u, ts, p), NEW b, Sound(b, u, ts, p + 1),
           b.answer \subseteq ts[p + 1].text,
           \/ ts[p + 1].label \in Asking /\ b.question = ts[p + 1].text
           \/ ts[p + 1].label \notin Asking /\ b.answer = ts[p + 1].text
    PROVE  PlacedOnce(bs, {b}, u, ts, p + 1)
<1>1. \A i \in DOMAIN bs : Sound(bs[i], u, ts, p + 1)
  BY SoundLater DEF PlacedOnce
<1>2. \A i \in DOMAIN bs : bs[i].answer \cap b.answer = {}
  <2>1. \A i \in DOMAIN bs : \A n \in bs[i].answer : TakenUp(ts, n, p)
    BY DEF PlacedOnce, Sound
  <2>2. \A n \in ts[p + 1].text : ~TakenUp(ts, n, p)
    BY NextTurn
  <2>3. QED
    BY <2>1, <2>2
<1>3. ASSUME NEW n \in DOMAIN u, TakenUp(ts, n, p + 1)
      PROVE  /\ AskedIn(u, n) => (\E i \in DOMAIN bs : n \in bs[i].question) \/ n \in b.question
             /\ ~AskedIn(u, n) => (\E i \in DOMAIN bs : n \in bs[i].answer) \/ n \in b.answer
  <2>1. CASE TakenUp(ts, n, p)
    BY <2>1 DEF PlacedOnce
  <2>2. CASE n \in ts[p + 1].text
    <3>1. AskedIn(u, n) <=> ts[p + 1].label \in Asking
      BY <2>2, NextTurn
    <3>2. QED
      BY <2>2, <3>1
  <2>3. QED
    BY <1>3, <2>1, <2>2, TakenLater
<1>4. QED
  BY <1>1, <1>2, <1>3 DEF PlacedOnce

\* The block under way takes up the next turn as part of its answer.
LEMMA JoinKeeps ==
    ASSUME NEW u \in Seq(Part), NEW ts \in Seq(Turn), Gathered(u, ts), NEW p \in Nat, p + 1 \in DOMAIN ts,
           NEW bs \in Seq(Block), NEW old, PlacedOnce(bs, {old}, u, ts, p), NEW b, Sound(b, u, ts, p + 1),
           ts[p + 1].label \notin Asking, b.question = old.question, b.answer = old.answer \cup ts[p + 1].text
    PROVE  PlacedOnce(bs, {b}, u, ts, p + 1)
<1>1. \A i \in DOMAIN bs : Sound(bs[i], u, ts, p + 1)
  BY SoundLater DEF PlacedOnce
<1>2. \A i \in DOMAIN bs : bs[i].answer \cap b.answer = {}
  <2>1. \A i \in DOMAIN bs : \A n \in bs[i].answer : TakenUp(ts, n, p)
    BY DEF PlacedOnce, Sound
  <2>2. \A n \in ts[p + 1].text : ~TakenUp(ts, n, p)
    BY NextTurn
  <2>3. \A i \in DOMAIN bs : bs[i].answer \cap old.answer = {}
    BY DEF PlacedOnce
  <2>4. QED
    BY <2>1, <2>2, <2>3
<1>3. ASSUME NEW n \in DOMAIN u, TakenUp(ts, n, p + 1)
      PROVE  /\ AskedIn(u, n) => (\E i \in DOMAIN bs : n \in bs[i].question) \/ n \in b.question
             /\ ~AskedIn(u, n) => (\E i \in DOMAIN bs : n \in bs[i].answer) \/ n \in b.answer
  <2>1. CASE TakenUp(ts, n, p)
    BY <2>1 DEF PlacedOnce
  <2>2. CASE n \in ts[p + 1].text
    <3>1. AskedIn(u, n) <=> ts[p + 1].label \in Asking
      BY <2>2, NextTurn
    <3>2. QED
      BY <2>2, <3>1
  <2>3. QED
    BY <1>3, <2>1, <2>2, TakenLater
<1>4. QED
  BY <1>1, <1>2, <1>3 DEF PlacedOnce

-----------------------------------------------------------------------------
(* What is under way after the next turn *)

LEMMA LatestStays ==
    ASSUME NEW u \in Seq(Part), NEW ts \in Seq(Turn), Gathered(u, ts), NEW p \in Nat, p + 1 \in DOMAIN ts,
           ts[p + 1].label \notin Asking, NEW m, NEW f
    PROVE  Latest(m, f, u, ts, p + 1) <=> Latest(m, f, u, ts, p)
<1>1. \A k : TakenUp(ts, k, p + 1) /\ AskedIn(u, k) <=> TakenUp(ts, k, p) /\ AskedIn(u, k)
  BY TakenLater, NextTurn
<1>2. QED
  BY <1>1 DEF Latest

LEMMA AnswerUnderWay ==
    ASSUME NEW u \in Seq(Part), NEW ts \in Seq(Turn), Gathered(u, ts), NEW p \in Nat, p + 1 \in DOMAIN ts,
           ts[p + 1].label \notin Asking, NEW old, UnderWay(old, u, ts, p), old.file = ts[p + 1].file,
           NEW b, b.question = old.question, b.file = old.file
    PROVE  UnderWay(b, u, ts, p + 1)
<1>1. \A m : Latest(m, b.file, u, ts, p + 1) <=> Latest(m, old.file, u, ts, p)
  BY LatestStays
<1>2. QED
  BY <1>1 DEF UnderWay

LEMMA QuestionUnderWay ==
    ASSUME NEW u \in Seq(Part), NEW ts \in Seq(Turn), Gathered(u, ts), NEW p \in Nat, p + 1 \in DOMAIN ts,
           ts[p + 1].label \in Asking, NEW b, b.question = ts[p + 1].text, b.file = ts[p + 1].file
    PROVE  UnderWay(b, u, ts, p + 1)
<1> DEFINE T == ts[p + 1].text
           f == ts[p + 1].file
<1>1. /\ \A n \in T : /\ n \in DOMAIN u /\ n \in Nat /\ TakenUp(ts, n, p + 1) /\ AskedIn(u, n) /\ u[n].file = f
                      /\ \A m : TakenUp(ts, m, p) => m \in Nat /\ m < n
  BY NextTurn
<1>2. \A m : TakenUp(ts, m, p + 1) => TakenUp(ts, m, p) \/ m \in T
  BY TakenLater
<1>3. T # {}
  BY DEF Gathered
<1>4. T \in SUBSET (1..Len(u)) /\ Len(u) \in Nat
  BY <1>1
<1>5. PICK x \in T : \A k \in T : k <= x
  <2> HIDE DEF T
  <2>1. QED
    BY <1>3, <1>4, LastOfTurns
<1> HIDE DEF T, f
<1>6. Latest(x, f, u, ts, p + 1)
  <2>1. ASSUME NEW k, TakenUp(ts, k, p + 1)
        PROVE  k <= x
    <3>1. TakenUp(ts, k, p) => k \in Nat /\ k < x /\ x \in Nat
      BY <1>1, <1>5
    <3>2. QED
      BY <1>2, <1>5, <2>1, <3>1
  <2>2. QED
    BY <1>1, <1>5, <2>1 DEF Latest
<1>7. ASSUME NEW m \in DOMAIN u, Latest(m, f, u, ts, p + 1)
      PROVE  m \in T
  <2>1. x <= m
    BY <1>1, <1>5, <1>7 DEF Latest
  <2>2. TakenUp(ts, m, p) => m \in Nat /\ m < x /\ x \in Nat
    BY <1>1, <1>5
  <2>3. ~TakenUp(ts, m, p)
    BY <2>1, <2>2
  <2>4. QED
    BY <1>2, <1>7, <2>3 DEF Latest
<1>8. b.question = T /\ b.file = f
  BY DEF T, f
<1>9. QED
  BY <1>5, <1>6, <1>7, <1>8 DEF UnderWay, f

\* Nothing of the recording of the next turn has been taken, if nothing of it is under way.
LEMMA NothingOfIt ==
    ASSUME NEW u \in Seq(Part), NEW ts \in Seq(Turn), Gathered(u, ts), Chronological(u),
           NEW p \in Nat, p + 1 \in DOMAIN ts, p = 0 \/ ts[p].file # ts[p + 1].file
    PROVE  \A m : TakenUp(ts, m, p) => u[m].file # ts[p + 1].file
<1> SUFFICES ASSUME NEW m, TakenUp(ts, m, p), u[m].file = ts[p + 1].file PROVE FALSE
  OBVIOUS
<1>1. PICK k \in 1..p : m \in ts[k].text
  BY DEF TakenUp
<1>2. DOMAIN ts = 1..Len(ts) /\ Len(ts) \in Nat /\ DOMAIN u = 1..Len(u) /\ Len(u) \in Nat
  OBVIOUS
<1>3. k \in DOMAIN ts /\ p \in DOMAIN ts /\ p < p + 1 /\ p # 0 /\ (k = p \/ k < p)
  BY <1>1, <1>2
<1>4. PICK x \in ts[p].text, n \in ts[p + 1].text : TRUE
  BY <1>3 DEF Gathered
<1>5. /\ m \in DOMAIN u /\ x \in DOMAIN u /\ n \in DOMAIN u /\ u[x].file = ts[p].file
      /\ u[m].file = ts[k].file /\ u[n].file = u[m].file
  BY <1>1, <1>3, <1>4 DEF Gathered, AudibleIn
<1>6. x < n /\ (k < p => m < x)
  BY <1>1, <1>3, <1>4 DEF Gathered
<1>7. k < p
  BY <1>3, <1>5
<1>8. m <= x /\ x <= n
  BY <1>2, <1>5, <1>6, <1>7
<1>9. u[m].file <= u[x].file /\ u[x].file <= u[n].file
  BY <1>5, <1>8 DEF Chronological
<1>10. u[m].file \in Nat /\ u[x].file \in Nat /\ u[n].file \in Nat
  <2>1. u[m] \in Part /\ u[x] \in Part /\ u[n] \in Part
    BY <1>5
  <2>2. Files \subseteq Nat
    BY DialogueAssumption DEF Files
  <2>3. QED
    BY <2>1, <2>2 DEF Part
<1>11. u[x].file = u[n].file
  <2>1. u[x].file <= u[n].file /\ u[n].file <= u[x].file
    BY <1>5, <1>9
  <2>2. QED
    BY <1>10, <2>1
<1>12. QED
  BY <1>3, <1>5, <1>11

LEMMA VolunteerUnderWay ==
    ASSUME NEW u \in Seq(Part), NEW ts \in Seq(Turn), Gathered(u, ts), NEW p \in Nat, p + 1 \in DOMAIN ts,
           ts[p + 1].label \notin Asking, \A m : TakenUp(ts, m, p) => u[m].file # ts[p + 1].file,
           NEW b, b.question = {}, b.file = ts[p + 1].file
    PROVE  /\ UnderWay(b, u, ts, p + 1)
           /\ \A n \in ts[p + 1].text : LastAskedIn(u, n) = {}
<1>1. UnderWay(b, u, ts, p + 1)
  BY LatestStays DEF UnderWay, Latest
<1>2. ASSUME NEW n \in ts[p + 1].text, NEW m \in LastAskedIn(u, n)
      PROVE  FALSE
  <2>1. m \in 1..(n - 1) /\ AskedIn(u, m) /\ u[m].file = u[n].file
    BY <1>2 DEF LastAskedIn
  <2>2. n \in Nat /\ u[n].file = ts[p + 1].file
    BY <1>2, NextTurn
  <2>3. m \in DOMAIN u /\ m < n
    BY <2>1, <2>2 DEF AskedIn, AudibleIn
  <2>4. TakenUp(ts, m, p)
    BY <1>2, <2>1, <2>3, NextTurn
  <2>5. QED
    BY <2>1, <2>2, <2>4
<1>3. QED
  BY <1>1, <1>2

-----------------------------------------------------------------------------
(* The block under way after the next turn is right about what is in it *)

LEMMA AllUnderIt ==
    ASSUME NEW u \in Seq(Part), NEW ts \in Seq(Turn), Gathered(u, ts), NEW p \in Nat, p + 1 \in DOMAIN ts,
           ts[p + 1].label \notin Asking, NEW old, UnderWay(old, u, ts, p), Sound(old, u, ts, p),
           old.file = ts[p + 1].file
    PROVE  \A n \in ts[p + 1].text :
              LastAskedIn(u, n) \subseteq old.question /\ (LastAskedIn(u, n) = {} => old.question = {})
<1>1. ASSUME NEW n \in ts[p + 1].text PROVE LastAskedIn(u, n) \subseteq old.question
  BY UnderTheLastQuestion, ZenonT(60)
<1>2. ASSUME NEW n \in ts[p + 1].text PROVE LastAskedIn(u, n) = {} => old.question = {}
  BY UnderTheLastQuestion, ZenonT(60)
<1>3. QED
  BY <1>1, <1>2

LEMMA QuestionSound ==
    ASSUME NEW u \in Seq(Part), NEW ts \in Seq(Turn), Gathered(u, ts), NEW p \in Nat, p + 1 \in DOMAIN ts,
           ts[p + 1].label \in Asking, NEW b \in Block, b.question = ts[p + 1].text, b.answer = {},
           b.by = "None", b.file = ts[p + 1].file
    PROVE  Sound(b, u, ts, p + 1)
<1>1. \A n \in b.question : TakenUp(ts, n, p + 1) /\ AskedIn(u, n) /\ u[n].file = b.file
  BY NextTurn
<1>2. QED
  BY <1>1 DEF Sound

\* The words of the next turn, in a block of its speaker under the question that was last asked.
LEMMA AnswerPart ==
    ASSUME NEW u \in Seq(Part), NEW ts \in Seq(Turn), Gathered(u, ts), NEW p \in Nat, p + 1 \in DOMAIN ts,
           ts[p + 1].label \notin Asking, NEW n \in ts[p + 1].text, NEW b,
           b.by = SpeakerId(ts[p + 1].label), b.file = ts[p + 1].file,
           LastAskedIn(u, n) \subseteq b.question, LastAskedIn(u, n) = {} => b.question = {}
    PROVE  /\ TakenUp(ts, n, p + 1) /\ AudibleIn(u, n) /\ ~AskedIn(u, n)
           /\ u[n].file = b.file /\ SpeakerId(u[n].label) = b.by
           /\ LastAskedIn(u, n) \subseteq b.question
           /\ LastAskedIn(u, n) = {} => b.question = {}
<1>1. /\ AudibleIn(u, n) /\ TakenUp(ts, n, p + 1) /\ (AskedIn(u, n) <=> ts[p + 1].label \in Asking)
      /\ u[n].file = ts[p + 1].file /\ u[n].label = ts[p + 1].label
  BY NextTurn
<1>2. QED
  BY <1>1

LEMMA VolunteerSound ==
    ASSUME NEW u \in Seq(Part), NEW ts \in Seq(Turn), Gathered(u, ts), NEW p \in Nat, p + 1 \in DOMAIN ts,
           ts[p + 1].label \notin Asking, \A n \in ts[p + 1].text : LastAskedIn(u, n) = {},
           NEW b \in Block, b.question = {}, b.answer = ts[p + 1].text,
           b.by = SpeakerId(ts[p + 1].label), b.file = ts[p + 1].file
    PROVE  Sound(b, u, ts, p + 1)
<1>1. b.answer # {}
  <2>1. ts[p + 1].text # {}
    BY DEF Gathered
  <2>2. QED
    BY <2>1
<1>2. \A n \in b.answer : /\ TakenUp(ts, n, p + 1) /\ AudibleIn(u, n) /\ ~AskedIn(u, n)
                          /\ u[n].file = b.file /\ SpeakerId(u[n].label) = b.by
                          /\ LastAskedIn(u, n) \subseteq b.question
                          /\ LastAskedIn(u, n) = {} => b.question = {}
  BY AnswerPart
<1>3. QED
  BY <1>1, <1>2 DEF Sound

LEMMA OtherSound ==
    ASSUME NEW u \in Seq(Part), NEW ts \in Seq(Turn), Gathered(u, ts), NEW p \in Nat, p + 1 \in DOMAIN ts,
           ts[p + 1].label \notin Asking, NEW old, Sound(old, u, ts, p), old.file = ts[p + 1].file,
           \A n \in ts[p + 1].text :
              LastAskedIn(u, n) \subseteq old.question /\ (LastAskedIn(u, n) = {} => old.question = {}),
           NEW b \in Block, b.question = old.question, b.answer = ts[p + 1].text,
           b.by = SpeakerId(ts[p + 1].label), b.file = ts[p + 1].file
    PROVE  Sound(b, u, ts, p + 1)
<1>1. b.answer # {}
  <2>1. ts[p + 1].text # {}
    BY DEF Gathered
  <2>2. QED
    BY <2>1
<1>2. \A n \in ts[p + 1].text : LastAskedIn(u, n) \subseteq b.question /\ (LastAskedIn(u, n) = {} => b.question = {})
  OBVIOUS
<1>3. \A n \in b.answer : /\ TakenUp(ts, n, p + 1) /\ AudibleIn(u, n) /\ ~AskedIn(u, n)
                          /\ u[n].file = b.file /\ SpeakerId(u[n].label) = b.by
                          /\ LastAskedIn(u, n) \subseteq b.question
                          /\ LastAskedIn(u, n) = {} => b.question = {}
  BY <1>2, AnswerPart
<1>4. \A n \in b.question : TakenUp(ts, n, p + 1) /\ AskedIn(u, n) /\ u[n].file = b.file
  BY TakenLater DEF Sound
<1>5. QED
  BY <1>1, <1>3, <1>4 DEF Sound

LEMMA JoinSound ==
    ASSUME NEW u \in Seq(Part), NEW ts \in Seq(Turn), Gathered(u, ts), NEW p \in Nat, p + 1 \in DOMAIN ts,
           ts[p + 1].label \notin Asking, NEW old, Sound(old, u, ts, p), old.file = ts[p + 1].file,
           \A n \in ts[p + 1].text :
              LastAskedIn(u, n) \subseteq old.question /\ (LastAskedIn(u, n) = {} => old.question = {}), old.answer = {} \/ old.by = SpeakerId(ts[p + 1].label),
           NEW b \in Block, b.question = old.question, b.answer = old.answer \cup ts[p + 1].text,
           b.by = SpeakerId(ts[p + 1].label), b.file = old.file
    PROVE  Sound(b, u, ts, p + 1)
<1>1. b.answer # {}
  <2>1. ts[p + 1].text # {}
    BY DEF Gathered
  <2>2. QED
    BY <2>1
<1>2. \A n \in ts[p + 1].text : LastAskedIn(u, n) \subseteq b.question /\ (LastAskedIn(u, n) = {} => b.question = {})
  OBVIOUS
<1>3. \A n \in ts[p + 1].text : /\ TakenUp(ts, n, p + 1) /\ AudibleIn(u, n) /\ ~AskedIn(u, n)
                                /\ u[n].file = b.file /\ SpeakerId(u[n].label) = b.by
                                /\ LastAskedIn(u, n) \subseteq b.question
                                /\ LastAskedIn(u, n) = {} => b.question = {}
  BY <1>2, AnswerPart
<1>4. \A n \in old.answer : /\ TakenUp(ts, n, p + 1) /\ AudibleIn(u, n) /\ ~AskedIn(u, n)
                            /\ u[n].file = b.file /\ SpeakerId(u[n].label) = b.by
                            /\ LastAskedIn(u, n) \subseteq b.question
                            /\ LastAskedIn(u, n) = {} => b.question = {}
  BY TakenLater DEF Sound
<1>5. \A n \in b.question : TakenUp(ts, n, p + 1) /\ AskedIn(u, n) /\ u[n].file = b.file
  BY TakenLater DEF Sound
<1>6. QED
  BY <1>1, <1>3, <1>4, <1>5 DEF Sound
-----------------------------------------------------------------------------
(* Reading a part *)

\* What is true of the parts read so far stays true when the next one, q, is read.
LEMMA PartRead ==
    ASSUME NEW u \in Seq(Part), NEW q \in Part
    PROVE  /\ Append(u, q) \in Seq(Part) /\ Len(u) + 1 \in Nat
           /\ DOMAIN u = 1..Len(u) /\ DOMAIN Append(u, q) = 1..(Len(u) + 1)
           /\ Append(u, q)[Len(u) + 1] = q
           /\ \A k \in DOMAIN u : Append(u, q)[k] = u[k] /\ k \in DOMAIN Append(u, q) /\ k < Len(u) + 1
           /\ \A k \in DOMAIN Append(u, q) : k \in DOMAIN u \/ k = Len(u) + 1
           /\ \A k : AudibleIn(u, k) => AudibleIn(Append(u, q), k) /\ Append(u, q)[k] = u[k]
           /\ \A k : AudibleIn(Append(u, q), k) => AudibleIn(u, k) \/ k = Len(u) + 1
           /\ q.blank => ~AudibleIn(Append(u, q), Len(u) + 1)
           /\ ~q.blank => AudibleIn(Append(u, q), Len(u) + 1)
<1> DEFINE later == Append(u, q)
           n == Len(u) + 1
<1>1. /\ later \in Seq(Part) /\ n \in Nat /\ DOMAIN u = 1..Len(u) /\ DOMAIN later = 1..n
      /\ later[n] = q /\ \A k \in DOMAIN u : later[k] = u[k]
  OBVIOUS
<1>2. /\ \A k \in DOMAIN u : k \in DOMAIN later /\ k < n
      /\ \A k \in DOMAIN later : k \in DOMAIN u \/ k = n
      /\ n \in DOMAIN later
  BY <1>1
<1> HIDE DEF later, n
<1>3. /\ \A k : AudibleIn(u, k) => AudibleIn(later, k) /\ later[k] = u[k]
      /\ \A k : AudibleIn(later, k) => AudibleIn(u, k) \/ k = n
      /\ q.blank => ~AudibleIn(later, n)
      /\ ~q.blank => AudibleIn(later, n)
  BY <1>1, <1>2 DEF AudibleIn
<1>4. QED
  BY <1>1, <1>2, <1>3 DEF later, n

LEMMA TurnGrows ==
    ASSUME NEW ts \in Seq(Turn), NEW k \in DOMAIN ts, NEW n \in 1..MaxParts
    PROVE  /\ [ts EXCEPT ![k].text = @ \cup {n}] \in Seq(Turn)
           /\ DOMAIN [ts EXCEPT ![k].text = @ \cup {n}] = DOMAIN ts
           /\ \A j \in DOMAIN ts : j # k => [ts EXCEPT ![k].text = @ \cup {n}][j] = ts[j]
           /\ [ts EXCEPT ![k].text = @ \cup {n}][k].text = ts[k].text \cup {n}
           /\ [ts EXCEPT ![k].text = @ \cup {n}][k].label = ts[k].label
           /\ [ts EXCEPT ![k].text = @ \cup {n}][k].file = ts[k].file
<1> DEFINE t == ts[k]
           grown == t.text \cup {n}
           longer == [t EXCEPT !.text = grown]
<1>1. t \in Turn /\ grown \in SUBSET (1..MaxParts)
  <2>1. t \in Turn
    OBVIOUS
  <2>2. t.text \in SUBSET (1..MaxParts)
    BY <2>1 DEF Turn
  <2>3. QED
    BY <2>1, <2>2
<1> HIDE DEF grown, t
<1>2. longer \in Turn
  BY <1>1 DEF Turn
<1>3. longer.text = grown /\ longer.label = t.label /\ longer.file = t.file
  BY <1>1 DEF Turn
<1>4. [ts EXCEPT ![k].text = @ \cup {n}] = [ts EXCEPT ![k] = longer]
  BY DEF longer, grown, t
<1> HIDE DEF longer
<1>5. /\ [ts EXCEPT ![k] = longer] \in Seq(Turn) /\ DOMAIN [ts EXCEPT ![k] = longer] = DOMAIN ts
      /\ [ts EXCEPT ![k] = longer][k] = longer
      /\ \A j \in DOMAIN ts : j # k => [ts EXCEPT ![k] = longer][j] = ts[j]
  BY <1>2
<1>6. QED
  BY <1>3, <1>4, <1>5 DEF t, grown

LEMMA ChronologicalStays ==
    ASSUME NEW u \in Seq(Part), NEW q \in Part, Chronological(u), u # <<>> => q.file >= u[Len(u)].file
    PROVE  Chronological(Append(u, q))
<1> DEFINE later == Append(u, q)
           n == Len(u) + 1
<1>1. /\ later \in Seq(Part) /\ n \in Nat /\ DOMAIN u = 1..Len(u) /\ DOMAIN later = 1..n
      /\ later[n] = q /\ \A k \in DOMAIN u : later[k] = u[k] /\ k \in DOMAIN later /\ k < n
      /\ \A k \in DOMAIN later : k \in DOMAIN u \/ k = n
  BY PartRead
<1>2. \A k \in DOMAIN later : later[k].file \in Nat
  <2>1. Files \subseteq Nat
    BY DialogueAssumption DEF Files
  <2>2. \A k \in DOMAIN later : later[k] \in Part
    BY <1>1
  <2>3. QED
    BY <2>1, <2>2 DEF Part
<1> HIDE DEF later
<1>3. ASSUME NEW k \in DOMAIN u PROVE u[k].file <= q.file
  <2>1. u # <<>> /\ Len(u) \in DOMAIN u /\ k <= Len(u)
    BY <1>1
  <2>2. u[k].file <= u[Len(u)].file
    BY <2>1 DEF Chronological
  <2>3. u[k].file \in Nat /\ u[Len(u)].file \in Nat /\ q.file \in Nat
    BY <1>1, <1>2, <2>1
  <2>4. QED
    BY <2>1, <2>2, <2>3
<1>4. ASSUME NEW k \in DOMAIN later, NEW m \in DOMAIN later, k <= m PROVE later[k].file <= later[m].file
  <2>1. CASE m \in DOMAIN u
    BY <1>1, <1>4, <2>1 DEF Chronological
  <2>2. CASE m = n /\ k \in DOMAIN u
    BY <1>1, <1>3, <2>2
  <2>3. CASE m = n /\ k = n
    BY <1>2, <2>3
  <2>4. QED
    BY <1>1, <2>1, <2>2, <2>3
<1>5. QED
  BY <1>4 DEF Chronological, later

LEMMA SilenceKeeps ==
    ASSUME NEW u \in Seq(Part), NEW q \in Part, q.blank, NEW ts \in Seq(Turn), Gathered(u, ts)
    PROVE  Gathered(Append(u, q), ts)
<1> DEFINE later == Append(u, q)
           n == Len(u) + 1
<1>1. /\ \A k \in DOMAIN later : k \in DOMAIN u \/ k = n
      /\ \A k : AudibleIn(u, k) => AudibleIn(later, k) /\ later[k] = u[k]
      /\ \A k : AudibleIn(later, k) => AudibleIn(u, k) \/ k = n
      /\ ~AudibleIn(later, n)
  BY PartRead
<1> HIDE DEF later, n
<1>2. /\ \A k \in DOMAIN ts :
          /\ ts[k].text # {}
          /\ \A j \in ts[k].text : AudibleIn(later, j) /\ later[j].label = ts[k].label /\ later[j].file = ts[k].file
  BY <1>1 DEF Gathered
<1>3. \A j \in DOMAIN later : AudibleIn(later, j) => \E k \in DOMAIN ts : j \in ts[k].text
  BY <1>1 DEF Gathered, AudibleIn
<1>4. QED
  BY <1>2, <1>3 DEF Gathered, later

\* The part continues the last turn.
LEMMA ContinuedKeeps ==
    ASSUME NEW u \in Seq(Part), NEW q \in Part, ~q.blank, NEW ts \in Seq(Turn), Gathered(u, ts), ts # <<>>,
           ts[Len(ts)].file = q.file, ts[Len(ts)].label = q.label, Len(u) + 1 \in 1..MaxParts
    PROVE  /\ [ts EXCEPT ![Len(ts)].text = @ \cup {Len(u) + 1}] \in Seq(Turn)
           /\ Gathered(Append(u, q), [ts EXCEPT ![Len(ts)].text = @ \cup {Len(u) + 1}])
<1> DEFINE later == Append(u, q)
           n == Len(u) + 1
           l == Len(ts)
           longer == [ts EXCEPT ![l].text = @ \cup {n}]
<1>1. /\ n \in Nat /\ later[n] = q /\ AudibleIn(later, n)
      /\ \A k \in DOMAIN u : k < n
      /\ \A k \in DOMAIN later : k \in DOMAIN u \/ k = n
      /\ \A k : AudibleIn(u, k) => AudibleIn(later, k) /\ later[k] = u[k]
      /\ \A k : AudibleIn(later, k) => AudibleIn(u, k) \/ k = n
  BY PartRead
<1>2. l \in DOMAIN ts /\ l \in Nat /\ DOMAIN ts = 1..l
  OBVIOUS
<1>3. /\ longer \in Seq(Turn) /\ DOMAIN longer = DOMAIN ts
      /\ \A k \in DOMAIN ts : k # l => longer[k] = ts[k]
      /\ longer[l].text = ts[l].text \cup {n} /\ longer[l].label = ts[l].label /\ longer[l].file = ts[l].file
  <2> HIDE DEF later
  <2>1. n \in 1..MaxParts
    OBVIOUS
  <2> HIDE DEF n, l
  <2>2. longer \in Seq(Turn) /\ DOMAIN longer = DOMAIN ts
    BY <1>2, <2>1, TurnGrows
  <2>3. \A k \in DOMAIN ts : k # l => longer[k] = ts[k]
    BY <1>2, <2>1, TurnGrows
  <2>4. longer[l].text = ts[l].text \cup {n} /\ longer[l].label = ts[l].label /\ longer[l].file = ts[l].file
    BY <1>2, <2>1, TurnGrows
  <2>5. QED
    BY <2>2, <2>3, <2>4
<1> HIDE DEF later, n, longer, l
<1>4. ASSUME NEW k \in DOMAIN longer
      PROVE  /\ longer[k].text # {}
             /\ \A j \in longer[k].text : /\ AudibleIn(later, j) /\ later[j].label = longer[k].label
                                          /\ later[j].file = longer[k].file
  <2>1. CASE k = l
    <3>1. ts[l].label = q.label /\ ts[l].file = q.file
      BY DEF l
    <3>2. \A j \in ts[l].text : AudibleIn(u, j) /\ u[j].label = ts[l].label /\ u[j].file = ts[l].file
      BY <1>2 DEF Gathered
    <3>3. QED
      BY <1>1, <1>3, <2>1, <3>1, <3>2
  <2>2. CASE k # l
    BY <1>1, <1>3, <2>2 DEF Gathered
  <2>3. QED
    BY <2>1, <2>2
<1>5. ASSUME NEW j \in DOMAIN later, AudibleIn(later, j)
      PROVE  \E k \in DOMAIN longer : j \in longer[k].text
  <2>1. CASE j = n
    BY <1>2, <1>3, <2>1
  <2>2. CASE AudibleIn(u, j)
    <3>1. PICK k \in DOMAIN ts : j \in ts[k].text
      BY <2>2 DEF Gathered, AudibleIn
    <3>2. j \in longer[k].text
      BY <1>3, <3>1
    <3>3. QED
      BY <1>3, <3>1, <3>2
  <2>3. QED
    BY <1>1, <1>5, <2>1, <2>2
<1>6. ASSUME NEW j \in DOMAIN longer, NEW k \in DOMAIN longer, j < k,
             NEW x \in longer[j].text, NEW y \in longer[k].text
      PROVE  x < y
  <2>1. j # l /\ j \in DOMAIN ts /\ k \in DOMAIN ts
    BY <1>2, <1>3, <1>6
  <2>2. x \in ts[j].text
    BY <1>3, <2>1
  <2>3. x \in DOMAIN u
    BY <2>1, <2>2 DEF Gathered, AudibleIn
  <2>4. CASE y \in ts[k].text
    BY <1>6, <2>1, <2>2, <2>4 DEF Gathered
  <2>5. CASE y = n
    BY <1>1, <2>3, <2>5
  <2>6. y \in ts[k].text \/ y = n
    BY <1>3, <2>1
  <2>7. QED
    BY <2>4, <2>5, <2>6
<1>7. Gathered(later, longer)
  BY <1>4, <1>5, <1>6 DEF Gathered
<1>8. QED
  BY <1>3, <1>7 DEF later, longer, l, n

\* The part begins a turn.
LEMMA BegunKeeps ==
    ASSUME NEW u \in Seq(Part), NEW q \in Part, ~q.blank, NEW ts \in Seq(Turn), Gathered(u, ts),
           NEW t \in Turn, t.label = q.label, t.file = q.file, t.text = {Len(u) + 1}
    PROVE  Append(ts, t) \in Seq(Turn) /\ Gathered(Append(u, q), Append(ts, t))
<1> DEFINE later == Append(u, q)
           n == Len(u) + 1
           l == Len(ts) + 1
           longer == Append(ts, t)
<1>1. /\ n \in Nat /\ later[n] = q /\ AudibleIn(later, n)
      /\ \A k \in DOMAIN u : k < n
      /\ \A k \in DOMAIN later : k \in DOMAIN u \/ k = n
      /\ \A k : AudibleIn(u, k) => AudibleIn(later, k) /\ later[k] = u[k]
      /\ \A k : AudibleIn(later, k) => AudibleIn(u, k) \/ k = n
  BY PartRead
<1>2. /\ longer \in Seq(Turn) /\ DOMAIN longer = 1..l /\ longer[l] = t /\ l \in Nat
      /\ DOMAIN ts = 1..Len(ts) /\ Len(ts) \in Nat
      /\ \A k \in DOMAIN ts : longer[k] = ts[k]
  OBVIOUS
<1>3. /\ l \in DOMAIN longer /\ \A k \in DOMAIN longer : k \in DOMAIN ts \/ k = l
      /\ \A k \in DOMAIN ts : k \in DOMAIN longer /\ k < l /\ k \in Nat
  BY <1>2
<1> HIDE DEF later, longer, l, n
<1>4. t.text = {n}
  BY DEF n
<1>5. ASSUME NEW k \in DOMAIN longer
      PROVE  /\ longer[k].text # {}
             /\ \A j \in longer[k].text : /\ AudibleIn(later, j) /\ later[j].label = longer[k].label
                                          /\ later[j].file = longer[k].file
  <2>1. CASE k = l
    <3>1. longer[k] = t /\ longer[k].text = {n}
      BY <1>2, <1>4, <2>1
    <3>2. AudibleIn(later, n) /\ later[n].label = t.label /\ later[n].file = t.file
      BY <1>1
    <3>3. QED
      BY <3>1, <3>2
  <2>2. CASE k \in DOMAIN ts
    <3>1. longer[k] = ts[k]
      BY <1>2, <2>2
    <3>2. /\ ts[k].text # {}
          /\ \A j \in ts[k].text : AudibleIn(u, j) /\ u[j].label = ts[k].label /\ u[j].file = ts[k].file
      BY <2>2 DEF Gathered
    <3>3. QED
      BY <1>1, <3>1, <3>2
  <2>3. QED
    BY <1>3, <2>1, <2>2
<1>6. ASSUME NEW j \in DOMAIN later, AudibleIn(later, j)
      PROVE  \E k \in DOMAIN longer : j \in longer[k].text
  <2>1. CASE j = n
    BY <1>2, <1>3, <1>4, <2>1
  <2>2. CASE AudibleIn(u, j)
    <3>1. PICK k \in DOMAIN ts : j \in ts[k].text
      BY <2>2 DEF Gathered, AudibleIn
    <3>2. QED
      BY <1>2, <1>3, <3>1
  <2>3. QED
    BY <1>1, <1>6, <2>1, <2>2
<1>7. ASSUME NEW j \in DOMAIN longer, NEW k \in DOMAIN longer, j < k,
             NEW x \in longer[j].text, NEW y \in longer[k].text
      PROVE  x < y
  <2>1. j \in DOMAIN ts
    BY <1>2, <1>3, <1>7
  <2>2. x \in ts[j].text
    BY <1>2, <2>1
  <2>3. CASE k \in DOMAIN ts
    <3>1. y \in ts[k].text
      BY <1>2, <2>3
    <3>2. QED
      BY <1>7, <2>1, <2>2, <2>3, <3>1 DEF Gathered
  <2>4. CASE k = l
    <3>1. y = n
      BY <1>2, <1>4, <2>4
    <3>2. x \in DOMAIN u
      BY <2>1, <2>2 DEF Gathered, AudibleIn
    <3>3. QED
      BY <1>1, <3>1, <3>2
  <2>5. QED
    BY <1>3, <2>3, <2>4
<1>8. Gathered(later, longer)
  BY <1>5, <1>6, <1>7 DEF Gathered
<1>9. QED
  BY <1>2, <1>8 DEF later, longer
-----------------------------------------------------------------------------
(* The steps *)

LEMMA DialogueInitInv == DialogueInit => DialogueInv
<1> SUFFICES ASSUME DialogueInit PROVE DialogueInv
  OBVIOUS
<1> USE DEF DialogueInit
<1>1. DialogueTyping
  BY DialogueAssumption DEF DialogueTyping
<1>2. Chronological(utterances) /\ Gathered(utterances, turns)
  BY DEF Chronological, Gathered
<1>3. PlacedOnce(blocks, pending, utterances, turns, paired)
  BY DEF PlacedOnce
<1>4. QED
  BY <1>1, <1>2, <1>3 DEF DialogueInv

LEMMA ReadPartInv ==
    ASSUME DialogueInv, NEW p \in Part, NEW close \in BOOLEAN, ReadPart(p, close)
    PROVE  DialogueInv'
<1> DEFINE n == Len(utterances) + 1
           begun == [label |-> p.label, file |-> p.file, text |-> {n}]
<1>1. /\ utterances \in Seq(Part) /\ turns \in Seq(Turn) /\ blocks = <<>> /\ pending = {} /\ paired = 0
      /\ phase = "reading" /\ n <= MaxParts /\ n \in 1..MaxParts /\ Len(utterances) \in Nat
      /\ Chronological(utterances) /\ Gathered(utterances, turns)
  BY DialogueAssumption DEF DialogueInv, DialogueTyping, ReadPart
<1>2. utterances' = Append(utterances, p) /\ blocks' = blocks /\ pending' = pending /\ phase' = phase /\ paired' = paired
  BY DEF ReadPart
<1>3. utterances' \in Seq(Part) /\ Len(utterances') <= MaxParts
  BY <1>1, <1>2
<1>4. Chronological(utterances')
  <2>1. utterances # <<>> => p.file >= utterances[Len(utterances)].file
    BY DEF ReadPart
  <2>2. QED
    BY <1>1, <1>2, <2>1, ChronologicalStays
<1>5. turns' \in Seq(Turn) /\ Gathered(utterances', turns')
  <2>1. CASE p.blank
    <3>1. turns' = turns
      BY <2>1 DEF ReadPart
    <3>2. QED
      BY <1>1, <1>2, <2>1, <3>1, SilenceKeeps
  <2>2. CASE ~p.blank /\ Continues(p, close)
    <3>1. turns' = [turns EXCEPT ![Len(turns)].text = @ \cup {Len(utterances) + 1}]
      BY <2>2 DEF ReadPart
    <3>2. turns # <<>> /\ turns[Len(turns)].file = p.file /\ turns[Len(turns)].label = p.label
      BY <2>2 DEF Continues
    <3>3. QED
      BY <1>1, <1>2, <2>2, <3>1, <3>2, ContinuedKeeps
  <2>3. CASE ~p.blank /\ ~Continues(p, close)
    <3>1. turns' = Append(turns, begun)
      BY <2>3 DEF ReadPart
    <3>2. begun.label = p.label /\ begun.file = p.file /\ begun.text = {Len(utterances) + 1}
      OBVIOUS
    <3>3. begun \in Turn
      <4>1. p.label \in Voiced /\ p.file \in Files
        BY DEF Part
      <4>2. QED
        BY <1>1, <4>1 DEF Turn
    <3> HIDE DEF begun, n
    <3>4. QED
      BY <1>1, <1>2, <2>3, <3>1, <3>2, <3>3, BegunKeeps
  <2>4. QED
    BY <2>1, <2>2, <2>3
<1>6. DialogueTyping'
  BY <1>1, <1>2, <1>3, <1>5 DEF DialogueTyping
<1>7. PlacedOnce(blocks', pending', utterances', turns', paired')
  BY <1>1, <1>2 DEF PlacedOnce, TakenUp
<1>8. QED
  BY <1>1, <1>2, <1>4, <1>5, <1>6, <1>7 DEF DialogueInv

LEMMA EndOfPartsInv == DialogueInv /\ EndOfParts => DialogueInv'
<1> SUFFICES ASSUME DialogueInv, EndOfParts PROVE DialogueInv'
  OBVIOUS
<1>1. utterances' = utterances /\ turns' = turns /\ blocks' = blocks /\ pending' = pending /\ paired' = paired
      /\ phase' = "pairing"
  BY DEF EndOfParts
<1>2. DialogueTyping'
  BY <1>1 DEF DialogueInv, DialogueTyping
<1>3. QED
  BY <1>1, <1>2 DEF DialogueInv

LEMMA LastFlushInv == DialogueInv /\ LastFlush => DialogueInv'
<1> SUFFICES ASSUME DialogueInv, LastFlush PROVE DialogueInv'
  OBVIOUS
<1>1. /\ utterances' = utterances /\ turns' = turns /\ paired' = paired /\ phase' = phase
      /\ pending' = {} /\ paired = Len(turns) /\ phase = "pairing"
  BY DEF LastFlush
<1>2. PICK b \in Block : pending = {b}
  BY DEF DialogueInv, LastFlush
<1>3. blocks' = blocks \o <<b>> /\ blocks \in Seq(Block)
  BY <1>2 DEF LastFlush, Flushed, DialogueInv, DialogueTyping
<1>4. PlacedOnce(blocks', {}, utterances, turns, paired)
  BY <1>2, <1>3, BlockFlushed DEF DialogueInv
<1>5. blocks' \in Seq(Block)
  BY <1>2, <1>3
<1>6. paired # 0
  BY <1>2 DEF DialogueInv
<1>7. DialogueTyping'
  BY <1>1, <1>5 DEF DialogueInv, DialogueTyping
<1>8. QED
  BY <1>1, <1>4, <1>6, <1>7 DEF DialogueInv

\* A turn is taken, if it is in its place and under way afterwards.
LEMMA TurnTaken ==
    ASSUME DialogueInv, TakeTurn, NEW b \in Block, pending' = {b}, blocks' \in Seq(Block),
           PlacedOnce(blocks', {b}, utterances, turns, paired + 1), UnderWay(b, utterances, turns, paired + 1)
    PROVE  DialogueInv'
<1>1. /\ utterances' = utterances /\ turns' = turns /\ phase' = phase /\ paired' = paired + 1
      /\ phase = "pairing" /\ paired < Len(turns)
  BY DEF TakeTurn
<1>2. paired' \in 0..Len(turns') /\ paired' # 0
  BY <1>1 DEF DialogueInv, DialogueTyping
<1>3. DialogueTyping'
  BY <1>1, <1>2 DEF DialogueInv, DialogueTyping
<1>4. QED
  BY <1>1, <1>2, <1>3 DEF DialogueInv

LEMMA TakeTurnInv == DialogueInv /\ TakeTurn => DialogueInv'
<1> SUFFICES ASSUME DialogueInv, TakeTurn PROVE DialogueInv'
  OBVIOUS
<1> DEFINE u == utterances
           ts == turns
           p == paired
           t == turns[paired + 1]
<1>1. /\ u \in Seq(Part) /\ ts \in Seq(Turn) /\ p \in Nat /\ blocks \in Seq(Block) /\ p + 1 \in DOMAIN ts
      /\ Gathered(u, ts) /\ Chronological(u) /\ PlacedOnce(blocks, pending, u, ts, p)
      /\ pending = {} => p = 0
  BY DEF DialogueInv, DialogueTyping, TakeTurn
<1>2. pending = {} \/ \E b \in Block : pending = {b} /\ UnderWay(b, u, ts, p) /\ Sound(b, u, ts, p) /\ p # 0
  BY DEF DialogueInv, PlacedOnce
<1>3. AskQuestion(t) \/ Volunteer(t) \/ OtherAnswers(t) \/ JoinAnswer(t)
  BY DEF TakeTurn
<1>4. t \in Turn /\ t.label \in Voiced /\ t.file \in Files /\ t.text \in SUBSET (1..MaxParts)
  <2>1. t \in Turn
    BY <1>1
  <2>2. QED
    BY <2>1 DEF Turn
<1>5. SpeakerId(t.label) \in SpeakerIds /\ "None" \in SpeakerIds
  BY <1>4 DEF SpeakerId, SpeakerIds
<1>6. t = ts[p + 1]
  OBVIOUS
\* The block under way, if it is flushed.
<1>7. ASSUME blocks' = IF pending = {} THEN blocks ELSE Flushed(CHOOSE b \in pending : TRUE)
      PROVE  blocks' \in Seq(Block) /\ PlacedOnce(blocks', {}, u, ts, p)
  <2>1. CASE pending = {}
    BY <1>1, <1>7, <2>1
  <2>2. ASSUME NEW b \in Block, pending = {b}
        PROVE  blocks' \in Seq(Block) /\ PlacedOnce(blocks', {}, u, ts, p)
    <3>1. blocks' = blocks \o <<b>>
      BY <1>7, <2>2 DEF Flushed
    <3>2. QED
      BY <1>1, <2>2, <3>1, BlockFlushed, SMTT(60)
  <2>3. QED
    BY <1>2, <2>1, <2>2
<1> HIDE DEF t, p, ts, u
<1>8. ASSUME AskQuestion(t) PROVE DialogueInv'
  <2> DEFINE b == [question |-> t.text, answer |-> {}, by |-> "None", file |-> t.file]
  <2>1. b \in Block
    BY <1>4, <1>5 DEF Block
  <2>2. b.question = t.text /\ b.answer = {} /\ b.by = "None" /\ b.file = t.file
    OBVIOUS
  <2>3. pending' = {b} /\ t.label \in Asking
    BY <1>8 DEF AskQuestion
  <2>4. blocks' \in Seq(Block) /\ PlacedOnce(blocks', {}, u, ts, p)
    BY <1>7, <1>8 DEF AskQuestion
  <2> HIDE DEF b
  <2>5. Sound(b, u, ts, p + 1)
    BY <1>1, <1>6, <2>1, <2>2, <2>3, QuestionSound
  <2>6. UnderWay(b, u, ts, p + 1)
    BY <1>1, <1>6, <2>2, <2>3, QuestionUnderWay
  <2>7. PlacedOnce(blocks', {b}, u, ts, p + 1)
    BY <1>1, <1>6, <2>2, <2>3, <2>4, <2>5, NewKeeps
  <2>8. QED
    BY <2>1, <2>3, <2>4, <2>6, <2>7, TurnTaken DEF u, ts, p
<1>9. ASSUME Volunteer(t) PROVE DialogueInv'
  <2> DEFINE b == Answering(t, {})
  <2>1. b \in Block
    BY <1>4, <1>5 DEF Block, Answering
  <2>2. b.question = {} /\ b.answer = t.text /\ b.by = SpeakerId(t.label) /\ b.file = t.file
    BY DEF Answering
  <2>3. pending' = {b} /\ t.label \notin Asking /\ Open(t) = {}
    BY <1>9 DEF Volunteer
  <2>4. blocks' \in Seq(Block) /\ PlacedOnce(blocks', {}, u, ts, p)
    BY <1>7, <1>9 DEF Volunteer
  <2> HIDE DEF b
  <2>5. p = 0 \/ ts[p].file # ts[p + 1].file
    <3>1. ASSUME NEW c \in Block, pending = {c}, UnderWay(c, u, ts, p)
          PROVE  ts[p].file # ts[p + 1].file
      <4>1. c.file # t.file
        BY <2>3, <3>1 DEF Open
      <4>2. QED
        BY <1>6, <3>1, <4>1 DEF UnderWay
    <3>2. QED
      BY <1>1, <1>2, <3>1
  <2>6. \A m : TakenUp(ts, m, p) => u[m].file # ts[p + 1].file
    BY <1>1, <2>5, NothingOfIt
  <2>7. UnderWay(b, u, ts, p + 1) /\ \A n \in ts[p + 1].text : LastAskedIn(u, n) = {}
    BY <1>1, <1>6, <2>2, <2>3, <2>6, VolunteerUnderWay
  <2>8. Sound(b, u, ts, p + 1)
    BY <1>1, <1>6, <2>1, <2>2, <2>3, <2>7, VolunteerSound
  <2>9. PlacedOnce(blocks', {b}, u, ts, p + 1)
    BY <1>1, <1>6, <2>2, <2>3, <2>4, <2>8, NewKeeps
  <2>10. QED
    BY <2>1, <2>3, <2>4, <2>7, <2>9, TurnTaken DEF u, ts, p
<1>10. ASSUME OtherAnswers(t) PROVE DialogueInv'
  <2>1. PICK old \in Open(t) : /\ blocks' = Flushed(old) /\ pending' = {Answering(t, old.question)}
    BY <1>10 DEF OtherAnswers
  <2>2. /\ old \in Block /\ pending = {old} /\ UnderWay(old, u, ts, p) /\ Sound(old, u, ts, p)
        /\ old.file = t.file /\ t.label \notin Asking
    BY <1>2, <1>10, <2>1 DEF Open, OtherAnswers
  <2> DEFINE b == Answering(t, old.question)
  <2>3. b \in Block
    <3>1. old.question \in SUBSET (1..MaxParts)
      BY <2>2 DEF Block
    <3>2. QED
      BY <1>4, <1>5, <3>1 DEF Block, Answering
  <2>4. b.question = old.question /\ b.answer = t.text /\ b.by = SpeakerId(t.label) /\ b.file = t.file
    BY DEF Answering
  <2>5. pending' = {b}
    BY <2>1
  <2>6. blocks' \in Seq(Block) /\ PlacedOnce(blocks', {}, u, ts, p)
    <3>1. blocks' = blocks \o <<old>>
      BY <2>1 DEF Flushed
    <3>2. QED
      BY <1>1, <2>2, <3>1, BlockFlushed, SMTT(60)
  <2> HIDE DEF b
  <2>7. Sound(b, u, ts, p + 1)
    <3>1. \A n \in ts[p + 1].text :
             LastAskedIn(u, n) \subseteq old.question /\ (LastAskedIn(u, n) = {} => old.question = {})
      BY <1>1, <1>6, <2>2, AllUnderIt
    <3>2. QED
      BY <1>1, <1>6, <2>2, <2>3, <2>4, <3>1, OtherSound
  <2>8. UnderWay(b, u, ts, p + 1)
    BY <1>1, <1>6, <2>2, <2>4, AnswerUnderWay
  <2>9. PlacedOnce(blocks', {b}, u, ts, p + 1)
    BY <1>1, <1>6, <2>2, <2>4, <2>6, <2>7, NewKeeps
  <2>10. QED
    BY <2>3, <2>5, <2>6, <2>8, <2>9, TurnTaken DEF u, ts, p
<1>11. ASSUME JoinAnswer(t) PROVE DialogueInv'
  <2>1. PICK old \in Open(t) :
           /\ old.answer = {} \/ old.by = SpeakerId(t.label)
           /\ blocks' = blocks
           /\ pending' = {[old EXCEPT !.answer = @ \cup t.text,
                                      !.by = IF @ = "None" THEN SpeakerId(t.label) ELSE @]}
    BY <1>11 DEF JoinAnswer
  <2>2. /\ old \in Block /\ pending = {old} /\ UnderWay(old, u, ts, p) /\ Sound(old, u, ts, p)
        /\ old.file = t.file /\ t.label \notin Asking
    BY <1>2, <1>11, <2>1 DEF Open, JoinAnswer
  <2> DEFINE both == old.answer \cup t.text
             who == IF old.by = "None" THEN SpeakerId(t.label) ELSE old.by
             b == [old EXCEPT !.answer = both, !.by = who]
  <2>3. pending' = {b}
    BY <2>1
  <2>4. who = SpeakerId(t.label)
    BY <2>1, <2>2 DEF Sound
  <2>5. both \in SUBSET (1..MaxParts)
    <3>1. old.answer \in SUBSET (1..MaxParts)
      BY <2>2 DEF Block
    <3>2. QED
      BY <1>4, <3>1
  <2> HIDE DEF who, both
  <2>6. b \in Block
    BY <1>5, <2>2, <2>4, <2>5 DEF Block
  <2>7. b.question = old.question /\ b.answer = both /\ b.by = who /\ b.file = old.file
    BY <2>2 DEF Block
  <2> HIDE DEF b
  <2>8. Sound(b, u, ts, p + 1)
    <3>1. \A n \in ts[p + 1].text :
             LastAskedIn(u, n) \subseteq old.question /\ (LastAskedIn(u, n) = {} => old.question = {})
      BY <1>1, <1>6, <2>2, AllUnderIt
    <3>2. QED
      BY <1>1, <1>6, <2>1, <2>2, <2>4, <2>6, <2>7, <3>1, JoinSound DEF both
  <2>9. UnderWay(b, u, ts, p + 1)
    BY <1>1, <1>6, <2>2, <2>7, AnswerUnderWay
  <2>10. PlacedOnce(blocks', {b}, u, ts, p + 1)
    BY <1>1, <1>6, <2>1, <2>2, <2>7, <2>8, JoinKeeps DEF both
  <2>11. QED
    BY <1>1, <2>1, <2>3, <2>6, <2>9, <2>10, TurnTaken DEF u, ts, p
<1>12. QED
  BY <1>3, <1>8, <1>9, <1>10, <1>11

LEMMA DialogueStep == DialogueInv /\ [DialogueNext]_dialogueVars => DialogueInv'
<1> SUFFICES ASSUME DialogueInv, [DialogueNext]_dialogueVars PROVE DialogueInv'
  OBVIOUS
<1>1. ASSUME NEW p \in Part, NEW close \in BOOLEAN, ReadPart(p, close) PROVE DialogueInv'
  BY <1>1, ReadPartInv
<1>2. CASE UNCHANGED dialogueVars
  <2>1. /\ utterances' = utterances /\ turns' = turns /\ blocks' = blocks /\ pending' = pending
        /\ phase' = phase /\ paired' = paired
    BY <1>2 DEF dialogueVars
  <2>2. QED
    BY <2>1 DEF DialogueInv, DialogueTyping
<1>3. QED
  BY <1>1, <1>2, EndOfPartsInv, TakeTurnInv, LastFlushInv DEF DialogueNext

-----------------------------------------------------------------------------
LEMMA InvGivesTestimony == DialogueInv => TestimonyKept
<1> SUFFICES ASSUME DialogueInv, paired = Len(turns), pending = {} PROVE TestimonyKept
  BY DEF TestimonyKept
<1> DEFINE u == utterances
           ts == turns
           p == paired
<1>1. /\ u \in Seq(Part) /\ ts \in Seq(Turn) /\ DOMAIN ts = 1..p /\ Gathered(u, ts)
      /\ PlacedOnce(blocks, {}, u, ts, p)
  BY DEF DialogueInv, DialogueTyping
<1>2. \A n \in DOMAIN u : AudibleIn(u, n) => TakenUp(ts, n, p)
  BY <1>1 DEF Gathered, TakenUp
<1> HIDE DEF u, ts, p
<1>3. ASSUME NEW n \in DOMAIN u, AskedIn(u, n) PROVE \E b \in DOMAIN blocks : n \in blocks[b].question
  <2>1. TakenUp(ts, n, p)
    BY <1>2, <1>3 DEF AskedIn
  <2>2. QED
    BY <1>1, <1>3, <2>1 DEF PlacedOnce
<1>4. ASSUME NEW n \in DOMAIN u, AudibleIn(u, n), ~AskedIn(u, n)
      PROVE  \E b \in DOMAIN blocks :
                 /\ n \in blocks[b].answer
                 /\ \A c \in DOMAIN blocks : n \in blocks[c].answer => c = b
                 /\ \A m \in blocks[b].answer : SpeakerId(u[m].label) = SpeakerId(u[n].label)
                 /\ LastAskedIn(u, n) \subseteq blocks[b].question
                 /\ LastAskedIn(u, n) = {} => blocks[b].question = {}
  <2>1. PICK b \in DOMAIN blocks : n \in blocks[b].answer
    BY <1>1, <1>2, <1>4 DEF PlacedOnce
  <2>2. Sound(blocks[b], u, ts, p)
    BY <1>1 DEF PlacedOnce
  <2>3. \A c \in DOMAIN blocks : n \in blocks[c].answer => c = b
    BY <1>1, <2>1 DEF PlacedOnce
  <2>4. \A m \in blocks[b].answer : SpeakerId(u[m].label) = SpeakerId(u[n].label)
    BY <2>1, <2>2 DEF Sound
  <2>5. LastAskedIn(u, n) \subseteq blocks[b].question /\ (LastAskedIn(u, n) = {} => blocks[b].question = {})
    BY <2>1, <2>2 DEF Sound
  <2>6. QED
    BY <2>1, <2>3, <2>4, <2>5
<1>5. ASSUME NEW b \in DOMAIN blocks
      PROVE  /\ \A n \in blocks[b].question : AskedIn(u, n)
             /\ \A n \in blocks[b].answer : AudibleIn(u, n) /\ ~AskedIn(u, n)
  BY <1>1 DEF PlacedOnce, Sound
<1>6. QED
  BY <1>3, <1>4, <1>5, InTheseTerms DEF TestimonyKept, u

\* However many recordings, speakers and parts there are: nothing that was said is lost, said
\* twice or given to another, and every answer stands under the last question asked before it.
THEOREM TestimonyIsKept == DialogueSpec => []TestimonyKept
<1>1. DialogueSpec => []DialogueInv
  BY DialogueInitInv, DialogueStep, PTL DEF DialogueSpec
<1>2. QED
  BY <1>1, InvGivesTestimony, PTL

\* The types of the questions and answers, and: at most one block is being built.
LEMMA DialogueTyped == DialogueSpec => []DialogueTypeOK
<1>1. DialogueInv => DialogueTypeOK
  <2> SUFFICES ASSUME DialogueInv PROVE DialogueTypeOK
    OBVIOUS
  <2>1. DialogueTyping /\ (pending = {} \/ \E b \in Block : pending = {b})
    BY DEF DialogueInv
  <2>2. pending \in SUBSET Block /\ \A b, c \in pending : b = c
    BY <2>1
  <2>3. paired \in Nat
    BY <2>1 DEF DialogueTyping
  <2>4. QED
    BY <2>1, <2>2, <2>3 DEF DialogueTypeOK, DialogueTyping
<1>2. QED
  BY <1>1, DialogueInitInv, DialogueStep, PTL DEF DialogueSpec

-----------------------------------------------------------------------------
(* The browser between the microphone and the agent *)

JobStates == {"none", "running", "done"} \cup Ended
SendSteps == {"none", "asking", "answered", "uploading", "taken", "refused", "checking"}
GrantRow  == [take : Nat, used : BOOLEAN, job : JobStates, recording : Nat, withdrawn : BOOLEAN]
SendRow   == [step : SendSteps, take : Nat, token : Nat]
TakeRow   == [take : Nat, recording : Nat]

WorkspaceTyping ==
    /\ purpose \in {"INTERVIEW", "REPORT_DICTATION"} /\ mounted \in BOOLEAN
    /\ mic \in {"idle", "requesting", "live"} /\ takes \in Nat
    /\ held \in TakeRow /\ remembered \in Nat
    /\ sends \in [Clicks -> SendRow] /\ grants \in Seq(GrantRow)
    /\ job \in [token : Nat, state : JobStates]
    /\ polls \in SUBSET [token : Nat, state : JobStates, first : BOOLEAN]

\* The page holds at most what was recorded last, and not while it records.
RecorderSound(mc, tk, hd) ==
    /\ hd.take <= tk /\ (hd.take = 0 => hd = NoTake)
    /\ mc # "idle" => hd = NoTake
    /\ mc = "live" => tk # 0

\* A job is only where its token has been used, for a take that was recorded.
GrantsSound(gr, tk) ==
    \A n \in DOMAIN gr : gr[n].take \in 1..tk /\ (gr[n].job # "none" => gr[n].used)

\* A submission goes on with a token of its own take; an answer of the agent tells of a job.
SendsSound(sd, gr, tk) ==
    \A c \in Clicks :
        /\ sd[c].step # "none" => sd[c].take \in 1..tk
        /\ sd[c].step \in {"answered", "uploading", "taken", "refused", "checking"} =>
              sd[c].token \in DOMAIN gr /\ gr[sd[c].token].take = sd[c].take
        /\ sd[c].step = "taken" => gr[sd[c].token].job # "none"

\* What is shown or on its way to be shown as ended has ended so.
ToldTruly(jb, pl, gr) ==
    /\ jb.state # "none" => jb.token \in DOMAIN gr
    /\ jb.state \in Ended => gr[jb.token].job = jb.state
    /\ \A p \in pl : p.token \in DOMAIN gr /\ (p.state \in Ended => gr[p.token].job = p.state)

\* Where a take is, once it was recorded.
TakeKept(t, mc, tk, hd, gr, gone) ==
    \/ mc = "live" /\ t = tk
    \/ hd.take = t \/ t \in gone
    \/ \E n \in DOMAIN gr : gr[n].take = t /\ gr[n].job # "none"

\* A dictation is submitted once at a time, and again with the token it was given.
DictatedOnce(mt, mc, tk, hd, rm, sd, gr, jb, wt, pl) ==
    /\ mt /\ jb = NoJob /\ pl = {}
    /\ \A c \in Clicks : sd[c].step # "none" => wt /\ hd.take # 0 /\ sd[c].take = hd.take
    /\ \A c, d \in Clicks : sd[c].step # "none" /\ sd[d].step # "none" => c = d
    /\ rm # 0 => hd.take # 0 /\ rm \in DOMAIN gr /\ gr[rm].take = hd.take
    /\ \A c \in Clicks : sd[c].step \in {"uploading", "taken", "refused", "checking"} => sd[c].token = rm
    /\ \A c \in Clicks : sd[c].step \in {"asking", "answered"} => rm = 0
    /\ \A n \in DOMAIN gr : gr[n].take = hd.take /\ gr[n].used => n = rm
    /\ mc = "live" => \A n \in DOMAIN gr : gr[n].take # tk
    /\ \A m, n \in DOMAIN gr : gr[m].take = gr[n].take /\ gr[m].job # "none" /\ gr[n].job # "none" => m = n

\* Only a dictation asks the agent whether it has the take.
NoneChecks(sd) == \A c \in Clicks : sd[c].step # "checking"

Gone == discarded \cup overtaken

WorkspaceInv ==
    /\ WorkspaceTyping
    /\ RecorderSound(mic, takes, held)
    /\ GrantsSound(grants, takes)
    /\ SendsSound(sends, grants, takes)
    /\ ToldTruly(job, polls, grants)
    /\ \A t \in 1..takes : TakeKept(t, mic, takes, held, grants, Gone)
    /\ Interview => NoneChecks(sends)
    /\ ~Interview => DictatedOnce(mounted, mic, takes, held, remembered, sends, grants, job, waiting, polls)

-----------------------------------------------------------------------------
LEMMA WorkspaceInitInv == WorkspaceInit => WorkspaceInv
<1> SUFFICES ASSUME WorkspaceInit PROVE WorkspaceInv
  OBVIOUS
<1> USE DEF WorkspaceInit, NoTake, NoSend, NoJob
<1>1. WorkspaceTyping
  BY DEF WorkspaceTyping, TakeRow, SendRow, SendSteps, JobStates, Ended
<1>2. RecorderSound(mic, takes, held)
  BY DEF RecorderSound
<1>3. GrantsSound(grants, takes) /\ SendsSound(sends, grants, takes) /\ NoneChecks(sends)
  BY DEF GrantsSound, SendsSound, NoneChecks
<1>4. ToldTruly(job, polls, grants)
  BY DEF ToldTruly, Ended
<1>5. DictatedOnce(mounted, mic, takes, held, remembered, sends, grants, job, waiting, polls)
  BY DEF DictatedOnce
<1>6. 1..takes = {}
  OBVIOUS
<1>7. QED
  BY <1>1, <1>2, <1>3, <1>4, <1>5, <1>6 DEF WorkspaceInv

\* The submission c becomes the row s.
LEMMA SendWritten ==
    ASSUME NEW sd \in [Clicks -> SendRow], NEW c \in Clicks, NEW s \in SendRow
    PROVE  /\ [sd EXCEPT ![c] = s] \in [Clicks -> SendRow]
           /\ [sd EXCEPT ![c] = s][c] = s
           /\ \A d \in Clicks : d # c => [sd EXCEPT ![c] = s][d] = sd[d]
OBVIOUS

\* The grant n becomes the row g.
LEMMA GrantWritten ==
    ASSUME NEW gr \in Seq(GrantRow), NEW n \in DOMAIN gr, NEW g \in GrantRow
    PROVE  /\ [gr EXCEPT ![n] = g] \in Seq(GrantRow)
           /\ DOMAIN [gr EXCEPT ![n] = g] = DOMAIN gr
           /\ [gr EXCEPT ![n] = g][n] = g
           /\ \A m \in DOMAIN gr : m # n => [gr EXCEPT ![n] = g][m] = gr[m]
OBVIOUS

-----------------------------------------------------------------------------
(* The recorder *)

LEMMA StartKeeps == WorkspaceInv /\ StartRecording => WorkspaceInv'
<1> SUFFICES ASSUME WorkspaceInv, StartRecording PROVE WorkspaceInv'
  OBVIOUS
<1>1. /\ mic' = "requesting" /\ remembered' = 0 /\ held = NoTake /\ mic = "idle" /\ held' = held
      /\ purpose' = purpose /\ mounted' = mounted /\ takes' = takes /\ sends' = sends /\ grants' = grants
      /\ job' = job /\ waiting' = waiting /\ polls' = polls /\ discarded' = discarded /\ overtaken' = overtaken
      /\ ~waiting
  BY DEF StartRecording
<1>2. WorkspaceTyping'
  BY <1>1 DEF WorkspaceInv, WorkspaceTyping
<1>3. RecorderSound(mic', takes', held')
  BY <1>1 DEF WorkspaceInv, RecorderSound
<1>4. \A t \in 1..takes' : TakeKept(t, mic', takes', held', grants', Gone')
  BY <1>1 DEF WorkspaceInv, TakeKept, Gone
<1>5. ASSUME ~Interview
      PROVE  DictatedOnce(mounted', mic', takes', held', remembered', sends', grants', job', waiting', polls')
  <2>1. DictatedOnce(mounted, mic, takes, held, remembered, sends, grants, job, waiting, polls)
    BY <1>5 DEF WorkspaceInv
  <2>2. remembered = 0
    BY <1>1, <2>1 DEF DictatedOnce, NoTake
  <2>3. QED
    BY <1>1, <2>1, <2>2 DEF DictatedOnce
<1>6. QED
  BY <1>1, <1>2, <1>3, <1>4, <1>5 DEF WorkspaceInv, Interview

LEMMA MicrophoneKeeps == WorkspaceInv /\ MicrophoneAnswered => WorkspaceInv'
<1> SUFFICES ASSUME WorkspaceInv, MicrophoneAnswered PROVE WorkspaceInv'
  OBVIOUS
<1>1. /\ remembered' = remembered /\ held' = held /\ mic = "requesting"
      /\ purpose' = purpose /\ mounted' = mounted /\ sends' = sends /\ grants' = grants
      /\ job' = job /\ waiting' = waiting /\ polls' = polls /\ discarded' = discarded /\ overtaken' = overtaken
      /\ takes \in Nat
      /\ (mic' = "live" /\ takes' = takes + 1) \/ (mic' = "idle" /\ takes' = takes)
  BY DEF MicrophoneAnswered, WorkspaceInv, WorkspaceTyping
<1>2. WorkspaceTyping'
  BY <1>1 DEF WorkspaceInv, WorkspaceTyping
<1>3. RecorderSound(mic', takes', held')
  <2>1. held = NoTake
    BY <1>1 DEF WorkspaceInv, RecorderSound
  <2>2. QED
    BY <1>1, <2>1 DEF RecorderSound, NoTake
<1>4. 1..takes \subseteq 1..takes'
  BY <1>1
<1>5. GrantsSound(grants', takes') /\ SendsSound(sends', grants', takes')
  BY <1>1, <1>4 DEF WorkspaceInv, GrantsSound, SendsSound
<1>6. ASSUME NEW t \in 1..takes' PROVE TakeKept(t, mic', takes', held', grants', Gone')
  <2>1. CASE t \in 1..takes
    BY <1>1, <2>1 DEF WorkspaceInv, TakeKept, Gone
  <2>2. CASE t \notin 1..takes
    <3>1. mic' = "live" /\ t = takes'
      BY <1>1, <2>2
    <3>2. QED
      BY <3>1 DEF TakeKept
  <2>3. QED
    BY <2>1, <2>2
<1>7. ASSUME ~Interview
      PROVE  DictatedOnce(mounted', mic', takes', held', remembered', sends', grants', job', waiting', polls')
  <2>1. DictatedOnce(mounted, mic, takes, held, remembered, sends, grants, job, waiting, polls)
    BY <1>7 DEF WorkspaceInv
  <2>2. mic' = "live" => \A n \in DOMAIN grants : grants[n].take # takes'
    BY <1>1 DEF WorkspaceInv, GrantsSound
  <2>3. QED
    BY <1>1, <2>1, <2>2 DEF DictatedOnce
<1>8. QED
  BY <1>1, <1>2, <1>3, <1>5, <1>6, <1>7 DEF WorkspaceInv, Interview

\* The take that was recorded is held.
LEMMA CapturedSound ==
    ASSUME WorkspaceInv, mic = "live", Captured
    PROVE  /\ held' \in TakeRow /\ RecorderSound("idle", takes, held') /\ held'.take = takes
           /\ \A t \in 1..takes : TakeKept(t, "idle", takes, held', grants, Gone)
<1>1. held' = [take |-> takes, recording |-> 0] /\ takes \in Nat /\ takes # 0 /\ held = NoTake
  BY DEF Captured, WorkspaceInv, WorkspaceTyping, RecorderSound
<1>2. held' \in TakeRow /\ held'.take = takes
  BY <1>1 DEF TakeRow
<1>3. RecorderSound("idle", takes, held')
  BY <1>1, <1>2 DEF RecorderSound
<1>4. ASSUME NEW t \in 1..takes PROVE TakeKept(t, "idle", takes, held', grants, Gone)
  <2>1. TakeKept(t, mic, takes, held, grants, Gone)
    BY DEF WorkspaceInv
  <2>2. held.take # t
    BY <1>1 DEF NoTake
  <2>3. QED
    BY <1>2, <2>1, <2>2 DEF TakeKept
<1>5. QED
  BY <1>2, <1>3, <1>4

LEMMA StopKeeps == WorkspaceInv /\ StopRecording => WorkspaceInv'
<1> SUFFICES ASSUME WorkspaceInv, StopRecording PROVE WorkspaceInv'
  OBVIOUS
<1>1. /\ mic = "live" /\ mic' = "idle" /\ remembered' = remembered /\ takes' = takes
      /\ purpose' = purpose /\ mounted' = mounted /\ sends' = sends /\ grants' = grants
      /\ job' = job /\ waiting' = waiting /\ polls' = polls /\ discarded' = discarded /\ overtaken' = overtaken
  BY DEF StopRecording
<1>2. /\ held' \in TakeRow /\ RecorderSound("idle", takes, held') /\ held'.take = takes
      /\ \A t \in 1..takes : TakeKept(t, "idle", takes, held', grants, Gone)
  BY CapturedSound DEF StopRecording
<1>3. WorkspaceTyping'
  BY <1>1, <1>2 DEF WorkspaceInv, WorkspaceTyping
<1>4. \A t \in 1..takes' : TakeKept(t, mic', takes', held', grants', Gone')
  BY <1>1, <1>2 DEF Gone
<1>5. ASSUME ~Interview
      PROVE  DictatedOnce(mounted', mic', takes', held', remembered', sends', grants', job', waiting', polls')
  <2>1. DictatedOnce(mounted, mic, takes, held, remembered, sends, grants, job, waiting, polls)
    BY <1>5 DEF WorkspaceInv
  <2>2. held.take = 0
    BY <1>1 DEF WorkspaceInv, RecorderSound, NoTake
  <2>3. remembered = 0 /\ \A c \in Clicks : sends[c].step = "none"
    BY <2>1, <2>2 DEF DictatedOnce
  <2>4. \A n \in DOMAIN grants : grants[n].take # held'.take
    BY <1>1, <1>2, <2>1 DEF DictatedOnce
  <2>5. QED
    BY <1>1, <2>1, <2>3, <2>4 DEF DictatedOnce
<1>6. QED
  BY <1>1, <1>2, <1>3, <1>4, <1>5 DEF WorkspaceInv, Interview

LEMMA DiscardKeeps == WorkspaceInv /\ Discard => WorkspaceInv'
<1> SUFFICES ASSUME WorkspaceInv, Discard PROVE WorkspaceInv'
  OBVIOUS
<1>1. /\ held # NoTake /\ ~waiting /\ discarded' = discarded \cup {held.take} /\ held' = NoTake /\ remembered' = 0
      /\ mic' = mic /\ takes' = takes
      /\ purpose' = purpose /\ mounted' = mounted /\ sends' = sends /\ grants' = grants
      /\ job' = job /\ waiting' = waiting /\ polls' = polls /\ overtaken' = overtaken /\ takes \in Nat
  BY DEF Discard, WorkspaceInv, WorkspaceTyping
<1>2. held' \in TakeRow /\ held'.take = 0 /\ RecorderSound(mic', takes', held')
  BY <1>1 DEF WorkspaceInv, RecorderSound, NoTake, TakeRow
<1>3. WorkspaceTyping'
  BY <1>1, <1>2 DEF WorkspaceInv, WorkspaceTyping
<1>4. ASSUME NEW t \in 1..takes' PROVE TakeKept(t, mic', takes', held', grants', Gone')
  <2>1. TakeKept(t, mic, takes, held, grants, Gone)
    BY <1>1 DEF WorkspaceInv
  <2>2. QED
    BY <1>1, <2>1 DEF TakeKept, Gone
<1>5. ASSUME ~Interview
      PROVE  DictatedOnce(mounted', mic', takes', held', remembered', sends', grants', job', waiting', polls')
  <2>1. DictatedOnce(mounted, mic, takes, held, remembered, sends, grants, job, waiting, polls)
    BY <1>5 DEF WorkspaceInv
  <2>2. \A c \in Clicks : sends[c].step = "none"
    BY <1>1, <2>1 DEF DictatedOnce
  <2>3. \A n \in DOMAIN grants : grants[n].take # held'.take
    BY <1>1, <1>2 DEF WorkspaceInv, GrantsSound
  <2>4. QED
    BY <1>1, <2>1, <2>2, <2>3 DEF DictatedOnce
<1>6. QED
  BY <1>1, <1>2, <1>3, <1>4, <1>5 DEF WorkspaceInv, Interview

LEMMA LeaveKeeps == WorkspaceInv /\ LeaveTab => WorkspaceInv'
<1> SUFFICES ASSUME WorkspaceInv, LeaveTab PROVE WorkspaceInv'
  OBVIOUS
<1>1. /\ Interview /\ mounted' = FALSE /\ mic' = "idle" /\ job' = NoJob /\ polls' = {}
      /\ purpose' = purpose /\ takes' = takes /\ remembered' = remembered /\ sends' = sends /\ grants' = grants
      /\ discarded' = discarded /\ overtaken' = overtaken
      /\ IF mic = "live" THEN Captured ELSE held' = held
  BY DEF LeaveTab, LeftBehind
<1>2. /\ held' \in TakeRow /\ RecorderSound("idle", takes, held')
      /\ \A t \in 1..takes : TakeKept(t, "idle", takes, held', grants, Gone)
  <2>1. CASE mic = "live"
    BY <1>1, <2>1, CapturedSound
  <2>2. CASE mic # "live"
    <3>1. held' = held
      BY <1>1, <2>2
    <3>2. held' \in TakeRow /\ RecorderSound("idle", takes, held')
      BY <3>1 DEF WorkspaceInv, WorkspaceTyping, RecorderSound
    <3>3. ASSUME NEW t \in 1..takes PROVE TakeKept(t, "idle", takes, held', grants, Gone)
      BY <2>2, <3>1 DEF WorkspaceInv, TakeKept
    <3>4. QED
      BY <3>2, <3>3
  <2>3. QED
    BY <2>1, <2>2
<1>3. NoJob \in [token : Nat, state : JobStates] /\ NoJob.state = "none"
  BY DEF NoJob, JobStates
<1>4. WorkspaceTyping'
  BY <1>1, <1>2, <1>3 DEF WorkspaceInv, WorkspaceTyping
<1>5. ToldTruly(job', polls', grants')
  BY <1>1, <1>3 DEF ToldTruly, Ended
<1>6. QED
  BY <1>1, <1>2, <1>4, <1>5 DEF WorkspaceInv, Interview, Gone

LEMMA EnterKeeps == WorkspaceInv /\ EnterTab => WorkspaceInv'
<1> SUFFICES ASSUME WorkspaceInv, EnterTab PROVE WorkspaceInv'
  OBVIOUS
<1>1. /\ ~mounted /\ mounted' = TRUE /\ mic' = mic /\ takes' = takes /\ held' = held /\ remembered' = remembered
      /\ purpose' = purpose /\ sends' = sends /\ grants' = grants
      /\ job' = job /\ waiting' = waiting /\ polls' = polls /\ discarded' = discarded /\ overtaken' = overtaken
  BY DEF EnterTab
<1>2. WorkspaceTyping'
  BY <1>1 DEF WorkspaceInv, WorkspaceTyping
<1>3. Interview
  BY <1>1 DEF WorkspaceInv, DictatedOnce
<1>4. QED
  BY <1>1, <1>2, <1>3 DEF WorkspaceInv, Interview, Gone
-----------------------------------------------------------------------------
(* Submissions *)

LEMMA NothingSent == NoSend \in SendRow /\ NoSend.step = "none"
BY DEF NoSend, SendRow, SendSteps

\* The submission c is over, and nothing of its take has changed.
LEMMA SendOver ==
    ASSUME WorkspaceInv, NEW c \in Clicks, sends' = [sends EXCEPT ![c] = NoSend],
           takes' = takes, mic' = mic, purpose' = purpose, mounted' = mounted,
           discarded' = discarded, overtaken' = overtaken, polls' = polls
    PROVE  /\ sends' \in [Clicks -> SendRow]
           /\ \A d \in Clicks : sends'[d].step # "none" => d # c /\ sends'[d] = sends[d]
           /\ grants' = grants => SendsSound(sends', grants', takes')
           /\ Interview => NoneChecks(sends')
<1>1. /\ sends' \in [Clicks -> SendRow] /\ sends'[c] = NoSend
      /\ \A d \in Clicks : d # c => sends'[d] = sends[d]
  <2>1. sends \in [Clicks -> SendRow]
    BY DEF WorkspaceInv, WorkspaceTyping
  <2>2. QED
    BY <2>1, NothingSent, SendWritten
<1>2. \A d \in Clicks : sends'[d].step # "none" => d # c /\ sends'[d] = sends[d]
  BY <1>1, NothingSent
<1>3. ASSUME grants' = grants PROVE SendsSound(sends', grants', takes')
  <2>1. SendsSound(sends, grants, takes)
    BY DEF WorkspaceInv
  <2>2. QED
    BY <1>2, <1>3, <2>1 DEF SendsSound
<1>4. Interview => NoneChecks(sends')
  BY <1>1, NothingSent DEF WorkspaceInv, NoneChecks
<1>5. QED
  BY <1>1, <1>2, <1>3, <1>4

LEMMA SubmitKeeps == ASSUME WorkspaceInv, NEW c \in Clicks, Submit(c) PROVE WorkspaceInv'
<1> DEFINE s == [take |-> held.take, token |-> TokenToUse, step |-> IF TokenToUse = 0 THEN "asking" ELSE "uploading"]
<1>1. /\ sends[c].step = "none" /\ held # NoTake /\ (~Interview => ~waiting)
      /\ sends' = [sends EXCEPT ![c] = s] /\ waiting' = TRUE
      /\ mic' = mic /\ takes' = takes /\ held' = held /\ remembered' = remembered
      /\ purpose' = purpose /\ mounted' = mounted /\ grants' = grants
      /\ job' = job /\ polls' = polls /\ discarded' = discarded /\ overtaken' = overtaken
  BY DEF Submit, ClickIdle, MaySubmit
<1>2. /\ TokenToUse \in Nat /\ held.take \in Nat /\ takes \in Nat /\ held.take # 0 /\ held.take <= takes
      /\ sends \in [Clicks -> SendRow]
  BY <1>1 DEF WorkspaceInv, WorkspaceTyping, TokenToUse, TakeRow, RecorderSound
<1>3. s \in SendRow /\ s.take = held.take /\ s.token = TokenToUse
      /\ s.step = (IF TokenToUse = 0 THEN "asking" ELSE "uploading")
  BY <1>2 DEF SendRow, SendSteps
<1> HIDE DEF s
<1>4. /\ sends' \in [Clicks -> SendRow] /\ sends'[c] = s
      /\ \A d \in Clicks : d # c => sends'[d] = sends[d]
  BY <1>1, <1>2, <1>3, SendWritten
<1>5. WorkspaceTyping'
  BY <1>1, <1>4 DEF WorkspaceInv, WorkspaceTyping
<1>6. TokenToUse # 0 => TokenToUse \in DOMAIN grants /\ grants[TokenToUse].take = held.take
  BY <1>1 DEF WorkspaceInv, TokenToUse, DictatedOnce
<1>7. SendsSound(sends', grants', takes')
  <2>1. ASSUME NEW d \in Clicks, d # c
        PROVE  /\ sends'[d].step # "none" => sends'[d].take \in 1..takes
               /\ sends'[d].step \in {"answered", "uploading", "taken", "refused", "checking"} =>
                     sends'[d].token \in DOMAIN grants /\ grants[sends'[d].token].take = sends'[d].take
               /\ sends'[d].step = "taken" => grants[sends'[d].token].job # "none"
    BY <1>4, <2>1 DEF WorkspaceInv, SendsSound
  <2>2. s.take \in 1..takes
    BY <1>2, <1>3
  <2>3. s.step = "asking" \/ (s.step = "uploading" /\ s.token \in DOMAIN grants /\ grants[s.token].take = s.take)
    <3>1. CASE TokenToUse = 0
      BY <1>3, <3>1
    <3>2. CASE TokenToUse # 0
      BY <1>3, <1>6, <3>2
    <3>3. QED
      BY <3>1, <3>2
  <2>4. QED
    BY <1>1, <1>4, <2>1, <2>2, <2>3 DEF SendsSound
<1>8. ASSUME ~Interview
      PROVE  DictatedOnce(mounted', mic', takes', held', remembered', sends', grants', job', waiting', polls')
  <2>1. DictatedOnce(mounted, mic, takes, held, remembered, sends, grants, job, waiting, polls)
    BY <1>8 DEF WorkspaceInv
  <2>2. \A d \in Clicks : sends[d].step = "none"
    BY <1>1, <1>8, <2>1 DEF DictatedOnce
  <2>3. \A d \in Clicks : sends'[d].step # "none" => d = c
    BY <1>4, <2>2
  <2>4. TokenToUse = remembered
    BY <1>8 DEF TokenToUse
  <2>5. (s.step = "asking" /\ remembered = 0) \/ (s.step = "uploading" /\ s.token = remembered)
    BY <1>3, <2>4
  <2>6. \A d \in Clicks : sends'[d].step # "none" => waiting' /\ held'.take # 0 /\ sends'[d].take = held'.take
    BY <1>1, <1>2, <1>3, <1>4, <2>3
  <2>7. /\ \A d \in Clicks : sends'[d].step \in {"uploading", "taken", "refused", "checking"} => sends'[d].token = remembered'
        /\ \A d \in Clicks : sends'[d].step \in {"asking", "answered"} => remembered' = 0
    BY <1>1, <1>4, <2>3, <2>5
  <2>8. QED
    BY <1>1, <2>1, <2>3, <2>6, <2>7 DEF DictatedOnce
<1>9. Interview => NoneChecks(sends')
  BY <1>3, <1>4 DEF WorkspaceInv, NoneChecks
<1>10. QED
  BY <1>1, <1>5, <1>7, <1>8, <1>9 DEF WorkspaceInv, Interview, Gone

LEMMA AuthorizeKeeps == ASSUME WorkspaceInv, NEW c \in Clicks, Authorize(c) PROVE WorkspaceInv'
<1> DEFINE n == Len(grants) + 1
           known == IF held.take = sends[c].take THEN held.recording ELSE 0
           g == [take |-> sends[c].take, used |-> FALSE, job |-> "none",
                 recording |-> IF known = 0 THEN n ELSE known, withdrawn |-> FALSE]
           s == [sends[c] EXCEPT !.step = "answered", !.token = n]
<1>1. /\ sends[c].step = "asking" /\ grants' = Append(grants, g)
      /\ sends' = [sends EXCEPT ![c].step = "answered", ![c].token = n]
      /\ mic' = mic /\ takes' = takes /\ held' = held /\ remembered' = remembered /\ waiting' = waiting
      /\ purpose' = purpose /\ mounted' = mounted
      /\ job' = job /\ polls' = polls /\ discarded' = discarded /\ overtaken' = overtaken
  BY DEF Authorize
<1>2. /\ sends[c] \in SendRow /\ held \in TakeRow /\ n \in Nat /\ takes \in Nat
      /\ sends \in [Clicks -> SendRow] /\ grants \in Seq(GrantRow) /\ n \notin DOMAIN grants
  BY DEF WorkspaceInv, WorkspaceTyping
<1>3. g \in GrantRow /\ g.take = sends[c].take /\ g.job = "none" /\ ~g.used
  <2>1. sends[c].take \in Nat /\ known \in Nat
    BY <1>2 DEF SendRow, TakeRow
  <2> HIDE DEF n, known
  <2>2. QED
    BY <1>2, <2>1 DEF GrantRow, JobStates
<1>4. s \in SendRow /\ s.step = "answered" /\ s.token = n /\ s.take = sends[c].take
  <2> HIDE DEF n
  <2>1. QED
    BY <1>2 DEF SendRow, SendSteps
<1>5. sends' = [sends EXCEPT ![c] = s]
  <2> HIDE DEF n
  <2>1. QED
    BY <1>1, <1>2
<1> HIDE DEF s, g
<1>6. /\ sends' \in [Clicks -> SendRow] /\ sends'[c] = s
      /\ \A d \in Clicks : d # c => sends'[d] = sends[d]
  BY <1>2, <1>4, <1>5, SendWritten
<1>7. /\ grants' \in Seq(GrantRow) /\ n \in DOMAIN grants' /\ grants'[n] = g
      /\ \A k \in DOMAIN grants : k \in DOMAIN grants' /\ grants'[k] = grants[k]
      /\ \A k \in DOMAIN grants' : k \in DOMAIN grants \/ k = n
  BY <1>1, <1>2, <1>3
<1> HIDE DEF n
<1>8. WorkspaceTyping'
  BY <1>1, <1>6, <1>7 DEF WorkspaceInv, WorkspaceTyping
<1>9. sends[c].take \in 1..takes
  BY <1>1 DEF WorkspaceInv, SendsSound
<1>10. GrantsSound(grants', takes')
  BY <1>1, <1>3, <1>7, <1>9 DEF WorkspaceInv, GrantsSound
<1>11. SendsSound(sends', grants', takes')
  <2>1. SendsSound(sends, grants, takes)
    BY DEF WorkspaceInv
  <2>2. ASSUME NEW d \in Clicks, d # c
        PROVE  /\ sends'[d].step # "none" => sends'[d].take \in 1..takes
               /\ sends'[d].step \in {"answered", "uploading", "taken", "refused", "checking"} =>
                     sends'[d].token \in DOMAIN grants' /\ grants'[sends'[d].token].take = sends'[d].take
               /\ sends'[d].step = "taken" => grants'[sends'[d].token].job # "none"
    BY <1>6, <1>7, <2>1, <2>2 DEF SendsSound
  <2>3. s.take \in 1..takes /\ s.token \in DOMAIN grants' /\ grants'[s.token].take = s.take /\ s.step # "taken"
    BY <1>3, <1>4, <1>7, <1>9
  <2>4. QED
    BY <1>1, <1>6, <2>2, <2>3 DEF SendsSound
<1>12. ToldTruly(job', polls', grants')
  BY <1>1, <1>7 DEF WorkspaceInv, ToldTruly, Ended
<1>13. ASSUME NEW t \in 1..takes' PROVE TakeKept(t, mic', takes', held', grants', Gone')
  <2>1. TakeKept(t, mic, takes, held, grants, Gone)
    BY <1>1 DEF WorkspaceInv
  <2>2. QED
    BY <1>1, <1>7, <2>1 DEF TakeKept, Gone
<1>14. ASSUME ~Interview
      PROVE  DictatedOnce(mounted', mic', takes', held', remembered', sends', grants', job', waiting', polls')
  <2>1. DictatedOnce(mounted, mic, takes, held, remembered, sends, grants, job, waiting, polls)
    BY <1>14 DEF WorkspaceInv
  <2>2. \A d \in Clicks : sends'[d].step # "none" => d = c
    BY <1>1, <1>6, <2>1 DEF DictatedOnce
  <2>3. remembered = 0 /\ waiting /\ held.take # 0 /\ sends[c].take = held.take
    BY <1>1, <2>1 DEF DictatedOnce
  <2>4. \A d \in Clicks : sends'[d].step # "none" => waiting' /\ held'.take # 0 /\ sends'[d].take = held'.take
    BY <1>1, <1>4, <1>6, <2>2, <2>3
  <2>5. /\ \A d \in Clicks : sends'[d].step \in {"uploading", "taken", "refused", "checking"} => sends'[d].token = remembered'
        /\ \A d \in Clicks : sends'[d].step \in {"asking", "answered"} => remembered' = 0
    BY <1>1, <1>4, <1>6, <2>2, <2>3
  <2>6. \A k \in DOMAIN grants' : grants'[k].take = held'.take /\ grants'[k].used => k = remembered'
    BY <1>1, <1>3, <1>7, <2>1 DEF DictatedOnce
  <2>7. mic' = "live" => \A k \in DOMAIN grants' : grants'[k].take # takes'
    <3>1. mic = "idle"
      BY <2>3 DEF WorkspaceInv, RecorderSound, WorkspaceTyping, NoTake
    <3>2. QED
      BY <1>1, <3>1
  <2>8. \A k, m \in DOMAIN grants' : grants'[k].take = grants'[m].take /\ grants'[k].job # "none" /\ grants'[m].job # "none" => k = m
    BY <1>3, <1>7, <2>1 DEF DictatedOnce
  <2>9. QED
    BY <1>1, <2>1, <2>2, <2>3, <2>4, <2>5, <2>6, <2>7, <2>8 DEF DictatedOnce
<1>15. Interview => NoneChecks(sends')
  BY <1>4, <1>6 DEF WorkspaceInv, NoneChecks
<1>16. QED
  BY <1>1, <1>8, <1>10, <1>11, <1>12, <1>13, <1>14, <1>15 DEF WorkspaceInv, Interview

LEMMA NotAuthorizedKeeps == ASSUME WorkspaceInv, NEW c \in Clicks, NotAuthorized(c) PROVE WorkspaceInv'
<1>1. /\ sends[c].step \in {"asking", "answered"} /\ sends' = [sends EXCEPT ![c] = NoSend]
      /\ mic' = mic /\ takes' = takes /\ held' = held /\ remembered' = remembered /\ grants' = grants
      /\ purpose' = purpose /\ mounted' = mounted
      /\ job' = job /\ polls' = polls /\ discarded' = discarded /\ overtaken' = overtaken
  BY DEF NotAuthorized
<1>2. /\ sends' \in [Clicks -> SendRow] /\ SendsSound(sends', grants', takes') /\ (Interview => NoneChecks(sends'))
      /\ \A d \in Clicks : sends'[d].step # "none" => d # c /\ sends'[d] = sends[d]
  BY <1>1, SendOver
<1>3. WorkspaceTyping'
  BY <1>1, <1>2 DEF WorkspaceInv, WorkspaceTyping
<1>4. ASSUME ~Interview
      PROVE  DictatedOnce(mounted', mic', takes', held', remembered', sends', grants', job', waiting', polls')
  <2>1. DictatedOnce(mounted, mic, takes, held, remembered, sends, grants, job, waiting, polls)
    BY <1>4 DEF WorkspaceInv
  <2>2. \A d \in Clicks : sends'[d].step = "none"
    BY <1>1, <1>2, <2>1 DEF DictatedOnce
  <2>3. QED
    BY <1>1, <2>1, <2>2 DEF DictatedOnce
<1>5. QED
  BY <1>1, <1>2, <1>3, <1>4 DEF WorkspaceInv, Interview, Gone

LEMMA AuthorizedKeeps == ASSUME WorkspaceInv, NEW c \in Clicks, Authorized(c) PROVE WorkspaceInv'
<1> DEFINE s == [sends[c] EXCEPT !.step = "uploading"]
<1>1. /\ sends[c].step = "answered" /\ sends' = [sends EXCEPT ![c].step = "uploading"]
      /\ remembered' = (IF Interview THEN remembered ELSE sends[c].token)
      /\ held' = (IF Interview /\ held.take = sends[c].take
                  THEN [held EXCEPT !.recording = grants[sends[c].token].recording] ELSE held)
      /\ mic' = mic /\ takes' = takes /\ grants' = grants /\ waiting' = waiting
      /\ purpose' = purpose /\ mounted' = mounted
      /\ job' = job /\ polls' = polls /\ discarded' = discarded /\ overtaken' = overtaken
  BY DEF Authorized
<1>2. sends[c] \in SendRow /\ held \in TakeRow /\ sends \in [Clicks -> SendRow] /\ grants \in Seq(GrantRow)
  BY DEF WorkspaceInv, WorkspaceTyping
<1>3. s \in SendRow /\ s.step = "uploading" /\ s.token = sends[c].token /\ s.take = sends[c].take
  BY <1>2 DEF SendRow, SendSteps
<1>4. sends' = [sends EXCEPT ![c] = s]
  BY <1>1, <1>2
<1> HIDE DEF s
<1>5. /\ sends' \in [Clicks -> SendRow] /\ sends'[c] = s
      /\ \A d \in Clicks : d # c => sends'[d] = sends[d]
  BY <1>2, <1>3, <1>4, SendWritten
<1>6. /\ sends[c].token \in DOMAIN grants /\ grants[sends[c].token].take = sends[c].take
      /\ sends[c].take \in 1..takes
  BY <1>1 DEF WorkspaceInv, SendsSound
<1>7. held' \in TakeRow /\ held'.take = held.take /\ (held' # held => held.take \in 1..takes)
  <2>1. CASE Interview /\ held.take = sends[c].take
    <3>1. grants[sends[c].token] \in GrantRow
      BY <1>2, <1>6
    <3>2. grants[sends[c].token].recording \in Nat
      BY <3>1 DEF GrantRow
    <3>3. QED
      BY <1>1, <1>2, <1>6, <2>1, <3>2 DEF TakeRow
  <2>2. CASE ~(Interview /\ held.take = sends[c].take)
    BY <1>1, <1>2, <2>2
  <2>3. QED
    BY <2>1, <2>2
<1>8. remembered' \in Nat
  BY <1>1, <1>2 DEF SendRow, WorkspaceInv, WorkspaceTyping
<1>9. WorkspaceTyping'
  BY <1>1, <1>5, <1>7, <1>8 DEF WorkspaceInv, WorkspaceTyping
<1>10. RecorderSound(mic', takes', held')
  <2>1. CASE held' = held
    BY <1>1, <2>1 DEF WorkspaceInv
  <2>2. CASE held' # held
    <3>1. held.take # 0
      BY <1>7, <2>2
    <3>2. QED
      BY <1>1, <1>7, <3>1 DEF WorkspaceInv, RecorderSound, NoTake
  <2>3. QED
    BY <2>1, <2>2
<1>11. SendsSound(sends', grants', takes')
  <2>1. SendsSound(sends, grants, takes)
    BY DEF WorkspaceInv
  <2>2. QED
    BY <1>1, <1>3, <1>5, <1>6, <2>1 DEF SendsSound
<1>12. ASSUME NEW t \in 1..takes' PROVE TakeKept(t, mic', takes', held', grants', Gone')
  <2>1. TakeKept(t, mic, takes, held, grants, Gone)
    BY <1>1 DEF WorkspaceInv
  <2>2. QED
    BY <1>1, <1>7, <2>1 DEF TakeKept, Gone
<1>13. ASSUME ~Interview
      PROVE  DictatedOnce(mounted', mic', takes', held', remembered', sends', grants', job', waiting', polls')
  <2>1. DictatedOnce(mounted, mic, takes, held, remembered, sends, grants, job, waiting, polls)
    BY <1>13 DEF WorkspaceInv
  <2>2. held' = held /\ remembered' = sends[c].token
    BY <1>1, <1>13
  <2>3. remembered = 0 /\ waiting /\ held.take # 0 /\ sends[c].take = held.take
    BY <1>1, <2>1 DEF DictatedOnce
  <2>4. \A d \in Clicks : sends'[d].step # "none" => d = c
    BY <1>1, <1>5, <2>1 DEF DictatedOnce
  <2>5. \A n \in DOMAIN grants : grants[n].take = held.take /\ grants[n].used => n = sends[c].token
    <3>1. \A n \in DOMAIN grants : n # 0
      BY <1>2
    <3>2. QED
      BY <2>1, <2>3, <3>1 DEF DictatedOnce
  <2>6. QED
    BY <1>1, <1>3, <1>5, <1>6, <2>1, <2>2, <2>3, <2>4, <2>5 DEF DictatedOnce
<1>14. Interview => NoneChecks(sends')
  BY <1>3, <1>5 DEF WorkspaceInv, NoneChecks
<1>15. QED
  BY <1>1, <1>9, <1>10, <1>11, <1>12, <1>13, <1>14 DEF WorkspaceInv, Interview
-----------------------------------------------------------------------------
(* The agent, and its answers *)

\* What an agent has is never taken back, and what has ended stays as it ended.
Moved(gr, later) ==
    /\ DOMAIN later = DOMAIN gr
    /\ \A n \in DOMAIN gr : /\ later[n].take = gr[n].take
                            /\ gr[n].used => later[n].used
                            /\ gr[n].job # "none" => later[n].job # "none"
                            /\ gr[n].job \in Ended => later[n].job = gr[n].job

LEMMA StandsWhenMoved ==
    ASSUME NEW gr, NEW later, Moved(gr, later)
    PROVE  /\ \A sd, tk : SendsSound(sd, gr, tk) => SendsSound(sd, later, tk)
           /\ \A jb, pl : ToldTruly(jb, pl, gr) => ToldTruly(jb, pl, later)
           /\ \A t, mc, tk, hd, gone : TakeKept(t, mc, tk, hd, gr, gone) => TakeKept(t, mc, tk, hd, later, gone)
<1>1. ASSUME NEW sd, NEW tk, SendsSound(sd, gr, tk) PROVE SendsSound(sd, later, tk)
  BY <1>1 DEF SendsSound, Moved
<1>2. ASSUME NEW jb, NEW pl, ToldTruly(jb, pl, gr) PROVE ToldTruly(jb, pl, later)
  BY <1>2 DEF ToldTruly, Moved, Ended
<1>3. ASSUME NEW t, NEW mc, NEW tk, NEW hd, NEW gone, TakeKept(t, mc, tk, hd, gr, gone)
      PROVE  TakeKept(t, mc, tk, hd, later, gone)
  BY <1>3 DEF TakeKept, Moved
<1>4. QED
  BY <1>1, <1>2, <1>3

\* One grant is written.
LEMMA MovedOne ==
    ASSUME NEW gr \in Seq(GrantRow), NEW n \in DOMAIN gr, NEW g \in GrantRow, g.take = gr[n].take,
           gr[n].used => g.used, gr[n].job # "none" => g.job # "none", gr[n].job \in Ended => g.job = gr[n].job
    PROVE  Moved(gr, [gr EXCEPT ![n] = g])
BY GrantWritten DEF Moved

LEMMA TakesKeeps ==
    ASSUME WorkspaceInv, NEW c \in Clicks, NEW agrees \in BOOLEAN, AgentTakes(c, agrees)
    PROVE  WorkspaceInv'
<1> DEFINE n == sends[c].token
           taken == ~grants[n].used /\ agrees
           s == [sends[c] EXCEPT !.step = IF taken THEN "taken" ELSE "refused"]
           g == [grants[n] EXCEPT !.used = TRUE, !.job = IF agrees THEN "running" ELSE "none"]
<1>1. /\ sends[c].step = "uploading"
      /\ mic' = mic /\ takes' = takes /\ held' = held /\ remembered' = remembered /\ waiting' = waiting
      /\ purpose' = purpose /\ mounted' = mounted
      /\ job' = job /\ polls' = polls /\ discarded' = discarded /\ overtaken' = overtaken
  BY DEF AgentTakes
<1>2. /\ sends[c] \in SendRow /\ sends \in [Clicks -> SendRow] /\ grants \in Seq(GrantRow)
      /\ n \in DOMAIN grants /\ grants[n].take = sends[c].take /\ sends[c].take \in 1..takes
  BY <1>1 DEF WorkspaceInv, WorkspaceTyping, SendsSound
<1>3. grants[n] \in GrantRow
  BY <1>2
<1>4. /\ s \in SendRow /\ s.token = n /\ s.take = sends[c].take /\ s.step \in {"taken", "refused"}
      /\ (s.step = "taken" <=> taken)
  <2> HIDE DEF taken
  <2>1. QED
    BY <1>2 DEF SendRow, SendSteps
<1>5. sends' = [sends EXCEPT ![c] = s]
  BY <1>2 DEF AgentTakes
<1>6. \/ grants' = grants /\ grants[n].used
      \/ grants' = [grants EXCEPT ![n] = g] /\ ~grants[n].used
  <2>1. CASE grants[n].used
    BY <2>1 DEF AgentTakes
  <2>2. CASE ~grants[n].used
    <3>1. grants' = [grants EXCEPT ![n].used = TRUE, ![n].job = IF agrees THEN "running" ELSE "none"]
      BY <2>2 DEF AgentTakes
    <3> HIDE DEF n
    <3>2. [grants EXCEPT ![n].used = TRUE, ![n].job = IF agrees THEN "running" ELSE "none"]
             = [grants EXCEPT ![n] = g]
      BY <1>2
    <3>3. QED
      BY <2>2, <3>1, <3>2
  <2>3. QED
    BY <2>1, <2>2
<1>7. /\ g \in GrantRow /\ g.take = grants[n].take /\ g.used
      /\ g.job = (IF agrees THEN "running" ELSE "none")
  BY <1>3 DEF GrantRow, JobStates
<1>8. ~grants[n].used => grants[n].job = "none"
  BY <1>2 DEF WorkspaceInv, GrantsSound
<1> HIDE DEF s, g
<1>9. /\ sends' \in [Clicks -> SendRow] /\ sends'[c] = s
      /\ \A d \in Clicks : d # c => sends'[d] = sends[d]
  BY <1>2, <1>4, <1>5, SendWritten
<1>10. Moved(grants, grants') /\ grants' \in Seq(GrantRow)
  <2>1. CASE grants' = grants
    BY <1>2, <2>1 DEF Moved
  <2>2. CASE grants' = [grants EXCEPT ![n] = g] /\ ~grants[n].used
    <3>1. Moved(grants, [grants EXCEPT ![n] = g])
      <4>1. grants[n].job \notin Ended
        BY <1>8, <2>2 DEF Ended
      <4> HIDE DEF n
      <4>2. QED
        BY <1>2, <1>7, <1>8, <2>2, <4>1, MovedOne
    <3>2. QED
      BY <1>2, <1>7, <2>2, <3>1, GrantWritten
  <2>3. QED
    BY <1>6, <2>1, <2>2
\* What can be new in the grants is the one that was sent.
<1>11. \A k \in DOMAIN grants : k # n => grants'[k] = grants[k]
  BY <1>2, <1>6
<1>12. /\ grants'[n].used /\ (grants'[n].job # "none" => taken \/ grants[n].job # "none")
       /\ (taken => grants'[n].job # "none")
  BY <1>2, <1>6, <1>7
<1> HIDE DEF n, taken
<1>13. WorkspaceTyping'
  BY <1>1, <1>9, <1>10 DEF WorkspaceInv, WorkspaceTyping
<1>14. GrantsSound(grants', takes')
  BY <1>1, <1>10, <1>11, <1>12 DEF WorkspaceInv, GrantsSound, Moved
<1>15. SendsSound(sends', grants', takes')
  <2>1. SendsSound(sends, grants', takes)
    BY <1>10, StandsWhenMoved DEF WorkspaceInv
  <2>2. DOMAIN grants' = DOMAIN grants /\ grants'[n].take = grants[n].take
    BY <1>2, <1>10 DEF Moved
  <2>3. s.take \in 1..takes /\ s.token \in DOMAIN grants' /\ grants'[s.token].take = s.take
        /\ (s.step = "taken" => grants'[s.token].job # "none")
    BY <1>2, <1>4, <1>12, <2>2
  <2>4. QED
    BY <1>1, <1>9, <2>1, <2>3 DEF SendsSound
<1>16. ToldTruly(job', polls', grants')
  BY <1>1, <1>10, StandsWhenMoved DEF WorkspaceInv
<1>17. \A t \in 1..takes' : TakeKept(t, mic', takes', held', grants', Gone')
  BY <1>1, <1>10, StandsWhenMoved DEF WorkspaceInv, Gone
<1>18. ASSUME ~Interview
      PROVE  DictatedOnce(mounted', mic', takes', held', remembered', sends', grants', job', waiting', polls')
  <2>1. DictatedOnce(mounted, mic, takes, held, remembered, sends, grants, job, waiting, polls)
    BY <1>18 DEF WorkspaceInv
  <2>2. n = remembered /\ waiting /\ held.take # 0 /\ sends[c].take = held.take
    BY <1>1, <2>1 DEF DictatedOnce, n
  <2>3. \A d \in Clicks : sends'[d].step # "none" => d = c
    BY <1>1, <1>9, <2>1 DEF DictatedOnce
  <2>4. \A d \in Clicks : sends'[d].step # "none" => waiting' /\ held'.take # 0 /\ sends'[d].take = held'.take
    BY <1>1, <1>4, <1>9, <2>2, <2>3
  <2>5. /\ \A d \in Clicks : sends'[d].step \in {"uploading", "taken", "refused", "checking"} => sends'[d].token = remembered'
        /\ \A d \in Clicks : sends'[d].step \in {"asking", "answered"} => remembered' = 0
    BY <1>1, <1>4, <1>9, <2>2, <2>3
  <2>6. DOMAIN grants' = DOMAIN grants /\ \A k \in DOMAIN grants : grants'[k].take = grants[k].take
    BY <1>10 DEF Moved
  <2>7. \A k \in DOMAIN grants : k # n => grants'[k].used = grants[k].used /\ grants'[k].job = grants[k].job
    BY <1>11
  <2>8. \A k \in DOMAIN grants' : grants'[k].take = held'.take /\ grants'[k].used => k = remembered'
    BY <1>1, <2>1, <2>2, <2>6, <2>7 DEF DictatedOnce
  <2>9. ASSUME NEW k \in DOMAIN grants', NEW m \in DOMAIN grants', grants'[k].take = grants'[m].take,
              grants'[k].job # "none", grants'[m].job # "none"
        PROVE  k = m
    <3>1. grants'[k].used /\ grants'[m].used
      BY <1>14, <2>9 DEF GrantsSound
    <3>2. CASE grants'[k].take = held'.take
      BY <2>8, <2>9, <3>1, <3>2
    <3>3. CASE grants'[k].take # held'.take
      <4>1. k # n /\ m # n
        BY <1>1, <1>2, <2>2, <2>6, <2>9, <3>3
      <4>2. QED
        BY <2>1, <2>6, <2>7, <2>9, <4>1 DEF DictatedOnce
    <3>4. QED
      BY <3>2, <3>3
  <2>10. mic' = "live" => \A k \in DOMAIN grants' : grants'[k].take # takes'
    BY <1>1, <2>1, <2>6 DEF DictatedOnce
  <2>11. mounted' /\ job' = NoJob /\ polls' = {}
    BY <1>1, <2>1 DEF DictatedOnce
  <2>12. remembered' # 0 => held'.take # 0 /\ remembered' \in DOMAIN grants' /\ grants'[remembered'].take = held'.take
    BY <1>1, <1>2, <2>2, <2>6
  <2>13. QED
    BY <2>3, <2>4, <2>5, <2>8, <2>9, <2>10, <2>11, <2>12 DEF DictatedOnce
<1>19. Interview => NoneChecks(sends')
  BY <1>4, <1>9 DEF WorkspaceInv, NoneChecks
<1>20. QED
  BY <1>1, <1>13, <1>14, <1>15, <1>16, <1>17, <1>18, <1>19 DEF WorkspaceInv, Interview

\* The take of a dictation is handed over: the agent has it.
LEMMA HandedOver ==
    ASSUME WorkspaceInv, ~Interview, NEW n \in DOMAIN grants, grants[n].take = held.take, grants[n].job # "none",
           held' = NoTake, NEW gone, Gone \subseteq gone
    PROVE  /\ held' \in TakeRow /\ RecorderSound(mic, takes, held')
           /\ \A t \in 1..takes : TakeKept(t, mic, takes, held', grants, gone)
<1>1. held' \in TakeRow /\ RecorderSound(mic, takes, held')
  BY DEF WorkspaceInv, WorkspaceTyping, RecorderSound, NoTake, TakeRow
<1>2. ASSUME NEW t \in 1..takes PROVE TakeKept(t, mic, takes, held', grants, gone)
  <2>1. TakeKept(t, mic, takes, held, grants, Gone)
    BY DEF WorkspaceInv
  <2>2. QED
    BY <2>1 DEF TakeKept
<1>3. QED
  BY <1>1, <1>2

LEMMA UploadedKeeps == ASSUME WorkspaceInv, NEW c \in Clicks, Uploaded(c) PROVE WorkspaceInv'
<1>1. /\ sends[c].step = "taken" /\ sends' = [sends EXCEPT ![c] = NoSend]
      /\ IF Interview
         THEN /\ job' = IF mounted THEN [token |-> sends[c].token, state |-> "running"] ELSE job
              /\ held' = held /\ remembered' = remembered /\ waiting' = waiting
         ELSE held' = NoTake /\ remembered' = 0 /\ waiting' = FALSE /\ job' = job
      /\ mic' = mic /\ takes' = takes /\ grants' = grants
      /\ purpose' = purpose /\ mounted' = mounted
      /\ polls' = polls /\ discarded' = discarded /\ overtaken' = overtaken
  BY DEF Uploaded
<1>2. /\ sends' \in [Clicks -> SendRow] /\ SendsSound(sends', grants', takes') /\ (Interview => NoneChecks(sends'))
      /\ \A d \in Clicks : sends'[d].step # "none" => d # c /\ sends'[d] = sends[d]
  BY <1>1, SendOver
<1>3. /\ sends[c].token \in DOMAIN grants /\ grants[sends[c].token].take = sends[c].take
      /\ grants[sends[c].token].job # "none" /\ sends[c].token \in Nat
  BY <1>1 DEF WorkspaceInv, SendsSound, WorkspaceTyping, SendRow
<1>4. CASE Interview
  <2>1. job' \in [token : Nat, state : JobStates] /\ (job' = job \/ (job'.token = sends[c].token /\ job'.state = "running"))
    BY <1>1, <1>3, <1>4 DEF WorkspaceInv, WorkspaceTyping, JobStates
  <2>2. ToldTruly(job', polls', grants')
    BY <1>1, <1>3, <2>1 DEF WorkspaceInv, ToldTruly, Ended
  <2>3. WorkspaceTyping'
    BY <1>1, <1>2, <1>4, <2>1 DEF WorkspaceInv, WorkspaceTyping
  <2>4. QED
    BY <1>1, <1>2, <1>4, <2>2, <2>3 DEF WorkspaceInv, Interview, Gone
<1>5. CASE ~Interview
  <2>1. DictatedOnce(mounted, mic, takes, held, remembered, sends, grants, job, waiting, polls)
    BY <1>5 DEF WorkspaceInv
  <2>2. sends[c].take = held.take /\ held.take # 0 /\ \A d \in Clicks : sends'[d].step = "none"
    BY <1>1, <1>2, <2>1 DEF DictatedOnce
  <2>3. /\ held' \in TakeRow /\ RecorderSound(mic, takes, held')
        /\ \A t \in 1..takes : TakeKept(t, mic, takes, held', grants, Gone)
    BY <1>1, <1>3, <1>5, <2>2, HandedOver
  <2>4. WorkspaceTyping'
    BY <1>1, <1>2, <1>5, <2>3 DEF WorkspaceInv, WorkspaceTyping
  <2>5. \A n \in DOMAIN grants : grants[n].take # held'.take
    BY <1>1, <1>5 DEF WorkspaceInv, GrantsSound, NoTake
  <2>6. DictatedOnce(mounted', mic', takes', held', remembered', sends', grants', job', waiting', polls')
    BY <1>1, <1>5, <2>1, <2>2, <2>5 DEF DictatedOnce
  <2>7. QED
    BY <1>1, <1>2, <1>5, <2>3, <2>4, <2>6 DEF WorkspaceInv, Interview, Gone
<1>6. QED
  BY <1>4, <1>5

LEMMA FailedKeeps == ASSUME WorkspaceInv, NEW c \in Clicks, UploadFailed(c) PROVE WorkspaceInv'
<1>1. /\ sends[c].step \in {"uploading", "taken", "refused"}
      /\ mic' = mic /\ takes' = takes /\ held' = held /\ remembered' = remembered
      /\ purpose' = purpose /\ mounted' = mounted /\ job' = job
      /\ polls' = polls /\ discarded' = discarded /\ overtaken' = overtaken
  BY DEF UploadFailed
<1>2. /\ sends[c] \in SendRow /\ sends \in [Clicks -> SendRow] /\ grants \in Seq(GrantRow)
      /\ sends[c].token \in DOMAIN grants /\ grants[sends[c].token].take = sends[c].take /\ sends[c].take \in 1..takes
  BY <1>1 DEF WorkspaceInv, WorkspaceTyping, SendsSound
<1>3. CASE Interview
  <2> DEFINE n == sends[c].token
             g == [grants[n] EXCEPT !.withdrawn = TRUE]
  <2>1. /\ sends' = [sends EXCEPT ![c] = NoSend]
        /\ grants' = grants \/ grants' = [grants EXCEPT ![n].withdrawn = TRUE]
    BY <1>3 DEF UploadFailed
  <2>2. grants[n] \in GrantRow
    BY <1>2
  <2>3. /\ g \in GrantRow /\ g.take = grants[n].take /\ g.used = grants[n].used /\ g.job = grants[n].job
        /\ [grants EXCEPT ![n].withdrawn = TRUE] = [grants EXCEPT ![n] = g]
    BY <1>2, <2>2 DEF GrantRow
  <2> HIDE DEF g, n
  <2>4. Moved(grants, grants') /\ grants' \in Seq(GrantRow)
        /\ \A k \in DOMAIN grants : grants'[k].used = grants[k].used /\ grants'[k].job = grants[k].job
    <3>1. CASE grants' = grants
      BY <1>2, <3>1 DEF Moved
    <3>2. CASE grants' = [grants EXCEPT ![n] = g]
      <4>1. Moved(grants, grants')
        BY <1>2, <2>2, <2>3, <3>2, MovedOne DEF n
      <4>2. grants' \in Seq(GrantRow) /\ grants'[n] = g /\ \A k \in DOMAIN grants : k # n => grants'[k] = grants[k]
        BY <1>2, <2>3, <3>2, GrantWritten DEF n
      <4>3. QED
        BY <2>3, <4>1, <4>2
    <3>3. QED
      BY <2>1, <2>3, <3>1, <3>2
  <2>5. /\ sends' \in [Clicks -> SendRow] /\ (Interview => NoneChecks(sends'))
        /\ \A d \in Clicks : sends'[d].step # "none" => d # c /\ sends'[d] = sends[d]
    BY <1>1, <2>1, SendOver
  <2>6. WorkspaceTyping'
    BY <1>1, <2>4, <2>5 DEF WorkspaceInv, WorkspaceTyping
  <2>7. SendsSound(sends', grants', takes')
    <3>1. SendsSound(sends, grants', takes)
      BY <2>4, StandsWhenMoved DEF WorkspaceInv
    <3>2. QED
      BY <1>1, <2>5, <3>1 DEF SendsSound
  <2>8. GrantsSound(grants', takes')
    BY <1>1, <2>4 DEF WorkspaceInv, GrantsSound, Moved
  <2>9. ToldTruly(job', polls', grants')
    BY <1>1, <2>4, StandsWhenMoved DEF WorkspaceInv
  <2>10. \A t \in 1..takes' : TakeKept(t, mic', takes', held', grants', Gone')
    BY <1>1, <2>4, StandsWhenMoved DEF WorkspaceInv, Gone
  <2>11. QED
    BY <1>1, <1>3, <2>5, <2>6, <2>7, <2>8, <2>9, <2>10 DEF WorkspaceInv, Interview
<1>4. CASE ~Interview
  <2> DEFINE s == [sends[c] EXCEPT !.step = "checking"]
  <2>1. sends' = [sends EXCEPT ![c] = s] /\ grants' = grants /\ waiting' = waiting
    BY <1>2, <1>4 DEF UploadFailed
  <2>2. s \in SendRow /\ s.step = "checking" /\ s.token = sends[c].token /\ s.take = sends[c].take
    BY <1>2 DEF SendRow, SendSteps
  <2> HIDE DEF s
  <2>3. /\ sends' \in [Clicks -> SendRow] /\ sends'[c] = s
        /\ \A d \in Clicks : d # c => sends'[d] = sends[d]
    BY <1>2, <2>1, <2>2, SendWritten
  <2>4. WorkspaceTyping'
    BY <1>1, <2>1, <2>3 DEF WorkspaceInv, WorkspaceTyping
  <2>5. SendsSound(sends', grants', takes')
    <3>1. SendsSound(sends, grants, takes)
      BY DEF WorkspaceInv
    <3>2. QED
      BY <1>1, <1>2, <2>1, <2>2, <2>3, <3>1 DEF SendsSound
  <2>6. DictatedOnce(mounted', mic', takes', held', remembered', sends', grants', job', waiting', polls')
    <3>1. DictatedOnce(mounted, mic, takes, held, remembered, sends, grants, job, waiting, polls)
      BY <1>4 DEF WorkspaceInv
    <3>2. \A d \in Clicks : sends'[d].step # "none" => d = c
      BY <1>1, <2>3, <3>1 DEF DictatedOnce
    <3>3. waiting /\ held.take # 0 /\ s.take = held.take /\ s.token = remembered
      BY <1>1, <2>2, <3>1 DEF DictatedOnce
    <3>4. QED
      BY <1>1, <2>1, <2>2, <2>3, <3>1, <3>2, <3>3 DEF DictatedOnce
  <2>7. QED
    BY <1>1, <1>4, <2>1, <2>4, <2>5, <2>6 DEF WorkspaceInv, Interview, Gone
<1>5. QED
  BY <1>3, <1>4

LEMMA ReconciledKeeps == ASSUME WorkspaceInv, NEW c \in Clicks, TakeReconciled(c) PROVE WorkspaceInv'
<1>1. /\ sends[c].step = "checking" /\ sends' = [sends EXCEPT ![c] = NoSend] /\ waiting' = FALSE
      /\ \/ grants[sends[c].token].job # "none" /\ held' = NoTake /\ remembered' = 0
         \/ held' = held /\ remembered' = remembered
      /\ mic' = mic /\ takes' = takes /\ grants' = grants
      /\ purpose' = purpose /\ mounted' = mounted /\ job' = job
      /\ polls' = polls /\ discarded' = discarded /\ overtaken' = overtaken
  BY DEF TakeReconciled
<1>2. /\ sends' \in [Clicks -> SendRow] /\ SendsSound(sends', grants', takes')
      /\ \A d \in Clicks : sends'[d].step # "none" => d # c /\ sends'[d] = sends[d]
  BY <1>1, SendOver
<1>3. sends[c].token \in DOMAIN grants /\ grants[sends[c].token].take = sends[c].take
  BY <1>1 DEF WorkspaceInv, SendsSound
<1>4. ~Interview
  BY <1>1 DEF WorkspaceInv, NoneChecks
<1>5. DictatedOnce(mounted, mic, takes, held, remembered, sends, grants, job, waiting, polls)
  BY <1>4 DEF WorkspaceInv
<1>6. sends[c].take = held.take /\ held.take # 0 /\ \A d \in Clicks : sends'[d].step = "none"
  BY <1>1, <1>2, <1>5 DEF DictatedOnce
<1>7. CASE held' = held /\ remembered' = remembered
  <2>1. WorkspaceTyping'
    BY <1>1, <1>2, <1>7 DEF WorkspaceInv, WorkspaceTyping
  <2>2. DictatedOnce(mounted', mic', takes', held', remembered', sends', grants', job', waiting', polls')
    BY <1>1, <1>5, <1>6, <1>7 DEF DictatedOnce
  <2>3. QED
    BY <1>1, <1>2, <1>4, <1>7, <2>1, <2>2 DEF WorkspaceInv, Interview, Gone
<1>8. CASE grants[sends[c].token].job # "none" /\ held' = NoTake /\ remembered' = 0
  <2>1. /\ held' \in TakeRow /\ RecorderSound(mic, takes, held')
        /\ \A t \in 1..takes : TakeKept(t, mic, takes, held', grants, Gone)
    BY <1>3, <1>4, <1>6, <1>8, HandedOver
  <2>2. WorkspaceTyping'
    BY <1>1, <1>2, <1>8, <2>1 DEF WorkspaceInv, WorkspaceTyping
  <2>3. \A n \in DOMAIN grants : grants[n].take # held'.take
    BY <1>8 DEF WorkspaceInv, GrantsSound, NoTake
  <2>4. DictatedOnce(mounted', mic', takes', held', remembered', sends', grants', job', waiting', polls')
    BY <1>1, <1>5, <1>6, <1>8, <2>3 DEF DictatedOnce
  <2>5. QED
    BY <1>1, <1>2, <1>4, <1>8, <2>1, <2>2, <2>4 DEF WorkspaceInv, Interview, Gone
<1>9. QED
  BY <1>1, <1>7, <1>8

-----------------------------------------------------------------------------
(* The job, and the panel that watches it *)

LEMMA WorksKeeps == ASSUME WorkspaceInv, NEW n \in DOMAIN grants, AgentWorks(n) PROVE WorkspaceInv'
<1>1. /\ mic' = mic /\ takes' = takes /\ held' = held /\ remembered' = remembered /\ sends' = sends
      /\ purpose' = purpose /\ mounted' = mounted /\ job' = job /\ waiting' = waiting
      /\ polls' = polls /\ discarded' = discarded /\ overtaken' = overtaken
  BY DEF AgentWorks
<1>2. PICK next \in {"done", "failed", "cancelled", "synced"} :
        /\ grants' = [grants EXCEPT ![n].job = next]
        /\ grants[n].job \in {"running", "done"}
  BY DEF AgentWorks
<1> DEFINE g == [grants[n] EXCEPT !.job = next]
<1>3. grants \in Seq(GrantRow) /\ grants[n] \in GrantRow
  BY DEF WorkspaceInv, WorkspaceTyping
<1>4. g \in GrantRow /\ g.take = grants[n].take /\ g.used = grants[n].used /\ g.job = next
  BY <1>3 DEF GrantRow, JobStates, Ended
<1>5. grants' = [grants EXCEPT ![n] = g]
  BY <1>2, <1>3
<1> HIDE DEF g
<1>6. Moved(grants, grants')
  <2>1. grants[n].job \notin Ended /\ next # "none"
    BY <1>2 DEF Ended
  <2>2. QED
    BY <1>3, <1>4, <1>5, <2>1, MovedOne
<1>7. /\ grants' \in Seq(GrantRow) /\ DOMAIN grants' = DOMAIN grants /\ grants'[n] = g
      /\ \A k \in DOMAIN grants : k # n => grants'[k] = grants[k]
  BY <1>3, <1>4, <1>5, GrantWritten
<1>8. /\ \A k \in DOMAIN grants : /\ grants'[k].used = grants[k].used /\ grants'[k].take = grants[k].take
                                  /\ grants'[k].job # "none" => grants[k].job # "none"
  BY <1>2, <1>4, <1>7
<1>9. WorkspaceTyping'
  BY <1>1, <1>7 DEF WorkspaceInv, WorkspaceTyping
<1>10. GrantsSound(grants', takes')
  BY <1>1, <1>7, <1>8 DEF WorkspaceInv, GrantsSound
<1>11. SendsSound(sends', grants', takes') /\ ToldTruly(job', polls', grants')
  BY <1>1, <1>6, StandsWhenMoved DEF WorkspaceInv
<1>12. \A t \in 1..takes' : TakeKept(t, mic', takes', held', grants', Gone')
  BY <1>1, <1>6, StandsWhenMoved DEF WorkspaceInv, Gone
<1>13. ASSUME ~Interview
       PROVE  DictatedOnce(mounted', mic', takes', held', remembered', sends', grants', job', waiting', polls')
  <2>1. DictatedOnce(mounted, mic, takes, held, remembered, sends, grants, job, waiting, polls)
    BY <1>13 DEF WorkspaceInv
  <2>2. QED
    BY <1>1, <1>7, <1>8, <2>1 DEF DictatedOnce
<1>14. QED
  BY <1>1, <1>9, <1>10, <1>11, <1>12, <1>13 DEF WorkspaceInv, Interview

LEMMA PollKeeps == ASSUME WorkspaceInv, NEW n \in DOMAIN grants, AskAgent(n) PROVE WorkspaceInv'
<1> DEFINE p == [token |-> n, state |-> grants[n].job, first |-> job = NoJob]
<1>1. /\ Interview /\ polls' = polls \cup {p}
      /\ mic' = mic /\ takes' = takes /\ held' = held /\ remembered' = remembered /\ sends' = sends
      /\ purpose' = purpose /\ mounted' = mounted /\ job' = job /\ waiting' = waiting
      /\ grants' = grants /\ discarded' = discarded /\ overtaken' = overtaken
  BY DEF AskAgent
<1>2. n \in Nat /\ grants[n].job \in JobStates /\ (job = NoJob) \in BOOLEAN
  <2>1. grants \in Seq(GrantRow) /\ grants[n] \in GrantRow
    BY DEF WorkspaceInv, WorkspaceTyping
  <2>2. n \in Nat
    BY <2>1
  <2>3. QED
    BY <2>1, <2>2 DEF GrantRow
<1>3. p.token = n /\ p.state = grants[n].job /\ p \in [token : Nat, state : JobStates, first : BOOLEAN]
  BY <1>2
<1> HIDE DEF p
<1>4. WorkspaceTyping'
  BY <1>1, <1>3 DEF WorkspaceInv, WorkspaceTyping
<1>5. ToldTruly(job', polls', grants')
  BY <1>1, <1>3 DEF WorkspaceInv, ToldTruly
<1>6. QED
  BY <1>1, <1>4, <1>5 DEF WorkspaceInv, Interview, Gone

LEMMA AnswersKeeps == ASSUME WorkspaceInv, NEW p \in polls, AgentAnswers(p) PROVE WorkspaceInv'
<1>1. /\ polls' = polls \ {p}
      /\ job' = job \/ job' = [token |-> p.token, state |-> p.state]
      /\ mic' = mic /\ takes' = takes /\ held' = held /\ remembered' = remembered /\ sends' = sends
      /\ purpose' = purpose /\ mounted' = mounted
      /\ grants' = grants /\ discarded' = discarded /\ overtaken' = overtaken
  BY DEF AgentAnswers
<1>2. Interview
  BY DEF WorkspaceInv, DictatedOnce
<1>3. p \in [token : Nat, state : JobStates, first : BOOLEAN]
  BY DEF WorkspaceInv, WorkspaceTyping
<1>4. job' \in [token : Nat, state : JobStates] /\ (job' = job \/ (job'.token = p.token /\ job'.state = p.state))
  BY <1>1, <1>3 DEF WorkspaceInv, WorkspaceTyping
<1>5. WorkspaceTyping'
  BY <1>1, <1>4 DEF WorkspaceInv, WorkspaceTyping
<1>6. ToldTruly(job', polls', grants')
  BY <1>1, <1>4 DEF WorkspaceInv, ToldTruly
<1>7. QED
  BY <1>1, <1>2, <1>5, <1>6 DEF WorkspaceInv, Interview, Gone

LEMMA AnnounceKeeps == WorkspaceInv /\ AnnounceCompletion => WorkspaceInv'
<1> SUFFICES ASSUME WorkspaceInv, AnnounceCompletion PROVE WorkspaceInv'
  OBVIOUS
<1>1. /\ job.state = "synced" /\ held' = NoTake /\ overtaken' = overtaken \cup ({held.take} \ {0})
      /\ mic' = mic /\ takes' = takes /\ remembered' = remembered /\ sends' = sends
      /\ purpose' = purpose /\ mounted' = mounted /\ job' = job
      /\ polls' = polls /\ grants' = grants /\ discarded' = discarded
  BY DEF AnnounceCompletion
<1>2. Interview
  BY <1>1 DEF WorkspaceInv, DictatedOnce, NoJob
<1>3. held' \in TakeRow /\ RecorderSound(mic', takes', held')
  BY <1>1 DEF WorkspaceInv, WorkspaceTyping, RecorderSound, NoTake, TakeRow
<1>4. WorkspaceTyping'
  BY <1>1, <1>3 DEF WorkspaceInv, WorkspaceTyping
<1>5. ASSUME NEW t \in 1..takes' PROVE TakeKept(t, mic', takes', held', grants', Gone')
  <2>1. TakeKept(t, mic, takes, held, grants, Gone) /\ t # 0
    BY <1>1 DEF WorkspaceInv
  <2>2. QED
    BY <1>1, <2>1 DEF TakeKept, Gone
<1>6. QED
  BY <1>1, <1>2, <1>3, <1>4, <1>5 DEF WorkspaceInv, Interview

LEMMA ClearKeeps == WorkspaceInv /\ ClearJob => WorkspaceInv'
<1> SUFFICES ASSUME WorkspaceInv, ClearJob PROVE WorkspaceInv'
  OBVIOUS
<1>1. /\ job.state \in Ended /\ job' = NoJob /\ held' = held /\ overtaken' = overtaken
      /\ mic' = mic /\ takes' = takes /\ remembered' = remembered /\ sends' = sends
      /\ purpose' = purpose /\ mounted' = mounted
      /\ polls' = polls /\ grants' = grants /\ discarded' = discarded
  BY DEF ClearJob
<1>2. Interview
  BY <1>1 DEF WorkspaceInv, DictatedOnce, NoJob, Ended
<1>3. NoJob \in [token : Nat, state : JobStates] /\ NoJob.state = "none"
  BY DEF NoJob, JobStates
<1>4. WorkspaceTyping'
  BY <1>1, <1>3 DEF WorkspaceInv, WorkspaceTyping
<1>5. ToldTruly(job', polls', grants')
  BY <1>1, <1>3 DEF WorkspaceInv, ToldTruly, Ended
<1>6. QED
  BY <1>1, <1>2, <1>4, <1>5 DEF WorkspaceInv, Interview, Gone

-----------------------------------------------------------------------------
LEMMA WorkspaceStep == WorkspaceInv /\ [WorkspaceNext]_workspaceVars => WorkspaceInv'
<1> SUFFICES ASSUME WorkspaceInv, [WorkspaceNext]_workspaceVars PROVE WorkspaceInv'
  OBVIOUS
<1>1. ASSUME NEW c \in Clicks,
             \/ Submit(c) \/ Authorize(c) \/ NotAuthorized(c) \/ Authorized(c)
             \/ \E agrees \in BOOLEAN : AgentTakes(c, agrees)
             \/ Uploaded(c) \/ UploadFailed(c) \/ TakeReconciled(c)
      PROVE  WorkspaceInv'
  BY <1>1, SubmitKeeps, AuthorizeKeeps, NotAuthorizedKeeps, AuthorizedKeeps, TakesKeeps, UploadedKeeps,
     FailedKeeps, ReconciledKeeps
<1>2. ASSUME NEW n \in DOMAIN grants, AgentWorks(n) \/ AskAgent(n) PROVE WorkspaceInv'
  BY <1>2, WorksKeeps, PollKeeps
<1>3. ASSUME NEW p \in polls, AgentAnswers(p) PROVE WorkspaceInv'
  BY <1>3, AnswersKeeps
<1>4. CASE UNCHANGED workspaceVars
  <2>1. /\ held' = held /\ mic' = mic /\ takes' = takes /\ remembered' = remembered /\ sends' = sends
        /\ purpose' = purpose /\ mounted' = mounted /\ job' = job /\ waiting' = waiting
        /\ polls' = polls /\ grants' = grants /\ discarded' = discarded /\ overtaken' = overtaken
    BY <1>4 DEF workspaceVars
  <2>2. WorkspaceTyping'
    BY <2>1 DEF WorkspaceInv, WorkspaceTyping
  <2>3. QED
    BY <2>1, <2>2 DEF WorkspaceInv, Interview, Gone
<1>5. QED
  BY <1>1, <1>2, <1>3, <1>4, StartKeeps, MicrophoneKeeps, StopKeeps, DiscardKeeps, LeaveKeeps, EnterKeeps,
     AnnounceKeeps, ClearKeeps DEF WorkspaceNext

\* A set in which all is the same has at most one member.
LEMMA OneAtMost ==
    ASSUME NEW S, \A x, y \in S : x = y
    PROVE  Cardinality(S) <= 1
<1>1. CASE S = {}
  BY <1>1, FS_EmptySet
<1>2. CASE S # {}
  <2>1. PICK x \in S : TRUE
    BY <1>2
  <2>2. S = {x}
    BY <2>1
  <2>3. QED
    BY <2>2, FS_Singleton
<1>3. QED
  BY <1>1, <1>2

LEMMA InvGivesWorkspace == WorkspaceInv => WorkspaceHolds
<1> SUFFICES ASSUME WorkspaceInv PROVE WorkspaceHolds
  OBVIOUS
<1>1. TakesKept
  <2>1. ASSUME NEW t \in 1..takes, TakeKept(t, mic, takes, held, grants, Gone)
        PROVE  \/ mic = "live" /\ t = takes
               \/ held.take = t \/ t \in discarded \/ WithAgent(t) # {} \/ t \in overtaken
    BY <2>1 DEF TakeKept, Gone, WithAgent
  <2>2. QED
    BY <2>1 DEF TakesKept, WorkspaceInv
<1>2. OneJobPerDictation
  <2> SUFFICES ASSUME ~Interview, NEW t \in 1..takes PROVE Cardinality(WithAgent(t)) <= 1
    BY DEF OneJobPerDictation
  <2>1. \A m, n \in WithAgent(t) : m = n
    BY DEF WorkspaceInv, DictatedOnce, WithAgent
  <2>2. QED
    BY <2>1, OneAtMost
<1>3. NoFalseEnd
  BY DEF NoFalseEnd, WorkspaceInv, ToldTruly
<1>4. QED
  BY <1>1, <1>2, <1>3 DEF WorkspaceHolds

\* However many takes, tokens, submissions and answers on their way: no take is lost between the
\* microphone and the agent, a dictation reaches it once, and no job is shown as ended that has not.
THEOREM TakesReachTheAgent == WorkspaceSpec => []WorkspaceHolds
<1>1. WorkspaceSpec => []WorkspaceInv
  BY WorkspaceInitInv, WorkspaceStep, PTL DEF WorkspaceSpec
<1>2. QED
  BY <1>1, InvGivesWorkspace, PTL

-----------------------------------------------------------------------------
(* The bounds of the browser's page *)

\* A recording begins, and a token is issued, only below its bound.
WorkspaceBounds ==
    /\ takes <= MaxTakes /\ (mic = "requesting" => takes < MaxTakes)
    /\ Len(grants) <= MaxTokens /\ held.recording <= MaxTokens
    /\ \A n \in DOMAIN grants : grants[n].recording <= MaxTokens

\* A grant that changes keeps the recording it names.
LEMMA GrantChanged ==
    ASSUME NEW gr \in Seq(GrantRow), NEW n \in DOMAIN gr, NEW g, g.recording = gr[n].recording
    PROVE  /\ Len([gr EXCEPT ![n] = g]) = Len(gr) /\ DOMAIN [gr EXCEPT ![n] = g] = DOMAIN gr
           /\ \A m \in DOMAIN gr : [gr EXCEPT ![n] = g][m].recording = gr[m].recording
<1>1. /\ Len([gr EXCEPT ![n] = g]) = Len(gr) /\ DOMAIN [gr EXCEPT ![n] = g] = DOMAIN gr
      /\ \A m \in DOMAIN gr : [gr EXCEPT ![n] = g][m] = IF m = n THEN g ELSE gr[m]
  OBVIOUS
<1>2. QED
  BY <1>1

LEMMA WorkspaceBoundsStep ==
    ASSUME WorkspaceInv, WorkspaceBounds, [WorkspaceNext]_workspaceVars
    PROVE  WorkspaceBounds'
<1>1. /\ takes \in Nat /\ held \in TakeRow /\ grants \in Seq(GrantRow) /\ sends \in [Clicks -> SendRow]
      /\ MaxTakes \in Nat /\ MaxTokens \in Nat /\ mic \in {"idle", "requesting", "live"}
  BY WorkspaceAssumption DEF WorkspaceInv, WorkspaceTyping
<1>2. ASSUME takes' = takes, mic' = mic \/ mic' # "requesting", grants' = grants,
             held' = held \/ held'.recording = 0
      PROVE  WorkspaceBounds'
  BY <1>1, <1>2 DEF WorkspaceBounds
<1>3. Captured => held'.recording = 0
  BY DEF Captured
<1>4. NoTake.recording = 0
  BY DEF NoTake
<1>5. CASE UNCHANGED workspaceVars
  BY <1>2, <1>5 DEF workspaceVars
<1>6. CASE StartRecording
  BY <1>1, <1>6 DEF WorkspaceBounds, StartRecording
<1>7. CASE MicrophoneAnswered
  BY <1>1, <1>7 DEF WorkspaceBounds, MicrophoneAnswered
<1>8. CASE StopRecording
  BY <1>2, <1>3, <1>8 DEF StopRecording
<1>9. CASE Discard
  BY <1>2, <1>4, <1>9 DEF Discard
<1>10. CASE LeaveTab
  <2>1. held' = held \/ held'.recording = 0
    BY <1>3, <1>10 DEF LeaveTab, LeftBehind
  <2>2. takes' = takes /\ mic' = "idle" /\ grants' = grants
    BY <1>10 DEF LeaveTab, LeftBehind
  <2>3. QED
    BY <1>2, <2>1, <2>2
<1>11. CASE EnterTab
  BY <1>2, <1>11 DEF EnterTab
<1>12. ASSUME NEW c \in Clicks, Authorize(c) PROVE WorkspaceBounds'
  <2> DEFINE n == Len(grants) + 1
             known == IF held.take = sends[c].take THEN held.recording ELSE 0
             g == [take |-> sends[c].take, used |-> FALSE, job |-> "none",
                   recording |-> IF known = 0 THEN n ELSE known, withdrawn |-> FALSE]
  <2>1. grants' = Append(grants, g) /\ Len(grants) < MaxTokens
    BY <1>12 DEF Authorize
  <2>2. takes' = takes /\ mic' = mic /\ held' = held
    BY <1>12 DEF Authorize
  <2>3. g.recording <= MaxTokens /\ g.recording \in Nat
    BY <1>1, <2>1 DEF WorkspaceBounds, TakeRow
  <2>4. /\ Len(grants') = Len(grants) + 1 /\ DOMAIN grants' = 1..(Len(grants) + 1)
        /\ grants'[Len(grants) + 1] = g
        /\ \A m \in DOMAIN grants : grants'[m] = grants[m]
    <3> HIDE DEF g
    <3>1. QED
      BY <1>1, <2>1
  <2>5. \A m \in DOMAIN grants' : grants'[m].recording <= MaxTokens
    <3> HIDE DEF g
    <3>1. DOMAIN grants = 1..Len(grants) /\ Len(grants) \in Nat
      BY <1>1
    <3>2. \A m \in DOMAIN grants' : m \in DOMAIN grants \/ m = Len(grants) + 1
      BY <2>4, <3>1
    <3>3. QED
      BY <2>3, <2>4, <3>2 DEF WorkspaceBounds
  <2>6. Len(grants') <= MaxTokens
    BY <1>1, <2>1, <2>4
  <2>7. QED
    BY <1>1, <2>2, <2>5, <2>6 DEF WorkspaceBounds
<1>13. ASSUME NEW c \in Clicks, Authorized(c) PROVE WorkspaceBounds'
  <2>1. takes' = takes /\ mic' = mic /\ grants' = grants
    BY <1>13 DEF Authorized
  <2>2. sends[c].token \in DOMAIN grants
    BY <1>13 DEF Authorized, WorkspaceInv, SendsSound
  <2>3. held' = held \/ held'.recording = grants[sends[c].token].recording
    BY <1>1, <1>13 DEF Authorized, TakeRow
  <2>4. QED
    BY <1>1, <2>1, <2>2, <2>3 DEF WorkspaceBounds
<1>14. ASSUME takes' = takes, mic' = mic, held' = held, Len(grants') = Len(grants), DOMAIN grants' = DOMAIN grants,
              \A n \in DOMAIN grants : grants'[n].recording = grants[n].recording
       PROVE  WorkspaceBounds'
  BY <1>1, <1>14 DEF WorkspaceBounds
<1>15. ASSUME NEW c \in Clicks, NEW agrees \in BOOLEAN, AgentTakes(c, agrees) PROVE WorkspaceBounds'
  <2> DEFINE n == sends[c].token
             g == [grants[n] EXCEPT !.used = TRUE, !.job = IF agrees THEN "running" ELSE "none"]
  <2>1. /\ takes' = takes /\ mic' = mic /\ held' = held
        /\ \/ grants' = grants
           \/ grants' = [grants EXCEPT ![n].used = TRUE, ![n].job = IF agrees THEN "running" ELSE "none"]
    BY <1>15 DEF AgentTakes
  <2>2. n \in DOMAIN grants /\ grants[n] \in GrantRow
    BY <1>1, <1>15 DEF AgentTakes, WorkspaceInv, SendsSound
  <2>3. g.recording = grants[n].recording
    BY <2>2 DEF GrantRow
  <2> HIDE DEF n
  <2>4. [grants EXCEPT ![n].used = TRUE, ![n].job = IF agrees THEN "running" ELSE "none"]
           = [grants EXCEPT ![n] = g]
    BY <1>1, <2>2
  <2> HIDE DEF g
  <2>5. /\ Len(grants') = Len(grants) /\ DOMAIN grants' = DOMAIN grants
        /\ \A m \in DOMAIN grants : grants'[m].recording = grants[m].recording
    BY <1>1, <2>1, <2>2, <2>3, <2>4, GrantChanged
  <2>6. QED
    BY <1>14, <2>1, <2>5
<1>16. ASSUME NEW c \in Clicks, UploadFailed(c) PROVE WorkspaceBounds'
  <2> DEFINE n == sends[c].token
             g == [grants[n] EXCEPT !.withdrawn = TRUE]
  <2>1. /\ takes' = takes /\ mic' = mic /\ held' = held
        /\ grants' = grants \/ grants' = [grants EXCEPT ![n].withdrawn = TRUE]
    BY <1>16 DEF UploadFailed
  <2>2. n \in DOMAIN grants /\ grants[n] \in GrantRow
    BY <1>1, <1>16 DEF UploadFailed, WorkspaceInv, SendsSound
  <2>3. g.recording = grants[n].recording
    BY <2>2 DEF GrantRow
  <2> HIDE DEF n
  <2>4. [grants EXCEPT ![n].withdrawn = TRUE] = [grants EXCEPT ![n] = g]
    BY <1>1, <2>2
  <2> HIDE DEF g
  <2>5. /\ Len(grants') = Len(grants) /\ DOMAIN grants' = DOMAIN grants
        /\ \A m \in DOMAIN grants : grants'[m].recording = grants[m].recording
    <3>1. CASE grants' = grants
      BY <3>1
    <3>2. CASE grants' = [grants EXCEPT ![n] = g]
      BY <1>1, <2>2, <2>3, <3>2, GrantChanged
    <3>3. QED
      BY <2>1, <2>4, <3>1, <3>2
  <2>6. QED
    BY <1>14, <2>1, <2>5
<1>17. ASSUME NEW n \in DOMAIN grants, AgentWorks(n) PROVE WorkspaceBounds'
  <2>1. /\ takes' = takes /\ mic' = mic /\ held' = held
        /\ \E next \in JobStates : grants' = [grants EXCEPT ![n].job = next]
    BY <1>17 DEF AgentWorks, JobStates, Ended
  <2>2. /\ Len(grants') = Len(grants) /\ DOMAIN grants' = DOMAIN grants
        /\ \A m \in DOMAIN grants : grants'[m].recording = grants[m].recording
    BY <1>1, <2>1 DEF GrantRow
  <2>3. QED
    BY <1>14, <2>1, <2>2
<1>18. ASSUME NEW c \in Clicks, Submit(c) \/ NotAuthorized(c) \/ Uploaded(c) \/ TakeReconciled(c)
       PROVE  WorkspaceBounds'
  BY <1>2, <1>4, <1>18 DEF Submit, NotAuthorized, Uploaded, TakeReconciled
<1>19. ASSUME NEW n \in DOMAIN grants, AskAgent(n) PROVE WorkspaceBounds'
  BY <1>2, <1>19 DEF AskAgent
<1>20. ASSUME NEW p \in polls, AgentAnswers(p) PROVE WorkspaceBounds'
  BY <1>2, <1>20 DEF AgentAnswers
<1>21. CASE AnnounceCompletion \/ ClearJob
  BY <1>2, <1>4, <1>21 DEF AnnounceCompletion, ClearJob
<1>22. QED
  BY <1>5, <1>6, <1>7, <1>8, <1>9, <1>10, <1>11, <1>12, <1>13, <1>15, <1>16, <1>17, <1>18, <1>19, <1>20, <1>21
  DEF WorkspaceNext

\* The types of the browser's page.
LEMMA WorkspaceTyped == WorkspaceSpec => []WorkspaceTypeOK
<1>1. WorkspaceInit => WorkspaceInv /\ WorkspaceBounds
  BY WorkspaceInitInv, WorkspaceAssumption DEF WorkspaceInit, WorkspaceBounds, NoTake
<1>2. WorkspaceInv /\ WorkspaceBounds /\ [WorkspaceNext]_workspaceVars => WorkspaceInv' /\ WorkspaceBounds'
  BY WorkspaceStep, WorkspaceBoundsStep
<1>3. WorkspaceInv /\ WorkspaceBounds => WorkspaceTypeOK
  <2> SUFFICES ASSUME WorkspaceInv, WorkspaceBounds PROVE WorkspaceTypeOK
    OBVIOUS
  <2>1. WorkspaceTyping /\ RecorderSound(mic, takes, held) /\ GrantsSound(grants, takes)
    BY DEF WorkspaceInv
  <2>2. mic \in {"idle", "requesting", "live"} /\ takes \in 0..MaxTakes
    BY <2>1, WorkspaceAssumption DEF WorkspaceTyping, WorkspaceBounds
  <2>3. held.take \in 0..takes /\ held.recording \in 0..MaxTokens
    BY <2>1, WorkspaceAssumption DEF WorkspaceTyping, WorkspaceBounds, RecorderSound, TakeRow
  <2>4. \A c \in Clicks : sends[c].step \in {"none", "asking", "answered", "uploading", "taken", "refused", "checking"}
    BY <2>1 DEF WorkspaceTyping, SendRow, SendSteps
  <2>5. \A n \in DOMAIN grants :
           grants[n].job \in {"none", "running", "done"} \cup Ended /\ (grants[n].job # "none" => grants[n].used)
    <3>1. \A n \in DOMAIN grants : grants[n] \in GrantRow
      BY <2>1 DEF WorkspaceTyping
    <3>2. QED
      BY <2>1, <3>1 DEF GrantsSound, GrantRow, JobStates
  <2>6. QED
    BY <2>2, <2>3, <2>4, <2>5 DEF WorkspaceTypeOK
<1>4. QED
  BY <1>1, <1>2, <1>3, PTL DEF WorkspaceSpec
=============================================================================
