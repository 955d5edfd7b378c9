---------------------------- MODULE Server_proofs ----------------------------
(***************************************************************************)
(* Proofs about the record of a session and what a report says of it, and  *)
(* about what serves every part of the system.                             *)
(*                                                                         *)
(* Sessions: an upload holds the session's lock from the place it takes to *)
(* the file it acknowledges, so that an acknowledged scan has one place in *)
(* the record.  Statements: what a form shows is older than the draft,     *)
(* unless its revision is the draft's; then it shows the statement that is *)
(* stored but for what was typed.  Registry: a number, once found or       *)
(* claimed, leads to the person in hand until the commit, because a claim  *)
(* is unique and a merge moves holders, rows and survivors alike.          *)
(*                                                                         *)
(* Accounts: every handler works with what it has read before others       *)
(* wrote; the proof rests on what a request was checked for when it came.  *)
(* The wipe: a run may die at every step and another may follow; the       *)
(* invariant follows the stages of a run and says what each of them has    *)
(* made true for all that come after it.  The wording: a model is chosen   *)
(* by the card of the machine, and the card is remembered.  The settings:  *)
(* a save that has them to itself was checked against what they are.       *)
(***************************************************************************)
EXTENDS Sessions, Statements, Registry, Accounts, Wipe, Wording, RuntimeConfig,
        FiniteSetTheorems, WellFoundedInduction, TLAPS

-----------------------------------------------------------------------------
(* The record of a session *)

SubjectRow == [status: {"none", "live", "removed"}, person: Persons \cup {Nothing},
               facts: {"missing", "complete", "undocumented"}]
PaperRow   == [owner: Keys \cup {Nothing}, removed: BOOLEAN, scan: Scans \cup {Nothing}, versions: Seq(Scans)]
FormRow    == [revision: 0..MaxRecord, shown: SUBSET Keys]

SessionsTyping ==
    /\ participants \in [Keys -> SubjectRow] /\ papers \in [Papers -> PaperRow]
    /\ accepted \subseteq Scans /\ disk \subseteq Scans
    /\ record \in Rows /\ upload \in Papers \cup {Nothing}
    /\ forms \in [Forms -> FormRow \cup {Nothing}]
    /\ touching \in [Readers -> Rows \cup {Nothing}]

\* A handler that goes on with the row as it had read it still has a revision to write.
ReadersHaveRoom == \A w \in Readers : touching[w] # Nothing => touching[w].revision < MaxRecord

\* The lock is held while a file arrives: the document stays without a scan and the session open.
UploadHolds ==
    upload # Nothing =>
        /\ papers[upload].scan = Nothing
        /\ record.stage \notin SealedStages /\ record.revision < MaxRecord

\* What the documents refer to was acknowledged, each in one place.
Referenced ==
    \A d \in Papers :
        /\ papers[d].scan \in accepted \cup {Nothing}
        /\ \A n \in DOMAIN papers[d].versions : papers[d].versions[n] \in accepted

OnePlaceEach ==
    \A d, e \in Papers :
        /\ papers[d].scan = papers[e].scan /\ papers[d].scan # Nothing => d = e
        /\ \A n \in DOMAIN papers[d].versions :
              /\ papers[d].versions[n] # papers[e].scan
              /\ \A m \in DOMAIN papers[e].versions :
                    papers[d].versions[n] = papers[e].versions[m] => d = e /\ n = m

Placed ==
    \A c \in accepted :
        /\ c \in disk
        /\ \E d \in Papers : papers[d].scan = c \/ \E n \in DOMAIN papers[d].versions : papers[d].versions[n] = c

SessionsInv ==
    /\ SessionsTyping /\ ReadersHaveRoom /\ UploadHolds
    /\ Referenced /\ OnePlaceEach /\ Placed

\* No document has more earlier scans than there are files.
LEMMA VersionsFit ==
    ASSUME SessionsTyping, OnePlaceEach, NEW d \in Papers
    PROVE  DOMAIN papers[d].versions \subseteq 1..Cardinality(Scans)
<1> DEFINE v == papers[d].versions
<1>1. v \in Seq(Scans)
  BY DEF SessionsTyping, PaperRow
<1>2. Len(v) \in Nat /\ DOMAIN v = 1..Len(v) /\ v \in [1..Len(v) -> Scans]
  BY <1>1
<1>3. \A m, n \in 1..Len(v) : v[m] = v[n] => m = n
  BY <1>2 DEF OnePlaceEach
<1> HIDE DEF v
<1>4. v \in Injection(1..Len(v), Scans)
  BY <1>2, <1>3 DEF Injection, IsInjective
<1>5. Cardinality(1..Len(v)) <= Cardinality(Scans) /\ IsFiniteSet(1..Len(v))
  BY <1>4, SessionsAssumption, FS_Injection
<1>6. Cardinality(1..Len(v)) = Len(v)
  <2>1. Cardinality(1..Len(v)) = IF 1 > Len(v) THEN 0 ELSE Len(v) - 1 + 1
    BY <1>2, FS_Interval
  <2>2. QED
    BY <2>1, <1>2
<1>7. Cardinality(Scans) \in Nat
  BY SessionsAssumption, FS_CardinalityType
<1>8. QED
  BY <1>2, <1>5, <1>6, <1>7 DEF v

LEMMA ScansAreKept ==
    ASSUME SessionsInv
    PROVE  ScansKept
<1> SUFFICES ASSUME NEW c \in accepted
             PROVE  /\ c \in disk
                    /\ Cardinality({d \in Papers : papers[d].scan = c}
                          \cup {x \in Papers \X (1..Cardinality(Scans)) :
                                  x[2] \in DOMAIN papers[x[1]].versions /\ papers[x[1]].versions[x[2]] = c}) = 1
  BY DEF ScansKept
<1> DEFINE now == {d \in Papers : papers[d].scan = c}
           past == {x \in Papers \X (1..Cardinality(Scans)) :
                      x[2] \in DOMAIN papers[x[1]].versions /\ papers[x[1]].versions[x[2]] = c}
<1>1. c # Nothing /\ c \in disk
  BY SessionsAssumption DEF SessionsInv, SessionsTyping, Placed
<1>2. PICK d \in Papers : papers[d].scan = c \/ \E n \in DOMAIN papers[d].versions : papers[d].versions[n] = c
  BY DEF SessionsInv, Placed
<1>3. \A x \in past : \E e \in Papers : \E n \in DOMAIN papers[e].versions :
         x = <<e, n>> /\ papers[e].versions[n] = c
  OBVIOUS
<1>4. \E x : now \cup past = {x}
  <2>1. CASE papers[d].scan = c
    <3>1. past = {}
      BY <1>3, <2>1 DEF SessionsInv, OnePlaceEach
    <3>2. now = {d}
      BY <1>1, <2>1 DEF SessionsInv, OnePlaceEach
    <3>3. QED
      BY <3>1, <3>2
  <2>2. CASE \E n \in DOMAIN papers[d].versions : papers[d].versions[n] = c
    <3>1. PICK n \in DOMAIN papers[d].versions : papers[d].versions[n] = c
      BY <2>2
    <3>2. n \in 1..Cardinality(Scans)
      BY VersionsFit DEF SessionsInv
    <3>3. now = {}
      BY <3>1 DEF SessionsInv, OnePlaceEach
    <3>4. \A x \in past : x = <<d, n>>
      BY <1>3, <3>1 DEF SessionsInv, OnePlaceEach
    <3>5. <<d, n>> \in past
      BY <3>1, <3>2
    <3>6. past = {<<d, n>>}
      BY <3>4, <3>5
    <3>7. QED
      BY <3>3, <3>6
  <2>3. QED
    BY <1>2, <2>1, <2>2
<1> HIDE DEF now, past
<1>5. Cardinality(now \cup past) = 1
  BY <1>4, FS_Singleton
<1>6. QED
  BY <1>1, <1>5 DEF now, past

----------------------------------------------------------------------------
\* A step that changes neither a scan nor an earlier one, and loses no file, keeps what the
\* documents refer to.
LEMMA ScansStay ==
    ASSUME SessionsInv, SessionsTyping', accepted' = accepted, disk \subseteq disk',
           \A d \in Papers : papers'[d].scan = papers[d].scan /\ papers'[d].versions = papers[d].versions
    PROVE  Referenced' /\ OnePlaceEach' /\ Placed'
<1>1. Referenced'
  BY DEF SessionsInv, Referenced
<1>2. OnePlaceEach'
  BY DEF SessionsInv, OnePlaceEach
<1>3. Placed'
  BY DEF SessionsInv, Placed
<1>4. QED
  BY <1>1, <1>2, <1>3

LEMMA SessionsInitInv == SessionsInit => SessionsInv
<1> SUFFICES ASSUME SessionsInit PROVE SessionsInv
  OBVIOUS
<1> USE DEF SessionsInit
<1>1. participants \in [Keys -> SubjectRow]
  BY DEF SubjectRow
<1>2. papers \in [Papers -> PaperRow]
  BY DEF PaperRow
<1>3. record \in Rows /\ record.stage \in {"DRAFT", "REVIEWED"}
  BY SessionsAssumption DEF Rows, Stages
<1>4. SessionsTyping
  BY <1>1, <1>2, <1>3 DEF SessionsTyping
<1>5. ReadersHaveRoom /\ UploadHolds /\ Referenced /\ OnePlaceEach /\ Placed
  BY DEF ReadersHaveRoom, UploadHolds, Referenced, OnePlaceEach, Placed
<1>6. QED
  BY <1>4, <1>5 DEF SessionsInv

\* The row as the handlers that change the record leave it.
LEMMA TouchedRow ==
    ASSUME NEW read \in Rows, read.revision < MaxRecord, record \in Rows
    PROVE  /\ Touched(read) \in Rows
           /\ Touched(read).stage \in {"IN_PROGRESS", record.stage}
           /\ read.stage \in Reviewing => Touched(read).stage = "IN_PROGRESS"
BY SessionsAssumption DEF Rows, Stages, Touched, Reviewing

LEMMA OpenFormKeeps ==
    ASSUME SessionsInv, NEW e \in Forms, OpenForm(e)
    PROVE  SessionsInv'
<1>1. [revision |-> record.revision, shown |-> Known] \in FormRow
  BY DEF SessionsInv, SessionsTyping, FormRow, Rows, Known
<1>2. SessionsTyping'
  BY <1>1 DEF OpenForm, SessionsInv, SessionsTyping
<1>3. Referenced' /\ OnePlaceEach' /\ Placed'
  BY <1>2, ScansStay DEF OpenForm
<1>4. ReadersHaveRoom' /\ UploadHolds'
  BY DEF OpenForm, SessionsInv, ReadersHaveRoom, UploadHolds
<1>5. QED
  BY <1>2, <1>3, <1>4 DEF SessionsInv

\* What a form may send.
LEMMA BodyTyped ==
    ASSUME SessionsInv, NEW e \in Forms, forms[e] # Nothing, NEW b \in Bodies(e)
    PROVE  /\ forms[e] \in FormRow /\ forms[e].shown \subseteq Keys
           /\ b.kept \subseteq Keys /\ b.gone \subseteq forms[e].shown
           /\ \A k \in DOMAIN b.added : k \in Keys /\ participants[k].status = "none" /\ b.added[k] \in SubjectRow
           /\ \A k \in DOMAIN b.fresh : b.fresh[k] \in {"missing", "undocumented"}
<1>1. forms[e] \in FormRow /\ forms[e].shown \subseteq Keys
  BY DEF SessionsInv, SessionsTyping, FormRow
<1>2. b.kept \subseteq Keys /\ b.gone \subseteq forms[e].shown
  BY <1>1 DEF Bodies
<1>3. b.added = <<>> \/ \E k \in Keys : /\ participants[k].status = "none"
                                       /\ b.added \in [{k} -> [status: {"live"}, person: Persons, facts: {"complete"}]]
  BY DEF Bodies
<1>4. b.fresh = <<>> \/ \E k \in Keys : b.fresh \in [{k} -> {"missing", "undocumented"}]
  BY <1>1 DEF Bodies
<1>5. [status: {"live"}, person: Persons, facts: {"complete"}] \subseteq SubjectRow
  BY DEF SubjectRow
<1>6. \A k \in DOMAIN b.added : k \in Keys /\ participants[k].status = "none" /\ b.added[k] \in SubjectRow
  <2>1. CASE b.added = <<>>
    BY <2>1
  <2>2. CASE b.added # <<>>
    <3>1. PICK k \in Keys : /\ participants[k].status = "none"
                            /\ b.added \in [{k} -> [status: {"live"}, person: Persons, facts: {"complete"}]]
      BY <1>3, <2>2
    <3>2. DOMAIN b.added = {k} /\ b.added[k] \in [status: {"live"}, person: Persons, facts: {"complete"}]
      BY <3>1
    <3>3. QED
      BY <3>1, <3>2, <1>5
  <2>3. QED
    BY <2>1, <2>2
<1>7. \A k \in DOMAIN b.fresh : b.fresh[k] \in {"missing", "undocumented"}
  <2>1. CASE b.fresh = <<>>
    BY <2>1
  <2>2. CASE b.fresh # <<>>
    BY <1>4, <2>2
  <2>3. QED
    BY <2>1, <2>2
<1>8. QED
  BY <1>1, <1>2, <1>6, <1>7

\* What a save does to one person of the record.
LEMMA SubjectsSaved ==
    ASSUME SessionsInv, NEW e \in Forms, forms[e] # Nothing, NEW b \in Bodies(e),
           SaveSubjects(b.kept, b.gone, b.added, b.fresh, b.dropped), NEW k \in Keys
    PROVE  /\ participants'[k] \in SubjectRow
           /\ participants[k].status # "none" =>
                /\ participants'[k].person = participants[k].person
                /\ participants'[k].status # participants[k].status =>
                      k \in Known \ b.kept /\ participants'[k].status = "removed"
<1>1. /\ participants[k] \in SubjectRow
      /\ k \in DOMAIN b.added => participants[k].status = "none" /\ b.added[k] \in SubjectRow
      /\ k \in DOMAIN b.fresh => b.fresh[k] \in {"missing", "complete", "undocumented"}
  BY BodyTyped DEF SessionsInv, SessionsTyping
<1>2. participants'[k] =
        IF k \in Known \ b.kept THEN [participants[k] EXCEPT !.status = "removed"]
        ELSE IF k \in b.kept /\ k \in DOMAIN b.fresh THEN [participants[k] EXCEPT !.facts = b.fresh[k]]
        ELSE IF k \in DOMAIN b.added THEN b.added[k] ELSE participants[k]
  BY DEF SaveSubjects
<1>3. \A r \in SubjectRow :
        /\ [r EXCEPT !.status = "removed"] \in SubjectRow
        /\ [r EXCEPT !.status = "removed"].person = r.person
        /\ [r EXCEPT !.status = "removed"].status = "removed"
        /\ \A f \in {"missing", "complete", "undocumented"} :
              /\ [r EXCEPT !.facts = f] \in SubjectRow
              /\ [r EXCEPT !.facts = f].person = r.person
              /\ [r EXCEPT !.facts = f].status = r.status
  BY DEF SubjectRow
<1>4. CASE k \in Known \ b.kept
  BY <1>1, <1>2, <1>3, <1>4
<1>5. CASE k \notin Known \ b.kept /\ k \in b.kept /\ k \in DOMAIN b.fresh
  <2>1. participants'[k] = [participants[k] EXCEPT !.facts = b.fresh[k]]
    BY <1>2, <1>5
  <2>2. /\ [participants[k] EXCEPT !.facts = b.fresh[k]] \in SubjectRow
        /\ [participants[k] EXCEPT !.facts = b.fresh[k]].person = participants[k].person
        /\ [participants[k] EXCEPT !.facts = b.fresh[k]].status = participants[k].status
    BY <1>1, <1>3, <1>5
  <2>3. QED
    BY <2>1, <2>2
<1>6. CASE k \notin Known \ b.kept /\ ~(k \in b.kept /\ k \in DOMAIN b.fresh)
  BY <1>1, <1>2, <1>6
<1>7. QED
  BY <1>4, <1>5, <1>6

\* What a save does to one document of the record.
LEMMA PapersSaved ==
    ASSUME NEW r \in PaperRow, NEW o \in Keys \cup {Nothing}
    PROVE  /\ [r EXCEPT !.removed = TRUE] \in PaperRow
           /\ [r EXCEPT !.removed = TRUE].scan = r.scan
           /\ [r EXCEPT !.removed = TRUE].versions = r.versions
           /\ [r EXCEPT !.owner = o] \in PaperRow
           /\ [r EXCEPT !.owner = o].scan = r.scan
           /\ [r EXCEPT !.owner = o].versions = r.versions
BY DEF PaperRow

LEMMA SaveFormKeeps ==
    ASSUME SessionsInv, NEW e \in Forms, NEW answered \in BOOLEAN, SaveForm(e, answered)
    PROVE  SessionsInv'
<1>0. PICK b \in Bodies(e) : \E owner \in b.kept \cup (DOMAIN b.added) \cup {Nothing} :
        /\ SaveSubjects(b.kept, b.gone, b.added, b.fresh, b.dropped)
        /\ papers' = [d \in Papers |->
              IF d \in b.dropped THEN [papers[d] EXCEPT !.removed = TRUE]
              ELSE IF d = b.paper THEN [papers[d] EXCEPT !.owner = owner] ELSE papers[d]]
  BY DEF SaveForm
<1>1. PICK owner \in b.kept \cup (DOMAIN b.added) \cup {Nothing} :
        /\ SaveSubjects(b.kept, b.gone, b.added, b.fresh, b.dropped)
        /\ papers' = [d \in Papers |->
              IF d \in b.dropped THEN [papers[d] EXCEPT !.removed = TRUE]
              ELSE IF d = b.paper THEN [papers[d] EXCEPT !.owner = owner] ELSE papers[d]]
  BY <1>0
<1>2. /\ forms[e] # Nothing /\ Amendable /\ record' = Touched(record)
      /\ UNCHANGED <<disk, accepted, touching, upload>>
  BY DEF SaveForm
<1>3. owner \in Keys \cup {Nothing}
  BY <1>1, <1>2, BodyTyped
<1>4. record \in Rows /\ record.revision < MaxRecord /\ record.stage \notin SealedStages /\ upload = Nothing
  BY <1>2 DEF SessionsInv, SessionsTyping, Amendable, NoUpload
<1>5. /\ record' \in Rows /\ record'.stage \in {"IN_PROGRESS", record.stage}
      /\ record.stage \in Reviewing => record'.stage = "IN_PROGRESS"
  BY <1>2, <1>4, TouchedRow
<1>6. participants' \in [Keys -> SubjectRow]
  <2>1. participants' = [k \in Keys |-> participants'[k]]
    BY <1>1 DEF SaveSubjects
  <2>2. \A k \in Keys : participants'[k] \in SubjectRow
    BY <1>1, <1>2, SubjectsSaved
  <2>3. QED
    BY <2>1, <2>2
<1>7. /\ papers' \in [Papers -> PaperRow]
      /\ \A d \in Papers : papers'[d].scan = papers[d].scan /\ papers'[d].versions = papers[d].versions
  BY <1>1, <1>3, PapersSaved DEF SessionsInv, SessionsTyping
<1>8. forms' \in [Forms -> FormRow \cup {Nothing}]
  <2>1. [revision |-> record'.revision, shown |-> {k \in Keys : participants'[k].status = "live"}] \in FormRow
    BY <1>5 DEF FormRow, Rows
  <2>2. QED
    BY <2>1 DEF SaveForm, SessionsInv, SessionsTyping
<1>9. SessionsTyping'
  BY <1>2, <1>5, <1>6, <1>7, <1>8 DEF SessionsInv, SessionsTyping
<1>10. Referenced' /\ OnePlaceEach' /\ Placed'
  BY <1>2, <1>7, <1>9, ScansStay
<1>11. ReadersHaveRoom' /\ UploadHolds'
  BY <1>2, <1>4 DEF SessionsInv, ReadersHaveRoom, UploadHolds
<1>12. QED
  BY <1>9, <1>10, <1>11 DEF SessionsInv

\* Steps that move nothing but how far the session is, and the handlers around it.
LEMMA RecordOnlySteps ==
    ASSUME SessionsInv, UNCHANGED <<participants, papers, disk, accepted, upload>>,
           upload = Nothing, record' \in Rows,
           forms' \in [Forms -> FormRow \cup {Nothing}], touching' \in [Readers -> Rows \cup {Nothing}],
           ReadersHaveRoom'
    PROVE  SessionsInv'
<1>1. SessionsTyping'
  BY DEF SessionsInv, SessionsTyping
<1>2. Referenced' /\ OnePlaceEach' /\ Placed'
  BY <1>1, ScansStay
<1>3. UploadHolds'
  BY DEF UploadHolds
<1>4. QED
  BY <1>1, <1>2, <1>3 DEF SessionsInv

LEMMA UpdateWorkflowKeeps ==
    ASSUME SessionsInv, NEW e \in Forms, NEW to \in Stages, UpdateWorkflow(e, to)
    PROVE  SessionsInv'
<1>1. /\ UNCHANGED <<participants, papers, disk, accepted, upload, touching>> /\ upload = Nothing
      /\ record' = [revision |-> record.revision + 1, stage |-> to]
      /\ record.revision < MaxRecord
      /\ forms[e] # Nothing /\ forms' = [forms EXCEPT ![e].revision = record.revision + 1]
  BY DEF UpdateWorkflow, NoUpload
<1>2. record \in Rows /\ record.revision + 1 \in 0..MaxRecord /\ forms[e] \in FormRow
  BY <1>1, SessionsAssumption DEF SessionsInv, SessionsTyping, Rows
<1>3. record' \in Rows
  BY <1>1, <1>2 DEF Rows
<1>4. forms' \in [Forms -> FormRow \cup {Nothing}]
  <2>1. [forms[e] EXCEPT !.revision = record.revision + 1] \in FormRow
    BY <1>2 DEF FormRow
  <2>2. QED
    BY <2>1, <1>1 DEF SessionsInv, SessionsTyping
<1>5. ReadersHaveRoom' /\ touching' \in [Readers -> Rows \cup {Nothing}]
  BY <1>1 DEF SessionsInv, SessionsTyping, ReadersHaveRoom
<1>6. QED
  BY <1>1, <1>3, <1>4, <1>5, RecordOnlySteps

LEMMA ReaderStepsKeep ==
    ASSUME SessionsInv, NEW w \in Readers, ReaderSteps(w)
    PROVE  SessionsInv'
<1>1. CASE Touch(w)
  <2>1. SessionsTyping'
    BY <1>1 DEF Touch, SessionsInv, SessionsTyping
  <2>2. ReadersHaveRoom'
    BY <1>1 DEF Touch, SessionsInv, SessionsTyping, ReadersHaveRoom
  <2>3. Referenced' /\ OnePlaceEach' /\ Placed'
    BY <2>1, <1>1, ScansStay DEF Touch
  <2>4. UploadHolds'
    BY <1>1 DEF Touch, SessionsInv, UploadHolds
  <2>5. QED
    BY <2>1, <2>2, <2>3, <2>4 DEF SessionsInv
<1>2. CASE FinishTouch(w) \/ RefuseTouch(w)
  <2>1. /\ UNCHANGED <<participants, papers, disk, accepted, upload, forms>> /\ upload = Nothing
        /\ touching[w] # Nothing /\ touching' = [touching EXCEPT ![w] = Nothing]
        /\ record' \in {record, Touched(touching[w])}
    BY <1>2 DEF FinishTouch, RefuseTouch, NoUpload
  <2>2. touching[w] \in Rows /\ touching[w].revision < MaxRecord /\ record \in Rows
    BY <2>1 DEF SessionsInv, SessionsTyping, ReadersHaveRoom
  <2>3. record' \in Rows
    BY <2>1, <2>2, TouchedRow
  <2>4. /\ touching' \in [Readers -> Rows \cup {Nothing}] /\ ReadersHaveRoom'
        /\ forms' \in [Forms -> FormRow \cup {Nothing}]
    BY <2>1 DEF SessionsInv, SessionsTyping, ReadersHaveRoom
  <2>5. QED
    BY <2>1, <2>3, <2>4, RecordOnlySteps
<1>3. ASSUME NEW k \in Keys, SaveDetails(w, k) PROVE SessionsInv'
  <2>1. /\ UNCHANGED <<papers, disk, accepted, upload, forms>> /\ upload = Nothing
        /\ touching[w] # Nothing /\ touching' = [touching EXCEPT ![w] = Nothing]
        /\ record' = Touched(touching[w])
    BY <1>3 DEF SaveDetails, NoUpload
  <2>2. PICK facts2 \in Detailed(participants[k].facts) : participants' = [participants EXCEPT ![k].facts = facts2]
    BY <1>3 DEF SaveDetails
  <2>3. participants[k] \in SubjectRow /\ facts2 \in {"missing", "complete", "undocumented"}
    BY <2>2 DEF SessionsInv, SessionsTyping, SubjectRow, Detailed
  <2>4. [participants[k] EXCEPT !.facts = facts2] \in SubjectRow
    BY <2>3 DEF SubjectRow
  <2>5. participants' \in [Keys -> SubjectRow]
    BY <2>2, <2>4 DEF SessionsInv, SessionsTyping
  <2>6. touching[w] \in Rows /\ touching[w].revision < MaxRecord /\ record \in Rows
    BY <2>1 DEF SessionsInv, SessionsTyping, ReadersHaveRoom
  <2>7. record' \in Rows
    BY <2>1, <2>6, TouchedRow
  <2>8. touching' \in [Readers -> Rows \cup {Nothing}] /\ ReadersHaveRoom' /\ UploadHolds'
    BY <2>1 DEF SessionsInv, SessionsTyping, ReadersHaveRoom, UploadHolds
  <2>9. SessionsTyping'
    BY <2>1, <2>5, <2>7, <2>8 DEF SessionsInv, SessionsTyping
  <2>10. Referenced' /\ OnePlaceEach' /\ Placed'
    BY <2>1, <2>9, ScansStay
  <2>11. QED
    BY <2>8, <2>9, <2>10 DEF SessionsInv
<1>4. QED
  BY <1>1, <1>2, <1>3 DEF ReaderSteps

----------------------------------------------------------------------------
(* Scans *)

LEMMA BeginUploadKeeps ==
    ASSUME SessionsInv, NEW d \in Papers, BeginUpload(d)
    PROVE  SessionsInv'
<1>1. SessionsTyping'
  BY DEF BeginUpload, SessionsInv, SessionsTyping
<1>2. UploadHolds'
  BY DEF BeginUpload, Amendable, UploadHolds
<1>3. Referenced' /\ OnePlaceEach' /\ Placed'
  BY <1>1, ScansStay DEF BeginUpload
<1>4. ReadersHaveRoom'
  BY DEF BeginUpload, SessionsInv, ReadersHaveRoom
<1>5. QED
  BY <1>1, <1>2, <1>3, <1>4 DEF SessionsInv

LEMMA AbandonUploadKeeps ==
    ASSUME SessionsInv, NEW left \in SUBSET Scans, AbandonUpload(left)
    PROVE  SessionsInv'
<1>1. SessionsTyping'
  BY DEF AbandonUpload, SessionsInv, SessionsTyping
<1>2. Referenced' /\ OnePlaceEach' /\ Placed'
  BY <1>1, ScansStay DEF AbandonUpload
<1>3. ReadersHaveRoom' /\ UploadHolds'
  BY DEF AbandonUpload, SessionsInv, ReadersHaveRoom, UploadHolds
<1>4. QED
  BY <1>1, <1>2, <1>3 DEF SessionsInv

\* A row of a document after its scan has changed.
LEMMA ScanArrives ==
    ASSUME NEW r \in PaperRow, NEW c \in Scans
    PROVE  /\ [r EXCEPT !.scan = c] \in PaperRow
           /\ [r EXCEPT !.scan = c].scan = c
           /\ [r EXCEPT !.scan = c].versions = r.versions
           /\ [r EXCEPT !.scan = c].owner = r.owner
           /\ [r EXCEPT !.scan = c].removed = r.removed
BY DEF PaperRow

LEMMA ScanRetires ==
    ASSUME NEW r \in PaperRow, NEW v \in Seq(Scans)
    PROVE  /\ [r EXCEPT !.scan = Nothing, !.versions = v] \in PaperRow
           /\ [r EXCEPT !.scan = Nothing, !.versions = v].scan = Nothing
           /\ [r EXCEPT !.scan = Nothing, !.versions = v].versions = v
           /\ [r EXCEPT !.scan = Nothing, !.versions = v].owner = r.owner
           /\ [r EXCEPT !.scan = Nothing, !.versions = v].removed = r.removed
BY DEF PaperRow

LEMMA FinishUploadKeeps ==
    ASSUME SessionsInv, NEW c \in Scans, FinishUpload(c)
    PROVE  SessionsInv'
<1> USE DEF FinishUpload
<1>1. /\ upload \in Papers /\ papers[upload].scan = Nothing /\ record.revision < MaxRecord
      /\ record \in Rows /\ papers[upload] \in PaperRow /\ upload # Nothing
  BY DEF SessionsInv, SessionsTyping, UploadHolds, NoUpload
<1>2. PICK d \in Papers : d = upload
  BY <1>1
<1>3. papers' = [papers EXCEPT ![d] = [papers[d] EXCEPT !.scan = c]]
  BY <1>2
<1>4. /\ papers' \in [Papers -> PaperRow]
      /\ papers'[d].scan = c
      /\ \A e \in Papers \ {d} : papers'[e].scan = papers[e].scan
      /\ \A e \in Papers : /\ papers'[e].versions = papers[e].versions
                           /\ papers'[e].owner = papers[e].owner /\ papers'[e].removed = papers[e].removed
  <2> DEFINE r == [papers[d] EXCEPT !.scan = c]
  <2>1. r \in PaperRow /\ r.scan = c /\ r.versions = papers[d].versions
    BY <1>1, <1>2, ScanArrives
  <2>2. r.owner = papers[d].owner /\ r.removed = papers[d].removed
    BY <1>1, <1>2, ScanArrives
  <2>3. papers' = [papers EXCEPT ![d] = r]
    BY <1>3
  <2> HIDE DEF r
  <2>4. papers \in [Papers -> PaperRow]
    BY DEF SessionsInv, SessionsTyping
  <2>5. /\ papers' \in [Papers -> PaperRow] /\ papers'[d] = r
        /\ \A e \in Papers \ {d} : papers'[e] = papers[e]
    BY <2>1, <2>3, <2>4
  <2>6. QED
    BY <2>1, <2>2, <2>5
<1>5. /\ record' \in Rows /\ record'.stage \in {"IN_PROGRESS", record.stage}
  BY <1>1, TouchedRow
<1>6. SessionsTyping'
  BY <1>4, <1>5 DEF SessionsInv, SessionsTyping
<1>7. c \notin accepted /\ c # Nothing
  BY SessionsAssumption DEF SessionsInv, Placed
<1>8. Referenced'
  BY <1>4, <1>7 DEF SessionsInv, Referenced
<1>9. OnePlaceEach'
  BY <1>4, <1>7 DEF SessionsInv, OnePlaceEach, Referenced
<1>10. Placed'
  <2>1. papers[d].scan = Nothing
    BY <1>1, <1>2
  <2>2. \A x \in accepted : x # Nothing
    BY SessionsAssumption DEF SessionsInv, SessionsTyping
  <2>3. QED
    BY <1>4, <2>1, <2>2 DEF SessionsInv, Placed
<1>11. ReadersHaveRoom' /\ UploadHolds'
  BY DEF SessionsInv, ReadersHaveRoom, UploadHolds
<1>12. QED
  BY <1>6, <1>8, <1>9, <1>10, <1>11 DEF SessionsInv

LEMMA DeleteScanKeeps ==
    ASSUME SessionsInv, NEW d \in Papers, DeleteScan(d)
    PROVE  SessionsInv'
<1> DEFINE v == IF papers[d].scan = Nothing THEN papers[d].versions ELSE Append(papers[d].versions, papers[d].scan)
<1>1. /\ papers' = [papers EXCEPT ![d] = [papers[d] EXCEPT !.scan = Nothing, !.versions = v]]
      /\ record' = Touched(record) /\ Amendable
      /\ UNCHANGED <<participants, disk, accepted, forms, touching, upload>>
  BY DEF DeleteScan
<1>2. /\ papers[d] \in PaperRow /\ papers[d].versions \in Seq(Scans) /\ papers[d].scan \in Scans \cup {Nothing}
      /\ record \in Rows
  BY DEF SessionsInv, SessionsTyping, PaperRow
<1>3. v \in Seq(Scans)
  BY <1>2
<1>4. \A n \in DOMAIN papers[d].versions : n \in DOMAIN v /\ v[n] = papers[d].versions[n]
  BY <1>2
<1>5. \A n \in DOMAIN v : \/ n \in DOMAIN papers[d].versions /\ v[n] = papers[d].versions[n]
                          \/ n = Len(papers[d].versions) + 1 /\ v[n] = papers[d].scan /\ papers[d].scan # Nothing
  BY <1>2
<1>6. papers[d].scan # Nothing => \E n \in DOMAIN v : v[n] = papers[d].scan
  <2> SUFFICES ASSUME papers[d].scan # Nothing PROVE \E n \in DOMAIN v : v[n] = papers[d].scan
    OBVIOUS
  <2>1. Len(papers[d].versions) + 1 \in DOMAIN v /\ v[Len(papers[d].versions) + 1] = papers[d].scan
    BY <1>2
  <2>2. QED
    BY <2>1
<1> HIDE DEF v
<1>7. /\ papers' \in [Papers -> PaperRow]
      /\ papers'[d].scan = Nothing /\ papers'[d].versions = v
      /\ papers'[d].owner = papers[d].owner /\ papers'[d].removed = papers[d].removed
      /\ \A e \in Papers \ {d} : papers'[e] = papers[e]
  <2> DEFINE r == [papers[d] EXCEPT !.scan = Nothing, !.versions = v]
  <2>1. r \in PaperRow /\ r.scan = Nothing
    BY <1>2, <1>3, ScanRetires
  <2>2. r.versions = v
    BY <1>2, <1>3, ScanRetires
  <2>3. r.owner = papers[d].owner /\ r.removed = papers[d].removed
    BY <1>2, <1>3, ScanRetires
  <2>4. papers' = [papers EXCEPT ![d] = r]
    BY <1>1
  <2> HIDE DEF r
  <2>5. papers \in [Papers -> PaperRow]
    BY DEF SessionsInv, SessionsTyping
  <2>6. /\ papers' \in [Papers -> PaperRow] /\ papers'[d] = r
        /\ \A e \in Papers \ {d} : papers'[e] = papers[e]
    BY <2>1, <2>4, <2>5
  <2>7. QED
    BY <2>1, <2>2, <2>3, <2>6
<1>8. /\ record' \in Rows /\ record'.stage \in {"IN_PROGRESS", record.stage}
  BY <1>1, <1>2, TouchedRow DEF Amendable
<1>9. SessionsTyping'
  BY <1>1, <1>7, <1>8 DEF SessionsInv, SessionsTyping
<1>10. Referenced'
  BY <1>1, <1>5, <1>7 DEF SessionsInv, Referenced
<1>11. OnePlaceEach'
  <2>1. \A e, g \in Papers : papers'[e].scan = papers'[g].scan /\ papers'[e].scan # Nothing => e = g
    BY <1>7 DEF SessionsInv, OnePlaceEach
  <2>2. \A n \in DOMAIN papers[d].versions : n # Len(papers[d].versions) + 1
    BY <1>2
  <2>3. \A e, g \in Papers : \A n \in DOMAIN papers'[e].versions : papers'[e].versions[n] # papers'[g].scan
    <3>1. \A x \in accepted : x # Nothing
      BY SessionsAssumption DEF SessionsInv, SessionsTyping
    <3>2. Referenced'
      BY <1>10
    <3>3. \A g \in Papers \ {d} : papers[g].scan # papers[d].scan \/ papers[g].scan = Nothing
      BY DEF SessionsInv, OnePlaceEach
    <3>4. QED
      BY <1>1, <1>5, <1>7, <3>1, <3>2, <3>3 DEF SessionsInv, OnePlaceEach, Referenced
  <2>4. \A e, g \in Papers : \A n \in DOMAIN papers'[e].versions : \A m \in DOMAIN papers'[g].versions :
           papers'[e].versions[n] = papers'[g].versions[m] => e = g /\ n = m
    <3>1. \A e, g \in Papers \ {d} : \A n \in DOMAIN papers[e].versions : \A m \in DOMAIN papers[g].versions :
             papers[e].versions[n] = papers[g].versions[m] => e = g /\ n = m
      BY DEF SessionsInv, OnePlaceEach
    <3>2. \A e \in Papers \ {d} : \A n \in DOMAIN papers[e].versions : \A m \in DOMAIN v :
             papers[e].versions[n] # v[m]
      BY <1>5 DEF SessionsInv, OnePlaceEach
    <3>3. \A n, m \in DOMAIN v : v[n] = v[m] => n = m
      BY <1>5, <2>2 DEF SessionsInv, OnePlaceEach
    <3>4. QED
      BY <1>7, <3>1, <3>2, <3>3
  <2>5. QED
    BY <2>1, <2>3, <2>4 DEF OnePlaceEach
<1>12. Placed'
  <2> SUFFICES ASSUME NEW c \in accepted
               PROVE  /\ c \in disk'
                      /\ \E e \in Papers : \/ papers'[e].scan = c
                                           \/ \E n \in DOMAIN papers'[e].versions : papers'[e].versions[n] = c
    BY <1>1 DEF Placed
  <2>1. c \in disk /\ c # Nothing
    BY SessionsAssumption DEF SessionsInv, SessionsTyping, Placed
  <2>2. PICK e \in Papers : papers[e].scan = c \/ \E n \in DOMAIN papers[e].versions : papers[e].versions[n] = c
    BY DEF SessionsInv, Placed
  <2>3. CASE e # d
    BY <2>1, <2>2, <2>3, <1>1, <1>7
  <2>4. CASE e = d
    BY <2>1, <2>2, <2>4, <1>1, <1>4, <1>6, <1>7
  <2>5. QED
    BY <2>3, <2>4
<1>13. ReadersHaveRoom' /\ UploadHolds'
  BY <1>1 DEF SessionsInv, ReadersHaveRoom, UploadHolds, Amendable, NoUpload
<1>14. QED
  BY <1>9, <1>10, <1>11, <1>12, <1>13 DEF SessionsInv

----------------------------------------------------------------------------
LEMMA SessionsStepInv == SessionsInv /\ [SessionsNext]_sessionVars => SessionsInv'
<1> SUFFICES ASSUME SessionsInv, [SessionsNext]_sessionVars PROVE SessionsInv'
  OBVIOUS
<1>1. ASSUME NEW e \in Forms, FormSteps(e) PROVE SessionsInv'
  BY <1>1, OpenFormKeeps, SaveFormKeeps, UpdateWorkflowKeeps DEF FormSteps
<1>2. ASSUME NEW w \in Readers, ReaderSteps(w) PROVE SessionsInv'
  BY <1>2, ReaderStepsKeep
<1>3. ASSUME UploadSteps PROVE SessionsInv'
  BY <1>3, BeginUploadKeeps, DeleteScanKeeps, FinishUploadKeeps, AbandonUploadKeeps DEF UploadSteps
<1>4. CASE UNCHANGED sessionVars
  BY <1>4 DEF sessionVars, SessionsInv, SessionsTyping, ReadersHaveRoom, UploadHolds, Referenced,
     OnePlaceEach, Placed
<1>5. QED
  BY <1>1, <1>2, <1>3, <1>4 DEF SessionsNext

LEMMA SessionsInvariance == SessionsSpec => []SessionsInv
BY SessionsInitInv, SessionsStepInv, PTL DEF SessionsSpec

\* A scan whose upload was acknowledged is on disk and referred to in exactly one place of the
\* record for good, for any number of forms, people, documents and files, whatever is saved,
\* deleted and uploaded, and whatever handlers go on with the row as they had read it.
THEOREM ScansStand == SessionsSpec => []ScansKept
BY ScansAreKept, SessionsInvariance, PTL

\* While the people and the owners of papers stay, and the session is not taken further, an intake
\* that was complete is complete.
LEMMA IntakeStays ==
    ASSUME ReviewedIsComplete, participants' = participants,
           \A d \in Papers : papers'[d].owner = papers[d].owner /\ papers'[d].removed = papers[d].removed,
           record'.stage \in Examined => record.stage \in Examined \/ IntakeComplete
    PROVE  ReviewedIsComplete'
<1>1. \A k \in Keys : Live(k)' = Live(k)
  BY DEF Live
<1>2. IntakeComplete => IntakeComplete'
  BY <1>1 DEF IntakeComplete, Intake, Known
<1>3. QED
  BY <1>2 DEF ReviewedIsComplete

\* A step under which the intake of a session under review does not stay complete is the save of
\* somebody's details by a request that read the session before its review.
LEMMA ReviewStays ==
    ASSUME SessionsInv, SessionsNext, ReviewedIsComplete
    PROVE  ReviewedIsComplete' \/ OvertakenDetails(Examined)
<1>0. record \in Rows
  BY DEF SessionsInv, SessionsTyping
<1>1. ASSUME NEW e \in Forms, NEW answered \in BOOLEAN, SaveForm(e, answered) PROVE ReviewedIsComplete'
  <2>1. record' = Touched(record) /\ record.stage \notin SealedStages /\ record.revision < MaxRecord
    BY <1>1 DEF SaveForm, Amendable
  <2>2. record'.stage \in {"IN_PROGRESS", record.stage} /\ (record.stage \in Reviewing => record'.stage = "IN_PROGRESS")
    BY <1>0, <2>1, TouchedRow
  <2>3. record'.stage \notin Examined
    BY <2>1, <2>2 DEF Examined, Reviewing, SealedStages
  <2>4. QED
    BY <2>3 DEF ReviewedIsComplete
<1>2. ASSUME NEW e \in Forms, NEW to \in Stages, UpdateWorkflow(e, to) PROVE ReviewedIsComplete'
  <2>1. /\ UNCHANGED <<participants, papers>> /\ record'.stage = to /\ to \in Transitions[record.stage]
        /\ (to # "ARCHIVED" /\ record.stage \notin SealedStages) => IntakeComplete
    BY <1>2 DEF UpdateWorkflow
  <2>2. to \in Examined => IntakeComplete
    BY <1>0, <2>1 DEF Rows, Stages, Transitions, SealedStages, Examined
  <2>3. QED
    BY <2>1, <2>2, IntakeStays
<1>3. ASSUME NEW w \in Readers, FinishTouch(w) PROVE ReviewedIsComplete'
  <2>1. /\ UNCHANGED <<participants, papers>> /\ record' = Touched(touching[w])
        /\ touching[w] \in Rows /\ touching[w].revision < MaxRecord
    BY <1>3 DEF FinishTouch, SessionsInv, SessionsTyping, ReadersHaveRoom
  <2>2. record'.stage \in {"IN_PROGRESS", record.stage}
    BY <1>0, <2>1, TouchedRow
  <2>3. QED
    BY <2>1, <2>2, IntakeStays DEF Examined
<1>4. ASSUME NEW w \in Readers, NEW k \in Keys, SaveDetails(w, k)
      PROVE  ReviewedIsComplete' \/ OvertakenDetails(Examined)
  <2>1. /\ papers' = papers /\ touching[w] # Nothing /\ touching' = [touching EXCEPT ![w] = Nothing]
        /\ record' = Touched(touching[w]) /\ touching[w].stage \notin SealedStages
        /\ touching[w] \in Rows /\ touching[w].revision < MaxRecord /\ touching \in [Readers -> Rows \cup {Nothing}]
    BY <1>4 DEF SaveDetails, SessionsInv, SessionsTyping, ReadersHaveRoom
  <2>2. participants' = [participants EXCEPT ![k].facts = participants'[k].facts]
    BY <1>4 DEF SaveDetails, SessionsInv, SessionsTyping, SubjectRow
  <2>3. CASE touching[w].stage \in Examined
    <3>1. touching[w].stage \in Reviewing
      BY <2>1, <2>3 DEF Examined, Reviewing, SealedStages
    <3>2. record'.stage = "IN_PROGRESS"
      BY <1>0, <2>1, <3>1, TouchedRow
    <3>3. QED
      BY <3>2 DEF ReviewedIsComplete, Examined
  <2>4. CASE touching[w].stage \notin Examined
    BY <2>1, <2>2, <2>4 DEF OvertakenDetails
  <2>5. QED
    BY <2>3, <2>4
<1>5. ASSUME NEW d \in Papers, DeleteScan(d) PROVE ReviewedIsComplete'
  <2>1. /\ participants' = participants /\ record' = Touched(record) /\ record.revision < MaxRecord
        /\ papers[d] \in PaperRow
    BY <1>5 DEF DeleteScan, Amendable, SessionsInv, SessionsTyping
  <2>2. \A e \in Papers : papers'[e].owner = papers[e].owner /\ papers'[e].removed = papers[e].removed
    BY <1>5, <2>1 DEF DeleteScan, SessionsInv, SessionsTyping, PaperRow
  <2>3. record'.stage \in {"IN_PROGRESS", record.stage}
    BY <1>0, <2>1, TouchedRow
  <2>4. QED
    BY <2>1, <2>2, <2>3, IntakeStays DEF Examined
<1>6. ASSUME NEW c \in Scans, FinishUpload(c) PROVE ReviewedIsComplete'
  <2>1. /\ participants' = participants /\ record' = Touched(record) /\ record.revision < MaxRecord
        /\ papers' = [papers EXCEPT ![upload].scan = c]
    BY <1>6 DEF FinishUpload, NoUpload, SessionsInv, UploadHolds
  <2>2. \A e \in Papers : papers'[e].owner = papers[e].owner /\ papers'[e].removed = papers[e].removed
    BY <2>1 DEF SessionsInv, SessionsTyping, PaperRow
  <2>3. record'.stage \in {"IN_PROGRESS", record.stage}
    BY <1>0, <2>1, TouchedRow
  <2>4. QED
    BY <2>1, <2>2, <2>3, IntakeStays DEF Examined
<1>7. ASSUME UNCHANGED <<participants, papers, record>> PROVE ReviewedIsComplete'
  BY <1>7, IntakeStays
<1>8. \/ UNCHANGED <<participants, papers, record>>
      \/ \E e \in Forms : \/ \E answered \in BOOLEAN : SaveForm(e, answered)
                          \/ \E to \in Stages : UpdateWorkflow(e, to)
      \/ \E w \in Readers : FinishTouch(w) \/ \E k \in Keys : SaveDetails(w, k)
      \/ (\E d \in Papers : DeleteScan(d)) \/ \E c \in Scans : FinishUpload(c)
  BY DEF SessionsNext, FormSteps, ReaderSteps, UploadSteps, OpenForm, Touch, RefuseTouch, BeginUpload, AbandonUpload
<1>9. QED
  BY <1>1, <1>2, <1>3, <1>4, <1>5, <1>6, <1>7, <1>8

\* Nobody leaves the record but through a save from a form that showed them, and no key is given to
\* another person; what was complete under review stays so, and a closed record does not change, but
\* for the details of one person that a request saves which was overtaken by the review or closing.
THEOREM RecordStands == SessionsSpec => RecordHolds
<1> DEFINE Kept ==
      \A k \in Keys : participants[k].status # "none" =>
          /\ participants'[k].person = participants[k].person
          /\ participants'[k].status # participants[k].status =>
                /\ participants[k].status = "live" /\ participants'[k].status = "removed"
                /\ \E e \in Forms : forms[e] # Nothing /\ k \in forms[e].shown
           Complete == ReviewedIsComplete => ReviewedIsComplete' \/ OvertakenDetails(Examined)
           Stands == record.stage \in SealedStages =>
              \/ participants' = participants /\ papers' = papers
              \/ OvertakenDetails(SealedStages)
<1>1. SessionsInv /\ [SessionsNext]_sessionVars => [Kept]_sessionVars
  <2> SUFFICES ASSUME SessionsInv, SessionsNext PROVE Kept
    OBVIOUS
  <2>1. ASSUME NEW e \in Forms, NEW answered \in BOOLEAN, SaveForm(e, answered) PROVE Kept
    <3>1. PICK b \in Bodies(e) :
            SaveSubjects(b.kept, b.gone, b.added, b.fresh, b.dropped) /\ Reconciled(b.kept, b.gone)
      BY <2>1 DEF SaveForm
    <3>2. forms[e] # Nothing
      BY <2>1 DEF SaveForm
    <3>3. \A k \in Known \ b.kept : k \in forms[e].shown
      BY <3>1, <3>2, BodyTyped DEF Reconciled
    <3>4. QED
      BY <3>1, <3>2, <3>3, SubjectsSaved DEF Known
  <2>2. participants' = participants => Kept
    OBVIOUS
  <2>3. ASSUME NEW w \in Readers, NEW k \in Keys, SaveDetails(w, k) PROVE Kept
    <3>1. PICK known \in Detailed(participants[k].facts) : participants' = [participants EXCEPT ![k].facts = known]
      BY <2>3 DEF SaveDetails
    <3>2. \A j \in Keys : participants'[j].person = participants[j].person /\ participants'[j].status = participants[j].status
      BY <3>1 DEF SessionsInv, SessionsTyping, SubjectRow
    <3>3. QED
      BY <3>2
  <2>4. \/ participants' = participants
        \/ \E e \in Forms : \E answered \in BOOLEAN : SaveForm(e, answered)
        \/ \E w \in Readers : \E k \in Keys : SaveDetails(w, k)
    BY DEF SessionsNext, FormSteps, ReaderSteps, UploadSteps, OpenForm, UpdateWorkflow, Touch, FinishTouch,
       RefuseTouch, BeginUpload, DeleteScan, FinishUpload, AbandonUpload
  <2>5. QED
    BY <2>1, <2>2, <2>3, <2>4
<1>2. SessionsInv /\ [SessionsNext]_sessionVars => [Complete]_sessionVars
  BY ReviewStays
<1>3. SessionsInv /\ [SessionsNext]_sessionVars => [Stands]_sessionVars
  <2> SUFFICES ASSUME SessionsInv, SessionsNext, record.stage \in SealedStages
               PROVE  \/ participants' = participants /\ papers' = papers
                      \/ OvertakenDetails(SealedStages)
    OBVIOUS
  <2>1. upload = Nothing
    BY DEF SessionsInv, UploadHolds
  <2>2. ASSUME NEW w \in Readers, NEW k \in Keys, SaveDetails(w, k) PROVE OvertakenDetails(SealedStages)
    <3>1. /\ papers' = papers /\ touching[w] # Nothing /\ touching'[w] = Nothing
          /\ touching[w].stage \notin SealedStages
      BY <2>2 DEF SaveDetails, SessionsInv, SessionsTyping
    <3>2. participants' = [participants EXCEPT ![k].facts = participants'[k].facts]
      BY <2>2 DEF SaveDetails, SessionsInv, SessionsTyping, SubjectRow
    <3>3. QED
      BY <3>1, <3>2 DEF OvertakenDetails
  <2>3. \/ participants' = participants /\ papers' = papers
        \/ \E w \in Readers : \E k \in Keys : SaveDetails(w, k)
    BY <2>1 DEF SessionsNext, FormSteps, ReaderSteps, UploadSteps, OpenForm, UpdateWorkflow, Touch, FinishTouch,
       RefuseTouch, BeginUpload, DeleteScan, FinishUpload, AbandonUpload, SaveForm, Amendable, NoUpload
  <2>4. QED
    BY <2>2, <2>3
<1>4. QED
  BY <1>1, <1>2, <1>3, SessionsInvariance, PTL
     DEF SessionsSpec, RecordHolds, ParticipantsKept, ReviewStaysComplete, ClosedButForDetails

\* The type invariant of the record.
LEMMA SessionsTyped == SessionsSpec => []SessionsTypeOK
<1>1. SessionsInv => SessionsTypeOK
  <2> SUFFICES ASSUME SessionsTyping PROVE SessionsTypeOK
    BY DEF SessionsInv
  <2>1. \A k \in Keys : participants[k] \in SubjectRow
    BY DEF SessionsTyping
  <2>2. \A d \in Papers : papers[d] \in PaperRow
    BY DEF SessionsTyping
  <2>3. \A d \in Papers : /\ papers[d].owner \in Keys \cup {Nothing} /\ papers[d].removed \in BOOLEAN
                          /\ papers[d].scan \in Scans \cup {Nothing}
                          /\ papers[d].versions \in Seq(Scans)
    BY <2>2 DEF PaperRow
  <2>4. (\A e \in Forms : forms[e] \in FormRow \cup {Nothing}) /\ \A w \in Readers : touching[w] \in Rows \cup {Nothing}
    BY DEF SessionsTyping
  <2>5. QED
    BY <2>1, <2>3, <2>4 DEF SessionsTyping, SessionsTypeOK, SubjectRow, FormRow
<1>2. QED
  BY <1>1, SessionsInvariance, PTL

-----------------------------------------------------------------------------
(* A statement *)

ReportRow == [revision: 0..MaxDraft, reviewed: BOOLEAN]

StatementsTyping ==
    /\ facts \in PersonFacts /\ spoken \in Spoken /\ attributed \in BOOLEAN
    /\ report \in ReportRow /\ catalogue \in Sources
    /\ block \in SUBSET Statement /\ \A b, c \in block : b = c
    /\ pages \in [Operators -> SUBSET Form]
    /\ typed \in [Fields -> SUBSET Values]

\* A fact that was written over differs from the fact as it was imported.
WrittenOver == \A f \in Fields : \A b \in block : b.imported[f] \notin typed[f]

\* A form of the newest revision shows the statement that is stored, but for what was typed in it.
FormsShow ==
    \A o \in Operators : \A form \in pages[o] :
        /\ form.revision <= report.revision
        /\ form.revision = report.revision /\ form.filled /\ ~form.fresh =>
              /\ block # {}
              /\ \A b \in block : \A f \in Fields \ form.touched : form.values[f] = b.values[f]

\* An answer is known by its number, in the dialogue and in the statement.
AnswersNumbered ==
    /\ catalogue.id <= report.revision
    /\ \A b \in block : \A e \in b.entries :
          /\ e.id <= report.revision
          /\ e.id = catalogue.id => e.text = catalogue.text
          /\ \A g \in b.entries : e.id = g.id => e = g

StatementsInv == StatementsTyping /\ WrittenOver /\ FormsShow /\ AnswersNumbered /\ OverridesStand

LEMMA StatementsInitInv == StatementsInit => StatementsInv
<1> SUFFICES ASSUME StatementsInit PROVE StatementsInv
  OBVIOUS
<1> USE DEF StatementsInit
<1>1. PICK v \in Values : /\ facts = [f \in Fields |-> v]
                          /\ spoken = [transcript |-> 0, revision |-> 0, text |-> v, reviewed |-> TRUE]
                          /\ catalogue = [id |-> 0, transcript |-> 0, text |-> v]
  OBVIOUS
<1>2. 0 \in 0..MaxDraft /\ 0 \in 0..MaxSpoken
  BY StatementsAssumption
<1>3. facts \in PersonFacts /\ spoken \in Spoken /\ catalogue \in Sources /\ report \in ReportRow
  BY <1>1, <1>2 DEF PersonFacts, Spoken, Sources, ReportRow
<1>4. StatementsTyping
  BY <1>3 DEF StatementsTyping
<1>5. WrittenOver /\ FormsShow /\ AnswersNumbered /\ OverridesStand
  BY <1>1 DEF WrittenOver, FormsShow, AnswersNumbered, OverridesStand
<1>6. QED
  BY <1>4, <1>5 DEF StatementsInv

----------------------------------------------------------------------------
(* The record and the recording *)

\* What the record says, what was said, and who said it, may change under the statement.
LEMMA SpeechKeeps ==
    ASSUME StatementsInv, UNCHANGED <<report, block, catalogue, pages, typed>>,
           facts' \in PersonFacts, spoken' \in Spoken, attributed' \in BOOLEAN
    PROVE  StatementsInv'
BY DEF StatementsInv, StatementsTyping, WrittenOver, FormsShow, AnswersNumbered, OverridesStand

LEMMA SpeechStepsKeep ==
    ASSUME StatementsInv, SpeechSteps \/ (\E f \in Fields : \E v \in Values : CorrectRegistry(f, v))
    PROVE  StatementsInv'
<1>1. /\ facts \in PersonFacts /\ spoken \in Spoken /\ attributed \in BOOLEAN
  BY DEF StatementsInv, StatementsTyping
<1>2. ASSUME NEW v \in Values, Reprocess(v) PROVE StatementsInv'
  <2>1. spoken' \in Spoken
    BY <1>1, <1>2, StatementsAssumption DEF Reprocess, Spoken
  <2>2. QED
    BY <1>1, <2>1, <1>2, SpeechKeeps DEF Reprocess
<1>3. ASSUME NEW v \in Values, CorrectSpeech(v) PROVE StatementsInv'
  <2>1. spoken.revision + 1 \in 0..MaxSpoken
    BY <1>1, <1>3, StatementsAssumption DEF CorrectSpeech, Spoken
  <2>2. \A i \in 0..MaxSpoken : [spoken EXCEPT !.revision = i, !.text = v, !.reviewed = FALSE] \in Spoken
    BY <1>1 DEF Spoken
  <2>3. QED
    BY <1>1, <2>1, <2>2, <1>3, SpeechKeeps DEF CorrectSpeech
<1>4. \A r \in BOOLEAN : [spoken EXCEPT !.reviewed = r] \in Spoken
  BY <1>1 DEF Spoken
<1>5. ASSUME ReviewSpeech PROVE StatementsInv'
  BY <1>1, <1>4, <1>5, SpeechKeeps DEF ReviewSpeech
<1>6. ASSUME Identify PROVE StatementsInv'
  BY <1>1, <1>4, <1>6, SpeechKeeps DEF Identify
<1>7. ASSUME NEW f \in Fields, NEW v \in Values, CorrectRegistry(f, v) PROVE StatementsInv'
  <2>1. facts' \in PersonFacts
    BY <1>1, <1>7 DEF CorrectRegistry, PersonFacts
  <2>2. QED
    BY <1>1, <2>1, <1>7, SpeechKeeps DEF CorrectRegistry
<1>8. QED
  BY <1>2, <1>3, <1>5, <1>6, <1>7 DEF SpeechSteps

\* A statement after a correction of the record.
LEMMA RefreshedBlock ==
    ASSUME NEW b \in Statement, NEW now \in PersonFacts
    PROVE  /\ Refreshed(b, now) \in Statement
           /\ Refreshed(b, now).imported = now /\ Refreshed(b, now).entries = b.entries
           /\ \A f \in Fields : Refreshed(b, now).values[f] =
                                  IF b.values[f] = b.imported[f] THEN now[f] ELSE b.values[f]
BY DEF Refreshed, Statement, PersonFacts

\* The revision moves: whatever forms are open show an older one.
LEMMA FormsFallBehind ==
    ASSUME StatementsInv, report'.revision = report.revision + 1, pages' = pages
    PROVE  FormsShow'
<1>1. \A o \in Operators : \A form \in pages[o] : form.revision \in Nat /\ form.revision <= report.revision
  BY DEF StatementsInv, StatementsTyping, Form, FormsShow
<1>2. report.revision \in Nat
  BY DEF StatementsInv, StatementsTyping, ReportRow
<1>3. QED
  BY <1>1, <1>2 DEF FormsShow

LEMMA RevisionMoves ==
    ASSUME StatementsInv, MayChange
    PROVE  /\ report.revision + 1 \in 0..MaxDraft /\ report.revision \in Nat
           /\ [report EXCEPT !.revision = @ + 1] \in ReportRow
           /\ [report EXCEPT !.revision = @ + 1].revision = report.revision + 1
<1>1. report \in ReportRow
  BY DEF StatementsInv, StatementsTyping
<1>2. report.revision + 1 \in 0..MaxDraft /\ report.revision \in Nat
  BY <1>1, StatementsAssumption DEF MayChange, ReportRow
<1>3. \A i \in 0..MaxDraft : /\ [report EXCEPT !.revision = i] \in ReportRow
                             /\ [report EXCEPT !.revision = i].revision = i
  BY <1>1 DEF ReportRow
<1>4. QED
  BY <1>2, <1>3

\* The numbers of the answers stay below the revision that moves on.
LEMMA AnswersStay ==
    ASSUME StatementsInv, catalogue' = catalogue, report'.revision \in {report.revision, report.revision + 1},
           \A c \in block' : \E b \in block : c.entries = b.entries
    PROVE  AnswersNumbered'
<1>1. report.revision \in Nat /\ catalogue.id \in Nat
  BY DEF StatementsInv, StatementsTyping, ReportRow, Sources
<1>2. \A b \in block : \A e \in b.entries : e.id \in Nat /\ e.id <= report.revision
  BY DEF StatementsInv, StatementsTyping, AnswersNumbered, Statement, Quotes
<1>3. QED
  BY <1>1, <1>2 DEF StatementsInv, AnswersNumbered

LEMMA EditParticipantKeeps ==
    ASSUME StatementsInv, NEW now \in PersonFacts, EditParticipant(now)
    PROVE  StatementsInv'
<1> DEFINE refreshed == IF report.reviewed THEN {} ELSE {Refreshed(b, now) : b \in block}
           changes == \E r \in refreshed : \E b \in block : r.values # b.values
<1>1. /\ facts' = now /\ MayChange
      /\ block' = IF changes THEN refreshed ELSE block
      /\ report' = IF changes THEN [report EXCEPT !.revision = @ + 1] ELSE report
      /\ typed' = IF changes THEN Agreed(now) ELSE typed
      /\ UNCHANGED <<spoken, attributed, catalogue, pages>>
  BY DEF EditParticipant
<1>2. CASE ~changes
  BY <1>1, <1>2, SpeechKeeps DEF StatementsInv, StatementsTyping
<1>3. CASE changes
  <2>1. PICK b \in block : block = {b}
    BY <1>3 DEF StatementsInv, StatementsTyping
  <2>2. /\ block' = {Refreshed(b, now)} /\ b \in Statement
        /\ report' = [report EXCEPT !.revision = @ + 1] /\ typed' = [f \in Fields |-> typed[f] \ {now[f]}]
    BY <1>1, <1>3, <2>1 DEF StatementsInv, StatementsTyping, Agreed
  <2>3. /\ Refreshed(b, now) \in Statement
        /\ Refreshed(b, now).imported = now /\ Refreshed(b, now).entries = b.entries
        /\ \A f \in Fields : Refreshed(b, now).values[f] =
                                  IF b.values[f] = b.imported[f] THEN now[f] ELSE b.values[f]
    BY <2>2, RefreshedBlock
  <2>4. typed' \in [Fields -> SUBSET Values]
    BY <2>2 DEF StatementsInv, StatementsTyping
  <2>5. report' \in ReportRow /\ report'.revision = report.revision + 1
    BY <1>1, <2>2, RevisionMoves
  <2>6. StatementsTyping'
    BY <1>1, <2>2, <2>3, <2>4, <2>5 DEF StatementsInv, StatementsTyping
  <2>7. FormsShow'
    BY <1>1, <2>5, FormsFallBehind
  <2>8. AnswersNumbered'
    BY <1>1, <2>2, <2>3, <2>5, AnswersStay
  <2>9. WrittenOver'
    BY <2>2, <2>3 DEF WrittenOver
  <2>10. OverridesStand'
    <3> SUFFICES ASSUME NEW f \in Fields, typed'[f] # {}
                 PROVE  typed'[f] = {Refreshed(b, now).values[f]}
      BY <2>2 DEF OverridesStand
    <3>1. typed'[f] = typed[f] \ {now[f]}
      BY <2>2
    <3>2. typed[f] = {b.values[f]}
      BY <2>1, <3>1 DEF StatementsInv, OverridesStand
    <3>3. b.imported[f] # b.values[f]
      BY <2>1, <3>2 DEF StatementsInv, WrittenOver
    <3>4. QED
      BY <3>1, <3>2, <3>3, <2>3
  <2>11. QED
    BY <2>6, <2>7, <2>8, <2>9, <2>10 DEF StatementsInv
<1>4. QED
  BY <1>2, <1>3

----------------------------------------------------------------------------
(* The report *)

\* One page changes, and shows what it should.
LEMMA PageChanges ==
    ASSUME StatementsInv, UNCHANGED <<facts, spoken, attributed, report, block, catalogue, typed>>,
           NEW o \in Operators, NEW form \in Form, pages' = [pages EXCEPT ![o] = {form}],
           form.revision <= report.revision,
           form.revision = report.revision /\ form.filled /\ ~form.fresh =>
              /\ block # {}
              /\ \A b \in block : \A f \in Fields \ form.touched : form.values[f] = b.values[f]
    PROVE  StatementsInv'
<1>1. pages' \in [Operators -> SUBSET Form] /\ \A q \in Operators : pages'[q] = IF q = o THEN {form} ELSE pages[q]
  BY DEF StatementsInv, StatementsTyping
<1>2. StatementsTyping'
  BY <1>1 DEF StatementsInv, StatementsTyping
<1>3. FormsShow'
  BY <1>1 DEF StatementsInv, FormsShow
<1>4. QED
  BY <1>2, <1>3 DEF StatementsInv, WrittenOver, AnswersNumbered, OverridesStand

LEMMA OpenReportKeeps ==
    ASSUME StatementsInv, NEW o \in Operators, OpenReport(o)
    PROVE  StatementsInv'
<1> DEFINE form == [revision |-> report.revision, filled |-> block # {}, fresh |-> FALSE,
                    values |-> IF block = {} THEN facts ELSE (CHOOSE b \in block : TRUE).values,
                    touched |-> {}, sources |-> UNION {{e.id : e \in b.entries} : b \in block}]
           values == IF block = {} THEN facts ELSE (CHOOSE b \in block : TRUE).values
           sources == UNION {{e.id : e \in b.entries} : b \in block}
<1>1. values \in PersonFacts /\ \A b \in block : values = b.values
  BY DEF StatementsInv, StatementsTyping, Statement
<1>2. sources \in SUBSET (0..MaxDraft)
  BY DEF StatementsInv, StatementsTyping, Statement, Quotes
<1>3. form = [revision |-> report.revision, filled |-> block # {}, fresh |-> FALSE, values |-> values,
              touched |-> {}, sources |-> sources]
  OBVIOUS
<1>4. pages' = [pages EXCEPT ![o] = {form}] /\ UNCHANGED <<facts, spoken, attributed, report, block, catalogue, typed>>
  BY DEF OpenReport
<1>5. report.revision \in 0..MaxDraft /\ report.revision <= report.revision
  BY DEF StatementsInv, StatementsTyping, ReportRow
<1> HIDE DEF form, values, sources
<1>6. /\ form \in Form /\ form.revision = report.revision /\ (form.filled => block # {})
      /\ form.values = values
  BY <1>1, <1>2, <1>3, <1>5 DEF Form
<1>7. QED
  BY <1>1, <1>4, <1>5, <1>6, PageChanges

LEMMA TypeValueKeeps ==
    ASSUME StatementsInv, NEW o \in Operators, NEW f \in Fields, NEW v \in Values, TypeValue(o, f, v)
    PROVE  StatementsInv'
<1>1. PICK form \in pages[o] : /\ form.filled
                               /\ pages' = [pages EXCEPT ![o] = {[form EXCEPT !.values[f] = v, !.touched = @ \cup {f}]}]
  BY DEF TypeValue
<1> DEFINE new == [form EXCEPT !.values[f] = v, !.touched = @ \cup {f}]
<1>2. form \in Form /\ form.values \in PersonFacts /\ form.touched \in SUBSET Fields
  BY DEF StatementsInv, StatementsTyping, Form
<1>3. [form.values EXCEPT ![f] = v] \in PersonFacts /\ form.touched \cup {f} \in SUBSET Fields
  BY <1>2 DEF PersonFacts
<1>4. \A x \in PersonFacts : \A t \in SUBSET Fields :
        /\ [form EXCEPT !.values = x, !.touched = t] \in Form
        /\ [form EXCEPT !.values = x, !.touched = t].values = x
        /\ [form EXCEPT !.values = x, !.touched = t].touched = t
        /\ [form EXCEPT !.values = x, !.touched = t].revision = form.revision
        /\ [form EXCEPT !.values = x, !.touched = t].filled = form.filled
        /\ [form EXCEPT !.values = x, !.touched = t].fresh = form.fresh
  BY <1>2 DEF Form
<1>5. new = [form EXCEPT !.values = [form.values EXCEPT ![f] = v], !.touched = form.touched \cup {f}]
  OBVIOUS
<1> HIDE DEF new
<1>6. /\ new \in Form /\ new.values = [form.values EXCEPT ![f] = v] /\ new.touched = form.touched \cup {f}
      /\ new.revision = form.revision /\ new.filled = form.filled /\ new.fresh = form.fresh
  BY <1>3, <1>4, <1>5
<1>7. \A g \in Fields \ new.touched : g \in Fields \ form.touched /\ new.values[g] = form.values[g]
  BY <1>2, <1>6 DEF PersonFacts
<1>8. /\ form.revision <= report.revision
      /\ form.revision = report.revision /\ form.filled /\ ~form.fresh =>
              /\ block # {}
              /\ \A b \in block : \A g \in Fields \ form.touched : form.values[g] = b.values[g]
  BY DEF StatementsInv, FormsShow
<1>9. pages' = [pages EXCEPT ![o] = {new}] /\ UNCHANGED <<facts, spoken, attributed, report, block, catalogue, typed>>
  BY <1>1 DEF TypeValue, new
<1>10. new.revision <= report.revision
  BY <1>6, <1>8
<1>11. ASSUME new.revision = report.revision /\ new.filled /\ ~new.fresh
       PROVE  /\ block # {}
              /\ \A b \in block : \A g \in Fields \ new.touched : new.values[g] = b.values[g]
  <2>1. form.revision = report.revision /\ form.filled /\ ~form.fresh
    BY <1>6, <1>11
  <2>2. QED
    BY <1>7, <1>8, <2>1
<1>12. QED
  BY <1>6, <1>9, <1>10, <1>11, PageChanges

LEMMA AddRemoveKeeps ==
    ASSUME StatementsInv, NEW o \in Operators, AddStatement(o) \/ RemoveStatement(o)
    PROVE  StatementsInv'
<1>1. UNCHANGED <<facts, spoken, attributed, report, block, catalogue, typed>>
  BY DEF AddStatement, RemoveStatement
<1>2. facts \in PersonFacts /\ catalogue.id \in 0..MaxDraft
  BY DEF StatementsInv, StatementsTyping, Sources
<1>3. \A form \in pages[o] : form \in Form /\ form.revision <= report.revision
  BY DEF StatementsInv, StatementsTyping, FormsShow
<1>4. CASE AddStatement(o)
  <2> DEFINE s == IF attributed THEN {catalogue.id} ELSE {}
  <2>1. PICK form \in pages[o] : pages' = [pages EXCEPT ![o] = {
                [form EXCEPT !.filled = TRUE, !.fresh = TRUE, !.values = facts, !.touched = {}, !.sources = s]}]
    BY <1>4 DEF AddStatement
  <2>2. s \in SUBSET (0..MaxDraft)
    BY <1>2
  <2> HIDE DEF s
  <2> DEFINE new == [form EXCEPT !.filled = TRUE, !.fresh = TRUE, !.values = facts, !.touched = {}, !.sources = s]
  <2>3. new \in Form /\ new.revision = form.revision /\ new.fresh
    BY <1>2, <1>3, <2>2 DEF Form
  <2>4. pages' = [pages EXCEPT ![o] = {new}]
    BY <2>1
  <2> HIDE DEF new
  <2>5. QED
    BY <1>1, <1>3, <2>3, <2>4, PageChanges
<1>5. CASE RemoveStatement(o)
  <2>1. PICK form \in pages[o] : pages' = [pages EXCEPT ![o] =
                {[form EXCEPT !.filled = FALSE, !.touched = {}, !.sources = {}]}]
    BY <1>5 DEF RemoveStatement
  <2> DEFINE new == [form EXCEPT !.filled = FALSE, !.touched = {}, !.sources = {}]
  <2>2. new \in Form /\ new.revision = form.revision /\ ~new.filled
    BY <1>3 DEF Form
  <2>3. pages' = [pages EXCEPT ![o] = {new}]
    BY <2>1
  <2> HIDE DEF new
  <2>4. QED
    BY <1>1, <1>3, <2>2, <2>3, PageChanges
<1>6. QED
  BY <1>4, <1>5

\* What a save quotes stands in the statement, or is the dialogue's answer, importable now.
LEMMA QuotedEntries ==
    ASSUME StatementsInv, NEW form \in Form, CanQuote(form)
    PROVE  /\ Quoted(form) \in SUBSET Quotes
           /\ \A e \in Quoted(form) : \/ \E b \in block : e \in b.entries
                                      \/ Importable /\ e = [id |-> catalogue.id, text |-> catalogue.text]
<1> DEFINE kept == IF form.fresh THEN {} ELSE block
           prior == UNION {{e \in b.entries : e.id \in form.sources} : b \in kept}
           new == form.sources \ UNION {{e.id : e \in b.entries} : b \in kept}
<1>1. Quoted(form) = prior \cup {[id |-> catalogue.id, text |-> catalogue.text] : i \in form.sources \ {e.id : e \in prior}}
  BY DEF Quoted
<1>2. form.sources \ {e.id : e \in prior} = new
  OBVIOUS
<1>3. new # {} => Importable
  BY DEF CanQuote
<1>4. prior \in SUBSET Quotes /\ [id |-> catalogue.id, text |-> catalogue.text] \in Quotes
  BY DEF StatementsInv, StatementsTyping, Statement, Quotes, Sources
<1>5. \A e \in prior : \E b \in block : e \in b.entries
  OBVIOUS
<1> HIDE DEF prior, new, kept
<1>6. Quoted(form) \in SUBSET Quotes
  BY <1>1, <1>4
<1>7. ASSUME NEW e \in Quoted(form), e \notin prior
      PROVE  Importable /\ e = [id |-> catalogue.id, text |-> catalogue.text]
  BY <1>1, <1>2, <1>3, <1>7
<1>8. QED
  BY <1>5, <1>6, <1>7

\* An answer of the statement carries the number and the words it is known by.
LEMMA AnswersKnown ==
    ASSUME StatementsInv, NEW b \in block
    PROVE  \A e \in b.entries :
              /\ e \in Quotes /\ e.id <= report.revision
              /\ e.id = catalogue.id => e = [id |-> catalogue.id, text |-> catalogue.text]
              /\ \A c \in block : \A g \in c.entries : e.id = g.id => e = g
<1>1. b \in Statement /\ \A c \in block : c = b
  BY DEF StatementsInv, StatementsTyping
<1>2. TAKE e \in b.entries
<1>3. e \in Quotes
  BY <1>1 DEF Statement
<1>4. e = [id |-> e.id, text |-> e.text]
  BY <1>3 DEF Quotes
<1>5. QED
  BY <1>1, <1>3, <1>4 DEF StatementsInv, AnswersNumbered

\* The statement a save writes.
LEMMA PreparedStatement ==
    ASSUME StatementsInv, NEW form \in Form, CanQuote(form)
    PROVE  /\ Prepared(form) \in Statement
           /\ Prepared(form).imported = facts /\ Prepared(form).entries = Quoted(form)
           /\ \A f \in Fields : (\A b \in block : form.values[f] # b.imported[f])
                                   => Prepared(form).values[f] = form.values[f]
<1> DEFINE values == IF form.fresh \/ report.reviewed THEN form.values
                     ELSE [f \in Fields |-> IF form.values[f] \in {b.imported[f] : b \in block} THEN facts[f]
                                            ELSE form.values[f]]
<1>1. values \in PersonFacts
  BY DEF StatementsInv, StatementsTyping, Form, PersonFacts
<1>2. \A f \in Fields : (\A b \in block : form.values[f] # b.imported[f]) => values[f] = form.values[f]
  OBVIOUS
<1>3. Prepared(form) = [values |-> values, imported |-> facts, entries |-> Quoted(form)]
  BY DEF Prepared
<1>4. facts \in PersonFacts /\ Quoted(form) \in SUBSET Quotes
  BY QuotedEntries DEF StatementsInv, StatementsTyping
<1> HIDE DEF values
<1>5. QED
  BY <1>1, <1>2, <1>3, <1>4 DEF Statement

\* What stands written over after a save is what the statement now says.
LEMMA WrittenStands ==
    ASSUME StatementsInv, NEW o \in Operators, NEW form \in pages[o], form.revision = report.revision,
           form.filled, CanQuote(form)
    PROVE  /\ Written(form, Prepared(form)) \in [Fields -> SUBSET Values]
           /\ \A f \in Fields : /\ facts[f] \notin Written(form, Prepared(form))[f]
                                /\ Written(form, Prepared(form))[f] # {}
                                      => Written(form, Prepared(form))[f] = {Prepared(form).values[f]}
<1> DEFINE values == Prepared(form).values
           written == Written(form, Prepared(form))
<1>1. form \in Form /\ typed \in [Fields -> SUBSET Values] /\ form.values \in PersonFacts
  BY DEF StatementsInv, StatementsTyping, Form
<1>2. \A f \in Fields : (\A b \in block : form.values[f] # b.imported[f]) => values[f] = form.values[f]
  BY <1>1, PreparedStatement
<1>3. written = [f \in Fields |->
        (IF f \in form.touched THEN {form.values[f]} \cap {values[f]}
         ELSE IF form.fresh THEN {} ELSE typed[f]) \ {facts[f]}]
  BY DEF Written
<1> HIDE DEF values, written
<1>4. \A f \in Fields : written[f] =
        (IF f \in form.touched THEN {form.values[f]} \cap {values[f]}
         ELSE IF form.fresh THEN {} ELSE typed[f]) \ {facts[f]}
  BY <1>3
<1>5. written \in [Fields -> SUBSET Values]
  BY <1>1, <1>3 DEF PersonFacts
<1>6. ASSUME NEW f \in Fields, written[f] # {} PROVE written[f] = {values[f]}
  <2>1. CASE f \in form.touched
    BY <1>4, <1>6, <2>1
  <2>2. CASE f \notin form.touched
    <3>1. ~form.fresh /\ typed[f] # {} /\ written[f] = typed[f] \ {facts[f]}
      BY <1>4, <1>6, <2>2
    <3>2. \A b \in block : form.values[f] = b.values[f]
      BY <2>2, <3>1 DEF StatementsInv, FormsShow
    <3>3. PICK b \in block : typed[f] = {b.values[f]}
      BY <3>1 DEF StatementsInv, OverridesStand
    <3>4. typed[f] = {form.values[f]}
      BY <3>2, <3>3
    <3>5. \A c \in block : form.values[f] # c.imported[f]
      BY <3>4 DEF StatementsInv, WrittenOver
    <3>6. values[f] = form.values[f]
      BY <1>2, <3>5
    <3>7. QED
      BY <1>6, <3>1, <3>4, <3>6
  <2>3. QED
    BY <2>1, <2>2
<1>7. \A f \in Fields : facts[f] \notin written[f]
  BY <1>4
<1>8. QED
  BY <1>5, <1>6, <1>7 DEF written, values

LEMMA SaveKeeps ==
    ASSUME StatementsInv, NEW o \in Operators, Save(o)
    PROVE  /\ StatementsInv'
           /\ \A c \in block' : \A e \in c.entries :
                \/ \E b \in block : e \in b.entries
                \/ Importable /\ e = [id |-> catalogue.id, text |-> catalogue.text]
<1>1. PICK form \in pages[o] :
          /\ form.revision = report.revision
          /\ CanQuote(form)
          /\ block' = IF form.filled THEN {Prepared(form)} ELSE {}
          /\ typed' = IF form.filled THEN Written(form, Prepared(form)) ELSE [f \in Fields |-> {}]
  BY DEF Save
<1>2. /\ MayChange /\ report' = [report EXCEPT !.revision = @ + 1]
      /\ pages' = [pages EXCEPT ![o] = {}]
      /\ facts' = facts /\ spoken' = spoken /\ attributed' = attributed /\ catalogue' = catalogue
  BY DEF Save
<1>3. form \in Form /\ facts \in PersonFacts
  BY DEF StatementsInv, StatementsTyping
<1>4. /\ Prepared(form) \in Statement
      /\ Prepared(form).imported = facts /\ Prepared(form).entries = Quoted(form)
  BY <1>1, <1>3, PreparedStatement
<1>5. block' = {} \/ (form.filled /\ block' = {Prepared(form)})
  BY <1>1
<1>6. /\ typed' \in [Fields -> SUBSET Values]
      /\ \A f \in Fields : \A b \in block' : facts[f] \notin typed'[f]
      /\ \A f \in Fields : typed'[f] # {} => form.filled /\ typed'[f] = {Prepared(form).values[f]}
  <2>1. CASE form.filled
    BY <1>1, <2>1, WrittenStands
  <2>2. CASE ~form.filled
    BY <1>1, <2>2
  <2>3. QED
    BY <2>1, <2>2
<1>7. report' \in ReportRow /\ report'.revision = report.revision + 1 /\ report.revision \in Nat
  BY <1>2, RevisionMoves
<1>8. block' \in SUBSET Statement /\ \A b, c \in block' : b = c
  BY <1>4, <1>5
<1>9. pages' \in [Operators -> SUBSET Form] /\ \A q \in Operators : pages'[q] \subseteq pages[q]
  BY <1>2 DEF StatementsInv, StatementsTyping
<1>10. StatementsTyping'
  BY <1>2, <1>6, <1>7, <1>8, <1>9 DEF StatementsInv, StatementsTyping
<1>11. WrittenOver'
  BY <1>4, <1>5, <1>6 DEF WrittenOver
<1>12. OverridesStand'
  BY <1>1, <1>6 DEF OverridesStand
<1>13. FormsShow'
  <2>1. \A q \in Operators : \A g \in pages[q] : g.revision \in Nat /\ g.revision <= report.revision
    BY DEF StatementsInv, StatementsTyping, Form, FormsShow
  <2>2. QED
    BY <1>7, <1>9, <2>1 DEF FormsShow
<1>14. \A c \in block' : \A e \in c.entries :
                \/ \E b \in block : e \in b.entries
                \/ Importable /\ e = [id |-> catalogue.id, text |-> catalogue.text]
  BY <1>1, <1>3, <1>4, <1>5, QuotedEntries
<1>15. AnswersNumbered'
  <2>1. catalogue.id \in Nat /\ catalogue.id <= report.revision
    BY DEF StatementsInv, StatementsTyping, Sources, AnswersNumbered
  <2> DEFINE answer == [id |-> catalogue.id, text |-> catalogue.text]
  <2>2. answer.id = catalogue.id /\ answer.text = catalogue.text
    OBVIOUS
  <2>3. \A c \in block' : \A e \in c.entries : e = answer \/ \E b \in block : e \in b.entries
    BY <1>14
  <2> HIDE DEF answer
  <2>4. \A b \in block : \A e \in b.entries :
              /\ e.id \in Nat /\ e.id <= report.revision
              /\ e.id = catalogue.id => e = answer
              /\ \A c \in block : \A g \in c.entries : e.id = g.id => e = g
    BY AnswersKnown DEF Quotes, answer
  <2>5. \A c \in block' : \A e \in c.entries :
              e.id \in Nat /\ e.id <= report.revision /\ (e.id = catalogue.id => e.text = catalogue.text)
    BY <2>1, <2>2, <2>3, <2>4
  <2>6. \A b, c \in block' : b = c
    BY <1>8
  <2>7. ASSUME NEW c \in block', NEW e \in c.entries, NEW g \in c.entries, e.id = g.id PROVE e = g
    BY <2>2, <2>3, <2>4, <2>7
  <2>8. QED
    BY <1>2, <1>7, <2>1, <2>5, <2>7 DEF AnswersNumbered
<1>16. QED
  BY <1>10, <1>11, <1>12, <1>13, <1>14, <1>15 DEF StatementsInv

LEMMA ReviewKeeps ==
    ASSUME StatementsInv, ReviewReport
    PROVE  StatementsInv'
<1>1. report \in ReportRow
  BY DEF StatementsInv, StatementsTyping
<1>2. report' \in ReportRow /\ report'.revision = report.revision
  BY <1>1 DEF ReviewReport, ReportRow
<1>3. QED
  BY <1>2 DEF ReviewReport, StatementsInv, StatementsTyping, WrittenOver, FormsShow, AnswersNumbered,
              OverridesStand

\* The answer of a dialogue built anew has a number no statement has seen.
LEMMA RebuildKeeps ==
    ASSUME StatementsInv, RebuildDialogue
    PROVE  StatementsInv'
<1>1. /\ report' = [revision |-> report.revision + 1, reviewed |-> FALSE]
      /\ catalogue' = [id |-> report.revision + 1, transcript |-> spoken.transcript, text |-> spoken.text]
      /\ UNCHANGED <<facts, spoken, attributed, block, pages, typed>> /\ MayChange
  BY DEF RebuildDialogue
<1>2. report.revision + 1 \in 0..MaxDraft /\ report.revision \in Nat
  BY <1>1, RevisionMoves
<1>3. report' \in ReportRow /\ report'.revision = report.revision + 1
  BY <1>1, <1>2 DEF ReportRow
<1>4. catalogue' \in Sources /\ catalogue'.id = report.revision + 1
  BY <1>1, <1>2 DEF StatementsInv, StatementsTyping, Spoken, Sources
<1>5. FormsShow'
  BY <1>1, <1>3, FormsFallBehind
<1>6. \A b \in block : \A e \in b.entries :
          e.id \in Nat /\ e.id <= report.revision /\ \A g \in b.entries : e.id = g.id => e = g
  BY AnswersKnown DEF Quotes
<1>7. AnswersNumbered'
  BY <1>1, <1>2, <1>3, <1>4, <1>6 DEF AnswersNumbered
<1>8. QED
  BY <1>1, <1>3, <1>4, <1>5, <1>7 DEF StatementsInv, StatementsTyping, WrittenOver, OverridesStand

\* The invariant is kept by every step, and a step of anybody but a save brings no answer in.
LEMMA StatementsStep ==
    ASSUME StatementsInv, [StatementsNext]_statementVars
    PROVE  /\ StatementsInv'
           /\ \A c \in block' : \A e \in c.entries :
                \/ \E b \in block : e \in b.entries
                \/ Importable /\ e = [id |-> catalogue.id, text |-> catalogue.text]
<1> DEFINE Old == \A c \in block' : \A e \in c.entries : \E b \in block : e \in b.entries
<1>1. block' = block => Old
  OBVIOUS
<1>2. CASE UNCHANGED statementVars
  BY <1>1, <1>2 DEF statementVars, StatementsInv, StatementsTyping, WrittenOver, FormsShow, AnswersNumbered,
              OverridesStand
<1>3. ASSUME NEW now \in PersonFacts, EditParticipant(now) PROVE StatementsInv' /\ Old
  <2>1. Old
    <3>1. block' = block \/ block' = {Refreshed(b, now) : b \in block}
      BY <1>3 DEF EditParticipant
    <3>2. \A b \in block : Refreshed(b, now).entries = b.entries
      BY RefreshedBlock DEF StatementsInv, StatementsTyping
    <3>3. QED
      BY <1>1, <3>1, <3>2
  <2>2. QED
    BY <1>3, <2>1, EditParticipantKeeps
<1>4. ASSUME SpeechSteps \/ (\E f \in Fields : \E v \in Values : CorrectRegistry(f, v)) PROVE StatementsInv' /\ Old
  <2>1. block' = block
    BY <1>4 DEF SpeechSteps, Reprocess, CorrectSpeech, ReviewSpeech, Identify, CorrectRegistry
  <2>2. QED
    BY <1>1, <1>4, <2>1, SpeechStepsKeep
<1>5. ASSUME NEW o \in Operators, NEW f \in Fields, NEW v \in Values, TypeValue(o, f, v) PROVE StatementsInv' /\ Old
  <2>1. block' = block
    BY <1>5 DEF TypeValue
  <2>2. QED
    BY <1>1, <1>5, <2>1, TypeValueKeeps
<1>6. ASSUME ReviewReport \/ RebuildDialogue PROVE StatementsInv' /\ Old
  <2>1. block' = block
    BY <1>6 DEF ReviewReport, RebuildDialogue
  <2>2. QED
    BY <1>1, <1>6, <2>1, ReviewKeeps, RebuildKeeps
<1>7. ASSUME NEW o \in Operators, OpenReport(o) \/ AddStatement(o) \/ RemoveStatement(o) PROVE StatementsInv' /\ Old
  <2>1. block' = block
    BY <1>7 DEF OpenReport, AddStatement, RemoveStatement
  <2>2. QED
    BY <1>1, <1>7, <2>1, OpenReportKeeps, AddRemoveKeeps
<1> HIDE DEF Old
<1>8. ASSUME NEW o \in Operators, Save(o)
      PROVE  /\ StatementsInv'
             /\ \A c \in block' : \A e \in c.entries :
                  \/ \E b \in block : e \in b.entries
                  \/ Importable /\ e = [id |-> catalogue.id, text |-> catalogue.text]
  BY <1>8, SaveKeeps
<1>9. CASE \E o \in Operators : Save(o)
  BY <1>8, <1>9
<1>10. CASE FactSteps \/ SpeechSteps \/ (DraftSteps /\ ~\E o \in Operators : Save(o))
  <2>1. StatementsInv' /\ Old
    BY <1>3, <1>4, <1>5, <1>6, <1>7, <1>10 DEF FactSteps, DraftSteps
  <2>2. QED
    BY <2>1 DEF Old
<1>11. QED
  BY <1>2, <1>9, <1>10 DEF StatementsNext

LEMMA StatementsInvariance == StatementsSpec => []StatementsInv
<1>1. StatementsInv /\ [StatementsNext]_statementVars => StatementsInv'
  BY StatementsStep
<1>2. QED
  BY <1>1, StatementsInitInv, PTL DEF StatementsSpec

\* What an operator wrote over a fact stands until an operator changes it or the record comes to
\* say the same, and an answer enters a statement only in the words of the newest transcript under
\* a review that is still good, and keeps them: report_workflow.py's save, refresh_person_facts and
\* require_current_sources, for any operators, facts, values and bounds.
THEOREM StatementsStand == StatementsSpec => StatementsHold
<1>1. ASSUME StatementsInv, [StatementsNext]_statementVars
      PROVE  /\ \A b \in block' : \A e \in b.entries :
                  (\A c \in block : e \notin c.entries) => spoken.reviewed /\ e.text = spoken.text
             /\ \A b \in block, c \in block' : \A e \in b.entries, g \in c.entries :
                  e.id = g.id => e = g
  <2>1. \A c \in block' : \A e \in c.entries :
                \/ \E b \in block : e \in b.entries
                \/ Importable /\ e = [id |-> catalogue.id, text |-> catalogue.text]
    BY <1>1, StatementsStep
  <2>2. Importable => spoken.reviewed /\ catalogue.text = spoken.text
    BY DEF Importable, Stale
  <2>3. \A b \in block' : \A e \in b.entries :
            (\A c \in block : e \notin c.entries) => spoken.reviewed /\ e.text = spoken.text
    BY <2>1, <2>2
  <2>4. \A b \in block : \A e \in b.entries :
              /\ e.id = catalogue.id => e = [id |-> catalogue.id, text |-> catalogue.text]
              /\ \A c \in block : \A g \in c.entries : e.id = g.id => e = g
    BY <1>1, AnswersKnown
  <2>5. \A b \in block, c \in block' : \A e \in b.entries, g \in c.entries : e.id = g.id => e = g
    BY <2>1, <2>4
  <2>6. QED
    BY <2>3, <2>5
<1>2. StatementsInv => OverridesStand
  BY DEF StatementsInv
<1>3. StatementsInv /\ [StatementsNext]_statementVars =>
        [/\ \A b \in block' : \A e \in b.entries :
              (\A c \in block : e \notin c.entries) => spoken.reviewed /\ e.text = spoken.text
         /\ \A b \in block, c \in block' : \A e \in b.entries, g \in c.entries :
              e.id = g.id => e = g]_statementVars
  BY <1>1
<1>4. StatementsSpec => QuotedAsReviewed
  BY <1>3, StatementsInvariance, PTL DEF StatementsSpec, QuotedAsReviewed
<1>5. StatementsSpec => []OverridesStand
  BY <1>2, StatementsInvariance, PTL
<1>6. QED
  BY <1>4, <1>5, PTL DEF StatementsHold

\* The type invariant of the statements.
LEMMA StatementsTyped == StatementsSpec => []StatementsTypeOK
<1> DEFINE Single == \A o \in Operators : \A f, g \in pages[o] : f = g
<1>1. StatementsInit => Single
  BY DEF StatementsInit
<1>2. StatementsInv /\ Single /\ [StatementsNext]_statementVars => Single'
  <2> SUFFICES ASSUME pages \in [Operators -> SUBSET Form], Single, [StatementsNext]_statementVars PROVE Single'
    BY DEF StatementsInv, StatementsTyping
  <2>1. ASSUME NEW o \in Operators, NEW now, pages' = [pages EXCEPT ![o] = now], \A f, g \in now : f = g
        PROVE  Single'
    BY <2>1
  <2>2. CASE pages' = pages
    BY <2>2
  <2>3. ASSUME NEW o \in Operators, OpenReport(o) PROVE Single'
    <3>1. PICK form : pages' = [pages EXCEPT ![o] = {form}]
      BY <2>3 DEF OpenReport
    <3>2. QED
      BY <2>1, <3>1
  <2>4. ASSUME NEW o \in Operators, NEW f \in Fields, NEW v \in Values, TypeValue(o, f, v) PROVE Single'
    <3>1. PICK form : pages' = [pages EXCEPT ![o] = {form}]
      BY <2>4 DEF TypeValue
    <3>2. QED
      BY <2>1, <3>1
  <2>5. ASSUME NEW o \in Operators, AddStatement(o) \/ RemoveStatement(o) PROVE Single'
    <3>1. PICK form : pages' = [pages EXCEPT ![o] = {form}]
      BY <2>5 DEF AddStatement, RemoveStatement
    <3>2. QED
      BY <2>1, <3>1
  <2>6. ASSUME NEW o \in Operators, Save(o) PROVE Single'
    BY <2>1, <2>6 DEF Save
  <2>7. CASE FactSteps \/ SpeechSteps
    BY <2>2, <2>4, <2>7 DEF FactSteps, SpeechSteps, EditParticipant, CorrectRegistry, Reprocess, CorrectSpeech,
       ReviewSpeech, Identify
  <2>8. CASE DraftSteps
    BY <2>2, <2>3, <2>5, <2>6, <2>8 DEF DraftSteps, ReviewReport, RebuildDialogue
  <2>9. QED
    BY <2>2, <2>7, <2>8 DEF StatementsNext, statementVars
<1>3. StatementsInv /\ Single => StatementsTypeOK
  BY DEF StatementsInv, StatementsTyping, StatementsTypeOK, ReportRow
<1> HIDE DEF Single
<1>4. QED
  BY <1>1, <1>2, <1>3, StatementsInvariance, PTL DEF StatementsSpec

-----------------------------------------------------------------------------
(* The persons of a record *)

\* What holds of 0 and passes from each number to the next holds of all numbers: the first
\* one of which it does not would have a predecessor.
LEMMA CountingUp ==
    ASSUME NEW k \in Nat, NEW Good, 0 \in Good, \A n \in 1..k : n - 1 \in Good => n \in Good
    PROVE  \A n \in 0..k : n \in Good
<1> DEFINE Less == {ss \in Nat \X Nat : ss[1] < ss[2]}
           Bad == (0..k) \ Good
<1> SUFFICES ASSUME Bad # {} PROVE FALSE
  OBVIOUS
<1>1. IsWellFoundedOn(Less, Nat)
  BY NatLessThanWellFounded DEF OpToRel
<1>2. \A j, n \in Nat : j < n => <<j, n>> \in Less
  OBVIOUS
<1>3. Bad \in SUBSET Nat
  OBVIOUS
<1> HIDE DEF Less, Bad
<1>4. PICK n \in Bad : \A j \in Bad : <<j, n>> \notin Less
  BY <1>1, <1>3, WFMin
<1>5. n \in 1..k
  BY <1>4 DEF Bad
<1>6. n - 1 \in 0..k /\ n - 1 \notin Bad
  <2>1. n \in Nat /\ n - 1 \in Nat /\ n - 1 < n /\ n - 1 \in 0..k
    BY <1>5
  <2>2. <<n - 1, n>> \in Less
    BY <1>2, <2>1
  <2>3. QED
    BY <1>4, <2>1, <2>2
<1>7. QED
  BY <1>4, <1>5, <1>6 DEF Bad

-----------------------------------------------------------------------------
(* Where aliases lead *)

OnceMore(merged, p) == IF merged[p] = Absent THEN p ELSE merged[p]

HopsUpTo(g, k, merged, p) == g = [n \in 0..k |-> IF n = 0 THEN p ELSE OnceMore(merged, g[n - 1])]

\* The walk along the aliases exists, for any number of hops.
LEMMA WalkExists ==
    ASSUME NEW merged, NEW p, NEW k \in Nat
    PROVE  \E g : HopsUpTo(g, k, merged, p)
<1> DEFINE Good == {n \in Nat : \E g : HopsUpTo(g, n, merged, p)}
<1>1. 0 \in Good
  <2> DEFINE g == [n \in 0..0 |-> p]
  <2>1. g = [n \in 0..0 |-> IF n = 0 THEN p ELSE OnceMore(merged, g[n - 1])]
    OBVIOUS
  <2>2. HopsUpTo(g, 0, merged, p)
    BY <2>1 DEF HopsUpTo
  <2>3. QED
    BY <2>2
<1>2. ASSUME NEW n \in 1..k, n - 1 \in Good
      PROVE  n \in Good
  <2>1. PICK h : HopsUpTo(h, n - 1, merged, p)
    BY <1>2
  <2> DEFINE g == [j \in 0..n |-> IF j = n THEN OnceMore(merged, h[n - 1]) ELSE h[j]]
  <2>2. \A j \in 0..(n - 1) : h[j] = IF j = 0 THEN p ELSE OnceMore(merged, h[j - 1])
    BY <2>1 DEF HopsUpTo
  <2>3. \A j \in 0..n : g[j] = IF j = 0 THEN p ELSE OnceMore(merged, g[j - 1])
    <3> SUFFICES ASSUME NEW j \in 0..n
                 PROVE  g[j] = IF j = 0 THEN p ELSE OnceMore(merged, g[j - 1])
      OBVIOUS
    <3>1. CASE j = n
      <4>1. j # 0 /\ j - 1 \in 0..n /\ j - 1 # n
        BY <3>1
      <4>2. g[j - 1] = h[j - 1]
        BY <4>1
      <4>3. QED
        BY <3>1, <4>1, <4>2
    <3>2. CASE j # n
      <4>1. j \in 0..(n - 1) /\ g[j] = h[j]
        BY <3>2
      <4>2. j # 0 => j - 1 \in 0..n /\ j - 1 # n
        BY <3>2
      <4>3. j # 0 => g[j - 1] = h[j - 1]
        BY <4>2
      <4>4. QED
        BY <2>2, <4>1, <4>3
    <3>3. QED
      BY <3>1, <3>2
  <2>4. g = [j \in 0..n |-> g[j]]
    OBVIOUS
  <2> HIDE DEF g
  <2>5. g = [j \in 0..n |-> IF j = 0 THEN p ELSE OnceMore(merged, g[j - 1])]
    BY <2>3, <2>4
  <2>6. \E f : HopsUpTo(f, n, merged, p)
    BY <2>5 DEF HopsUpTo
  <2>7. QED
    BY <2>6
<1> HIDE DEF Good
<1>3. k \in Good
  <2>1. \A n \in 0..k : n \in Good
    BY <1>1, <1>2, CountingUp
  <2>2. QED
    BY <2>1
<1>4. QED
  BY <1>3 DEF Good

\* What the walk is.
LEMMA HopByHop ==
    ASSUME NEW merged, NEW p
    PROVE  /\ Hops(merged, p)[0] = p
           /\ \A n \in 1..AliasHops : Hops(merged, p)[n] = OnceMore(merged, Hops(merged, p)[n - 1])
<1> DEFINE F(g) == g = [n \in 0..AliasHops |->
                          IF n = 0 THEN p ELSE IF merged[g[n - 1]] = Absent THEN g[n - 1] ELSE merged[g[n - 1]]]
           walk == CHOOSE g : F(g)
<1>0. AliasHops \in Nat
  BY RegistryAssumption
<1>1. Hops(merged, p) = walk
  BY DEF Hops
<1>2. \E g : F(g)
  <2>1. PICK g : HopsUpTo(g, AliasHops, merged, p)
    BY <1>0, WalkExists
  <2>2. F(g)
    BY <2>1 DEF HopsUpTo, OnceMore
  <2> HIDE DEF F
  <2>3. QED
    BY <2>2
<1>3. F(walk)
  BY <1>2
<1> HIDE DEF walk
<1>4. \A n \in 0..AliasHops : walk[n] = IF n = 0 THEN p ELSE OnceMore(merged, walk[n - 1])
  BY <1>3 DEF OnceMore
<1>5. 0 \in 0..AliasHops /\ \A n \in 1..AliasHops : n \in 0..AliasHops /\ n # 0
  BY <1>0
<1>6. QED
  BY <1>1, <1>4, <1>5

Aliases == [Humans -> Humans \cup {Absent}]

Root(merged, p) == merged[p] = Absent

\* The walk stays among the persons, and where it has come to a survivor it stays.
LEMMA WalkStays ==
    ASSUME NEW merged \in Aliases, NEW p \in Humans
    PROVE  /\ \A n \in 0..AliasHops : Hops(merged, p)[n] \in Humans
           /\ \A n, k \in 0..AliasHops : n <= k /\ Root(merged, Hops(merged, p)[n])
                                         => Hops(merged, p)[k] = Hops(merged, p)[n]
<1> DEFINE at == Hops(merged, p)
<1>0. AliasHops \in Nat
  BY RegistryAssumption
<1>1. at[0] = p /\ \A n \in 1..AliasHops : at[n] = OnceMore(merged, at[n - 1])
  BY HopByHop
<1> HIDE DEF at
<1>2. \A n \in 0..AliasHops : at[n] \in Humans
  <2> DEFINE Good == {n \in 0..AliasHops : at[n] \in Humans}
  <2>1. 0 \in Good
    BY <1>0, <1>1
  <2>2. \A n \in 1..AliasHops : n - 1 \in Good => n \in Good
    BY <1>0, <1>1 DEF OnceMore, Aliases
  <2> HIDE DEF Good
  <2>3. \A n \in 0..AliasHops : n \in Good
    BY <1>0, <2>1, <2>2, CountingUp
  <2>4. QED
    BY <2>3 DEF Good
<1>3. ASSUME NEW n \in 0..AliasHops, Root(merged, at[n])
      PROVE  \A k \in 0..AliasHops : n <= k => at[k] = at[n]
  <2> DEFINE Good == {k \in 0..AliasHops : n <= k => at[k] = at[n]}
  <2>1. 0 \in Good
    BY <1>0
  <2>2. ASSUME NEW k \in 1..AliasHops, k - 1 \in Good
        PROVE  k \in Good
    <3>1. CASE n <= k - 1
      <4>1. at[k - 1] = at[n]
        BY <2>2, <3>1
      <4>2. at[k] = at[n]
        BY <1>1, <1>3, <4>1 DEF OnceMore, Root
      <4>3. QED
        BY <4>2
    <3>2. CASE ~(n <= k - 1)
      <4>1. n <= k => n = k
        BY <3>2
      <4>2. QED
        BY <4>1
    <3>3. QED
      BY <3>1, <3>2
  <2> HIDE DEF Good
  <2>3. \A k \in 0..AliasHops : k \in Good
    BY <1>0, <2>1, <2>2, CountingUp
  <2>4. QED
    BY <2>3 DEF Good
<1>4. QED
  BY <1>2, <1>3 DEF at

MergedOnes(merged) == {p \in Humans : merged[p] # Absent}

\* As many hops as persons have been merged lead to a survivor.
WalksEnd(merged) ==
    /\ IsFiniteSet(MergedOnes(merged)) /\ Cardinality(MergedOnes(merged)) <= AliasHops
    /\ \A p \in Humans : Root(merged, Hops(merged, p)[Cardinality(MergedOnes(merged))])

SurvivorIn(merged, p) == Hops(merged, p)[AliasHops]

LEMMA SurvivorIsRoot ==
    ASSUME NEW merged \in Aliases, WalksEnd(merged), NEW p \in Humans
    PROVE  /\ SurvivorIn(merged, p) \in Humans /\ Root(merged, SurvivorIn(merged, p))
           /\ SurvivorIn(merged, p) = Hops(merged, p)[Cardinality(MergedOnes(merged))]
<1> DEFINE k == Cardinality(MergedOnes(merged))
<1>1. AliasHops \in Nat /\ k \in Nat
  BY RegistryAssumption, FS_CardinalityType DEF WalksEnd
<1>2. k \in 0..AliasHops /\ AliasHops \in 0..AliasHops /\ k <= AliasHops
  BY <1>1 DEF WalksEnd
<1>3. Root(merged, Hops(merged, p)[k])
  BY DEF WalksEnd
<1> HIDE DEF k
<1>4. SurvivorIn(merged, p) = Hops(merged, p)[k] /\ SurvivorIn(merged, p) \in Humans
  BY <1>2, <1>3, WalkStays DEF SurvivorIn
<1>5. QED
  BY <1>3, <1>4 DEF k

\* A person who is nobody's alias is his own survivor.
LEMMA RootSurvives ==
    ASSUME NEW merged \in Aliases, NEW p \in Humans, Root(merged, p)
    PROVE  SurvivorIn(merged, p) = p
<1>1. AliasHops \in Nat
  BY RegistryAssumption
<1>2. 0 \in 0..AliasHops /\ AliasHops \in 0..AliasHops /\ 0 <= AliasHops
  BY <1>1
<1>3. Hops(merged, p)[0] = p
  BY HopByHop
<1>4. QED
  BY <1>2, <1>3, WalkStays DEF SurvivorIn

\* A merge of a into b leads to b whoever was led to a, and nobody else elsewhere.
LEMMA SurvivorsAfterMerge ==
    ASSUME NEW merged \in Aliases, WalksEnd(merged), NEW a \in Humans, NEW b \in Humans, a # b,
           Root(merged, a), Root(merged, b), Cardinality(MergedOnes(merged)) < AliasHops,
           NEW later \in Aliases, later[a] = b, \A p \in Humans \ {a} : later[p] = merged[p]
    PROVE  /\ WalksEnd(later)
           /\ \A p \in Humans : SurvivorIn(later, p) =
                                    IF SurvivorIn(merged, p) = a THEN b ELSE SurvivorIn(merged, p)
<1> DEFINE k == Cardinality(MergedOnes(merged))
<1>1. AliasHops \in Nat /\ k \in Nat /\ k < AliasHops
  BY RegistryAssumption, FS_CardinalityType DEF WalksEnd
<1>2. later \in Aliases /\ later[a] = b /\ (\A p \in Humans \ {a} : later[p] = merged[p]) /\ Absent \notin Humans
  BY RegistryAssumption DEF Aliases
<1>3. IsFiniteSet(MergedOnes(later)) /\ Cardinality(MergedOnes(later)) = k + 1
  <2>1. MergedOnes(later) = MergedOnes(merged) \cup {a} /\ a \notin MergedOnes(merged)
    BY <1>2 DEF MergedOnes, Root
  <2>2. QED
    BY <2>1, FS_AddElement DEF WalksEnd
<1> HIDE DEF k
<1>4. ASSUME NEW p \in Humans
      PROVE  \A n \in 0..AliasHops : \/ Hops(later, p)[n] = Hops(merged, p)[n]
                                     \/ Hops(merged, p)[n] = a /\ Hops(later, p)[n] = b
  <2> DEFINE old == Hops(merged, p)
             new == Hops(later, p)
             Good == {n \in 0..AliasHops : new[n] = old[n] \/ (old[n] = a /\ new[n] = b)}
  <2>1. /\ old[0] = p /\ \A n \in 1..AliasHops : old[n] = OnceMore(merged, old[n - 1])
        /\ new[0] = p /\ \A n \in 1..AliasHops : new[n] = OnceMore(later, new[n - 1])
    BY HopByHop
  <2>2. \A n \in 0..AliasHops : old[n] \in Humans /\ new[n] \in Humans
    BY <1>2, WalkStays
  <2> HIDE DEF old, new
  <2>3. 0 \in Good
    BY <1>1, <2>1
  <2>4. ASSUME NEW n \in 1..AliasHops, n - 1 \in Good
        PROVE  n \in Good
    <3>1. n - 1 \in 0..AliasHops /\ n \in 0..AliasHops
      BY <1>1
    <3>2. old[n] = OnceMore(merged, old[n - 1]) /\ new[n] = OnceMore(later, new[n - 1]) /\ old[n - 1] \in Humans
      BY <2>1, <2>2, <3>1
    <3>3. CASE old[n - 1] = a /\ new[n - 1] = b
      BY <1>2, <3>1, <3>2, <3>3 DEF OnceMore, Root
    <3>4. CASE new[n - 1] = old[n - 1]
      BY <1>2, <3>1, <3>2, <3>4 DEF OnceMore, Root
    <3>5. QED
      BY <2>4, <3>3, <3>4
  <2> HIDE DEF Good
  <2>5. \A n \in 0..AliasHops : n \in Good
    BY <1>1, <2>3, <2>4, CountingUp
  <2>6. QED
    BY <2>5 DEF Good, old, new
<1>5. ASSUME NEW p \in Humans
      PROVE  /\ Root(later, Hops(later, p)[k + 1])
             /\ Hops(later, p)[k + 1] = IF SurvivorIn(merged, p) = a THEN b ELSE SurvivorIn(merged, p)
  <2> DEFINE s == SurvivorIn(merged, p)
  <2>1. s \in Humans /\ Root(merged, s) /\ Hops(merged, p)[k] = s
    BY SurvivorIsRoot DEF k
  <2>2. Hops(later, p)[k] = s \/ (s = a /\ Hops(later, p)[k] = b)
    BY <1>1, <1>4, <2>1
  <2>3. Hops(later, p)[k + 1] = OnceMore(later, Hops(later, p)[k])
    <3>1. k + 1 \in 1..AliasHops /\ (k + 1) - 1 = k
      BY <1>1
    <3>2. QED
      BY <3>1, HopByHop
  <2> HIDE DEF s
  <2>4. QED
    BY <1>2, <2>1, <2>2, <2>3 DEF OnceMore, Root, s
<1>6. WalksEnd(later)
  BY <1>1, <1>3, <1>5 DEF WalksEnd
<1>7. QED
  <2>1. \A p \in Humans : SurvivorIn(later, p) = Hops(later, p)[k + 1]
    BY <1>2, <1>3, <1>6, SurvivorIsRoot
  <2>2. QED
    BY <1>2, <1>5, <1>6, <2>1

-----------------------------------------------------------------------------
(* The requests under way *)

SavingStages    == {"none", "resolve", "serial", "insertSerial", "card", "insertCard", "done"}
Attaching == {"serial", "insertSerial", "card", "insertCard", "done"}
WrittenRow == [item : Item, human : Humans]
SaveRow == [stage : SavingStages, todo : Seq(Item), human : Humans \cup {Absent}, locks : SUBSET Serials,
         claims : UNION {[K -> Humans] : K \in SUBSET Identifiers}, made : SUBSET Humans,
         written : UNION {[R -> WrittenRow] : R \in SUBSET EntryRows}]

RegistryTyping ==
    /\ mergedInto \in Aliases /\ identities \subseteq Humans
    /\ holder \in [Identifiers -> Humans \cup {Absent}]
    /\ entries \in [EntryRows -> Entry] /\ overwritten \subseteq ProfileRows
    /\ saving \in [Clerks -> SaveRow]

\* One person under two ids.
Same(m, p, q) == SurvivorIn(m, p) = SurvivorIn(m, q)

\* FindIdentifier, for the transaction t, and what it has to find.
Found(t, k, hold) == IF k \in DOMAIN t.claims THEN t.claims[k] ELSE hold[k]

LeadsTo(t, k, p, m, hold) ==
    k # Absent => Found(t, k, hold) \in Humans /\ Same(m, Found(t, k, hold), p)

\* A row that was read with a person still has a person, the same one unless it was overwritten;
\* a row of a session that was read without one has none.
AsRead(i, m, ent, over) ==
    /\ i.read.human # Absent =>
          ent[i.row].human # Absent /\ (i.row \notin over => Same(m, ent[i.row].human, i.read.human))
    /\ i.row \in SubjectRows /\ i.read.human = Absent => ent[i.row].human = Absent

KeptWith(i, p, m) == i.read.human # Absent => Same(m, i.read.human, p)

WrittenWell(t, x, m, hold, ent, over) ==
    LET i == t.written[x].item
        p == t.written[x].human
    IN  /\ i.row = x /\ AsRead(i, m, ent, over) /\ KeptWith(i, p, m)
        /\ LeadsTo(t, i.serial, p, m, hold) /\ LeadsTo(t, i.card, p, m, hold)

\* How far the person in hand has come.
InHand(t, m, hold) ==
    LET i == Head(t.todo)
    IN  /\ t.stage \in Attaching => t.human \in Humans /\ KeptWith(i, t.human, m)
        /\ t.stage \in {"card", "insertCard", "done"} => LeadsTo(t, i.serial, t.human, m, hold)
        /\ t.stage = "done" => LeadsTo(t, i.card, t.human, m, hold)
        /\ t.stage = "insertSerial" => i.serial # Absent /\ i.serial \notin DOMAIN t.claims
        /\ t.stage = "insertCard" => i.card # Absent /\ i.card \notin DOMAIN t.claims

Pending(t, m, hold, ent, over) ==
    /\ t.stage # "none" => t.todo # <<>>
    /\ \A n \in DOMAIN t.todo : AsRead(t.todo[n], m, ent, over)
    /\ \A x \in DOMAIN t.written : WrittenWell(t, x, m, hold, ent, over)
    /\ InHand(t, m, hold)

RowsOf(t) == {t.todo[n].row : n \in DOMAIN t.todo} \cup DOMAIN t.written

\* No number is claimed twice, and no row of a session is in two hands.
SetApart(t, u) ==
    DOMAIN t.claims \cap DOMAIN u.claims = {} /\ RowsOf(t) \cap RowsOf(u) \cap SubjectRows = {}

Unclaimed(t, hold) == \A k \in DOMAIN t.claims : hold[k] = Absent

\* The state of a row.
NumbersOf(x) == ({x.serial} \ {Absent}) \cup x.cards

WellHeld(x, m, hold) == \A k \in NumbersOf(x) : hold[k] # Absent /\ Same(m, hold[k], x.human)

Standing(m, hold, ent, over) ==
    \A e \in EntryRows :
        /\ ent[e].human = Absent => NumbersOf(ent[e]) = {}
        /\ e \notin over => WellHeld(ent[e], m, hold)

RegistryInv ==
    /\ RegistryTyping /\ WalksEnd(mergedInto) /\ Standing(mergedInto, holder, entries, overwritten)
    /\ \A c \in Clerks : /\ Pending(saving[c], mergedInto, holder, entries, overwritten)
                         /\ Unclaimed(saving[c], holder)
    /\ \A c, d \in Clerks : c # d => SetApart(saving[c], saving[d])

-----------------------------------------------------------------------------
(* No request is under way *)

LEMMA NoSaveRow ==
    /\ NoSave \in SaveRow /\ NoSave.stage = "none" /\ NoSave.todo = <<>> /\ DOMAIN NoSave.todo = {}
    /\ DOMAIN NoSave.claims = {} /\ DOMAIN NoSave.written = {} /\ RowsOf(NoSave) = {}
<1>1. <<>> \in Seq(Item) /\ DOMAIN <<>> = {}
  OBVIOUS
<1>2. <<>> \in UNION {[K -> Humans] : K \in SUBSET Identifiers}
  <2>1. <<>> \in [{} -> Humans] /\ {} \in SUBSET Identifiers
    OBVIOUS
  <2>2. QED
    BY <2>1
<1>3. <<>> \in UNION {[R -> WrittenRow] : R \in SUBSET EntryRows}
  <2>1. <<>> \in [{} -> WrittenRow] /\ {} \in SUBSET EntryRows
    OBVIOUS
  <2>2. QED
    BY <2>1
<1>4. NoSave \in SaveRow
  BY <1>1, <1>2, <1>3 DEF NoSave, SaveRow, SavingStages
<1>5. /\ NoSave.stage = "none" /\ NoSave.todo = <<>> /\ NoSave.claims = <<>> /\ NoSave.written = <<>>
  BY DEF NoSave
<1>6. QED
  BY <1>1, <1>4, <1>5 DEF RowsOf

LEMMA NothingPending ==
    ASSUME NEW m, NEW hold, NEW ent, NEW over
    PROVE  Pending(NoSave, m, hold, ent, over) /\ Unclaimed(NoSave, hold)
BY NoSaveRow DEF Pending, Unclaimed, InHand, Attaching

LEMMA RegistryInitInv == RegistryInit => RegistryInv
<1> SUFFICES ASSUME RegistryInit PROVE RegistryInv
  OBVIOUS
<1>1. PICK seeded \in SUBSET ProfileRows : entries = [e \in EntryRows |-> [NoEntry EXCEPT !.there = e \in seeded]]
  BY DEF RegistryInit
<1>2. ASSUME NEW e \in EntryRows
      PROVE  entries[e] \in Entry /\ entries[e].human = Absent /\ NumbersOf(entries[e]) = {}
  <2> DEFINE there == e \in seeded
  <2>1. there \in BOOLEAN
    OBVIOUS
  <2>2. entries[e] = [NoEntry EXCEPT !.there = there]
    BY <1>1
  <2> HIDE DEF there
  <2>3. entries[e] \in Entry
    BY <2>1, <2>2 DEF NoEntry, Entry
  <2>4. entries[e].human = Absent /\ entries[e].serial = Absent /\ entries[e].cards = {}
    BY <2>2 DEF NoEntry
  <2>5. QED
    BY <2>3, <2>4 DEF NumbersOf
<1>3. mergedInto \in Aliases /\ \A p \in Humans : mergedInto[p] = Absent
  BY DEF RegistryInit, Aliases
<1>4. RegistryTyping
  <2>1. entries \in [EntryRows -> Entry]
    BY <1>1, <1>2
  <2>2. QED
    BY <1>3, <2>1, NoSaveRow DEF RegistryInit, RegistryTyping
<1>5. WalksEnd(mergedInto)
  <2>1. MergedOnes(mergedInto) = {}
    BY <1>3 DEF MergedOnes
  <2>2. IsFiniteSet(MergedOnes(mergedInto)) /\ Cardinality(MergedOnes(mergedInto)) = 0
    BY <2>1, FS_EmptySet
  <2>3. AliasHops \in Nat /\ 0 \in 0..AliasHops
    BY RegistryAssumption
  <2>4. QED
    BY <1>3, <2>2, <2>3, WalkStays DEF WalksEnd, Root
<1>6. Standing(mergedInto, holder, entries, overwritten)
  BY <1>2 DEF Standing, WellHeld
<1>7. \A c \in Clerks : saving[c] = NoSave
  BY DEF RegistryInit
<1>8. QED
  BY <1>4, <1>5, <1>6, <1>7, NothingPending, NoSaveRow DEF RegistryInv, SetApart

\* A step of one request that changes nothing but its own transaction.
LEMMA OwnStep ==
    ASSUME RegistryInv, NEW c \in Clerks, NEW t \in SaveRow, saving' = [saving EXCEPT ![c] = t],
           UNCHANGED <<mergedInto, holder, entries, overwritten>>, identities' \subseteq Humans,
           Pending(t, mergedInto, holder, entries, overwritten), Unclaimed(t, holder),
           \A d \in Clerks \ {c} : SetApart(t, saving[d])
    PROVE  RegistryInv'
<1>1. mergedInto' = mergedInto /\ holder' = holder /\ entries' = entries /\ overwritten' = overwritten
  OBVIOUS
<1>2. saving \in [Clerks -> SaveRow]
  BY DEF RegistryInv, RegistryTyping
<1>3. saving' \in [Clerks -> SaveRow] /\ saving'[c] = t /\ \A d \in Clerks \ {c} : saving'[d] = saving[d]
  BY <1>2
<1>4. RegistryTyping'
  BY <1>1, <1>3 DEF RegistryInv, RegistryTyping
<1>5. WalksEnd(mergedInto') /\ Standing(mergedInto', holder', entries', overwritten')
  BY <1>1 DEF RegistryInv
<1>6. ASSUME NEW d \in Clerks
      PROVE  /\ Pending(saving'[d], mergedInto', holder', entries', overwritten')
             /\ Unclaimed(saving'[d], holder')
  BY <1>1, <1>3 DEF RegistryInv
<1>7. ASSUME NEW d \in Clerks, NEW f \in Clerks, d # f
      PROVE  SetApart(saving'[d], saving'[f])
  <2>1. CASE d = c
    BY <1>3, <1>7, <2>1
  <2>2. CASE f = c
    <3>1. SetApart(t, saving[d])
      BY <1>7, <2>2
    <3>2. QED
      BY <1>3, <1>7, <2>2, <3>1 DEF SetApart
  <2>3. CASE d # c /\ f # c
    BY <1>3, <1>7, <2>3 DEF RegistryInv
  <2>4. QED
    BY <2>1, <2>2, <2>3
<1>8. QED
  BY <1>4, <1>5, <1>6, <1>7 DEF RegistryInv

-----------------------------------------------------------------------------
(* A save begins *)

LEMMA BeginKeeps ==
    ASSUME RegistryInv, NEW c \in Clerks, NEW items \in Seq(Item), items # <<>>, Begin(c, items),
           \A n \in DOMAIN items : /\ items[n].read = entries[items[n].row]
                                   /\ items[n].row \in SubjectRows => Untouched(c, items[n].row)
    PROVE  RegistryInv'
<1> DEFINE t == [NoSave EXCEPT !.stage = "resolve", !.todo = items]
<1>1. t \in SaveRow
  BY NoSaveRow DEF SaveRow, SavingStages
<1>2. t.stage = "resolve" /\ t.todo = items /\ t.claims = NoSave.claims /\ t.written = NoSave.written
  BY NoSaveRow DEF SaveRow
<1>3. saving' = [saving EXCEPT ![c] = t] /\ UNCHANGED <<mergedInto, identities, holder, entries, overwritten>>
  BY DEF Begin, Step
<1> HIDE DEF t
<1>4. DOMAIN t.claims = {} /\ DOMAIN t.written = {}
  BY <1>2, NoSaveRow
<1>5. ASSUME NEW n \in DOMAIN items
      PROVE  AsRead(items[n], mergedInto, entries, overwritten)
  BY DEF AsRead, Same
<1>6. Pending(t, mergedInto, holder, entries, overwritten) /\ Unclaimed(t, holder)
  BY <1>2, <1>4, <1>5 DEF Pending, Unclaimed, InHand, Attaching
<1>7. ASSUME NEW d \in Clerks \ {c}
      PROVE  SetApart(t, saving[d])
  <2>1. ASSUME NEW r \in RowsOf(t) \cap SubjectRows
        PROVE  r \notin RowsOf(saving[d])
    <3>1. PICK n \in DOMAIN items : r = items[n].row
      BY <1>2, <1>4 DEF RowsOf
    <3>2. Untouched(c, r)
      BY <3>1
    <3>3. QED
      BY <3>2 DEF Untouched, RowsOf
  <2>2. QED
    BY <1>4, <2>1 DEF SetApart
<1>8. identities' \subseteq Humans
  BY <1>3 DEF RegistryInv, RegistryTyping
<1>9. QED
  BY <1>1, <1>3, <1>6, <1>7, <1>8, OwnStep

LEMMA ItemsAreRows ==
    ASSUME RegistryInv
    PROVE  /\ \A i \in SubjectItems : i \in Item /\ i.row \in SubjectRows /\ i.read = entries[i.row]
           /\ \A f \in ProfileRows : /\ AssignedItem(f) \in Item /\ AssignedItem(f).row = f
                                     /\ AssignedItem(f).read = entries[f]
           /\ \A f \in ProfileRows, s \in Serials : /\ ProfileItem(f, s) \in Item /\ ProfileItem(f, s).row = f
                                                    /\ ProfileItem(f, s).read = entries[f]
<1>1. \A e \in EntryRows : entries[e] \in Entry /\ entries[e].serial \in Serials \cup {Absent}
  BY DEF RegistryInv, RegistryTyping, Entry
<1>2. identities \subseteq Humans
  BY DEF RegistryInv, RegistryTyping
<1>3. ASSUME NEW i \in SubjectItems
      PROVE  i \in Item /\ i.row \in SubjectRows /\ i.read = entries[i.row]
  BY <1>1, <1>2 DEF SubjectItems, Item, EntryRows
<1>4. ASSUME NEW f \in ProfileRows
      PROVE  AssignedItem(f) \in Item /\ AssignedItem(f).row = f /\ AssignedItem(f).read = entries[f]
  BY <1>1 DEF AssignedItem, Item, EntryRows
<1>5. ASSUME NEW f \in ProfileRows, NEW s \in Serials
      PROVE  ProfileItem(f, s) \in Item /\ ProfileItem(f, s).row = f /\ ProfileItem(f, s).read = entries[f]
  <2>1. ProfileItem(f, s) \in Item
    BY <1>4 DEF ProfileItem, Item
  <2>2. ProfileItem(f, s).row = f /\ ProfileItem(f, s).read = entries[f]
    BY <1>4 DEF ProfileItem, Item
  <2>3. QED
    BY <2>1, <2>2
<1>6. QED
  BY <1>3, <1>4, <1>5

LEMMA SaveBegins ==
    ASSUME RegistryInv, NEW c \in Clerks, SavePeople(c) \/ SaveUser(c)
    PROVE  RegistryInv'
<1>0. SubjectRows \cap ProfileRows = {}
  BY RegistryAssumption
<1>1. CASE SavePeople(c)
  <2>1. PICK items \in {<<i>> : i \in SubjectItems} \cup {<<i, j>> : i, j \in SubjectItems}
                       \cup {<<AssignedItem(f), i>> : f \in {g \in ProfileRows : entries[g].there}, i \in SubjectItems} :
             /\ \A n \in DOMAIN items : items[n].row \in SubjectRows => Untouched(c, items[n].row)
             /\ Begin(c, items)
    BY <1>1 DEF SavePeople
  <2>2. ASSUME NEW i \in Item, NEW j \in Item, items = <<i>> \/ items = <<i, j>>,
               i.read = entries[i.row], j.read = entries[j.row]
        PROVE  RegistryInv'
    <3>1. items \in Seq(Item) /\ items # <<>> /\ \A n \in DOMAIN items : items[n] = i \/ items[n] = j
      <4>1. CASE items = <<i>>
        BY <2>2, <4>1
      <4>2. CASE items = <<i, j>>
        BY <2>2, <4>2
      <4>3. QED
        BY <2>2, <4>1, <4>2
    <3>2. \A n \in DOMAIN items : items[n].read = entries[items[n].row]
      BY <2>2, <3>1
    <3>3. QED
      BY <2>1, <3>1, <3>2, BeginKeeps
  <2>3. CASE items \in {<<i>> : i \in SubjectItems}
    BY <2>2, <2>3, ItemsAreRows
  <2>4. CASE items \in {<<i, j>> : i, j \in SubjectItems}
    BY <2>2, <2>4, ItemsAreRows
  <2>5. CASE items \in {<<AssignedItem(f), i>> : f \in {g \in ProfileRows : entries[g].there}, i \in SubjectItems}
    <3>1. PICK f \in ProfileRows, i \in SubjectItems : items = <<AssignedItem(f), i>>
      BY <2>5
    <3>2. AssignedItem(f) \in Item /\ AssignedItem(f).read = entries[AssignedItem(f).row]
      BY ItemsAreRows
    <3>3. i \in Item /\ i.read = entries[i.row]
      BY ItemsAreRows
    <3>4. QED
      BY <2>2, <3>1, <3>2, <3>3
  <2>6. QED
    BY <2>1, <2>3, <2>4, <2>5
<1>2. CASE SaveUser(c)
  <2>1. PICK f \in ProfileRows, s \in Serials : Begin(c, <<ProfileItem(f, s)>>)
    BY <1>2 DEF SaveUser
  <2> DEFINE i == ProfileItem(f, s)
  <2>2. i \in Item /\ i.read = entries[i.row] /\ i.row \notin SubjectRows /\ Begin(c, <<i>>)
    BY <1>0, <2>1, ItemsAreRows
  <2> HIDE DEF i
  <2>3. <<i>> \in Seq(Item) /\ <<i>> # <<>> /\ \A n \in DOMAIN <<i>> : <<i>>[n] = i
    BY <2>2
  <2>4. \A n \in DOMAIN <<i>> : /\ <<i>>[n].read = entries[<<i>>[n].row]
                                /\ <<i>>[n].row \in SubjectRows => Untouched(c, <<i>>[n].row)
    BY <2>2, <2>3
  <2>5. QED
    BY <2>2, <2>3, <2>4, BeginKeeps
<1>3. QED
  BY <1>1, <1>2

-----------------------------------------------------------------------------
(* Finding the person and attaching his numbers *)

\* What the invariant says of the transaction that takes a step.
LEMMA InTransaction ==
    ASSUME RegistryInv, NEW c \in Clerks, saving[c].stage # "none"
    PROVE  /\ saving[c] \in SaveRow /\ saving[c].todo \in Seq(Item) /\ saving[c].todo # <<>>
           /\ Current(c) \in Item /\ AsRead(Current(c), mergedInto, entries, overwritten)
           /\ Pending(saving[c], mergedInto, holder, entries, overwritten)
           /\ mergedInto \in Aliases /\ WalksEnd(mergedInto)
           /\ \A k \in DOMAIN saving[c].claims : saving[c].claims[k] \in Humans
           /\ \A k \in Identifiers : FindIdentifier(c, k) = Found(saving[c], k, holder)
           /\ \A k \in Identifiers : FindIdentifier(c, k) \in Humans \cup {Absent}
<1>1. saving[c] \in SaveRow /\ holder \in [Identifiers -> Humans \cup {Absent}] /\ mergedInto \in Aliases
  BY DEF RegistryInv, RegistryTyping
<1>2. Pending(saving[c], mergedInto, holder, entries, overwritten) /\ WalksEnd(mergedInto)
  BY DEF RegistryInv
<1>3. saving[c].todo \in Seq(Item) /\ saving[c].todo # <<>>
  BY <1>1, <1>2 DEF SaveRow, Pending
<1>4. Current(c) \in Item /\ 1 \in DOMAIN saving[c].todo /\ Current(c) = saving[c].todo[1]
  BY <1>3 DEF Current
<1>5. \A k \in DOMAIN saving[c].claims : saving[c].claims[k] \in Humans
  <2>1. saving[c].claims \in UNION {[K -> Humans] : K \in SUBSET Identifiers}
    BY <1>1 DEF SaveRow
  <2>2. PICK K \in SUBSET Identifiers : saving[c].claims \in [K -> Humans]
    BY <2>1
  <2>3. QED
    BY <2>2
<1>6. \A k \in Identifiers : FindIdentifier(c, k) = Found(saving[c], k, holder)
  BY DEF FindIdentifier, Found
<1>7. \A k \in Identifiers : FindIdentifier(c, k) \in Humans \cup {Absent}
  BY <1>1, <1>5 DEF FindIdentifier
<1>8. QED
  BY <1>1, <1>2, <1>3, <1>4, <1>5, <1>6, <1>7 DEF Pending

LEMMA SameRows ==
    ASSUME NEW t, NEW u, u.claims = t.claims, u.todo = t.todo, u.written = t.written
    PROVE  /\ RowsOf(u) = RowsOf(t) /\ (\A s : SetApart(t, s) => SetApart(u, s))
           /\ \A hold : Unclaimed(t, hold) => Unclaimed(u, hold)
           /\ \A x, m, hold, ent, over : WrittenWell(t, x, m, hold, ent, over) => WrittenWell(u, x, m, hold, ent, over)
           /\ \A k, p, m, hold : LeadsTo(t, k, p, m, hold) => LeadsTo(u, k, p, m, hold)
<1>1. RowsOf(u) = RowsOf(t) /\ \A k, hold : Found(u, k, hold) = Found(t, k, hold)
  BY DEF RowsOf, Found
<1>2. \A s : SetApart(t, s) => SetApart(u, s)
  BY <1>1 DEF SetApart
<1>3. \A hold : Unclaimed(t, hold) => Unclaimed(u, hold)
  BY DEF Unclaimed
<1>4. \A k, p, m, hold : LeadsTo(t, k, p, m, hold) => LeadsTo(u, k, p, m, hold)
  BY <1>1 DEF LeadsTo
<1>5. \A x, m, hold, ent, over : WrittenWell(t, x, m, hold, ent, over) => WrittenWell(u, x, m, hold, ent, over)
  BY <1>4, ZenonT(60) DEF WrittenWell
<1>6. QED
  BY <1>1, <1>2, <1>3, <1>4, <1>5

\* A step to another stage with the same claims and rows.
LEMMA StageStep ==
    ASSUME RegistryInv, NEW c \in Clerks, saving[c].stage # "none", NEW t \in SaveRow,
           t.claims = saving[c].claims, t.todo = saving[c].todo, t.written = saving[c].written,
           InHand(t, mergedInto, holder), Step(c, t),
           UNCHANGED <<mergedInto, holder, entries, overwritten>>, identities' \subseteq Humans
    PROVE  RegistryInv'
<1>1. Pending(saving[c], mergedInto, holder, entries, overwritten) /\ Unclaimed(saving[c], holder)
  BY DEF RegistryInv
<1>2. Pending(t, mergedInto, holder, entries, overwritten)
  BY <1>1, SameRows DEF Pending
<1>3. Unclaimed(t, holder) /\ \A d \in Clerks \ {c} : SetApart(t, saving[d])
  BY <1>1, SameRows DEF RegistryInv
<1>4. QED
  BY <1>2, <1>3, OwnStep DEF Step

LEMMA LockSerialKeeps ==
    ASSUME RegistryInv, NEW c \in Clerks, LockSerial(c)
    PROVE  RegistryInv'
<1> DEFINE t == [saving[c] EXCEPT !.locks = @ \cup {Current(c).serial}]
<1>1. saving[c].stage = "resolve" /\ Step(c, t) /\ UNCHANGED <<mergedInto, identities, holder, entries, overwritten>>
  BY DEF LockSerial, AtStage
<1>2. saving[c] \in SaveRow /\ Current(c).serial \in Serials
  BY <1>1, InTransaction DEF LockSerial, Item
<1>3. t \in SaveRow
  BY <1>2 DEF SaveRow
<1>4. /\ t.claims = saving[c].claims /\ t.todo = saving[c].todo /\ t.written = saving[c].written
      /\ t.stage = "resolve"
  BY <1>1, <1>2 DEF SaveRow
<1> HIDE DEF t
<1>5. InHand(t, mergedInto, holder)
  BY <1>4 DEF InHand, Attaching
<1>6. identities' \subseteq Humans
  BY <1>1 DEF RegistryInv, RegistryTyping
<1>7. QED
  BY <1>1, <1>3, <1>4, <1>5, <1>6, StageStep

LEMMA ResolveKeeps ==
    ASSUME RegistryInv, NEW c \in Clerks, Resolve(c)
    PROVE  RegistryInv'
<1> DEFINE i == Current(c)
<1>1. saving[c].stage = "resolve" /\ UNCHANGED <<mergedInto, holder, entries, overwritten>>
  BY DEF Resolve, AtStage
<1>2. i \in Item /\ mergedInto \in Aliases /\ WalksEnd(mergedInto) /\ saving[c] \in SaveRow /\ Absent \notin Humans
  BY <1>1, InTransaction, RegistryAssumption
<1>3. i.read.human \in Humans \cup {Absent} /\ i.chosen \in Humans \cup {Absent} /\ i.serial \in Serials \cup {Absent}
  BY <1>2 DEF Item, Entry
<1>4. \A p \in Humans : Survivor(p) = SurvivorIn(mergedInto, p) /\ Survivor(p) \in Humans
                        /\ SurvivorIn(mergedInto, Survivor(p)) = Survivor(p)
  <2>1. \A p \in Humans : Survivor(p) = SurvivorIn(mergedInto, p)
    BY DEF Survivor, SurvivorIn
  <2>2. \A p \in Humans : SurvivorIn(mergedInto, p) \in Humans /\ Root(mergedInto, SurvivorIn(mergedInto, p))
    BY <1>2, SurvivorIsRoot
  <2>3. QED
    BY <1>2, <2>1, <2>2, RootSurvives
<1>5. Candidate(c) \in Humans \cup {Absent} /\ (i.read.human # Absent => Candidate(c) = Survivor(i.read.human))
  <2>1. i.serial # Absent => FindIdentifier(c, i.serial) \in Humans \cup {Absent}
    BY <1>1, <1>3, InTransaction DEF Identifiers
  <2>2. QED
    BY <1>3, <1>4, <2>1 DEF Candidate
<1>6. ASSUME NEW p \in Humans, NEW made \in SUBSET Humans,
             Step(c, [saving[c] EXCEPT !.stage = "serial", !.human = p, !.made = made]),
             Candidate(c) # Absent => p = Candidate(c), identities' \subseteq Humans
      PROVE  RegistryInv'
  <2> DEFINE t == [saving[c] EXCEPT !.stage = "serial", !.human = p, !.made = made]
  <2>1. t \in SaveRow
    BY <1>2 DEF SaveRow, SavingStages
  <2>2. /\ t.claims = saving[c].claims /\ t.todo = saving[c].todo /\ t.written = saving[c].written
        /\ t.stage = "serial" /\ t.human = p
    BY <1>2 DEF SaveRow
  <2> HIDE DEF t
  <2>3. KeptWith(i, p, mergedInto)
    BY <1>2, <1>3, <1>4, <1>5, <1>6 DEF KeptWith, Same
  <2>4. InHand(t, mergedInto, holder)
    BY <2>2, <2>3 DEF InHand, Attaching, Current
  <2>5. Step(c, t)
    BY <1>6 DEF t
  <2>6. QED
    BY <1>1, <1>6, <2>1, <2>2, <2>4, <2>5, StageStep
<1>7. saving[c].made \in SUBSET Humans /\ identities \subseteq Humans
  BY <1>2 DEF SaveRow, RegistryInv, RegistryTyping
<1>8. CASE /\ Candidate(c) # Absent /\ UNCHANGED identities
           /\ Step(c, [saving[c] EXCEPT !.stage = "serial", !.human = Candidate(c)])
  <2>1. [saving[c] EXCEPT !.stage = "serial", !.human = Candidate(c)]
           = [saving[c] EXCEPT !.stage = "serial", !.human = Candidate(c), !.made = saving[c].made]
    BY <1>2 DEF SaveRow
  <2>2. QED
    BY <1>5, <1>6, <1>7, <1>8, <2>1
<1>9. CASE \E p \in Humans \ identities :
              /\ Candidate(c) = Absent /\ identities' = identities \cup {p}
              /\ Step(c, [saving[c] EXCEPT !.stage = "serial", !.human = p, !.made = @ \cup {p}])
  <2>1. PICK p \in Humans \ identities :
              /\ Candidate(c) = Absent /\ identities' = identities \cup {p}
              /\ Step(c, [saving[c] EXCEPT !.stage = "serial", !.human = p, !.made = @ \cup {p}])
    BY <1>9
  <2> DEFINE made == saving[c].made \cup {p}
  <2>2. made \in SUBSET Humans /\ identities' \subseteq Humans
    BY <1>7, <2>1
  <2>3. Step(c, [saving[c] EXCEPT !.stage = "serial", !.human = p, !.made = made])
    BY <2>1
  <2> HIDE DEF made
  <2>4. QED
    BY <1>6, <2>1, <2>2, <2>3
<1>10. QED
  BY <1>8, <1>9 DEF Resolve

\* A number that is not there to be attached, or that the person in hand already holds.
LEMMA LookUpFinds ==
    ASSUME RegistryInv, NEW c \in Clerks, saving[c].stage \in Attaching, NEW k \in Identifiers \cup {Absent},
           k # Absent => Attachable(c, k)
    PROVE  LeadsTo(saving[c], k, saving[c].human, mergedInto, holder)
<1> SUFFICES ASSUME k # Absent
             PROVE  LeadsTo(saving[c], k, saving[c].human, mergedInto, holder)
  BY DEF LeadsTo
<1> DEFINE p == FindIdentifier(c, k)
<1>1. saving[c].stage # "none"
  BY DEF Attaching
<1>2. p \in Humans \cup {Absent} /\ p = Found(saving[c], k, holder)
  BY <1>1, InTransaction
<1>3. p # Absent /\ Survivor(p) = saving[c].human
  BY DEF Attachable
<1>4. mergedInto \in Aliases /\ WalksEnd(mergedInto)
  BY <1>1, InTransaction
<1>5. Survivor(p) = SurvivorIn(mergedInto, p)
  BY DEF Survivor, SurvivorIn
<1> HIDE DEF p
<1>6. p \in Humans /\ saving[c].human = SurvivorIn(mergedInto, p)
  BY <1>2, <1>3, <1>5
<1>7. SurvivorIn(mergedInto, p) \in Humans /\ Root(mergedInto, SurvivorIn(mergedInto, p))
  BY <1>4, <1>6, SurvivorIsRoot
<1>8. SurvivorIn(mergedInto, SurvivorIn(mergedInto, p)) = SurvivorIn(mergedInto, p)
  BY <1>4, <1>7, RootSurvives
<1>9. QED
  BY <1>2, <1>6, <1>8 DEF LeadsTo, Same

\* A look-up goes on to the next stage if nothing is to be attached, and to the insert if
\* nobody holds the number.
LEMMA LookUpKeeps ==
    ASSUME RegistryInv, NEW c \in Clerks, LookUpSerial(c) \/ LookUpCard(c)
    PROVE  RegistryInv'
<1> DEFINE i == Current(c)
           h == saving[c].human
<1>1. saving[c].stage \in {"serial", "card"} /\ saving[c].stage \in Attaching /\ saving[c].stage # "none"
  BY DEF LookUpSerial, LookUpCard, AtStage, Attaching
<1>2. saving[c] \in SaveRow /\ i \in Item /\ InHand(saving[c], mergedInto, holder) /\ Absent \notin Identifiers
  BY <1>1, InTransaction, RegistryAssumption DEF Pending, Identifiers
<1>3. i.serial \in Identifiers \cup {Absent} /\ i.card \in Identifiers \cup {Absent}
  BY <1>2 DEF Item, Identifiers
<1>4. h \in Humans /\ KeptWith(i, h, mergedInto)
      /\ (saving[c].stage = "card" => LeadsTo(saving[c], i.serial, h, mergedInto, holder))
  BY <1>1, <1>2 DEF InHand, Current
<1>5. UNCHANGED <<mergedInto, identities, holder, entries, overwritten>>
  BY DEF LookUpSerial, LookUpCard, LookUp
<1>6. identities' \subseteq Humans
  BY <1>5 DEF RegistryInv, RegistryTyping
<1>7. ASSUME NEW stage \in SavingStages, Step(c, [saving[c] EXCEPT !.stage = stage]),
             stage \in {"card", "insertCard", "done"} => LeadsTo(saving[c], i.serial, h, mergedInto, holder),
             stage = "done" => LeadsTo(saving[c], i.card, h, mergedInto, holder),
             stage = "insertSerial" => i.serial # Absent /\ i.serial \notin DOMAIN saving[c].claims,
             stage = "insertCard" => i.card # Absent /\ i.card \notin DOMAIN saving[c].claims
      PROVE  RegistryInv'
  <2> DEFINE t == [saving[c] EXCEPT !.stage = stage]
  <2>1. t \in SaveRow
    BY <1>2 DEF SaveRow
  <2>2. /\ t.claims = saving[c].claims /\ t.todo = saving[c].todo /\ t.written = saving[c].written
        /\ t.stage = stage /\ t.human = h
    BY <1>2 DEF SaveRow
  <2>3. Step(c, t)
    BY <1>7
  <2> HIDE DEF t
  <2>4. \A k : LeadsTo(saving[c], k, h, mergedInto, holder) => LeadsTo(t, k, h, mergedInto, holder)
    BY <2>2, SameRows
  <2>5. InHand(t, mergedInto, holder)
    BY <1>4, <1>7, <2>2, <2>4 DEF InHand, Current
  <2>6. QED
    BY <1>1, <1>5, <1>6, <2>1, <2>2, <2>3, <2>5, StageStep
<1>8. \A k \in Identifiers : FindIdentifier(c, k) = Absent => k \notin DOMAIN saving[c].claims
  <2>1. \A k \in DOMAIN saving[c].claims : saving[c].claims[k] \in Humans
    BY <1>1, InTransaction
  <2>2. QED
    BY <2>1, RegistryAssumption DEF FindIdentifier
<1> HIDE DEF h
<1>9. CASE LookUpSerial(c)
  <2>1. LookUp(c, i.serial, "insertSerial", "card")
    BY <1>9 DEF LookUpSerial
  <2>2. CASE (i.serial # Absent => Attachable(c, i.serial)) /\ Step(c, [saving[c] EXCEPT !.stage = "card"])
    <3>1. LeadsTo(saving[c], i.serial, h, mergedInto, holder)
      BY <1>1, <1>3, <2>2, LookUpFinds DEF h
    <3>2. QED
      BY <1>7, <2>2, <3>1 DEF SavingStages
  <2>3. CASE /\ i.serial # Absent /\ FindIdentifier(c, i.serial) = Absent
             /\ Step(c, [saving[c] EXCEPT !.stage = "insertSerial"])
    BY <1>3, <1>7, <1>8, <2>3 DEF SavingStages
  <2>4. QED
    BY <2>1, <2>2, <2>3 DEF LookUp
<1>10. CASE LookUpCard(c)
  <2>1. LookUp(c, i.card, "insertCard", "done") /\ saving[c].stage = "card"
    BY <1>10 DEF LookUpCard, AtStage
  <2>2. CASE (i.card # Absent => Attachable(c, i.card)) /\ Step(c, [saving[c] EXCEPT !.stage = "done"])
    <3>1. LeadsTo(saving[c], i.card, h, mergedInto, holder)
      BY <1>1, <1>3, <2>2, LookUpFinds DEF h
    <3>2. QED
      BY <1>4, <1>7, <2>1, <2>2, <3>1 DEF SavingStages
  <2>3. CASE /\ i.card # Absent /\ FindIdentifier(c, i.card) = Absent
             /\ Step(c, [saving[c] EXCEPT !.stage = "insertCard"])
    BY <1>3, <1>4, <1>7, <1>8, <2>1, <2>3 DEF SavingStages
  <2>4. QED
    BY <2>1, <2>2, <2>3 DEF LookUp
<1>11. QED
  BY <1>9, <1>10

LEMMA InsertKeeps ==
    ASSUME RegistryInv, NEW c \in Clerks, InsertSerial(c) \/ InsertCard(c)
    PROVE  RegistryInv'
<1> DEFINE i == Current(c)
           h == saving[c].human
<1>1. saving[c].stage \in {"insertSerial", "insertCard"} /\ saving[c].stage \in Attaching /\ saving[c].stage # "none"
  BY DEF InsertSerial, InsertCard, AtStage, Attaching
<1>2. /\ saving[c] \in SaveRow /\ i \in Item /\ InHand(saving[c], mergedInto, holder) /\ Absent \notin Identifiers
      /\ Pending(saving[c], mergedInto, holder, entries, overwritten) /\ Unclaimed(saving[c], holder)
      /\ Absent \notin Humans
  BY <1>1, InTransaction, RegistryAssumption DEF Pending, Identifiers, RegistryInv
<1>3. i.serial \in Identifiers \cup {Absent} /\ i.card \in Identifiers \cup {Absent}
  BY <1>2 DEF Item, Identifiers
<1>4. h \in Humans /\ KeptWith(i, h, mergedInto)
      /\ (saving[c].stage = "insertCard" => LeadsTo(saving[c], i.serial, h, mergedInto, holder))
      /\ (saving[c].stage = "insertSerial" => i.serial # Absent /\ i.serial \notin DOMAIN saving[c].claims)
      /\ (saving[c].stage = "insertCard" => i.card # Absent /\ i.card \notin DOMAIN saving[c].claims)
  BY <1>1, <1>2 DEF InHand, Current
<1> HIDE DEF h
<1>5. ASSUME NEW k \in Identifiers, NEW next \in {"card", "done"}, Insert(c, k, next), k \notin DOMAIN saving[c].claims,
             \/ next = "card" /\ k = i.serial
             \/ next = "done" /\ k = i.card /\ LeadsTo(saving[c], i.serial, h, mergedInto, holder)
      PROVE  RegistryInv'
  <2> DEFINE old == saving[c].claims
             new == [x \in (DOMAIN old) \cup {k} |-> IF x = k THEN h ELSE old[x]]
             t == [saving[c] EXCEPT !.stage = next, !.claims = new]
  <2>1. /\ ~Claiming(c, k) /\ holder[k] = Absent /\ Step(c, t)
        /\ UNCHANGED <<mergedInto, identities, holder, entries, overwritten>>
    BY <1>5 DEF Insert, h
  <2>2. DOMAIN new = DOMAIN old \cup {k} /\ new[k] = h /\ \A x \in DOMAIN old : new[x] = old[x]
    BY <1>5
  <2>3. new \in UNION {[K -> Humans] : K \in SUBSET Identifiers}
    <3>1. old \in UNION {[K -> Humans] : K \in SUBSET Identifiers}
      BY <1>2 DEF SaveRow
    <3>2. PICK K \in SUBSET Identifiers : old \in [K -> Humans]
      BY <3>1
    <3>3. new \in [K \cup {k} -> Humans] /\ K \cup {k} \in SUBSET Identifiers
      BY <1>4, <3>2
    <3> HIDE DEF new
    <3>4. QED
      BY <3>3
  <2> HIDE DEF new
  <2>4. t \in SaveRow
    BY <1>2, <2>3 DEF SaveRow, SavingStages
  <2>5. /\ t.claims = new /\ t.todo = saving[c].todo /\ t.written = saving[c].written
        /\ t.stage = next /\ t.human = h
    BY <1>2 DEF SaveRow, h
  <2> HIDE DEF t
  <2>6. \A x, p : LeadsTo(saving[c], x, p, mergedInto, holder) => LeadsTo(t, x, p, mergedInto, holder)
    BY <1>2, <1>5, <2>1, <2>2, <2>5 DEF LeadsTo, Found
  <2>7. LeadsTo(t, k, h, mergedInto, holder)
    BY <1>4, <2>2, <2>5 DEF LeadsTo, Found, Same
  <2>8. InHand(t, mergedInto, holder)
    BY <1>4, <1>5, <2>5, <2>6, <2>7 DEF InHand, Current
  <2>9. \A x \in DOMAIN t.written : WrittenWell(t, x, mergedInto, holder, entries, overwritten)
    BY <1>2, <2>5, <2>6 DEF Pending, WrittenWell
  <2>10. Pending(t, mergedInto, holder, entries, overwritten)
    BY <1>1, <1>2, <2>5, <2>8, <2>9 DEF Pending
  <2>11. Unclaimed(t, holder)
    BY <1>2, <2>1, <2>2, <2>5 DEF Unclaimed
  <2>12. ASSUME NEW d \in Clerks \ {c}
         PROVE  SetApart(t, saving[d])
    <3>1. SetApart(saving[c], saving[d])
      BY DEF RegistryInv
    <3>2. k \notin DOMAIN saving[d].claims
      BY <2>1 DEF Claiming
    <3>3. QED
      BY <2>2, <2>5, <3>1, <3>2 DEF SetApart, RowsOf
  <2>13. identities' \subseteq Humans
    BY <2>1 DEF RegistryInv, RegistryTyping
  <2>14. QED
    BY <2>1, <2>4, <2>10, <2>11, <2>12, <2>13, OwnStep DEF Step
<1>6. CASE InsertSerial(c)
  <2>1. saving[c].stage = "insertSerial" /\ Insert(c, i.serial, "card")
    BY <1>6 DEF InsertSerial, AtStage
  <2>2. QED
    BY <1>3, <1>4, <1>5, <2>1
<1>7. CASE InsertCard(c)
  <2>1. saving[c].stage = "insertCard" /\ Insert(c, i.card, "done")
    BY <1>7 DEF InsertCard, AtStage
  <2>2. QED
    BY <1>3, <1>4, <1>5, <2>1
<1>8. QED
  BY <1>6, <1>7

LEMMA TailOf ==
    ASSUME NEW S, NEW q \in Seq(S), Len(q) > 1
    PROVE  /\ Tail(q) \in Seq(S) /\ Tail(q) # <<>>
           /\ \A n \in DOMAIN Tail(q) : n + 1 \in DOMAIN q /\ Tail(q)[n] = q[n + 1]
<1>1. q # <<>> /\ Len(Tail(q)) = Len(q) - 1 /\ Tail(q) \in Seq(S)
  OBVIOUS
<1>2. Tail(q) # <<>>
  <2>1. Len(<<>>) = 0 /\ Len(Tail(q)) # 0
    BY <1>1
  <2> DEFINE r == Tail(q)
  <2>2. Len(r) # 0
    BY <2>1
  <2> HIDE DEF r
  <2>3. r # <<>>
    BY <2>1, <2>2
  <2>4. QED
    BY <2>3 DEF r
<1>3. DOMAIN Tail(q) = 1..(Len(q) - 1)
  BY <1>1
<1>4. \A n \in 1..(Len(q) - 1) : n + 1 \in DOMAIN q /\ Tail(q)[n] = q[n + 1]
  BY <1>1
<1>5. QED
  BY <1>1, <1>2, <1>3, <1>4

\* The person in hand is put beside the ones that are done, and the next one is taken up.
LEMMA FinishKeeps ==
    ASSUME RegistryInv, NEW c \in Clerks, FinishItem(c)
    PROVE  RegistryInv'
<1> DEFINE i == Current(c)
           h == saving[c].human
           old == saving[c].written
           row == [item |-> i, human |-> h]
           new == [x \in (DOMAIN old) \cup {i.row} |-> IF x = i.row THEN row ELSE old[x]]
           rest == Tail(saving[c].todo)
           t == [saving[c] EXCEPT !.stage = "resolve", !.todo = rest, !.human = Absent, !.written = new]
<1>1. saving[c].stage = "done" /\ Len(saving[c].todo) > 1 /\ saving[c].stage # "none"
  BY DEF FinishItem, AtStage
<1>2. Step(c, t) /\ UNCHANGED <<mergedInto, identities, holder, entries, overwritten>>
  BY DEF FinishItem
<1>3. /\ saving[c] \in SaveRow /\ i \in Item /\ InHand(saving[c], mergedInto, holder)
      /\ Pending(saving[c], mergedInto, holder, entries, overwritten) /\ Unclaimed(saving[c], holder)
      /\ saving[c].todo \in Seq(Item) /\ saving[c].todo # <<>> /\ AsRead(i, mergedInto, entries, overwritten)
  BY <1>1, InTransaction DEF Pending, RegistryInv
<1>4. /\ h \in Humans /\ KeptWith(i, h, mergedInto) /\ LeadsTo(saving[c], i.serial, h, mergedInto, holder)
      /\ LeadsTo(saving[c], i.card, h, mergedInto, holder)
  BY <1>1, <1>3 DEF InHand, Current, Attaching
<1>5. i = saving[c].todo[1] /\ 1 \in DOMAIN saving[c].todo /\ i.row \in EntryRows
  BY <1>3 DEF Current, Item
<1>6. rest \in Seq(Item) /\ rest # <<>> /\ \A n \in DOMAIN rest : n + 1 \in DOMAIN saving[c].todo /\ rest[n] = saving[c].todo[n + 1]
  BY <1>1, <1>3, TailOf
<1>7. row \in WrittenRow /\ row.item = i /\ row.human = h
  BY <1>3, <1>4 DEF WrittenRow
<1> HIDE DEF row, rest, h, i
<1>8. DOMAIN new = DOMAIN old \cup {i.row} /\ new[i.row] = row /\ \A x \in DOMAIN old : x # i.row => new[x] = old[x]
  OBVIOUS
<1>9. new \in UNION {[R -> WrittenRow] : R \in SUBSET EntryRows}
  <2>1. old \in UNION {[R -> WrittenRow] : R \in SUBSET EntryRows}
    BY <1>3 DEF SaveRow
  <2>2. PICK R \in SUBSET EntryRows : old \in [R -> WrittenRow]
    BY <2>1
  <2>3. new \in [R \cup {i.row} -> WrittenRow] /\ R \cup {i.row} \in SUBSET EntryRows
    BY <1>5, <1>7, <2>2
  <2> HIDE DEF new
  <2>4. QED
    BY <2>3
<1> HIDE DEF new
<1>10. t \in SaveRow
  BY <1>3, <1>6, <1>9 DEF SaveRow, SavingStages
<1>11. /\ t.claims = saving[c].claims /\ t.todo = rest /\ t.written = new /\ t.stage = "resolve"
  BY <1>3 DEF SaveRow
<1> HIDE DEF t
<1>12. InHand(t, mergedInto, holder)
  BY <1>11 DEF InHand, Attaching
<1>13. \A n \in DOMAIN t.todo : AsRead(t.todo[n], mergedInto, entries, overwritten)
  BY <1>3, <1>6, <1>11 DEF Pending
<1>14. ASSUME NEW x \in DOMAIN t.written
       PROVE  WrittenWell(t, x, mergedInto, holder, entries, overwritten)
  <2>1. \A k, p : LeadsTo(saving[c], k, p, mergedInto, holder) => LeadsTo(t, k, p, mergedInto, holder)
    BY <1>11 DEF LeadsTo, Found
  <2>2. CASE x = i.row
    BY <1>3, <1>4, <1>7, <1>8, <1>11, <2>1, <2>2 DEF WrittenWell
  <2>3. CASE x # i.row
    <3>1. x \in DOMAIN old /\ t.written[x] = old[x]
      BY <1>8, <1>11, <2>3
    <3>2. WrittenWell(saving[c], x, mergedInto, holder, entries, overwritten)
      BY <1>3, <3>1 DEF Pending
    <3>3. QED
      BY <2>1, <3>1, <3>2 DEF WrittenWell
  <2>4. QED
    BY <2>2, <2>3
<1>15. Pending(t, mergedInto, holder, entries, overwritten)
  BY <1>6, <1>11, <1>12, <1>13, <1>14 DEF Pending
<1>16. Unclaimed(t, holder)
  BY <1>3, <1>11 DEF Unclaimed
<1>17. RowsOf(t) \subseteq RowsOf(saving[c])
  BY <1>5, <1>6, <1>8, <1>11 DEF RowsOf
<1>18. \A d \in Clerks \ {c} : SetApart(t, saving[d])
  <2>1. \A d \in Clerks \ {c} : SetApart(saving[c], saving[d])
    BY DEF RegistryInv
  <2>2. QED
    BY <1>11, <1>17, <2>1 DEF SetApart
<1>19. identities' \subseteq Humans
  BY <1>2 DEF RegistryInv, RegistryTyping
<1>20. QED
  BY <1>2, <1>10, <1>15, <1>16, <1>18, <1>19, OwnStep DEF Step

-----------------------------------------------------------------------------
(* What a commit or a merge leaves of the other requests *)

LEMMA OthersGoOn ==
    ASSUME NEW t \in SaveRow, NEW m, NEW hold, NEW ent, NEW over, NEW m2, NEW hold2, NEW ent2, NEW over2,
           Pending(t, m, hold, ent, over),
           \A i \in Item : i.row \in RowsOf(t) /\ AsRead(i, m, ent, over) => AsRead(i, m2, ent2, over2),
           \A p, q \in Humans : Same(m, p, q) => Same(m2, p, q),
           \A k \in Identifiers, p \in Humans : LeadsTo(t, k, p, m, hold) => LeadsTo(t, k, p, m2, hold2)
    PROVE  Pending(t, m2, hold2, ent2, over2)
<1>1. t.todo \in Seq(Item) /\ \A x \in DOMAIN t.written : t.written[x] \in WrittenRow
  <2>1. t.written \in UNION {[R -> WrittenRow] : R \in SUBSET EntryRows}
    BY DEF SaveRow
  <2>2. PICK R \in SUBSET EntryRows : t.written \in [R -> WrittenRow]
    BY <2>1
  <2>3. QED
    BY <2>2 DEF SaveRow
<1>2. \A n \in DOMAIN t.todo : t.todo[n] \in Item /\ t.todo[n].row \in RowsOf(t)
  BY <1>1 DEF RowsOf
<1>3. \A i \in Item : /\ i.read.human \in Humans \cup {Absent} /\ i.serial \in Identifiers \cup {Absent}
                      /\ i.card \in Identifiers \cup {Absent}
  BY DEF Item, Entry, Identifiers
<1>4. \A k \in Identifiers \cup {Absent}, p \in Humans : LeadsTo(t, k, p, m, hold) => LeadsTo(t, k, p, m2, hold2)
  BY DEF LeadsTo
<1>5. \A i \in Item, p \in Humans : KeptWith(i, p, m) => KeptWith(i, p, m2)
  BY <1>3 DEF KeptWith
<1>6. \A n \in DOMAIN t.todo : AsRead(t.todo[n], m2, ent2, over2)
  BY <1>2 DEF Pending
<1>7. ASSUME NEW x \in DOMAIN t.written
      PROVE  WrittenWell(t, x, m2, hold2, ent2, over2)
  <2> DEFINE i == t.written[x].item
             p == t.written[x].human
  <2>1. i \in Item /\ p \in Humans
    BY <1>1 DEF WrittenRow
  <2>2. /\ i.row = x /\ AsRead(i, m, ent, over) /\ KeptWith(i, p, m)
        /\ LeadsTo(t, i.serial, p, m, hold) /\ LeadsTo(t, i.card, p, m, hold)
    BY DEF Pending, WrittenWell
  <2>3. i.row \in RowsOf(t)
    BY <2>2 DEF RowsOf
  <2> HIDE DEF i, p
  <2>4. /\ i.row = x /\ AsRead(i, m2, ent2, over2) /\ KeptWith(i, p, m2)
        /\ LeadsTo(t, i.serial, p, m2, hold2) /\ LeadsTo(t, i.card, p, m2, hold2)
    BY <1>3, <1>4, <1>5, <2>1, <2>2, <2>3
  <2>5. QED
    BY <2>4 DEF WrittenWell, i, p
<1>8. InHand(t, m2, hold2)
  <2> DEFINE i == Head(t.todo)
  <2>1. ASSUME t.stage \in Attaching
        PROVE  i \in Item /\ t.human \in Humans
    <3>1. t.todo # <<>>
      BY <2>1 DEF Pending, Attaching
    <3>2. QED
      BY <1>1, <2>1, <3>1 DEF Pending, InHand
  <2>2. t.stage \in {"card", "insertCard", "done"} => t.stage \in Attaching
    BY DEF Attaching
  <2>3. /\ t.stage \in Attaching => t.human \in Humans /\ KeptWith(i, t.human, m)
        /\ t.stage \in {"card", "insertCard", "done"} => LeadsTo(t, i.serial, t.human, m, hold)
        /\ t.stage = "done" => LeadsTo(t, i.card, t.human, m, hold)
        /\ t.stage = "insertSerial" => i.serial # Absent /\ i.serial \notin DOMAIN t.claims
        /\ t.stage = "insertCard" => i.card # Absent /\ i.card \notin DOMAIN t.claims
    BY DEF Pending, InHand
  <2> HIDE DEF i
  <2>4. /\ t.stage \in Attaching => t.human \in Humans /\ KeptWith(i, t.human, m2)
        /\ t.stage \in {"card", "insertCard", "done"} => LeadsTo(t, i.serial, t.human, m2, hold2)
        /\ t.stage = "done" => LeadsTo(t, i.card, t.human, m2, hold2)
    BY <1>3, <1>4, <1>5, <2>1, <2>2, <2>3
  <2>5. QED
    BY <2>3, <2>4 DEF InHand, i
<1>9. QED
  BY <1>6, <1>7, <1>8 DEF Pending

\* What a transaction that commits has to write.
LEMMA ReadyToWrite ==
    ASSUME RegistryInv, NEW c \in Clerks, saving[c].stage = "done", NEW e \in DOMAIN Writes(c)
    PROVE  LET i == Writes(c)[e].item
               p == Writes(c)[e].human
           IN  /\ i \in Item /\ p \in Humans /\ i.row = e /\ e \in RowsOf(saving[c])
               /\ AsRead(i, mergedInto, entries, overwritten) /\ KeptWith(i, p, mergedInto)
               /\ LeadsTo(saving[c], i.serial, p, mergedInto, holder)
               /\ LeadsTo(saving[c], i.card, p, mergedInto, holder)
<1>1. /\ saving[c] \in SaveRow /\ saving[c].todo \in Seq(Item) /\ saving[c].todo # <<>>
      /\ Current(c) \in Item /\ AsRead(Current(c), mergedInto, entries, overwritten)
      /\ Pending(saving[c], mergedInto, holder, entries, overwritten)
  BY InTransaction
<1>2. CASE e = Current(c).row
  <2>1. Writes(c)[e] = [item |-> Current(c), human |-> saving[c].human]
    BY <1>2 DEF Writes
  <2>2. Writes(c)[e].item = Current(c) /\ Writes(c)[e].human = saving[c].human
    BY <2>1
  <2>3. /\ saving[c].human \in Humans /\ KeptWith(Current(c), saving[c].human, mergedInto)
        /\ LeadsTo(saving[c], Current(c).serial, saving[c].human, mergedInto, holder)
        /\ LeadsTo(saving[c], Current(c).card, saving[c].human, mergedInto, holder)
    BY <1>1 DEF Pending, InHand, Attaching, Current
  <2>4. e \in RowsOf(saving[c])
    BY <1>1, <1>2 DEF RowsOf, Current
  <2>5. QED
    BY <1>1, <1>2, <2>2, <2>3, <2>4
<1>3. CASE e # Current(c).row
  <2>1. e \in DOMAIN saving[c].written /\ Writes(c)[e] = saving[c].written[e]
    BY <1>3 DEF Writes
  <2>2. WrittenWell(saving[c], e, mergedInto, holder, entries, overwritten)
    BY <1>1, <2>1 DEF Pending
  <2>3. saving[c].written[e] \in WrittenRow
    <3>1. saving[c].written \in UNION {[R -> WrittenRow] : R \in SUBSET EntryRows}
      BY <1>1 DEF SaveRow
    <3>2. PICK R \in SUBSET EntryRows : saving[c].written \in [R -> WrittenRow]
      BY <3>1
    <3>3. QED
      BY <2>1, <3>2
  <2>4. QED
    BY <2>1, <2>2, <2>3 DEF WrittenWell, WrittenRow, RowsOf
<1>4. QED
  BY <1>2, <1>3

LEMMA SavedRow ==
    ASSUME NEW i \in Item, NEW p \in Humans, NEW x \in Entry
    PROVE  /\ Saved(i, p, x) \in Entry /\ Saved(i, p, x).human = (IF p = i.read.human THEN x.human ELSE p)
           /\ \A k \in NumbersOf(Saved(i, p, x)) :
                 \/ k \in NumbersOf(x)
                 \/ k # Absent /\ k \in Identifiers /\ (k = i.serial \/ k = i.card)
<1> DEFINE s == IF i.serial \in {Absent, i.read.serial} THEN x.serial ELSE i.serial
           cs == x.cards \cup ({i.card} \ {Absent})
           h == IF p = i.read.human THEN x.human ELSE p
<1>1. /\ x.human \in Humans \cup {Absent} /\ x.serial \in Serials \cup {Absent} /\ x.cards \in SUBSET Cards
      /\ i.serial \in Serials \cup {Absent} /\ i.card \in Cards \cup {Absent}
  BY DEF Entry, Item
<1>2. s \in Serials \cup {Absent} /\ cs \in SUBSET Cards /\ h \in Humans \cup {Absent}
  BY <1>1
<1>3. Saved(i, p, x) = [there |-> TRUE, serial |-> s, cards |-> cs, human |-> h]
  BY DEF Saved
<1>4. \A k \in ({s} \ {Absent}) \cup cs : \/ k \in NumbersOf(x)
                                          \/ k # Absent /\ k \in Identifiers /\ (k = i.serial \/ k = i.card)
  BY <1>1 DEF NumbersOf, Identifiers
<1> HIDE DEF s, cs, h
<1>5. Saved(i, p, x) \in Entry
  BY <1>2, <1>3 DEF Entry
<1>6. Saved(i, p, x).human = h /\ NumbersOf(Saved(i, p, x)) = ({s} \ {Absent}) \cup cs
  BY <1>3 DEF NumbersOf
<1>7. QED
  BY <1>4, <1>5, <1>6 DEF h

-----------------------------------------------------------------------------
(* Commit *)

LEMMA CommitKeeps ==
    ASSUME RegistryInv, NEW c \in Clerks, CommitSave(c)
    PROVE  RegistryInv'
<1> DEFINE w == Writes(c)
           m == mergedInto
<1>1. /\ saving[c].stage = "done" /\ saving[c].stage # "none"
      /\ entries' = [e \in EntryRows |->
            IF e \in DOMAIN w THEN Saved(w[e].item, w[e].human, entries[e]) ELSE entries[e]]
      /\ holder' = [k \in Identifiers |->
            IF k \in DOMAIN saving[c].claims THEN saving[c].claims[k] ELSE holder[k]]
      /\ overwritten' = overwritten \cup
            {f \in ProfileRows \cap DOMAIN w :
                /\ entries[f].human # w[f].item.read.human /\ w[f].human # w[f].item.read.human
                /\ Survivor(entries[f].human) # Survivor(w[f].human)}
      /\ saving' = [saving EXCEPT ![c] = NoSave] /\ mergedInto' = m /\ identities' = identities
  BY DEF CommitSave, AtStage, Step
<1>2. /\ mergedInto \in Aliases /\ identities \subseteq Humans /\ saving \in [Clerks -> SaveRow]
      /\ holder \in [Identifiers -> Humans \cup {Absent}]
      /\ entries \in [EntryRows -> Entry] /\ overwritten \subseteq ProfileRows
  BY DEF RegistryInv, RegistryTyping
<1>3. ASSUME NEW e \in DOMAIN w
      PROVE  /\ w[e].item \in Item /\ w[e].human \in Humans /\ w[e].item.row = e /\ e \in RowsOf(saving[c])
             /\ AsRead(w[e].item, m, entries, overwritten) /\ KeptWith(w[e].item, w[e].human, m)
             /\ LeadsTo(saving[c], w[e].item.serial, w[e].human, m, holder)
             /\ LeadsTo(saving[c], w[e].item.card, w[e].human, m, holder)
  BY <1>1, ReadyToWrite
<1> HIDE DEF w
<1>4. \A k \in Identifiers : holder'[k] = Found(saving[c], k, holder)
  BY <1>1 DEF Found
<1>5. \A k \in Identifiers : holder[k] # Absent => holder'[k] = holder[k]
  BY <1>1 DEF RegistryInv, Unclaimed
<1>6. \A k \in DOMAIN saving[c].claims : saving[c].claims[k] \in Humans
  BY <1>1, InTransaction
<1>7. holder' \in [Identifiers -> Humans \cup {Absent}]
  BY <1>1, <1>2, <1>6
<1>8. Absent \notin Humans /\ Absent \notin Identifiers /\ SubjectRows \cap ProfileRows = {}
  BY RegistryAssumption DEF Identifiers
<1>9. overwritten \subseteq overwritten' /\ overwritten' \subseteq ProfileRows
  BY <1>1, <1>2
\* A row that is written gets a person, unless it is overwritten the one it had, and the one in hand.
<1>10. ASSUME NEW e \in DOMAIN w
       PROVE  /\ e \in EntryRows /\ entries'[e] \in Entry /\ entries'[e].human # Absent
              /\ entries[e].human # Absent /\ e \notin overwritten'
                    => Same(m, entries'[e].human, entries[e].human)
              /\ e \notin overwritten' => Same(m, entries'[e].human, w[e].human)
              /\ \A k \in NumbersOf(entries'[e]) :
                    \/ k \in NumbersOf(entries[e])
                    \/ k \in Identifiers /\ k # Absent /\ (k = w[e].item.serial \/ k = w[e].item.card)
  <2> DEFINE i == w[e].item
             p == w[e].human
             x == entries[e]
             y == entries'[e]
  <2>1. /\ i \in Item /\ p \in Humans /\ i.row = e /\ AsRead(i, m, entries, overwritten) /\ KeptWith(i, p, m)
    BY <1>3
  <2>2. e \in EntryRows /\ x \in Entry
    <3>1. e \in EntryRows
      BY <2>1 DEF Item
    <3>2. QED
      BY <1>2, <3>1
  <2>3. y = Saved(i, p, x)
    BY <1>1, <2>2
  <2>4. e \in overwritten \/ e \notin ProfileRows \/ x.human = i.read.human \/ p = i.read.human
        \/ Survivor(x.human) = Survivor(p) \/ e \in overwritten'
    BY <1>1
  <2>5. Survivor(x.human) = Survivor(p) => Same(m, x.human, p)
    BY DEF Survivor, Same, SurvivorIn
  <2>6. e \in ProfileRows \/ e \in SubjectRows
    BY <2>2 DEF EntryRows
  <2>7. /\ i.read.human # Absent => x.human # Absent /\ (e \notin overwritten => Same(m, x.human, i.read.human))
        /\ e \in SubjectRows /\ i.read.human = Absent => x.human = Absent
        /\ i.read.human # Absent => Same(m, i.read.human, p)
    BY <2>1 DEF AsRead, KeptWith
  <2> HIDE DEF i, p, x, y
  <2>8. /\ y \in Entry /\ y.human = (IF p = i.read.human THEN x.human ELSE p)
        /\ \A k \in NumbersOf(y) : k \in NumbersOf(x) \/ (k # Absent /\ k \in Identifiers /\ (k = i.serial \/ k = i.card))
    BY <2>1, <2>2, <2>3, SavedRow
  <2>9. y.human # Absent
    BY <1>8, <2>1, <2>7, <2>8
  <2>10. e \notin overwritten' => Same(m, y.human, p)
    BY <1>8, <1>9, <2>1, <2>7, <2>8 DEF Same
  <2>11. x.human # Absent /\ e \notin overwritten' => Same(m, x.human, p)
    BY <1>8, <1>9, <2>1, <2>4, <2>5, <2>6, <2>7 DEF Same
  <2>12. x.human # Absent /\ e \notin overwritten' => Same(m, y.human, x.human)
    BY <2>10, <2>11 DEF Same
  <2>13. QED
    BY <2>2, <2>8, <2>9, <2>10, <2>12 DEF i, p, x, y
<1>11. \A e \in EntryRows : e \notin DOMAIN w => entries'[e] = entries[e]
  BY <1>1
<1>12. RegistryTyping'
  <2>1. \A e \in EntryRows : entries'[e] \in Entry
    BY <1>2, <1>10, <1>11
  <2>2. entries' \in [EntryRows -> Entry]
    BY <1>1, <2>1
  <2>3. saving' \in [Clerks -> SaveRow]
    BY <1>1, <1>2, NoSaveRow
  <2>4. QED
    BY <1>1, <1>2, <1>7, <1>9, <2>2, <2>3 DEF RegistryTyping
<1>13. Standing(m, holder', entries', overwritten')
  <2> SUFFICES ASSUME NEW e \in EntryRows
               PROVE  /\ entries'[e].human = Absent => NumbersOf(entries'[e]) = {}
                      /\ e \notin overwritten' => WellHeld(entries'[e], m, holder')
    BY DEF Standing
  <2>1. /\ entries[e].human = Absent => NumbersOf(entries[e]) = {}
        /\ e \notin overwritten => WellHeld(entries[e], m, holder)
    BY DEF RegistryInv, Standing
  <2>2. NumbersOf(entries[e]) \subseteq Identifiers
    BY <1>2 DEF NumbersOf, Entry, Identifiers
  <2>3. CASE e \notin DOMAIN w
    BY <1>5, <1>9, <1>11, <2>1, <2>2, <2>3 DEF WellHeld
  <2>4. CASE e \in DOMAIN w
    <3>1. entries'[e].human # Absent
      BY <1>10, <2>4
    <3>2. ASSUME e \notin overwritten', NEW k \in NumbersOf(entries'[e])
          PROVE  holder'[k] # Absent /\ Same(m, holder'[k], entries'[e].human)
      <4>1. Same(m, entries'[e].human, w[e].human)
        BY <1>10, <2>4, <3>2
      <4>2. CASE k \in NumbersOf(entries[e])
        <5>1. holder[k] # Absent /\ Same(m, holder[k], entries[e].human) /\ entries[e].human # Absent
          BY <1>9, <2>1, <3>2, <4>2 DEF WellHeld
        <5>2. holder'[k] = holder[k] /\ Same(m, entries'[e].human, entries[e].human)
          BY <1>5, <1>10, <2>2, <2>4, <3>2, <4>2, <5>1
        <5>3. QED
          BY <5>1, <5>2 DEF Same
      <4>3. CASE k \in Identifiers /\ k # Absent /\ (k = w[e].item.serial \/ k = w[e].item.card)
        <5>1. LeadsTo(saving[c], k, w[e].human, m, holder)
          BY <1>3, <2>4, <4>3
        <5>2. holder'[k] \in Humans /\ Same(m, holder'[k], w[e].human)
          BY <1>4, <4>3, <5>1 DEF LeadsTo
        <5>3. QED
          BY <1>8, <4>1, <5>2 DEF Same
      <4>4. QED
        BY <1>10, <2>4, <4>2, <4>3
    <3>3. QED
      BY <3>1, <3>2 DEF WellHeld
  <2>5. QED
    BY <2>3, <2>4
<1>14. saving'[c] = NoSave /\ \A d \in Clerks \ {c} : saving'[d] = saving[d]
  BY <1>1, <1>2
<1>15. ASSUME NEW d \in Clerks \ {c}
       PROVE  Pending(saving[d], m, holder', entries', overwritten') /\ Unclaimed(saving[d], holder')
  <2> DEFINE t == saving[d]
  <2>1. /\ t \in SaveRow /\ Pending(t, m, holder, entries, overwritten) /\ Unclaimed(t, holder)
        /\ SetApart(saving[c], t)
    BY <1>2 DEF RegistryInv
  <2> HIDE DEF t
  <2>2. DOMAIN t.claims \subseteq Identifiers
    <3>1. t.claims \in UNION {[K -> Humans] : K \in SUBSET Identifiers}
      BY <2>1 DEF SaveRow
    <3>2. PICK K \in SUBSET Identifiers : t.claims \in [K -> Humans]
      BY <3>1
    <3>3. QED
      BY <3>2
  <2>3. ASSUME NEW i \in Item, i.row \in RowsOf(t), AsRead(i, m, entries, overwritten)
        PROVE  AsRead(i, m, entries', overwritten')
    <3>1. i.row \in EntryRows
      BY DEF Item
    <3>2. CASE i.row \notin DOMAIN w
      BY <1>9, <1>11, <2>3, <3>1, <3>2 DEF AsRead
    <3>3. CASE i.row \in DOMAIN w
      <4>1. i.row \notin SubjectRows
        BY <1>3, <2>1, <2>3, <3>3 DEF SetApart
      <4>2. /\ entries'[i.row].human # Absent
            /\ entries[i.row].human # Absent /\ i.row \notin overwritten'
                  => Same(m, entries'[i.row].human, entries[i.row].human)
        BY <1>10, <3>3
      <4>3. QED
        BY <1>9, <2>3, <4>1, <4>2 DEF AsRead, Same
    <3>4. QED
      BY <3>2, <3>3
  <2>4. \A k \in Identifiers, p \in Humans : LeadsTo(t, k, p, m, holder) => LeadsTo(t, k, p, m, holder')
    BY <1>5, <1>8 DEF LeadsTo, Found
  <2>5. Pending(t, m, holder', entries', overwritten')
    BY <2>1, <2>3, <2>4, OthersGoOn
  <2>6. Unclaimed(t, holder')
    BY <1>1, <2>1, <2>2 DEF Unclaimed, SetApart
  <2>7. QED
    BY <2>5, <2>6 DEF t
<1>16. \A d \in Clerks : /\ Pending(saving'[d], m, holder', entries', overwritten')
                         /\ Unclaimed(saving'[d], holder')
  BY <1>14, <1>15, NothingPending
<1>17. \A d, f \in Clerks : d # f => SetApart(saving'[d], saving'[f])
  BY <1>14, NoSaveRow DEF RegistryInv, SetApart
<1>18. QED
  BY <1>1, <1>12, <1>13, <1>16, <1>17 DEF RegistryInv

LEMMA AbandonKeeps ==
    ASSUME RegistryInv, NEW c \in Clerks, Abandon(c)
    PROVE  RegistryInv'
<1>1. /\ saving' = [saving EXCEPT ![c] = NoSave] /\ UNCHANGED <<mergedInto, holder, entries, overwritten>>
      /\ identities' \subseteq Humans
  BY DEF Abandon, Step, RegistryInv, RegistryTyping
<1>2. \A d \in Clerks : SetApart(NoSave, saving[d])
  BY NoSaveRow DEF SetApart
<1>3. QED
  BY <1>1, <1>2, NothingPending, NoSaveRow, OwnStep

-----------------------------------------------------------------------------
(* Merges *)

LEMMA MergeKeeps ==
    ASSUME RegistryInv, NEW a \in Humans, NEW b \in Humans, MergeHumans(a, b)
    PROVE  RegistryInv'
<1> DEFINE m == mergedInto
           n == [mergedInto EXCEPT ![a] = b]
           Moved(p) == IF p = a THEN b ELSE p
<1>1. /\ a # b /\ Root(m, a) /\ Root(m, b) /\ Cardinality(MergedOnes(m)) < AliasHops
      /\ mergedInto' = n /\ identities' = identities /\ saving' = saving /\ overwritten' = overwritten
      /\ holder' = [k \in Identifiers |-> Moved(holder[k])]
      /\ entries' = [e \in EntryRows |-> [entries[e] EXCEPT !.human = Moved(@)]]
  BY DEF MergeHumans, Root, MergedOnes
<1>2. /\ m \in Aliases /\ WalksEnd(m) /\ identities \subseteq Humans /\ saving \in [Clerks -> SaveRow]
      /\ holder \in [Identifiers -> Humans \cup {Absent}]
      /\ entries \in [EntryRows -> Entry] /\ overwritten \subseteq ProfileRows
  BY DEF RegistryInv, RegistryTyping
<1>3. /\ n \in Aliases /\ WalksEnd(n)
      /\ \A p \in Humans : SurvivorIn(n, p) = Moved(SurvivorIn(m, p))
  <2>1. n \in Aliases /\ n[a] = b /\ \A p \in Humans \ {a} : n[p] = m[p]
    BY <1>2 DEF Aliases
  <2>2. /\ m \in Aliases /\ WalksEnd(m) /\ a # b /\ Root(m, a) /\ Root(m, b)
        /\ Cardinality(MergedOnes(m)) < AliasHops
    BY <1>1, <1>2
  <2> HIDE DEF m, n
  <2>3. QED
    BY <2>1, <2>2, SurvivorsAfterMerge
<1>4. Absent \notin Humans /\ \A p \in Humans : Moved(p) \in Humans
  BY RegistryAssumption
<1>5. Moved(Absent) = Absent
  BY <1>4
<1>6. SurvivorIn(m, a) = a /\ SurvivorIn(m, b) = b
  BY <1>1, <1>2, RootSurvives
<1>7. SurvivorIn(n, a) = b /\ SurvivorIn(n, b) = b
  BY <1>3, <1>6
<1> HIDE DEF m, n
<1>8. \A p, q \in Humans : Same(m, p, q) => Same(n, p, q)
  BY <1>3 DEF Same
<1>9. \A p, q \in Humans : Same(n, p, q) => Same(n, Moved(p), q)
  BY <1>7 DEF Same
<1> HIDE DEF Moved
<1>10. ASSUME NEW e \in EntryRows
       PROVE  /\ entries'[e] \in Entry /\ entries'[e].human = Moved(entries[e].human)
              /\ NumbersOf(entries'[e]) = NumbersOf(entries[e])
              /\ entries[e].human \in Humans \cup {Absent}
              /\ NumbersOf(entries[e]) \subseteq Identifiers
  <2> DEFINE x == entries[e]
             h == Moved(x.human)
  <2>1. x \in Entry /\ x.human \in Humans \cup {Absent} /\ x.serial \in Serials \cup {Absent} /\ x.cards \subseteq Cards
    BY <1>2 DEF Entry
  <2>2. h \in Humans \cup {Absent} /\ entries'[e] = [x EXCEPT !.human = h]
    BY <1>1, <1>4, <1>5, <2>1
  <2> HIDE DEF x, h
  <2>3. [x EXCEPT !.human = h] \in Entry
    BY <2>1, <2>2 DEF Entry
  <2>4. [x EXCEPT !.human = h].human = h /\ NumbersOf([x EXCEPT !.human = h]) = NumbersOf(x)
    BY <2>1 DEF Entry, NumbersOf
  <2>5. NumbersOf(x) \subseteq Identifiers
    BY <2>1 DEF NumbersOf, Identifiers
  <2>6. QED
    BY <2>1, <2>2, <2>3, <2>4, <2>5 DEF x, h
<1>11. \A k \in Identifiers : /\ holder[k] \in Humans \cup {Absent} /\ holder'[k] = Moved(holder[k])
                              /\ holder'[k] \in Humans \cup {Absent}
  BY <1>1, <1>2, <1>4, <1>5
<1>12. RegistryTyping'
  <2>1. holder' \in [Identifiers -> Humans \cup {Absent}]
    BY <1>1, <1>11
  <2>2. entries' \in [EntryRows -> Entry]
    BY <1>1, <1>10
  <2>3. QED
    BY <1>1, <1>2, <1>3, <2>1, <2>2 DEF RegistryTyping
<1>13. Standing(n, holder', entries', overwritten)
  <2> SUFFICES ASSUME NEW e \in EntryRows
               PROVE  /\ entries'[e].human = Absent => NumbersOf(entries'[e]) = {}
                      /\ e \notin overwritten => WellHeld(entries'[e], n, holder')
    BY DEF Standing
  <2>1. /\ entries[e].human = Absent => NumbersOf(entries[e]) = {}
        /\ e \notin overwritten => WellHeld(entries[e], m, holder)
    BY <1>2 DEF RegistryInv, Standing, m
  <2>2. entries'[e].human = Absent => entries[e].human = Absent
    BY <1>4, <1>10
  <2>3. ASSUME e \notin overwritten, NEW k \in NumbersOf(entries[e])
        PROVE  holder'[k] # Absent /\ Same(n, holder'[k], entries'[e].human)
    <3>1. k \in Identifiers /\ holder[k] # Absent /\ Same(m, holder[k], entries[e].human)
      BY <1>10, <2>1, <2>3 DEF WellHeld
    <3>2. entries[e].human \in Humans /\ holder[k] \in Humans
      BY <1>10, <1>11, <2>1, <2>3, <3>1
    <3>3. Same(n, holder[k], entries[e].human)
      BY <1>8, <3>1, <3>2
    <3>4. Same(n, Moved(holder[k]), entries[e].human)
      BY <1>9, <3>2, <3>3
    <3>5. Same(n, Moved(entries[e].human), Moved(holder[k]))
      BY <1>4, <1>9, <3>2, <3>4 DEF Same
    <3>6. QED
      BY <1>4, <1>10, <1>11, <3>1, <3>2, <3>5 DEF Same
  <2>4. QED
    BY <1>10, <2>1, <2>2, <2>3 DEF WellHeld
<1>14. ASSUME NEW c \in Clerks
       PROVE  Pending(saving[c], n, holder', entries', overwritten) /\ Unclaimed(saving[c], holder')
  <2> DEFINE t == saving[c]
  <2>1. t \in SaveRow /\ Pending(t, m, holder, entries, overwritten) /\ Unclaimed(t, holder)
    BY <1>2 DEF RegistryInv, m
  <2>2. DOMAIN t.claims \subseteq Identifiers /\ \A k \in DOMAIN t.claims : t.claims[k] \in Humans
    <3>1. t.claims \in UNION {[K -> Humans] : K \in SUBSET Identifiers}
      BY <2>1 DEF SaveRow
    <3>2. PICK K \in SUBSET Identifiers : t.claims \in [K -> Humans]
      BY <3>1
    <3>3. QED
      BY <3>2
  <2> HIDE DEF t
  <2>3. ASSUME NEW i \in Item, i.row \in RowsOf(t), AsRead(i, m, entries, overwritten)
        PROVE  AsRead(i, n, entries', overwritten)
    <3>1. i.row \in EntryRows /\ i.read.human \in Humans \cup {Absent}
      BY DEF Item, Entry
    <3> DEFINE h == entries[i.row].human
               g == entries'[i.row].human
    <3>2. g = Moved(h) /\ h \in Humans \cup {Absent}
      BY <1>10, <3>1
    <3>3. h = Absent => g = Absent
      BY <1>5, <3>2
    <3>4. h # Absent => g \in Humans /\ g # Absent /\ \A q \in Humans : Same(m, h, q) => Same(n, g, q)
      BY <1>4, <1>8, <1>9, <3>2
    <3>5. QED
      BY <2>3, <3>1, <3>3, <3>4 DEF AsRead
  <2>4. ASSUME NEW k \in Identifiers, NEW p \in Humans, LeadsTo(t, k, p, m, holder)
        PROVE  LeadsTo(t, k, p, n, holder')
    <3> SUFFICES ASSUME k # Absent
                 PROVE  Found(t, k, holder') \in Humans /\ Same(n, Found(t, k, holder'), p)
      BY DEF LeadsTo
    <3>1. Found(t, k, holder) \in Humans /\ Same(n, Found(t, k, holder), p)
      BY <1>8, <2>4 DEF LeadsTo
    <3>2. Found(t, k, holder') \in {Found(t, k, holder), Moved(Found(t, k, holder))}
      BY <1>11 DEF Found
    <3>3. QED
      BY <1>4, <1>9, <3>1, <3>2
  <2>5. Pending(t, n, holder', entries', overwritten)
    BY <1>8, <2>1, <2>3, <2>4, OthersGoOn
  <2>6. Unclaimed(t, holder')
    BY <1>5, <1>11, <2>1, <2>2 DEF Unclaimed
  <2>7. QED
    BY <2>5, <2>6 DEF t
<1>15. \A c, d \in Clerks : c # d => SetApart(saving[c], saving[d])
  BY DEF RegistryInv
<1>16. QED
  BY <1>1, <1>3, <1>12, <1>13, <1>14, <1>15 DEF RegistryInv

-----------------------------------------------------------------------------
LEMMA RegistryStep == RegistryInv /\ [RegistryNext]_registryVars => RegistryInv'
<1> SUFFICES ASSUME RegistryInv, [RegistryNext]_registryVars PROVE RegistryInv'
  OBVIOUS
<1>1. ASSUME NEW c \in Clerks, ClerkSteps(c)
      PROVE  RegistryInv'
  BY <1>1, SaveBegins, LockSerialKeeps, ResolveKeeps, LookUpKeeps, InsertKeeps, FinishKeeps, CommitKeeps,
     AbandonKeeps DEF ClerkSteps
<1>2. ASSUME NEW a \in Humans, NEW b \in Humans, MergeHumans(a, b)
      PROVE  RegistryInv'
  BY <1>2, MergeKeeps
<1>3. CASE UNCHANGED registryVars
  BY <1>3 DEF registryVars, RegistryInv, RegistryTyping
<1>4. QED
  BY <1>1, <1>2, <1>3 DEF RegistryNext

\* For any number of persons, requests and rows, up to as many merges as an alias may have hops
\* (person_identity.py:11): whatever is saved and merged at the same time, a number in a row
\* is held by the person of that row, but in a profile whose person was replaced unread.
THEOREM NumbersLeadToPersons == RegistrySpec => []NumbersLeadHome
<1>1. RegistryInv => NumbersLeadHome
  <2> SUFFICES ASSUME RegistryInv, NEW e \in EntryRows \ overwritten,
                      NEW k \in ({entries[e].serial} \ {Absent}) \cup entries[e].cards
               PROVE  holder[k] # Absent /\ Survivor(holder[k]) = Survivor(entries[e].human)
    BY DEF NumbersLeadHome
  <2>1. WellHeld(entries[e], mergedInto, holder)
    BY DEF RegistryInv, Standing
  <2>2. holder[k] # Absent /\ Same(mergedInto, holder[k], entries[e].human)
    BY <2>1 DEF WellHeld, NumbersOf
  <2>3. QED
    BY <2>2 DEF Same, Survivor, SurvivorIn
<1>2. QED
  BY <1>1, RegistryInitInv, RegistryStep, PTL DEF RegistrySpec

-----------------------------------------------------------------------------
(* Whom rows and numbers refer to *)

\* The persons that no open transaction has created: they stay, whatever fails.
SettledIn(ids, all) == ids \ UNION {all[c].made : c \in Clerks}
Settled == SettledIn(identities, saving)

\* What a transaction refers to is settled, or its own.
Refers(t, S) ==
    /\ Len(t.todo) <= MaxItems
    /\ \A n \in DOMAIN t.todo : t.todo[n].read.human \in S \cup {Absent} /\ t.todo[n].chosen \in S \cup {Absent}
    /\ t.human \in S \cup t.made \cup {Absent}
    /\ \A k \in DOMAIN t.claims : t.claims[k] \in S \cup t.made
    /\ \A x \in DOMAIN t.written : t.written[x].human \in S \cup t.made

\* What is committed refers to persons who are settled, and who were left by no request that failed.
CommittedRefers(merged, hold, ent, S) ==
    /\ \A p \in Humans : merged[p] \in S \cup {Absent}
    /\ \A k \in Identifiers : hold[k] \in S \cup {Absent}
    /\ \A e \in EntryRows : ent[e].human \in S \cup {Absent}

ReferencesStand ==
    /\ CommittedRefers(mergedInto, holder, entries, Settled)
    /\ \A c \in Clerks : saving[c].made \subseteq identities /\ Refers(saving[c], Settled)
    /\ \A c, d \in Clerks : c # d => saving[c].made \cap saving[d].made = {}

LEMMA NoSaveRefers == \A S : Refers(NoSave, S) /\ NoSave.made = {}
<1>1. MaxItems \in Nat
  BY RegistryAssumption
<1>2. /\ NoSave.todo = <<>> /\ NoSave.human = Absent /\ NoSave.claims = <<>> /\ NoSave.written = <<>>
      /\ NoSave.made = {} /\ DOMAIN NoSave.todo = {} /\ DOMAIN NoSave.claims = {} /\ DOMAIN NoSave.written = {}
      /\ Len(NoSave.todo) = 0
  BY DEF NoSave
<1>3. QED
  BY <1>1, <1>2 DEF Refers

LEMMA ReferencesInit == RegistryInit => ReferencesStand
<1> SUFFICES ASSUME RegistryInit PROVE ReferencesStand
  OBVIOUS
<1>1. \A e \in EntryRows : entries[e].human = Absent
  <2>1. PICK seeded \in SUBSET ProfileRows : entries = [e \in EntryRows |-> [NoEntry EXCEPT !.there = e \in seeded]]
    BY DEF RegistryInit
  <2>2. QED
    BY <2>1 DEF NoEntry
<1>2. \A p \in Humans : mergedInto[p] = Absent
  BY DEF RegistryInit
<1>3. \A k \in Identifiers : holder[k] = Absent
  BY DEF RegistryInit
<1>4. \A c \in Clerks : saving[c] = NoSave
  BY DEF RegistryInit
<1>5. QED
  BY <1>1, <1>2, <1>3, <1>4, NoSaveRefers DEF ReferencesStand, CommittedRefers

\* Whoever is settled, and whoever is one's own, leads to such a person.
LEMMA SurvivorKnown ==
    ASSUME NEW S \in SUBSET Humans, \A p \in S : mergedInto[p] \in S \cup {Absent}, NEW p \in S
    PROVE  Survivor(p) \in S
<1>0. AliasHops \in Nat /\ Absent \notin Humans
  BY RegistryAssumption
<1> DEFINE at == Hops(mergedInto, p)
           Good == {n \in 0..AliasHops : at[n] \in S}
<1>1. at[0] = p /\ \A n \in 1..AliasHops : at[n] = OnceMore(mergedInto, at[n - 1])
  BY HopByHop
<1> HIDE DEF at
<1>2. 0 \in Good
  BY <1>0, <1>1
<1>3. \A n \in 1..AliasHops : n - 1 \in Good => n \in Good
  BY <1>0, <1>1 DEF OnceMore
<1> HIDE DEF Good
<1>4. \A n \in 0..AliasHops : n \in Good
  BY <1>0, <1>2, <1>3, CountingUp
<1>5. AliasHops \in 0..AliasHops
  BY <1>0
<1>6. QED
  BY <1>4, <1>5 DEF Good, at, Survivor

\* What a request may come upon is what it knows.
LEMMA WhatIsKnown ==
    ASSUME RegistryInv, ReferencesStand, NEW c \in Clerks
    PROVE  LET Own == Settled \cup saving[c].made
           IN  /\ Own \subseteq identities
               /\ \A p \in Own : Survivor(p) \in Own
               /\ \A k \in Identifiers : FindIdentifier(c, k) \in Own \cup {Absent}
<1> DEFINE Own == Settled \cup saving[c].made
<1>1. Own \subseteq identities /\ Own \subseteq Humans /\ Settled \subseteq Own
  BY DEF ReferencesStand, Settled, SettledIn, RegistryInv, RegistryTyping
<1>2. \A p \in Own : mergedInto[p] \in Own \cup {Absent}
  BY <1>1 DEF ReferencesStand, CommittedRefers
<1>3. \A k \in Identifiers : FindIdentifier(c, k) \in Own \cup {Absent}
  BY DEF ReferencesStand, CommittedRefers, Refers, FindIdentifier
<1> HIDE DEF Own
<1>4. \A p \in Own : Survivor(p) \in Own
  BY <1>1, <1>2, SurvivorKnown
<1>5. QED
  BY <1>1, <1>3, <1>4 DEF Own

LEMMA RefersMore == ASSUME NEW t, NEW S, NEW R, S \subseteq R, Refers(t, S) PROVE Refers(t, R)
BY DEF Refers

\* A step of one request, which leaves the settled persons settled.
LEMMA OneRefers ==
    ASSUME RegistryInv, ReferencesStand, NEW c \in Clerks, NEW t, saving' = [saving EXCEPT ![c] = t],
           CommittedRefers(mergedInto', holder', entries', Settled'), Settled \subseteq Settled',
           Refers(t, Settled'), t.made \subseteq identities',
           \A d \in Clerks \ {c} : t.made \cap saving[d].made = {} /\ saving[d].made \subseteq identities'
    PROVE  ReferencesStand'
<1>1. saving \in [Clerks -> SaveRow]
  BY DEF RegistryInv, RegistryTyping
<1>2. saving'[c] = t /\ \A d \in Clerks \ {c} : saving'[d] = saving[d]
  BY <1>1
<1>3. ASSUME NEW d \in Clerks
      PROVE  saving'[d].made \subseteq identities' /\ Refers(saving'[d], Settled')
  <2>1. CASE d = c
    BY <1>2, <2>1
  <2>2. CASE d # c
    BY <1>2, <2>2, RefersMore DEF ReferencesStand
  <2>3. QED
    BY <2>1, <2>2
<1>4. ASSUME NEW d \in Clerks, NEW f \in Clerks, d # f
      PROVE  saving'[d].made \cap saving'[f].made = {}
  BY <1>2, <1>4 DEF ReferencesStand
<1>5. QED
  BY <1>3, <1>4 DEF ReferencesStand

\* A step of one request that creates nobody.
LEMMA OwnRefers ==
    ASSUME RegistryInv, ReferencesStand, NEW c \in Clerks, NEW t, Step(c, t),
           UNCHANGED <<mergedInto, identities, holder, entries>>, t.made = saving[c].made, Refers(t, Settled)
    PROVE  ReferencesStand'
<1>1. saving \in [Clerks -> SaveRow]
  BY DEF RegistryInv, RegistryTyping
<1>2. saving' = [saving EXCEPT ![c] = t]
  BY DEF Step
<1>3. \A d \in Clerks : saving'[d].made = saving[d].made
  BY <1>1, <1>2
<1>4. Settled' = Settled
  <2>1. UNION {saving'[d].made : d \in Clerks} = UNION {saving[d].made : d \in Clerks}
    BY <1>3
  <2>2. QED
    BY <2>1 DEF Settled, SettledIn
<1>5. CommittedRefers(mergedInto', holder', entries', Settled')
  BY <1>4 DEF ReferencesStand
<1>6. \A d \in Clerks \ {c} : t.made \cap saving[d].made = {} /\ saving[d].made \subseteq identities'
  BY DEF ReferencesStand
<1>7. t.made \subseteq identities'
  BY DEF ReferencesStand
<1>8. QED
  BY <1>2, <1>4, <1>5, <1>6, <1>7, OneRefers

\* The person of a row that is read, and whoever the operator may choose, is settled.
LEMMA BeginRefers ==
    ASSUME RegistryInv, ReferencesStand, NEW c \in Clerks, saving[c].stage = "none", saving[c].made = {},
           SavePeople(c) \/ SaveUser(c)
    PROVE  ReferencesStand'
<1> DEFINE Read(i) == i.read.human \in Settled \cup {Absent} /\ i.chosen \in Settled \cup {Absent}
<1>0. MaxItems \in Nat \ {0}
  BY RegistryAssumption
<1>1. \A e \in EntryRows : entries[e].human \in Settled \cup {Absent}
  BY DEF ReferencesStand, CommittedRefers
<1>2. \A i \in SubjectItems : Read(i)
  <2>1. SubjectRows \subseteq EntryRows
    BY DEF EntryRows
  <2>2. (identities \ UNION {saving[d].made : d \in Clerks}) = Settled
    BY DEF Settled, SettledIn
  <2>3. QED
    BY <1>1, <2>1, <2>2 DEF SubjectItems
<1>3. \A f \in ProfileRows : Read(AssignedItem(f)) /\ \A s \in Serials : Read(ProfileItem(f, s))
  <2>1. ProfileRows \subseteq EntryRows
    BY DEF EntryRows
  <2>2. \A f \in ProfileRows : AssignedItem(f).read = entries[f] /\ AssignedItem(f).chosen = Absent
    BY DEF AssignedItem
  <2>3. \A f \in ProfileRows, s \in Serials :
            ProfileItem(f, s).read = entries[f] /\ ProfileItem(f, s).chosen = Absent
    BY DEF ProfileItem, AssignedItem
  <2>4. QED
    BY <1>1, <2>1, <2>2, <2>3
<1>4. ASSUME NEW items, Begin(c, items), Len(items) <= MaxItems, \A n \in DOMAIN items : Read(items[n])
      PROVE  ReferencesStand'
  <2> DEFINE t == [NoSave EXCEPT !.stage = "resolve", !.todo = items]
  <2>1. Step(c, t) /\ UNCHANGED <<mergedInto, identities, holder, entries>>
    BY <1>4 DEF Begin
  <2>2. /\ t.todo = items /\ t.human = Absent /\ t.claims = NoSave.claims /\ t.written = NoSave.written
        /\ t.made = {}
    BY DEF NoSave
  <2> HIDE DEF t
  <2>3. Refers(t, Settled)
    BY <1>4, <2>2, NoSaveRow DEF Refers
  <2>4. QED
    BY <2>1, <2>2, <2>3, OwnRefers
<1>5. CASE SavePeople(c)
  <2>1. PICK items \in {<<i>> : i \in SubjectItems} \cup {<<i, j>> : i, j \in SubjectItems}
                       \cup {<<AssignedItem(f), i>> : f \in {g \in ProfileRows : entries[g].there}, i \in SubjectItems} :
             Len(items) <= MaxItems /\ Begin(c, items)
    BY <1>5 DEF SavePeople
  <2>2. ASSUME NEW i, NEW j, Read(i), Read(j), items = <<i>> \/ items = <<i, j>>
        PROVE  \A n \in DOMAIN items : Read(items[n])
    <3>1. CASE items = <<i>>
      <4>1. \A n \in DOMAIN items : items[n] = i
        BY <3>1
      <4>2. QED
        BY <2>2, <4>1
    <3>2. CASE items = <<i, j>>
      <4>1. \A n \in DOMAIN items : items[n] = i \/ items[n] = j
        BY <3>2
      <4>2. QED
        BY <2>2, <4>1
    <3>3. QED
      BY <2>2, <3>1, <3>2
  <2> HIDE DEF Read
  <2>3. \A n \in DOMAIN items : Read(items[n])
    <3>1. CASE items \in {<<i>> : i \in SubjectItems}
      BY <1>2, <2>2, <3>1
    <3>2. CASE items \in {<<i, j>> : i, j \in SubjectItems}
      BY <1>2, <2>2, <3>2
    <3>3. CASE items \in {<<AssignedItem(f), i>> : f \in {g \in ProfileRows : entries[g].there}, i \in SubjectItems}
      <4>1. PICK f \in ProfileRows, i \in SubjectItems : items = <<AssignedItem(f), i>>
        BY <3>3
      <4>2. Read(AssignedItem(f)) /\ Read(i)
        BY <1>2, <1>3
      <4>3. QED
        BY <2>2, <4>1, <4>2
    <3>4. QED
      BY <2>1, <3>1, <3>2, <3>3
  <2>4. QED
    BY <1>4, <2>1, <2>3
<1>6. CASE SaveUser(c)
  <2>1. PICK f \in ProfileRows, s \in Serials : Begin(c, <<ProfileItem(f, s)>>)
    BY <1>6 DEF SaveUser
  <2>2. Read(ProfileItem(f, s))
    BY <1>3
  <2> DEFINE i == ProfileItem(f, s)
  <2> HIDE DEF i, Read
  <2>3. Len(<<i>>) <= MaxItems /\ \A n \in DOMAIN <<i>> : <<i>>[n] = i
    BY <1>0
  <2>4. QED
    BY <1>4, <2>1, <2>2, <2>3 DEF i
<1>7. QED
  BY <1>5, <1>6

LEMMA LockRefers ==
    ASSUME RegistryInv, ReferencesStand, NEW c \in Clerks, LockSerial(c)
    PROVE  ReferencesStand'
<1> DEFINE t == [saving[c] EXCEPT !.locks = @ \cup {Current(c).serial}]
<1>1. Step(c, t) /\ UNCHANGED <<mergedInto, identities, holder, entries>>
  BY DEF LockSerial
<1>2. saving[c] \in SaveRow
  BY DEF RegistryInv, RegistryTyping
<1>3. /\ t.todo = saving[c].todo /\ t.human = saving[c].human /\ t.claims = saving[c].claims
      /\ t.written = saving[c].written /\ t.made = saving[c].made
  BY <1>2 DEF SaveRow
<1> HIDE DEF t
<1>4. Refers(t, Settled)
  BY <1>3 DEF ReferencesStand, Refers
<1>5. QED
  BY <1>1, <1>3, <1>4, OwnRefers

LEMMA ResolveRefers ==
    ASSUME RegistryInv, ReferencesStand, NEW c \in Clerks, Resolve(c)
    PROVE  ReferencesStand'
<1> DEFINE i == Current(c)
           Own == Settled \cup saving[c].made
<1>1. saving[c].stage = "resolve" /\ UNCHANGED <<mergedInto, holder, entries>>
  BY DEF Resolve, AtStage
<1>2. saving[c] \in SaveRow /\ Absent \notin Humans /\ saving \in [Clerks -> SaveRow] /\ identities \subseteq Humans
  BY RegistryAssumption DEF RegistryInv, RegistryTyping
<1>3. i \in Item /\ 1 \in DOMAIN saving[c].todo /\ i = saving[c].todo[1]
  <2>1. saving[c].todo \in Seq(Item) /\ saving[c].todo # <<>> /\ Current(c) \in Item
    BY <1>1, InTransaction
  <2>2. QED
    BY <2>1 DEF Current
<1>4. i.read.human \in Own \cup {Absent} /\ i.chosen \in Own \cup {Absent} /\ i.serial \in Serials \cup {Absent}
  BY <1>3 DEF ReferencesStand, Refers, Item
<1>5. Candidate(c) \in Own \cup {Absent}
  <2>1. \A p \in Own : Survivor(p) \in Own
    BY WhatIsKnown
  <2>2. i.serial # Absent => FindIdentifier(c, i.serial) \in Own \cup {Absent}
    BY <1>4, WhatIsKnown DEF Identifiers
  <2> HIDE DEF Own
  <2>3. QED
    BY <1>4, <2>1, <2>2 DEF Candidate
<1>6. CASE UNCHANGED identities /\ Step(c, [saving[c] EXCEPT !.stage = "serial", !.human = Candidate(c)])
  <2> DEFINE t == [saving[c] EXCEPT !.stage = "serial", !.human = Candidate(c)]
  <2>1. /\ t.todo = saving[c].todo /\ t.human = Candidate(c) /\ t.claims = saving[c].claims
        /\ t.written = saving[c].written /\ t.made = saving[c].made
    BY <1>2 DEF SaveRow
  <2>2. Step(c, t)
    BY <1>6
  <2> HIDE DEF t
  <2>3. Refers(t, Settled)
    BY <1>5, <2>1 DEF ReferencesStand, Refers
  <2>4. QED
    BY <1>1, <1>6, <2>1, <2>2, <2>3, OwnRefers
<1>7. ASSUME NEW p \in Humans \ identities, identities' = identities \cup {p},
             Step(c, [saving[c] EXCEPT !.stage = "serial", !.human = p, !.made = @ \cup {p}])
      PROVE  ReferencesStand'
  <2> DEFINE t == [saving[c] EXCEPT !.stage = "serial", !.human = p, !.made = @ \cup {p}]
  <2>1. /\ t.todo = saving[c].todo /\ t.human = p /\ t.claims = saving[c].claims
        /\ t.written = saving[c].written /\ t.made = saving[c].made \cup {p}
    BY <1>2 DEF SaveRow
  <2>2. saving' = [saving EXCEPT ![c] = t]
    BY <1>7 DEF Step
  <2> HIDE DEF t
  <2>3. saving'[c] = t /\ \A d \in Clerks \ {c} : saving'[d] = saving[d]
    BY <1>2, <2>2
  <2>4. Settled' = Settled
    <3>1. UNION {saving'[d].made : d \in Clerks} = (UNION {saving[d].made : d \in Clerks}) \cup {p}
      <4>1. \A d \in Clerks : saving'[d].made = IF d = c THEN saving[d].made \cup {p} ELSE saving[d].made
        BY <2>1, <2>3
      <4>2. QED
        BY <4>1
    <3>2. p \notin identities
      OBVIOUS
    <3>3. QED
      BY <1>7, <3>1, <3>2 DEF Settled, SettledIn
  <2>5. Refers(t, Settled)
    BY <2>1 DEF ReferencesStand, Refers
  <2>6. CommittedRefers(mergedInto', holder', entries', Settled')
    BY <1>1, <2>4 DEF ReferencesStand
  <2>7. t.made \subseteq identities' /\ \A d \in Clerks \ {c} : t.made \cap saving[d].made = {} /\ saving[d].made \subseteq identities'
    BY <1>7, <2>1 DEF ReferencesStand
  <2>8. QED
    BY <2>2, <2>4, <2>5, <2>6, <2>7, OneRefers
<1>8. QED
  BY <1>6, <1>7 DEF Resolve

LEMMA LookUpRefers ==
    ASSUME RegistryInv, ReferencesStand, NEW c \in Clerks, LookUpSerial(c) \/ LookUpCard(c)
    PROVE  ReferencesStand'
<1> SUFFICES ASSUME NEW s, Step(c, [saving[c] EXCEPT !.stage = s]),
                    UNCHANGED <<mergedInto, identities, holder, entries>>
             PROVE  ReferencesStand'
  BY DEF LookUpSerial, LookUpCard, LookUp
<1> DEFINE t == [saving[c] EXCEPT !.stage = s]
<1>1. saving[c] \in SaveRow
  BY DEF RegistryInv, RegistryTyping
<1>2. /\ t.todo = saving[c].todo /\ t.human = saving[c].human /\ t.claims = saving[c].claims
      /\ t.written = saving[c].written /\ t.made = saving[c].made
  BY <1>1 DEF SaveRow
<1>3. Step(c, t)
  OBVIOUS
<1> HIDE DEF t
<1>4. Refers(t, Settled)
  BY <1>2 DEF ReferencesStand, Refers
<1>5. QED
  BY <1>2, <1>3, <1>4, OwnRefers

LEMMA InsertRefers ==
    ASSUME RegistryInv, ReferencesStand, NEW c \in Clerks, InsertSerial(c) \/ InsertCard(c)
    PROVE  ReferencesStand'
<1> SUFFICES ASSUME NEW k, NEW next, saving[c].stage \in Attaching, Insert(c, k, next)
             PROVE  ReferencesStand'
  BY DEF InsertSerial, InsertCard, AtStage, Attaching
<1> DEFINE f == [x \in (DOMAIN saving[c].claims) \cup {k} |-> IF x = k THEN saving[c].human ELSE saving[c].claims[x]]
           t == [saving[c] EXCEPT !.stage = next, !.claims = f]
<1>1. saving[c] \in SaveRow /\ Absent \notin Humans
  BY RegistryAssumption DEF RegistryInv, RegistryTyping
<1>2. /\ t.todo = saving[c].todo /\ t.human = saving[c].human /\ t.claims = f
      /\ t.written = saving[c].written /\ t.made = saving[c].made
  BY <1>1 DEF SaveRow
<1>3. Step(c, t) /\ UNCHANGED <<mergedInto, identities, holder, entries>>
  BY <1>1 DEF Insert, SaveRow
<1>4. saving[c].human \in Settled \cup saving[c].made
  <2>1. saving[c].human \in Humans
    BY DEF RegistryInv, Pending, InHand
  <2>2. QED
    BY <1>1, <2>1 DEF ReferencesStand, Refers
<1>5. \A x \in DOMAIN f : f[x] \in Settled \cup saving[c].made
  BY <1>4 DEF ReferencesStand, Refers
<1> HIDE DEF t, f
<1>6. Refers(t, Settled)
  BY <1>2, <1>5 DEF ReferencesStand, Refers
<1>7. QED
  BY <1>2, <1>3, <1>6, OwnRefers

LEMMA FinishRefers ==
    ASSUME RegistryInv, ReferencesStand, NEW c \in Clerks, FinishItem(c)
    PROVE  ReferencesStand'
<1> DEFINE i == Current(c)
           old == saving[c].written
           f == [x \in (DOMAIN old) \cup {i.row} |-> IF x = i.row THEN [item |-> i, human |-> saving[c].human] ELSE old[x]]
           t == [saving[c] EXCEPT !.stage = "resolve", !.todo = Tail(@), !.human = Absent, !.written = f]
<1>1. saving[c] \in SaveRow /\ Absent \notin Humans /\ MaxItems \in Nat
  BY RegistryAssumption DEF RegistryInv, RegistryTyping
<1>2. /\ t.todo = Tail(saving[c].todo) /\ t.human = Absent /\ t.claims = saving[c].claims
      /\ t.written = f /\ t.made = saving[c].made
  BY <1>1 DEF SaveRow
<1>3. Step(c, t) /\ UNCHANGED <<mergedInto, identities, holder, entries>> /\ saving[c].stage = "done"
  BY <1>1 DEF FinishItem, AtStage, SaveRow
<1>4. saving[c].human \in Settled \cup saving[c].made
  <2>1. saving[c].human \in Humans
    BY <1>3 DEF RegistryInv, Pending, InHand, Attaching
  <2>2. QED
    BY <1>1, <2>1 DEF ReferencesStand, Refers
<1>5. \A x \in DOMAIN f : f[x].human \in Settled \cup saving[c].made
  BY <1>4 DEF ReferencesStand, Refers
<1>6. /\ saving[c].todo \in Seq(Item) /\ saving[c].todo # <<>> /\ Len(saving[c].todo) <= MaxItems
      /\ \A n \in DOMAIN saving[c].todo : /\ saving[c].todo[n].read.human \in Settled \cup {Absent}
                                          /\ saving[c].todo[n].chosen \in Settled \cup {Absent}
  BY <1>3, InTransaction DEF ReferencesStand, Refers
<1> HIDE DEF t, f
<1>7. /\ Len(t.todo) <= MaxItems
      /\ \A n \in DOMAIN t.todo : n + 1 \in DOMAIN saving[c].todo /\ t.todo[n] = saving[c].todo[n + 1]
  BY <1>1, <1>2, <1>6
<1>8. Refers(t, Settled)
  BY <1>2, <1>5, <1>6, <1>7 DEF ReferencesStand, Refers
<1>9. QED
  BY <1>2, <1>3, <1>8, OwnRefers

\* What a request that ends has created is settled, or is referred to by nobody else and goes.
LEMMA EndRefers ==
    ASSUME RegistryInv, ReferencesStand, NEW c \in Clerks, Step(c, NoSave), mergedInto' = mergedInto,
           \/ identities' = identities /\ CommittedRefers(mergedInto, holder', entries', Settled \cup saving[c].made)
           \/ identities' = identities \ saving[c].made /\ UNCHANGED <<holder, entries>>
    PROVE  ReferencesStand'
<1>1. saving \in [Clerks -> SaveRow] /\ saving' = [saving EXCEPT ![c] = NoSave]
  BY DEF RegistryInv, RegistryTyping, Step
<1>2. saving'[c].made = {} /\ \A d \in Clerks \ {c} : saving'[d].made = saving[d].made
  BY <1>1, NoSaveRefers
<1>3. \A d \in Clerks \ {c} : saving[d].made \cap saving[c].made = {} /\ saving[d].made \subseteq identities
  BY DEF ReferencesStand
<1>4. saving[c].made \subseteq identities
  BY DEF ReferencesStand
<1>5. UNION {saving'[d].made : d \in Clerks} = (UNION {saving[d].made : d \in Clerks}) \ saving[c].made
  BY <1>2, <1>3
<1>6. identities' = identities => Settled' = Settled \cup saving[c].made
  BY <1>4, <1>5 DEF Settled, SettledIn
<1>7. identities' = identities \ saving[c].made => Settled' = Settled
  BY <1>5 DEF Settled, SettledIn
<1>8. CommittedRefers(mergedInto', holder', entries', Settled')
  BY <1>6, <1>7 DEF ReferencesStand
<1>9. Settled \subseteq Settled'
  BY <1>6, <1>7
<1>10. \A d \in Clerks \ {c} : NoSave.made \cap saving[d].made = {} /\ saving[d].made \subseteq identities'
  BY <1>3, NoSaveRefers
<1>11. QED
  BY <1>1, <1>8, <1>9, <1>10, NoSaveRefers, OneRefers

LEMMA CommitRefers ==
    ASSUME RegistryInv, ReferencesStand, NEW c \in Clerks, CommitSave(c)
    PROVE  ReferencesStand'
<1> DEFINE w == Writes(c)
           Own == Settled \cup saving[c].made
<1>1. /\ saving[c].stage = "done" /\ saving[c].stage # "none"
      /\ entries' = [e \in EntryRows |->
            IF e \in DOMAIN w THEN Saved(w[e].item, w[e].human, entries[e]) ELSE entries[e]]
      /\ holder' = [k \in Identifiers |->
            IF k \in DOMAIN saving[c].claims THEN saving[c].claims[k] ELSE holder[k]]
      /\ Step(c, NoSave) /\ mergedInto' = mergedInto /\ identities' = identities
  BY DEF CommitSave, AtStage
<1>2. saving[c].human \in Own
  <2>1. saving[c].human \in Humans /\ Absent \notin Humans
    BY <1>1, RegistryAssumption DEF RegistryInv, Pending, InHand, Attaching
  <2>2. QED
    BY <2>1 DEF ReferencesStand, Refers
<1>3. \A e \in DOMAIN w : w[e].human \in Own
  BY <1>2 DEF Writes, ReferencesStand, Refers
<1>4. CommittedRefers(mergedInto, holder, entries, Own)
  BY DEF ReferencesStand, CommittedRefers
<1>5. \A k \in DOMAIN saving[c].claims : saving[c].claims[k] \in Own
  BY DEF ReferencesStand, Refers
<1> HIDE DEF w, Own
<1>6. \A k \in Identifiers : holder'[k] \in Own \cup {Absent}
  BY <1>1, <1>4, <1>5 DEF CommittedRefers
<1>7. \A e \in EntryRows : entries'[e].human \in Own \cup {Absent}
  <2>1. \A i, p, now : Saved(i, p, now).human \in {now.human, p}
    BY DEF Saved
  <2>2. QED
    BY <1>1, <1>3, <1>4, <2>1 DEF CommittedRefers
<1>8. CommittedRefers(mergedInto, holder', entries', Own)
  BY <1>4, <1>6, <1>7 DEF CommittedRefers
<1>9. QED
  BY <1>1, <1>8, EndRefers DEF Own

LEMMA AbandonRefers ==
    ASSUME RegistryInv, ReferencesStand, NEW c \in Clerks, Abandon(c)
    PROVE  ReferencesStand'
BY EndRefers DEF Abandon

LEMMA MergeRefers ==
    ASSUME RegistryInv, ReferencesStand, NEW a \in Humans, NEW b \in Humans, MergeHumans(a, b)
    PROVE  ReferencesStand'
<1>1. /\ mergedInto' = [mergedInto EXCEPT ![a] = b]
      /\ holder' = [k \in Identifiers |-> IF holder[k] = a THEN b ELSE holder[k]]
      /\ entries' = [e \in EntryRows |-> [entries[e] EXCEPT !.human = IF @ = a THEN b ELSE @]]
      /\ identities' = identities /\ saving' = saving
      /\ b \in identities /\ \A c \in Clerks : b \notin saving[c].made
  BY DEF MergeHumans
<1>2. b \in Settled /\ Settled' = Settled
  BY <1>1 DEF Settled, SettledIn
<1>3. mergedInto \in [Humans -> Humans \cup {Absent}] /\ entries \in [EntryRows -> Entry]
  BY DEF RegistryInv, RegistryTyping, Aliases
<1>4. \A p \in Humans : mergedInto'[p] \in Settled \cup {Absent}
  BY <1>1, <1>2, <1>3 DEF ReferencesStand, CommittedRefers
<1>5. \A k \in Identifiers : holder'[k] \in Settled \cup {Absent}
  BY <1>1, <1>2 DEF ReferencesStand, CommittedRefers
<1>6. \A e \in EntryRows : entries'[e].human \in Settled \cup {Absent}
  <2>1. \A e \in EntryRows : entries'[e].human \in {entries[e].human, b}
    BY <1>1, <1>3 DEF Entry
  <2>2. QED
    BY <1>2, <2>1 DEF ReferencesStand, CommittedRefers
<1>7. CommittedRefers(mergedInto', holder', entries', Settled')
  BY <1>2, <1>4, <1>5, <1>6 DEF CommittedRefers
<1>8. QED
  BY <1>1, <1>2, <1>7 DEF ReferencesStand

\* A request that has not begun has created nobody.
NothingMade == \A c \in Clerks : saving[c].stage = "none" => saving[c].made = {}

LEMMA NothingMadeStep == RegistryInv /\ NothingMade /\ [RegistryNext]_registryVars => NothingMade'
<1> SUFFICES ASSUME RegistryInv, NothingMade, [RegistryNext]_registryVars PROVE NothingMade'
  OBVIOUS
<1>1. saving \in [Clerks -> SaveRow]
  BY DEF RegistryInv, RegistryTyping
<1>2. ASSUME NEW c \in Clerks, NEW t, Step(c, t), t.stage = "none" => t.made = {}
      PROVE  NothingMade'
  <2>1. saving'[c] = t /\ \A d \in Clerks \ {c} : saving'[d] = saving[d]
    BY <1>1, <1>2 DEF Step
  <2>2. QED
    BY <1>2, <2>1 DEF NothingMade
<1>3. ASSUME NEW c \in Clerks, ClerkSteps(c)
      PROVE  NothingMade'
  <2> DEFINE old == saving[c]
  <2>0. old \in SaveRow
    BY <1>1
  <2>1. CASE \E items : Begin(c, items)
    <3>1. PICK items : Step(c, [NoSave EXCEPT !.stage = "resolve", !.todo = items])
      BY <2>1 DEF Begin
    <3>2. [NoSave EXCEPT !.stage = "resolve", !.todo = items].stage = "resolve"
      BY DEF NoSave
    <3>3. QED
      BY <1>2, <3>1, <3>2
  <2>2. CASE Step(c, NoSave)
    BY <1>2, <2>2, NoSaveRefers
  <2>3. CASE LockSerial(c)
    <3>1. [old EXCEPT !.locks = @ \cup {Current(c).serial}].stage = "resolve"
      BY <2>0, <2>3 DEF LockSerial, AtStage, SaveRow
    <3>2. QED
      BY <1>2, <2>3, <3>1 DEF LockSerial
  <2>4. CASE Resolve(c)
    <3>1. ASSUME NEW p, NEW m, Step(c, [old EXCEPT !.stage = "serial", !.human = p, !.made = m])
          PROVE  NothingMade'
      <4>1. [old EXCEPT !.stage = "serial", !.human = p, !.made = m].stage = "serial"
        BY <2>0 DEF SaveRow
      <4>2. QED
        BY <1>2, <3>1, <4>1
    <3>2. ASSUME NEW p, Step(c, [old EXCEPT !.stage = "serial", !.human = p])
          PROVE  NothingMade'
      <4>1. [old EXCEPT !.stage = "serial", !.human = p].stage = "serial"
        BY <2>0 DEF SaveRow
      <4>2. QED
        BY <1>2, <3>2, <4>1
    <3>3. \/ \E p \in Humans : Step(c, [old EXCEPT !.stage = "serial", !.human = p, !.made = old.made \cup {p}])
          \/ Step(c, [old EXCEPT !.stage = "serial", !.human = Candidate(c)])
      BY <2>4 DEF Resolve
    <3> HIDE DEF old
    <3>4. QED
      BY <3>1, <3>2, <3>3
  <2>5. ASSUME NEW s, s # "none", Step(c, [old EXCEPT !.stage = s])
        PROVE  NothingMade'
    <3>1. [old EXCEPT !.stage = s].stage = s
      BY <2>0 DEF SaveRow
    <3>2. QED
      BY <1>2, <2>5, <3>1
  <2>6. ASSUME NEW s, s # "none", NEW f, Step(c, [old EXCEPT !.stage = s, !.claims = f])
        PROVE  NothingMade'
    <3>1. [old EXCEPT !.stage = s, !.claims = f].stage = s
      BY <2>0 DEF SaveRow
    <3>2. QED
      BY <1>2, <2>6, <3>1
  <2>7. CASE LookUpSerial(c) \/ LookUpCard(c)
    <3>1. \E s \in {"insertSerial", "card", "insertCard", "done"} : Step(c, [old EXCEPT !.stage = s])
      BY <2>7 DEF LookUpSerial, LookUpCard, LookUp
    <3> HIDE DEF old
    <3>2. QED
      BY <2>5, <3>1
  <2>8. CASE InsertSerial(c) \/ InsertCard(c)
    <3>1. \E s \in {"card", "done"} : \E k : Insert(c, k, s)
      BY <2>8 DEF InsertSerial, InsertCard
    <3>2. \E s \in {"card", "done"} : \E f : Step(c, [old EXCEPT !.stage = s, !.claims = f])
      BY <3>1 DEF Insert
    <3> HIDE DEF old
    <3>3. QED
      BY <2>6, <3>2
  <2>9. CASE FinishItem(c)
    <3>1. ASSUME NEW todo, NEW f,
                 Step(c, [old EXCEPT !.stage = "resolve", !.todo = todo, !.human = Absent, !.written = f])
          PROVE  NothingMade'
      <4>1. [old EXCEPT !.stage = "resolve", !.todo = todo, !.human = Absent, !.written = f].stage = "resolve"
        BY <2>0 DEF SaveRow
      <4>2. QED
        BY <1>2, <3>1, <4>1
    <3>2. \E todo, f : Step(c, [old EXCEPT !.stage = "resolve", !.todo = todo, !.human = Absent, !.written = f])
      BY <2>9 DEF FinishItem
    <3> HIDE DEF old
    <3>3. QED
      BY <3>1, <3>2
  <2>10. SavePeople(c) => \E items : Begin(c, items)
    BY DEF SavePeople
  <2>11. SaveUser(c) => \E items : Begin(c, items)
    BY DEF SaveUser
  <2>12. CommitSave(c) \/ Abandon(c) => Step(c, NoSave)
    BY DEF CommitSave, Abandon
  <2> HIDE DEF old
  <2>13. QED
    BY <1>3, <2>1, <2>2, <2>3, <2>4, <2>7, <2>8, <2>9, <2>10, <2>11, <2>12 DEF ClerkSteps
<1>4. CASE UNCHANGED saving
  BY <1>4 DEF NothingMade
<1>5. QED
  BY <1>3, <1>4 DEF RegistryNext, MergeHumans, registryVars

LEMMA ReferencesStep ==
    RegistryInv /\ ReferencesStand /\ NothingMade /\ [RegistryNext]_registryVars => ReferencesStand'
<1> SUFFICES ASSUME RegistryInv, ReferencesStand, NothingMade, [RegistryNext]_registryVars
             PROVE  ReferencesStand'
  OBVIOUS
<1>1. ASSUME NEW c \in Clerks, ClerkSteps(c)
      PROVE  ReferencesStand'
  <2>1. CASE SavePeople(c) \/ SaveUser(c)
    <3>1. saving[c].stage = "none" /\ saving[c].made = {}
      BY <2>1 DEF NothingMade, SavePeople, SaveUser, AtStage
    <3>2. QED
      BY <2>1, <3>1, BeginRefers
  <2>2. QED
    BY <1>1, <2>1, LockRefers, ResolveRefers, LookUpRefers, InsertRefers, FinishRefers, CommitRefers,
       AbandonRefers DEF ClerkSteps
<1>2. CASE UNCHANGED registryVars
  BY <1>2 DEF registryVars, ReferencesStand, Settled, SettledIn
<1>3. QED
  BY <1>1, <1>2, MergeRefers DEF RegistryNext

LEMMA RegistryTyped == RegistryInv /\ ReferencesStand => RegistryTypeOK
<1> SUFFICES ASSUME RegistryInv, ReferencesStand PROVE RegistryTypeOK
  OBVIOUS
<1>1. /\ mergedInto \in [Humans -> Humans \cup {Absent}] /\ identities \subseteq Humans
      /\ holder \in [Identifiers -> Humans \cup {Absent}] /\ overwritten \subseteq ProfileRows
      /\ entries \in [EntryRows -> Entry] /\ saving \in [Clerks -> SaveRow]
  BY DEF RegistryInv, RegistryTyping, Aliases
<1>2. ASSUME NEW c \in Clerks
      PROVE  /\ saving[c].stage \in {"none", "resolve", "serial", "insertSerial", "card", "insertCard", "done"}
             /\ saving[c].todo \in Seq(Item) /\ Len(saving[c].todo) <= MaxItems
             /\ saving[c].human \in identities \cup {Absent}
             /\ saving[c].locks \subseteq Serials /\ saving[c].made \subseteq identities
             /\ DOMAIN saving[c].claims \subseteq Identifiers /\ Range(saving[c].claims) \subseteq identities
             /\ DOMAIN saving[c].written \subseteq EntryRows
  <2>1. saving[c] \in SaveRow
    BY <1>1
  <2>2. /\ saving[c].stage \in SavingStages /\ saving[c].todo \in Seq(Item) /\ saving[c].locks \subseteq Serials
        /\ saving[c].claims \in UNION {[K -> Humans] : K \in SUBSET Identifiers}
        /\ saving[c].written \in UNION {[R -> WrittenRow] : R \in SUBSET EntryRows}
    BY <2>1 DEF SaveRow
  <2>3. DOMAIN saving[c].claims \subseteq Identifiers /\ DOMAIN saving[c].written \subseteq EntryRows
    BY <2>2
  <2>4. Settled \subseteq identities /\ saving[c].made \subseteq identities /\ Refers(saving[c], Settled)
    BY DEF ReferencesStand, Settled, SettledIn
  <2>5. Range(saving[c].claims) \subseteq identities
    BY <2>4 DEF Refers, Range
  <2>6. QED
    BY <2>2, <2>3, <2>4, <2>5 DEF Refers, SavingStages
<1>3. QED
  BY <1>1, <1>2 DEF RegistryTypeOK

\* person_identity.py:97, investigations.py:171: for any number of requests that save people at the
\* same time and may fail at any of their steps, a number, a row and an alias that are committed
\* refer to a person who is there and who was created by no request that may still be rolled back.
THEOREM ReferencesAreSettled == RegistrySpec => [](RegistryTypeOK /\ ReferencesStand)
<1>1. RegistryInit => NothingMade
  BY NoSaveRefers DEF RegistryInit, NothingMade
<1>2. QED
  BY <1>1, RegistryInitInv, RegistryStep, ReferencesInit, NothingMadeStep, ReferencesStep, RegistryTyped, PTL
     DEF RegistrySpec

-----------------------------------------------------------------------------
(* The accounts *)

AskRow == [kind : Kinds, by : Users, target : Users, read : Account, roles : SUBSET Roles, flag : BOOLEAN]

AccountsTyping ==
    /\ accounts \in [Users -> Account] /\ tokens \subseteq Users
    /\ asks \in [Handlers -> AskRow]

\* Nobody takes the administrator from themselves, and roles are given, never all taken.
Checked ==
    \A q \in Handlers :
        /\ asks[q].kind \in {"create", "roles"} => asks[q].roles # {}
        /\ asks[q].kind = "roles" /\ asks[q].by = asks[q].target => "ADMIN" \in asks[q].roles
        /\ asks[q].kind = "status" /\ asks[q].by = asks[q].target => asks[q].flag = TRUE

AccountsInv == AccountsTyping /\ Checked

LEMMA NoAccountIsAccount == NoAccount \in Account
BY DEF NoAccount, Account

\* What admits a request changes its handler only.
LEMMA AdmitKeeps ==
    ASSUME NEW q \in Handlers, NEW k \in Kinds, NEW by \in Users, NEW u \in Users,
           NEW roles \in SUBSET Roles, NEW flag \in BOOLEAN,
           AccountsInv, Admit(q, k, by, u, roles, flag),
           k \in {"create", "roles"} => roles # {},
           k = "roles" /\ by = u => "ADMIN" \in roles,
           k = "status" /\ by = u => flag = TRUE
    PROVE  AccountsInv'
<1>1. accounts[u] \in Account
  BY DEF AccountsInv, AccountsTyping
<1>2. AccountsTyping'
  BY <1>1 DEF AccountsInv, AccountsTyping, Admit, AskRow
<1>3. Checked'
  BY DEF AccountsInv, AccountsTyping, Checked, Admit
<1>4. QED
  BY <1>2, <1>3 DEF AccountsInv

LEMMA WriteKeeps ==
    ASSUME NEW q \in Handlers, NEW k, NEW row \in Account, AccountsInv, Write(q, k, row)
    PROVE  AccountsInv'
<1>1. NoAsk \in AskRow
  BY AccountsAssumption, NoAccountIsAccount DEF NoAsk, AskRow, Kinds
<1>2. AccountsTyping'
  BY <1>1 DEF AccountsInv, AccountsTyping, Write
<1>3. Checked'
  BY DEF AccountsInv, AccountsTyping, Checked, Write, NoAsk
<1>4. QED
  BY <1>2, <1>3 DEF AccountsInv

LEMMA AccountsInvInit == AccountsInit => AccountsInv
<1>1. NoAsk \in AskRow
  BY AccountsAssumption, NoAccountIsAccount DEF NoAsk, AskRow, Kinds
<1>2. QED
  BY <1>1, NoAccountIsAccount DEF AccountsInit, AccountsInv, AccountsTyping, Checked, NoAsk

\* The rows that the handlers write.
LEMMA WithRoles ==
    ASSUME NEW row \in [there : BOOLEAN, is_active : BOOLEAN, roles : SUBSET Roles, must_change : BOOLEAN],
           NEW rs \in SUBSET Roles
    PROVE  [row EXCEPT !.roles = rs]
             = [there |-> row.there, is_active |-> row.is_active, roles |-> rs, must_change |-> row.must_change]
OBVIOUS

LEMMA WithStatus ==
    ASSUME NEW row \in [there : BOOLEAN, is_active : BOOLEAN, roles : SUBSET Roles, must_change : BOOLEAN],
           NEW b \in BOOLEAN
    PROVE  [row EXCEPT !.is_active = b]
             = [there |-> row.there, is_active |-> b, roles |-> row.roles, must_change |-> row.must_change]
OBVIOUS

LEMMA WithChange ==
    ASSUME NEW row \in [there : BOOLEAN, is_active : BOOLEAN, roles : SUBSET Roles, must_change : BOOLEAN],
           NEW b \in BOOLEAN
    PROVE  [row EXCEPT !.must_change = b]
             = [there |-> row.there, is_active |-> row.is_active, roles |-> row.roles, must_change |-> b]
OBVIOUS

LEMMA AskTyped ==
    ASSUME NEW q \in Handlers, AccountsInv
    PROVE  /\ asks[q] \in AskRow
           /\ accounts[asks[q].target]
                \in [there : BOOLEAN, is_active : BOOLEAN, roles : SUBSET Roles, must_change : BOOLEAN]
           /\ asks[q].read \in Account /\ asks[q].roles \in SUBSET Roles /\ asks[q].flag \in BOOLEAN
           /\ asks[q].target \in Users /\ asks[q].by \in Users
BY DEF AccountsInv, AccountsTyping, AskRow, Account

Rewritten(u, active, roles, must) ==
    [there |-> accounts[u].there, is_active |-> active, roles |-> roles, must_change |-> must]

LEMMA RolesWritten ==
    ASSUME NEW q \in Handlers, AccountsInv, SetRoles(q)
    PROVE  LET a == asks[q]  now == accounts[a.target]
           IN  \E rs \in SUBSET Roles :
                 /\ rs = (now.roles \ (a.read.roles \ a.roles)) \cup (a.roles \ a.read.roles)
                 /\ Write(q, "roles", Rewritten(a.target, now.is_active, rs, now.must_change))
<1> DEFINE a == asks[q]
           now == accounts[a.target]
           rs == (now.roles \ (a.read.roles \ a.roles)) \cup (a.roles \ a.read.roles)
           written == [now EXCEPT !.roles = rs]
<1>1. rs \in SUBSET Roles
  BY AskTyped
<1>2. Write(q, "roles", written)
  BY DEF SetRoles
<1>3. now \in [there : BOOLEAN, is_active : BOOLEAN, roles : SUBSET Roles, must_change : BOOLEAN]
  BY AskTyped
<1>4. written = Rewritten(a.target, now.is_active, rs, now.must_change)
  <2> HIDE DEF rs, now, a
  <2>1. written = [there |-> now.there, is_active |-> now.is_active, roles |-> rs, must_change |-> now.must_change]
    BY <1>1, <1>3, WithRoles
  <2> USE DEF now
  <2>2. QED
    BY <2>1 DEF Rewritten
<1> HIDE DEF written
<1>5. Write(q, "roles", Rewritten(a.target, now.is_active, rs, now.must_change))
  BY <1>2, <1>4
<1>6. QED
  BY <1>1, <1>5

LEMMA StatusWritten ==
    ASSUME NEW q \in Handlers, AccountsInv, SetUserStatus(q)
    PROVE  LET a == asks[q]  now == accounts[a.target]
           IN  \E b \in {now.is_active, a.flag} : Write(q, "status", Rewritten(a.target, b, now.roles, now.must_change))
<1> DEFINE a == asks[q]
           now == accounts[a.target]
           b == IF a.flag = a.read.is_active THEN now.is_active ELSE a.flag
           written == [now EXCEPT !.is_active = b]
<1>1. b \in BOOLEAN /\ b \in {now.is_active, a.flag}
  BY AskTyped
<1>2. Write(q, "status", written)
  BY DEF SetUserStatus
<1>3. now \in [there : BOOLEAN, is_active : BOOLEAN, roles : SUBSET Roles, must_change : BOOLEAN]
  BY AskTyped
<1>4. written = Rewritten(a.target, b, now.roles, now.must_change)
  <2> HIDE DEF b, now, a
  <2>1. written = [there |-> now.there, is_active |-> b, roles |-> now.roles, must_change |-> now.must_change]
    BY <1>1, <1>3, WithStatus
  <2> USE DEF now
  <2>2. QED
    BY <2>1 DEF Rewritten
<1> HIDE DEF written
<1>5. Write(q, "status", Rewritten(a.target, b, now.roles, now.must_change))
  BY <1>2, <1>4
<1>6. QED
  BY <1>1, <1>5

LEMMA ChangeWritten ==
    ASSUME NEW q \in Handlers, AccountsInv, ResetPassword(q) \/ ChangePassword(q)
    PROVE  LET a == asks[q]  now == accounts[a.target]
           IN  \E b \in BOOLEAN, k \in {"reset", "password"} :
                 Write(q, k, Rewritten(a.target, now.is_active, now.roles, b))
<1> DEFINE a == asks[q]
           now == accounts[a.target]
<1>1. now \in [there : BOOLEAN, is_active : BOOLEAN, roles : SUBSET Roles, must_change : BOOLEAN]
  BY AskTyped
<1>2. ASSUME NEW b \in BOOLEAN
      PROVE  [now EXCEPT !.must_change = b] = Rewritten(a.target, now.is_active, now.roles, b)
  <2> HIDE DEF now, a
  <2>1. [now EXCEPT !.must_change = b]
          = [there |-> now.there, is_active |-> now.is_active, roles |-> now.roles, must_change |-> b]
    BY <1>1, WithChange
  <2> USE DEF now
  <2>2. QED
    BY <2>1 DEF Rewritten
<1>3. CASE ResetPassword(q)
  <2> DEFINE b == IF a.flag = a.read.must_change THEN now.must_change ELSE a.flag
             written == [now EXCEPT !.must_change = b]
  <2>1. b \in BOOLEAN
    BY AskTyped
  <2>2. Write(q, "reset", written)
    BY <1>3 DEF ResetPassword
  <2> HIDE DEF b, now, a
  <2>3. written = Rewritten(a.target, now.is_active, now.roles, b)
    BY <2>1, <1>2
  <2> HIDE DEF written
  <2>4. Write(q, "reset", Rewritten(a.target, now.is_active, now.roles, b))
    BY <2>2, <2>3
  <2> USE DEF now, a
  <2>5. QED
    BY <2>1, <2>4
<1>4. CASE ChangePassword(q)
  <2> DEFINE b == IF a.read.must_change THEN FALSE ELSE now.must_change
             written == [now EXCEPT !.must_change = b]
  <2>1. b \in BOOLEAN
    BY AskTyped
  <2>2. Write(q, "password", written)
    BY <1>4 DEF ChangePassword
  <2> HIDE DEF b, now, a
  <2>3. written = Rewritten(a.target, now.is_active, now.roles, b)
    BY <2>1, <1>2
  <2> HIDE DEF written
  <2>4. Write(q, "password", Rewritten(a.target, now.is_active, now.roles, b))
    BY <2>2, <2>3
  <2> USE DEF now, a
  <2>5. QED
    BY <2>1, <2>4
<1>5. QED
  BY <1>3, <1>4

\* Whatever a handler writes is an account.
LEMMA StepsKeep ==
    ASSUME NEW q \in Handlers, AccountsInv, RequestSteps(q)
    PROVE  AccountsInv'
<1>1. CASE AskCreate(q)
  BY <1>1, AdmitKeeps DEF AskCreate, Kinds
<1>2. CASE AskRoles(q)
  <2>1. PICK by \in Users, u \in Users, roles \in (SUBSET Roles) \ {{}} :
            MayUpdate(by, u, roles) /\ Admit(q, "roles", by, u, roles, FALSE)
    BY <1>2 DEF AskRoles
  <2>2. by = u => "ADMIN" \in roles
    BY <2>1 DEF MayUpdate
  <2>3. QED
    BY <2>1, <2>2, AdmitKeeps DEF Kinds
<1>3. CASE AskStatus(q)
  <2>1. PICK by \in Users, u \in Users, flag \in BOOLEAN :
            (by = u => flag) /\ Admit(q, "status", by, u, {}, flag)
    BY <1>3 DEF AskStatus
  <2>2. by = u => flag = TRUE
    BY <2>1
  <2>3. QED
    BY <2>1, <2>2, AdmitKeeps DEF Kinds
<1>4. CASE AskReset(q)
  BY <1>4, AdmitKeeps DEF AskReset, Kinds
<1>5. CASE AskPassword(q)
  BY <1>5, AdmitKeeps DEF AskPassword, Kinds
<1>6. CASE CreateUser(q)
  <2>1. [there |-> TRUE, is_active |-> TRUE, roles |-> asks[q].roles, must_change |-> asks[q].flag] \in Account
    BY AskTyped DEF Account
  <2>2. QED
    BY <1>6, <2>1, WriteKeeps DEF CreateUser
<1>7. CASE SetRoles(q)
  BY <1>7, RolesWritten, AskTyped, WriteKeeps DEF Rewritten, Account
<1>8. CASE SetUserStatus(q)
  BY <1>8, StatusWritten, AskTyped, WriteKeeps DEF Rewritten, Account
<1>9. CASE ResetPassword(q) \/ ChangePassword(q)
  BY <1>9, ChangeWritten, AskTyped, WriteKeeps DEF Rewritten, Account
<1>11. CASE RequestFails(q)
  <2>1. NoAsk \in AskRow
    BY AccountsAssumption, NoAccountIsAccount DEF NoAsk, AskRow, Kinds
  <2>2. AccountsTyping'
    BY <1>11, <2>1 DEF RequestFails, AccountsInv, AccountsTyping
  <2>3. Checked'
    BY <1>11 DEF RequestFails, AccountsInv, AccountsTyping, Checked, NoAsk
  <2>4. QED
    BY <2>2, <2>3 DEF AccountsInv
<1>12. QED
  BY <1>1, <1>2, <1>3, <1>4, <1>5, <1>6, <1>7, <1>8, <1>9, <1>11 DEF RequestSteps

LEMMA AccountsInvStep == AccountsInv /\ [AccountsNext]_accountVars => AccountsInv'
<1> SUFFICES ASSUME AccountsInv, [AccountsNext]_accountVars PROVE AccountsInv'
  OBVIOUS
<1>1. CASE Bootstrap
  <2>1. [there |-> TRUE, is_active |-> TRUE, roles |-> {"ADMIN"}, must_change |-> TRUE] \in Account
    BY AccountsAssumption DEF Account
  <2>2. QED
    BY <1>1, <2>1, AccountsAssumption DEF Bootstrap, AccountsInv, AccountsTyping, Checked
<1>2. ASSUME NEW u \in Users, Login(u) \/ SignOut(u) PROVE AccountsInv'
  BY <1>2 DEF Login, SignOut, AccountsInv, AccountsTyping, Checked
<1>3. ASSUME NEW q \in Handlers, RequestSteps(q) PROVE AccountsInv'
  BY <1>3, StepsKeep
<1>4. CASE UNCHANGED accountVars
  BY <1>4 DEF accountVars, AccountsInv, AccountsTyping, Checked
<1>5. QED
  BY <1>1, <1>2, <1>3, <1>4 DEF AccountsNext

\* Where an account changes: a row is created by the first start or written by a handler.
LEMMA Writers ==
    ASSUME NEW q \in Handlers, AccountsInv, RequestSteps(q), ~UNCHANGED accounts
    PROVE  /\ asks[q].kind \in {"create", "roles", "status", "reset", "password"} /\ asks'[q] = NoAsk
           /\ \E row \in Account :
                /\ accounts' = [accounts EXCEPT ![asks[q].target] = row]
                /\ asks[q].kind = "create" => ~accounts[asks[q].target].there /\ row.roles = asks[q].roles
                /\ asks[q].kind = "roles" =>
                     /\ row.there = accounts[asks[q].target].there
                     /\ row.is_active = accounts[asks[q].target].is_active
                     /\ row.roles = (accounts[asks[q].target].roles \ (asks[q].read.roles \ asks[q].roles))
                                       \cup (asks[q].roles \ asks[q].read.roles)
                /\ asks[q].kind = "status" =>
                     /\ row.there = accounts[asks[q].target].there
                     /\ row.is_active \in {accounts[asks[q].target].is_active, asks[q].flag}
                     /\ row.roles = accounts[asks[q].target].roles
                /\ asks[q].kind \in {"reset", "password"} =>
                     /\ row.there = accounts[asks[q].target].there
                     /\ row.is_active = accounts[asks[q].target].is_active
                     /\ row.roles = accounts[asks[q].target].roles
<1>1. asks'[q] = NoAsk \/ UNCHANGED accounts
  BY DEF RequestSteps, AskCreate, AskRoles, AskStatus, AskReset, AskPassword, Admit, CreateUser, SetRoles,
         SetUserStatus, ResetPassword, ChangePassword, Write, RequestFails, AccountsInv, AccountsTyping
<1>2. CASE CreateUser(q)
  <2> DEFINE row == [there |-> TRUE, is_active |-> TRUE, roles |-> asks[q].roles, must_change |-> asks[q].flag]
  <2>1. row \in Account
    BY AskTyped DEF Account
  <2>2. QED
    BY <1>1, <1>2, <2>1 DEF CreateUser, Write
<1>3. CASE SetRoles(q)
  BY <1>1, <1>3, RolesWritten, AskTyped DEF Rewritten, Account, Write
<1>4. CASE SetUserStatus(q)
  BY ZenonT(60), <1>1, <1>4, StatusWritten, AskTyped DEF Rewritten, Account, Write
<1>5. CASE ResetPassword(q) \/ ChangePassword(q)
  <2>1. PICK b \in BOOLEAN, k \in {"reset", "password"} :
            Write(q, k, Rewritten(asks[q].target, accounts[asks[q].target].is_active, accounts[asks[q].target].roles, b))
    BY <1>5, ChangeWritten
  <2>2. Rewritten(asks[q].target, accounts[asks[q].target].is_active, accounts[asks[q].target].roles, b) \in Account
    BY AskTyped DEF Rewritten, Account
  <2>3. QED
    BY <1>1, <2>1, <2>2 DEF Rewritten, Write
<1>6. UNCHANGED accounts \/ CreateUser(q) \/ SetRoles(q) \/ SetUserStatus(q) \/ ResetPassword(q)
        \/ ChangePassword(q)
  BY DEF RequestSteps, AskCreate, AskRoles, AskStatus, AskReset, AskPassword, Admit, RequestFails
<1>7. QED
  BY <1>2, <1>3, <1>4, <1>5, <1>6

\* Only a request of somebody who is no administrator any more takes the last one away.
LEMMA AnAdministratorStays ==
    ASSUME NEW q \in Handlers, AccountsInv, RequestSteps(q), NEW u \in Users, Administrator(u)
    PROVE  \/ \E v \in Users : Administrator(v)'
           \/ asks[q].kind # "none" /\ asks'[q] = NoAsk /\ ~Administrator(asks[q].by)
<1>1. CASE UNCHANGED accounts
  BY <1>1 DEF Administrator
<1>2. CASE ~UNCHANGED accounts
  <2> SUFFICES ASSUME Administrator(asks[q].by) PROVE \E v \in Users : Administrator(v)'
    BY <1>2, Writers
  <2>1. PICK by \in Users : by = asks[q].by
    BY AskTyped
  <2>2. CASE by # asks[q].target
    <3>1. accounts'[by] = accounts[by]
      BY <1>2, <2>2, Writers DEF AccountsInv, AccountsTyping
    <3>2. QED
      BY <2>1, <3>1 DEF Administrator
  <2>3. CASE by = asks[q].target
    <3>1. PICK row \in Account : accounts' = [accounts EXCEPT ![by] = row] /\ row.there /\ row.is_active
                                  /\ "ADMIN" \in row.roles
      <4>1. accounts[by].there /\ accounts[by].is_active /\ "ADMIN" \in accounts[by].roles
        BY <2>1 DEF Administrator
      <4>2. /\ asks[q].kind = "roles" => "ADMIN" \in asks[q].roles
            /\ asks[q].kind = "status" => asks[q].flag = TRUE
        BY <2>1, <2>3 DEF AccountsInv, Checked
      <4>3. QED
        BY <1>2, <2>3, <4>1, <4>2, Writers
    <3>2. accounts'[by] = row
      BY <3>1 DEF AccountsInv, AccountsTyping
    <3>3. QED
      BY <3>1, <3>2 DEF Administrator
  <2>4. QED
    BY <2>2, <2>3
<1>3. QED
  BY <1>1, <1>2

\* Only a request that read the roles before another wrote them leaves an account without any.
LEMMA RolesStay ==
    ASSUME NEW q \in Handlers, AccountsInv, RequestSteps(q), NEW u \in Users, accounts[u].roles # {}
    PROVE  \/ accounts'[u].roles # {}
           \/ /\ asks[q].kind = "roles" /\ asks[q].target = u /\ asks'[q] = NoAsk
              /\ asks[q].read.roles # accounts[u].roles
<1>1. CASE UNCHANGED accounts
  BY <1>1
<1>2. CASE ~UNCHANGED accounts
  <2>1. CASE u # asks[q].target
    BY <1>2, <2>1, Writers DEF AccountsInv, AccountsTyping
  <2>2. CASE u = asks[q].target
    <3>1. asks[q].kind \in {"create", "roles"} => asks[q].roles # {}
      BY DEF AccountsInv, Checked
    <3>2. QED
      BY <1>2, <2>2, <3>1, Writers DEF AccountsInv, AccountsTyping
  <2>3. QED
    BY <2>1, <2>2
<1>3. QED
  BY <1>1, <1>2

\* user_admin.py, deps.py: for any number of accounts and of handlers that interleave, the last
\* administrator and the last role go only in the two ways that the code leaves open, and nobody's
\* list of sessions differs from the sessions they may open.
THEOREM AccountsKept == AccountsSpec => AccountsHold
<1>1. AccountsInit => AccountsInv
  BY AccountsInvInit
<1>2. AccountsInv /\ [AccountsNext]_accountVars => AccountsInv'
  BY AccountsInvStep
<1> DEFINE Keeps ==
      /\ (\E u \in Users : Administrator(u)) =>
             \/ \E u \in Users : Administrator(u)'
             \/ \E q \in Handlers : asks[q].kind # "none" /\ asks'[q] = NoAsk /\ ~Administrator(asks[q].by)
      /\ \A u \in Users : accounts[u].roles # {} =>
             \/ accounts'[u].roles # {}
             \/ \E q \in Handlers : /\ asks[q].kind = "roles" /\ asks[q].target = u /\ asks'[q] = NoAsk
                                    /\ asks[q].read.roles # accounts[u].roles
      /\ \A u, creator \in Users, assigned \in SUBSET Users :
             accounts'[u].roles # {} => Listed(u, creator, assigned)' = CanAccess(u, creator, assigned)'
<1>3. AccountsInv /\ AccountsInv' /\ [AccountsNext]_accountVars => [Keeps]_accountVars
  <2> SUFFICES ASSUME AccountsInv, AccountsInv', AccountsNext PROVE Keeps
    OBVIOUS
  <2>1. (\E u \in Users : Administrator(u)) =>
             \/ \E u \in Users : Administrator(u)'
             \/ \E q \in Handlers : asks[q].kind # "none" /\ asks'[q] = NoAsk /\ ~Administrator(asks[q].by)
    <3> SUFFICES ASSUME NEW u \in Users, Administrator(u)
                 PROVE  \/ \E v \in Users : Administrator(v)'
                        \/ \E q \in Handlers : /\ asks[q].kind # "none" /\ asks'[q] = NoAsk
                                               /\ ~Administrator(asks[q].by)
      OBVIOUS
    <3>1. CASE Bootstrap
      BY <3>1 DEF Bootstrap, Administrator
    <3>2. ASSUME NEW v \in Users, Login(v) \/ SignOut(v) PROVE Administrator(u)'
      BY <3>2 DEF Login, SignOut, Administrator
    <3>3. QED
      BY <3>1, <3>2, AnAdministratorStays DEF AccountsNext
  <2>2. ASSUME NEW u \in Users, accounts[u].roles # {}
        PROVE  \/ accounts'[u].roles # {}
               \/ \E q \in Handlers : /\ asks[q].kind = "roles" /\ asks[q].target = u /\ asks'[q] = NoAsk
                                      /\ asks[q].read.roles # accounts[u].roles
    <3>1. CASE Bootstrap
      BY <2>2, <3>1, AccountsAssumption DEF Bootstrap, AccountsInv, AccountsTyping
    <3>2. ASSUME NEW v \in Users, Login(v) \/ SignOut(v) PROVE accounts'[u].roles # {}
      BY <2>2, <3>2 DEF Login, SignOut
    <3>3. QED
      BY <2>2, <3>1, <3>2, RolesStay DEF AccountsNext
  <2>3. ASSUME NEW u \in Users, NEW creator \in Users, NEW assigned \in SUBSET Users, accounts'[u].roles # {}
        PROVE  Listed(u, creator, assigned)' = CanAccess(u, creator, assigned)'
    <3>1. accounts'[u].roles \subseteq {"ADMIN", "INVESTIGATOR", "USER"}
      BY AccountsAssumption DEF AccountsInv, AccountsTyping, Account
    <3>2. ("investigations.read_assigned" \in PermissionCodes(u))'
      BY <2>3, <3>1 DEF PermissionCodes, RolePermissions
    <3>3. QED
      BY <3>2 DEF Listed, CanAccess
  <2>4. QED
    BY <2>1, <2>2, <2>3
<1>4. QED
  BY <1>1, <1>2, <1>3, PTL DEF AccountsSpec, AccountsHold

\* The type invariant of the accounts.
LEMMA AccountsTyped == AccountsSpec => []AccountsTypeOK
<1> DEFINE Bounded == admitted \in 0..MaxAdmitted
<1>0. MaxAdmitted \in Nat
  BY AccountsAssumption
<1>1. AccountsInit => Bounded
  BY <1>0 DEF AccountsInit
<1>2. Bounded /\ [AccountsNext]_accountVars => Bounded'
  <2> SUFFICES ASSUME Bounded, [AccountsNext]_accountVars PROVE Bounded'
    OBVIOUS
  <2>1. admitted' = admitted \/ (admitted < MaxAdmitted /\ admitted' = admitted + 1)
    <3>1. ASSUME NEW q \in Handlers, RequestSteps(q)
          PROVE  admitted' = admitted \/ (admitted < MaxAdmitted /\ admitted' = admitted + 1)
      <4>1. CASE AskCreate(q) \/ AskRoles(q) \/ AskStatus(q) \/ AskReset(q) \/ AskPassword(q)
        BY <4>1 DEF AskCreate, AskRoles, AskStatus, AskReset, AskPassword, Admit
      <4>2. CASE CreateUser(q) \/ SetRoles(q) \/ SetUserStatus(q) \/ ResetPassword(q) \/ ChangePassword(q)
                 \/ RequestFails(q)
        BY <4>2 DEF CreateUser, SetRoles, SetUserStatus, ResetPassword, ChangePassword, Write, RequestFails
      <4>3. QED
        BY <3>1, <4>1, <4>2 DEF RequestSteps
    <3>2. QED
      BY <3>1 DEF AccountsNext, accountVars, Bootstrap, Login, SignOut
  <2>2. QED
    BY <1>0, <2>1
<1>3. AccountsInv /\ Bounded => AccountsTypeOK
  BY DEF AccountsInv, AccountsTyping, AskRow, AccountsTypeOK
<1>4. AccountsInit => AccountsInv
  BY AccountsInvInit
<1>5. AccountsInv /\ [AccountsNext]_accountVars => AccountsInv'
  BY AccountsInvStep
<1> HIDE DEF Bounded
<1>6. QED
  BY <1>1, <1>2, <1>3, <1>4, <1>5, PTL DEF AccountsSpec

-----------------------------------------------------------------------------
(* The wipe *)

\* The stages after the server's tables, the agent's folders, its store, the server's files.
TablesEmptied  == {"verify", "files", "restart", "start", "wait", "done"}
FoldersEmptied == {"store", "truncate"} \cup TablesEmptied
StoreEmptied   == {"truncate"} \cup TablesEmptied
FilesEmptied   == {"restart", "start", "wait", "done"}

\* A row has its file, and after the tables were emptied every row is a new one.
RowsHaveFiles ==
    /\ (referenced \cup uploading) \ newer \subseteq stored
    /\ uploading \cap referenced = {}
    /\ wiping \in TablesEmptied => referenced \cup uploading \subseteq newer

\* The agent is down from its stop to its start, unless the script leaves it alone.
AgentDown ==
    /\ wiping \in {"folders", "store"} => container # "running"
    /\ (wiping \in {"truncate", "verify", "files", "restart", "start"} /\ "skip_agent" \notin options) =>
          container # "running" /\ jobs = {}
    /\ container = "running" => jobs \subseteq folders

\* What a stage has cleared is filled with new files only.
StagesDone ==
    /\ (options \in {{}, {"no_restart"}} /\ wiping \in FoldersEmptied) => folders \subseteq newer
    /\ (options \in {{}, {"no_restart"}} /\ wiping \in StoreEmptied) => jobs \subseteq newer
    /\ (options \in {{}, {"no_restart"}} /\ wiping \in FilesEmptied) => stored \subseteq newer

\* A run that restarts the stack ends with an administrator and with the agent.
EndsUp ==
    /\ (options \in {{}, {"keep_files"}} /\ wiping = "done") => users
    /\ (options \in {{}, {"keep_files"}} /\ wiping \in {"wait", "done"}) => container # "exited"

WipeInv ==
    /\ options \in Options
    /\ RowsHaveFiles /\ AgentDown /\ StagesDone /\ EndsUp

LEMMA WipeInvInit == WipeInit => WipeInv
BY DEF WipeInit, WipeInv, Options, RowsHaveFiles, AgentDown, StagesDone, EndsUp, TablesEmptied,
       FoldersEmptied, StoreEmptied, FilesEmptied

LEMMA WipeInvStep == WipeInv /\ [WipeNext]_wipeVars => WipeInv'
<1> SUFFICES ASSUME WipeInv, [WipeNext]_wipeVars PROVE WipeInv'
  OBVIOUS
<1> USE DEF WipeInv, Options, RowsHaveFiles, AgentDown, StagesDone, EndsUp, TablesEmptied,
        FoldersEmptied, StoreEmptied, FilesEmptied
<1>1. CASE UploadBegins
  BY <1>1 DEF UploadBegins, Come, Unused
<1>2. CASE CommitUpload
  BY <1>2 DEF CommitUpload
<1>3. CASE UploadFails
  BY <1>3 DEF UploadFails
<1>4. CASE FailedLogin
  BY <1>4 DEF FailedLogin
<1>5. CASE AgentReceives
  BY <1>5 DEF AgentReceives, Come, Unused
<1>6. CASE ServerRestarts /\ UNCHANGED wiping
  BY <1>6 DEF ServerRestarts
<1>7. CASE WipeStarts
  BY <1>7 DEF WipeStarts, StageAfter
<1>8. CASE StopAgent
  BY <1>8 DEF StopAgent, Go
<1>9. CASE ClearFolder
  BY <1>9 DEF ClearFolder
<1>10. CASE FoldersCleared
  BY <1>10 DEF FoldersCleared, Go
<1>11. CASE ClearStore
  BY <1>11 DEF ClearStore, Go, StageAfter
<1>12. CASE Truncate
  BY <1>12 DEF Truncate, Go, StageAfter
<1>13. CASE VerifyEmpty
  BY <1>13 DEF VerifyEmpty, Go, StageAfter
<1>14. CASE ClearFile
  BY <1>14 DEF ClearFile
<1>15. CASE FilesCleared
  BY <1>15 DEF FilesCleared, Go, StageAfter
<1>16. CASE RestartStack
  BY <1>16 DEF RestartStack, ServerRestarts, Go
<1>17. CASE LeaveStopped
  BY <1>17 DEF LeaveStopped, Go
<1>18. CASE StartAgent
  BY <1>18 DEF StartAgent, Go
<1>19. CASE AdminFound
  BY <1>19 DEF AdminFound, Go
<1>20. CASE WipeDies
  BY <1>20 DEF WipeDies
<1>21. CASE UNCHANGED wipeVars
  BY <1>21 DEF wipeVars
<1>22. QED
  BY <1>1, <1>2, <1>3, <1>4, <1>5, <1>6, <1>7, <1>8, <1>9, <1>10, <1>11, <1>12, <1>13, <1>14,
     <1>15, <1>16, <1>17, <1>18, <1>19, <1>20, <1>21 DEF WipeNext, ScriptSteps

\* scripts/wipe_all_data.py: for any number of files and of runs, wherever each of them dies, no
\* row is left without its file, and a run that ends has left nothing of what was there before.
THEOREM WipeLeavesNothing == WipeSpec => []WipeHolds
<1>1. WipeInv => WipeHolds
  BY DEF WipeInv, WipeHolds, Options, RowsHaveFiles, AgentDown, StagesDone, EndsUp, TablesEmptied,
         FoldersEmptied, StoreEmptied, FilesEmptied
<1>2. QED
  BY WipeInvInit, WipeInvStep, <1>1, PTL DEF WipeSpec

\* The type invariant of the wipe.
LEMMA WipeTyped == WipeSpec => []WipeTypeOK
<1>1. WipeInit => WipeTypeOK
  BY WipeAssumption DEF WipeInit, WipeTypeOK, WipeStages, Options
<1>2. WipeTypeOK /\ [WipeNext]_wipeVars => WipeTypeOK'
  <2> SUFFICES ASSUME WipeTypeOK, [WipeNext]_wipeVars PROVE WipeTypeOK'
    OBVIOUS
  <2> USE DEF WipeTypeOK
  <2>1. CASE UploadBegins \/ CommitUpload \/ UploadFails \/ FailedLogin \/ AgentReceives
    BY <2>1 DEF UploadBegins, CommitUpload, UploadFails, FailedLogin, AgentReceives, Come, Unused
  <2>2. CASE ServerRestarts /\ UNCHANGED wiping
    BY <2>2 DEF ServerRestarts
  <2>3. CASE WipeStarts
    BY <2>3, WipeAssumption DEF WipeStarts, StageAfter, WipeStages
  <2>4. CASE StopAgent \/ ClearFolder \/ FoldersCleared \/ ClearStore \/ Truncate
    BY <2>4 DEF StopAgent, ClearFolder, FoldersCleared, ClearStore, Truncate, Go, StageAfter, WipeStages
  <2>5. CASE VerifyEmpty \/ ClearFile \/ FilesCleared \/ RestartStack
    BY <2>5 DEF VerifyEmpty, ClearFile, FilesCleared, RestartStack, ServerRestarts, Go, StageAfter, WipeStages
  <2>6. CASE LeaveStopped \/ StartAgent \/ AdminFound \/ WipeDies
    BY <2>6 DEF LeaveStopped, StartAgent, AdminFound, WipeDies, Go, WipeStages, Options
  <2>7. CASE UNCHANGED wipeVars
    BY <2>7 DEF wipeVars
  <2>8. QED
    BY <2>1, <2>2, <2>3, <2>4, <2>5, <2>6, <2>7 DEF WipeNext, ScriptSteps
<1>3. QED
  BY <1>1, <1>2, PTL DEF WipeSpec

-----------------------------------------------------------------------------
(* The wording *)

\* Every set of natural numbers that is not empty has a least one.
LEMMA LeastNatural ==
    ASSUME NEW S \in SUBSET Nat, S # {}
    PROVE  \E m \in S : \A k \in S : m <= k
<1> DEFINE Less == {ss \in Nat \X Nat : ss[1] < ss[2]}
<1>1. IsWellFoundedOn(Less, Nat)
  BY NatLessThanWellFounded DEF OpToRel
<1>2. \A k, m \in Nat : k < m => <<k, m>> \in Less
  OBVIOUS
<1> HIDE DEF Less
<1>3. PICK m \in S : \A k \in S : <<k, m>> \notin Less
  BY <1>1, WFMin
<1>4. \A k \in S : ~(k < m)
  BY <1>2, <1>3
<1>5. QED
  BY <1>4

\* What resolve_profile chooses can be served, and nothing before it can.
LEMMA StrongestIsFirst ==
    ASSUME NEW h, Servable(h) # {}
    PROVE  Strongest(h) \in Servable(h) /\ \A q \in Servable(h) : Strongest(h) <= q
<1>1. Servable(h) \in SUBSET Nat
  BY WordingAssumption DEF Servable, Supported
<1>2. \E p \in Servable(h) : \A q \in Servable(h) : p <= q
  BY <1>1, LeastNatural
<1>3. QED
  BY <1>2 DEF Strongest

----------------------------------------------------------------------------
Runtimes == [up : BOOLEAN, models : SUBSET Tags]
Wordings == [stage : {"none", "bound", "worded", "refused"}, by : {"none", "nvidia_nim", "local"},
             tag : Tags \cup {Unseen}, profile : 0..Len(Ladder)]

\* What was detected is part of this machine, as long as the server runs.
SeenHere(h) ==
    /\ h.cards \subseteq machine.cards /\ h.memory \in {0, machine.memory}
    /\ h.models \subseteq Tags /\ (h.models # {} => h.up)
DetectedHere == hardware # Unseen => SeenHere(hardware)

\* A local answer was chosen from what was detected and is remembered.
ChosenHere ==
    wording.by = "local" =>
        /\ hardware # Unseen
        /\ wording.profile \in Servable(hardware)
        /\ \A q \in Servable(hardware) : wording.profile <= q
        /\ wording.tag \in HasModel(hardware, Ladder[wording.profile].model)

WordingInv ==
    /\ setting \in Settings /\ machine \in Machines
    /\ runtime \in Runtimes /\ wording \in Wordings
    /\ DetectedHere /\ ChosenHere
    /\ wording.by = "nvidia_nim" => setting.environment = "development" /\ setting.mode \notin {"off", "local"}

\* A look sees nothing that is not there.
LEMMA LooksSeeTheMachine ==
    ASSUME WordingInv, NEW h \in Observations
    PROVE  SeenHere(h) /\ h # Unseen
<1>1. machine.cards \in SUBSET Nat /\ machine.memory \in Nat /\ runtime \in Runtimes
  BY WordingAssumption DEF WordingInv
<1>2. /\ h \in [cards : SUBSET machine.cards, memory : {0, machine.memory}, up : {FALSE, runtime.up},
                models : {{}, runtime.models}]
      /\ h.models = IF h.up THEN runtime.models ELSE {}
  BY DEF Observations
<1>3. SeenHere(h)
  <2>1. h.cards \subseteq machine.cards /\ h.memory \in {0, machine.memory}
    BY <1>2
  <2>2. h.models \subseteq Tags
    BY <1>1, <1>2 DEF Runtimes
  <2>3. h.models # {} => h.up
    <3>1. h.models = IF h.up THEN runtime.models ELSE {}
      BY <1>2
    <3>2. QED
      BY <3>1, Zenon
  <2>4. QED
    BY <2>1, <2>2, <2>3, Zenon DEF SeenHere
<1>4. h \in Views
  <2>1. runtime.up \in BOOLEAN /\ runtime.models \in SUBSET Tags
    BY <1>1 DEF Runtimes
  <2>2. \A cards \in SUBSET machine.cards : cards \in SUBSET Nat
    BY <1>1
  <2>3. {0, machine.memory} \subseteq Nat
    BY <1>1
  <2>4. {FALSE, runtime.up} \subseteq BOOLEAN
    BY <2>1, Zenon
  <2>5. {{}, runtime.models} \subseteq SUBSET Tags
    BY <2>1
  <2>6. QED
    BY <1>2, <2>2, <2>3, <2>4, <2>5, Zenon DEF Views
<1>5. QED
  BY <1>3, <1>4, WordingAssumption

\* The answer is from the best that was there when the machine was looked at.
LEMMA ChosenIsApproved ==
    ASSUME WordingInv, wording.by = "local"
    PROVE  LET p == Ladder[wording.profile]
           IN  /\ wording.tag.model = p.model /\ wording.tag.form # "lookalike"
               /\ IF p.on = "gpu" THEN \E size \in machine.cards : size >= p.needs
                                  ELSE machine.memory >= p.needs
               /\ \A q \in 1..(wording.profile - 1) :
                     Supports(hardware, Ladder[q]) =>
                         \A t \in hardware.models : t.model = Ladder[q].model => t.form = "lookalike"
<1> DEFINE p == Ladder[wording.profile]
<1>1. /\ hardware # Unseen /\ hardware.cards \subseteq machine.cards /\ hardware.memory \in {0, machine.memory}
      /\ hardware.models \subseteq Tags
      /\ wording.profile \in Servable(hardware) /\ \A q \in Servable(hardware) : wording.profile <= q
      /\ wording.tag \in HasModel(hardware, p.model)
  BY DEF WordingInv, DetectedHere, SeenHere, ChosenHere
<1>2. machine.cards \in SUBSET Nat /\ machine.memory \in Nat
  BY WordingAssumption DEF WordingInv
<1>3. /\ wording.profile \in 1..Len(Ladder) /\ p.on \in {"gpu", "cpu"} /\ p.needs \in Nat
      /\ hardware.up /\ Supports(hardware, p)
  BY <1>1, WordingAssumption DEF Servable, Supported
<1>4. wording.tag.model = p.model /\ wording.tag.form # "lookalike"
  BY <1>1 DEF HasModel
<1>5. ASSUME p.on = "gpu" PROVE \E size \in machine.cards : size >= p.needs
  BY <1>1, <1>3, <1>5 DEF Supports
<1>6. ASSUME p.on # "gpu" PROVE machine.memory >= p.needs
  <2>1. hardware.memory >= p.needs
    BY <1>3, <1>6 DEF Supports
  <2>2. QED
    BY <2>1, <1>1, <1>2, <1>3
<1>7. ASSUME NEW q \in 1..(wording.profile - 1), Supports(hardware, Ladder[q]),
             NEW t \in hardware.models, t.model = Ladder[q].model
      PROVE  t.form = "lookalike"
  <2>1. q \in DOMAIN Ladder /\ q < wording.profile
    BY <1>3, WordingAssumption
  <2>2. q \notin Servable(hardware)
    BY <2>1, <1>1, <1>3, WordingAssumption
  <2>3. HasModel(hardware, Ladder[q].model) = {}
    BY <2>1, <2>2, <1>7, <1>3 DEF Servable, Supported
  <2>4. t.form \in {"exact", "variant", "lookalike"}
    BY <1>1, WordingAssumption
  <2>5. QED
    BY <2>3, <2>4, <1>7 DEF HasModel
<1>8. QED
  BY <1>4, <1>5, <1>6, <1>7

LEMMA WordingInitInv == WordingInit => WordingInv
BY WordingAssumption DEF WordingInit, WordingInv, DetectedHere, ChosenHere, NoWording, Runtimes, Wordings

LEMMA BindLocalKeeps ==
    ASSUME WordingInv, BindLocal
    PROVE  WordingInv'
<1>1. PICK h \in (IF hardware = Unseen THEN Observations ELSE {hardware}) :
         /\ hardware' = h /\ Servable(h) # {}
         /\ \E t \in HasModel(h, Ladder[Strongest(h)].model) :
               wording' = [stage |-> "bound", by |-> "local", tag |-> t, profile |-> Strongest(h)]
  BY DEF BindLocal, Bind
<1>2. SeenHere(h) /\ h # Unseen /\ UNCHANGED <<setting, machine, runtime>>
  BY <1>1, LooksSeeTheMachine DEF WordingInv, DetectedHere, BindLocal
<1>3. Strongest(h) \in Servable(h) /\ \A q \in Servable(h) : Strongest(h) <= q
  BY <1>1, StrongestIsFirst
<1>4. PICK t \in HasModel(h, Ladder[Strongest(h)].model) :
         wording' = [stage |-> "bound", by |-> "local", tag |-> t, profile |-> Strongest(h)]
  BY <1>1
<1>5. wording' \in Wordings
  <2>1. Strongest(h) \in 0..Len(Ladder) /\ t \in Tags
    BY <1>2, <1>3, WordingAssumption DEF Servable, Supported, HasModel, SeenHere
  <2>2. QED
    BY <2>1, <1>4 DEF Wordings
<1>6. QED
  BY <1>1, <1>2, <1>3, <1>4, <1>5 DEF WordingInv, DetectedHere, SeenHere, ChosenHere

LEMMA WordingStepInv == WordingInv /\ [WordingNext]_wordingVars => WordingInv'
<1> SUFFICES ASSUME WordingInv, [WordingNext]_wordingVars PROVE WordingInv'
  OBVIOUS
<1>1. CASE WarmUp
  BY <1>1, LooksSeeTheMachine DEF WarmUp, WordingInv, DetectedHere, SeenHere, ChosenHere
<1>2. CASE BindLocal
  BY <1>2, BindLocalKeeps
<1>3. CASE BindCloud
  <2>1. wording' \in Wordings
    BY <1>3, WordingAssumption DEF BindCloud, Bind, Wordings
  <2>2. QED
    BY <2>1, <1>3 DEF BindCloud, MayUseCloud, UsesLocal, Bind, WordingInv, DetectedHere, SeenHere, ChosenHere
<1>4. CASE BindNothing \/ Word \/ WordingFails
  <2>1. /\ wording'.by = wording.by /\ wording'.tag = wording.tag /\ wording'.profile = wording.profile
        /\ wording' \in Wordings /\ UNCHANGED <<setting, machine, runtime, hardware>>
    BY <1>4 DEF BindNothing, Word, WordingFails, WordingInv, Wordings
  <2>2. QED
    BY <2>1 DEF WordingInv, DetectedHere, SeenHere, ChosenHere
<1>5. CASE NextWording
  <2>1. NoWording \in Wordings /\ NoWording.by = "none"
    BY WordingAssumption DEF NoWording, Wordings
  <2>2. QED
    BY <2>1, <1>5 DEF NextWording, WordingInv, DetectedHere, SeenHere, ChosenHere
<1>6. CASE Provision
  <2>1. runtime' \in Runtimes
    <3>1. runtime \in Runtimes
      BY DEF WordingInv
    <3>2. \A ts \in SUBSET Tags : [runtime EXCEPT !.models = ts] \in Runtimes
      BY <3>1 DEF Runtimes
    <3>3. \A t \in Tags : (IF t \in runtime.models THEN runtime.models \ {t} ELSE runtime.models \cup {t})
                           \in SUBSET Tags
      BY <3>1 DEF Runtimes
    <3>4. ASSUME NEW t \in Tags,
                 runtime' = [runtime EXCEPT !.models = IF t \in @ THEN @ \ {t} ELSE @ \cup {t}]
          PROVE  runtime' \in Runtimes
      BY <3>2, <3>3, <3>4
    <3>5. [runtime EXCEPT !.up = ~@] \in Runtimes
      BY <3>1 DEF Runtimes
    <3>6. QED
      BY <3>1, <3>4, <3>5, <1>6 DEF Provision
  <2>2. QED
    BY <2>1, <1>6 DEF Provision, WordingInv, DetectedHere, SeenHere, ChosenHere
<1>7. CASE Reboot
  <2>1. NoWording \in Wordings /\ NoWording.by = "none"
    BY WordingAssumption DEF NoWording, Wordings
  <2>2. QED
    BY <2>1, <1>7 DEF Reboot, WordingInv, DetectedHere, SeenHere, ChosenHere
<1>8. CASE UNCHANGED wordingVars
  BY <1>8 DEF wordingVars, WordingInv, DetectedHere, SeenHere, ChosenHere
<1>9. QED
  BY <1>1, <1>2, <1>3, <1>4, <1>5, <1>6, <1>7, <1>8 DEF WordingNext

\* No text leaves the machine except in development, and a local answer is that of the strongest
\* approved model that this machine, as far as the look at it saw, supports and had, whatever is
\* provisioned while it runs, for any ladder, any machines, looks that fail, and any number of requests.
THEOREM WordingApproved == WordingSpec => []WordedAsApproved
<1>1. WordingInv => WordedAsApproved
  BY ChosenIsApproved DEF WordingInv, WordedAsApproved
<1>2. QED
  BY <1>1, WordingInitInv, WordingStepInv, PTL DEF WordingSpec

\* The type invariant of the wording.
LEMMA WordingTyped == WordingSpec => []WordingTypeOK
<1> DEFINE Bounded == keyed \in BOOLEAN /\ provisions \in 0..MaxProvisions
<1>0. MaxProvisions \in Nat
  BY WordingAssumption
<1>1. WordingInit => Bounded
  BY <1>0 DEF WordingInit
<1>2. Bounded /\ [WordingNext]_wordingVars => Bounded'
  <2> SUFFICES ASSUME Bounded, [WordingNext]_wordingVars PROVE Bounded'
    OBVIOUS
  <2>1. CASE Provision \/ Reboot
    <3>1. provisions' \in 0..MaxProvisions
      BY <1>0, <2>1 DEF Provision, Reboot
    <3>2. keyed' = keyed \/ keyed' = ~keyed
      BY <2>1 DEF Provision, Reboot
    <3>3. keyed' \in BOOLEAN
      BY <3>2
    <3>4. QED
      BY <3>1, <3>3
  <2>2. CASE UNCHANGED <<keyed, provisions>>
    BY <2>2
  <2>3. QED
    BY <2>1, <2>2 DEF WordingNext, wordingVars, WarmUp, BindLocal, BindCloud, BindNothing, Word, WordingFails,
       NextWording
<1>3. WordingInv /\ Bounded => WordingTypeOK
  BY DEF WordingInv, Runtimes, Wordings, DetectedHere, SeenHere, WordingTypeOK
<1> HIDE DEF Bounded
<1>4. QED
  BY <1>1, <1>2, <1>3, WordingInitInv, WordingStepInv, PTL DEF WordingSpec

-----------------------------------------------------------------------------
(* The settings of the running server *)

PutRow == [stage: {"idle", "checking", "assigning"}, sent: SUBSET ConfigKeys,
           values: [ConfigKeys -> Nat], alone: BOOLEAN]

ConfigTyping ==
    /\ environment \in [ConfigKeys -> Nat] /\ config \in [ConfigKeys -> Nat]
    /\ puts \in [Admins -> PutRow]
    /\ checkup \in [stage: {"idle", "begun", "done"}, match: Nat, duplicate: Nat, quiet: BOOLEAN]
    /\ tuned \in SUBSET ConfigKeys /\ crossed \in BOOLEAN

Chosen(k) == {v * Units[k] : v \in Ranges[k]}

BodiesChosen == \A a \in Admins : \A k \in puts[a].sent : puts[a].values[k] \in Chosen(k)

\* What the settings will be when the save has assigned what it still has to.
Bound(put, now, k) == IF k \in put.sent THEN put.values[k] ELSE now[k]

\* A save that is alone was checked against the settings as they are.
LoneSaves ==
    \A a \in Admins : puts[a].alone =>
        /\ puts[a].stage = "checking" =>
              /\ \A b \in Admins : b # a => puts[b].stage = "idle"
              /\ puts[a].values["duplicate"] = Bound(puts[a], config, "duplicate")
        /\ puts[a].stage = "assigning" =>
              /\ \A b \in Admins : b # a => puts[b].stage # "assigning"
              /\ Bound(puts[a], config, "match") < Bound(puts[a], config, "duplicate")

OnlyLoneSaves == ~crossed => \A a \in Admins : puts[a].stage = "assigning" => puts[a].alone

CheckupWatched ==
    checkup.stage = "begun" /\ checkup.quiet =>
        /\ ~crossed /\ \A a \in Admins : puts[a].stage # "assigning"
        /\ checkup.match = config["match"]

ConfigInv ==
    /\ ConfigTyping /\ BodiesChosen /\ LoneSaves /\ OnlyLoneSaves /\ CheckupWatched
    /\ SimilaritiesOrdered /\ CheckupOrdered /\ ChosenOrGiven

LEMMA EmptyPut ==
    /\ NoPut \in PutRow /\ NoPut.stage = "idle" /\ NoPut.sent = {} /\ NoPut.alone = FALSE
BY DEF NoPut, PutRow

LEMMA EmptyCheckup ==
    /\ NoCheckup \in [stage: {"idle", "begun", "done"}, match: Nat, duplicate: Nat, quiet: BOOLEAN]
    /\ NoCheckup.stage = "idle"
BY DEF NoCheckup

\* From the environment, with nothing under way, the settings start and start again.
LEMMA FromEnvironment ==
    ASSUME environment \in [ConfigKeys -> Nat], environment' \in [ConfigKeys -> Nat],
           config' = environment', puts' = [a \in Admins |-> NoPut], checkup' = NoCheckup,
           tuned' = {}, crossed' = ~Ordered(environment')
    PROVE  ConfigInv'
<1>1. \A a \in Admins : puts'[a] = NoPut
  OBVIOUS
<1>2. ConfigTyping'
  BY EmptyPut, EmptyCheckup DEF ConfigTyping
<1>3. BodiesChosen' /\ LoneSaves' /\ OnlyLoneSaves'
  BY <1>1, EmptyPut DEF BodiesChosen, LoneSaves, OnlyLoneSaves
<1>4. CheckupWatched' /\ CheckupOrdered'
  BY EmptyCheckup DEF CheckupWatched, CheckupOrdered
<1>5. SimilaritiesOrdered' /\ ChosenOrGiven'
  BY DEF SimilaritiesOrdered, ChosenOrGiven, Ordered
<1>6. QED
  BY <1>2, <1>3, <1>4, <1>5 DEF ConfigInv

LEMMA ConfigInitInv == ConfigInit => ConfigInv
<1> SUFFICES ASSUME ConfigInit PROVE ConfigInv
  OBVIOUS
<1>0. /\ environment \in [ConfigKeys -> Nat] /\ config = environment
      /\ puts = [a \in Admins |-> NoPut] /\ checkup = NoCheckup /\ tuned = {}
      /\ crossed = ~Ordered(environment)
  BY ConfigAssumption DEF ConfigInit
<1>1. \A a \in Admins : puts[a] = NoPut
  BY <1>0
<1>2. ConfigTyping
  BY <1>0, EmptyPut, EmptyCheckup DEF ConfigTyping, Ordered
<1>3. BodiesChosen /\ LoneSaves /\ OnlyLoneSaves
  BY <1>1, EmptyPut DEF BodiesChosen, LoneSaves, OnlyLoneSaves
<1>4. CheckupWatched /\ CheckupOrdered
  BY <1>0, EmptyCheckup DEF CheckupWatched, CheckupOrdered
<1>5. SimilaritiesOrdered /\ ChosenOrGiven
  BY <1>0 DEF SimilaritiesOrdered, ChosenOrGiven
<1>6. QED
  BY <1>2, <1>3, <1>4, <1>5 DEF ConfigInv

LEMMA ConfigFrame ==
    ASSUME ConfigInv, UNCHANGED <<environment, config, puts, checkup, tuned, crossed>>
    PROVE  ConfigInv'
BY DEF ConfigInv, ConfigTyping, BodiesChosen, LoneSaves, Bound, OnlyLoneSaves, CheckupWatched,
       SimilaritiesOrdered, Assigning, CheckupOrdered, ChosenOrGiven, Ordered

LEMMA BeginSaveKeeps ==
    ASSUME ConfigInv, NEW a \in Admins, BeginSave(a)
    PROVE  ConfigInv'
<1>1. PICK sent \in (SUBSET ConfigKeys) \ {{}} : \E entered \in [sent -> UNION {Ranges[k] : k \in sent}] :
          /\ \A k \in sent : entered[k] \in Ranges[k] \ {consoles[a][k]}
          /\ puts' = [b \in Admins |->
                IF b = a THEN [stage |-> "checking", sent |-> sent, values |-> BodyOf(sent, entered),
                               alone |-> \A c \in Admins : NotSaving(c)]
                ELSE IF puts[b].stage = "checking" THEN [puts[b] EXCEPT !.alone = FALSE] ELSE puts[b]]
  BY DEF BeginSave
<1>2. PICK entered \in [sent -> UNION {Ranges[k] : k \in sent}] :
          /\ \A k \in sent : entered[k] \in Ranges[k]
          /\ puts' = [b \in Admins |->
                IF b = a THEN [stage |-> "checking", sent |-> sent, values |-> BodyOf(sent, entered),
                               alone |-> \A c \in Admins : NotSaving(c)]
                ELSE IF puts[b].stage = "checking" THEN [puts[b] EXCEPT !.alone = FALSE] ELSE puts[b]]
  BY <1>1
<1>3. /\ UNCHANGED <<environment, config, checkup, tuned, crossed>> /\ puts[a].stage = "idle"
      /\ puts \in [Admins -> PutRow] /\ config \in [ConfigKeys -> Nat]
  BY DEF BeginSave, NotSaving, ConfigInv, ConfigTyping
<1> DEFINE values == BodyOf(sent, entered)
           lone == \A c \in Admins : NotSaving(c)
           new == [stage |-> "checking", sent |-> sent, values |-> values, alone |-> lone]
<1>4. /\ values \in [ConfigKeys -> Nat] /\ \A k \in sent : values[k] \in Chosen(k)
      /\ "duplicate" \notin sent => values["duplicate"] = config["duplicate"]
  <2>1. \A k \in sent : k \in ConfigKeys /\ entered[k] \in Nat /\ Units[k] \in Nat /\ entered[k] * Units[k] \in Chosen(k)
    BY <1>2, ConfigAssumption DEF Chosen
  <2>2. \A k \in sent : entered[k] * Units[k] \in Nat
    BY <2>1
  <2>3. \A k \in ConfigKeys : (IF k \in sent THEN entered[k] * Units[k]
                               ELSE IF k = "duplicate" THEN config[k] ELSE 0) \in Nat
    BY <1>3, <2>2
  <2>4. QED
    BY <2>1, <2>3 DEF BodyOf, ConfigKeys
<1>5. lone \in BOOLEAN
  OBVIOUS
<1>6. puts'[a] = new /\ \A b \in Admins : b # a =>
          puts'[b] = IF puts[b].stage = "checking" THEN [puts[b] EXCEPT !.alone = FALSE] ELSE puts[b]
  BY <1>2
<1> HIDE DEF values, lone
<1>7. new \in PutRow /\ new.stage = "checking" /\ new.sent = sent /\ new.values = values /\ new.alone = lone
  BY <1>4, <1>5 DEF PutRow
<1> HIDE DEF new
<1>8. \A b \in Admins : b # a =>
          /\ puts'[b] \in PutRow /\ puts'[b].stage = puts[b].stage /\ puts'[b].sent = puts[b].sent
          /\ puts'[b].values = puts[b].values
          /\ puts'[b].alone = (puts[b].alone /\ puts[b].stage # "checking")
  <2>1. \A r \in PutRow : /\ [r EXCEPT !.alone = FALSE] \in PutRow
                          /\ [r EXCEPT !.alone = FALSE].stage = r.stage /\ [r EXCEPT !.alone = FALSE].sent = r.sent
                          /\ [r EXCEPT !.alone = FALSE].values = r.values
                          /\ [r EXCEPT !.alone = FALSE].alone = FALSE
    BY DEF PutRow
  <2>2. \A b \in Admins : puts[b] \in PutRow /\ puts[b].alone \in BOOLEAN
    BY <1>3 DEF PutRow
  <2>3. ASSUME NEW b \in Admins, b # a, puts[b].stage = "checking"
        PROVE  /\ puts'[b] \in PutRow /\ puts'[b].stage = puts[b].stage /\ puts'[b].sent = puts[b].sent
               /\ puts'[b].values = puts[b].values
               /\ puts'[b].alone = (puts[b].alone /\ puts[b].stage # "checking")
    <3>1. puts'[b] = [puts[b] EXCEPT !.alone = FALSE]
      BY <1>6, <2>3
    <3>2. puts'[b].alone = FALSE
      BY <2>1, <2>2, <3>1
    <3>3. QED
      BY <2>1, <2>2, <2>3, <3>1, <3>2
  <2>4. ASSUME NEW b \in Admins, b # a, puts[b].stage # "checking"
        PROVE  /\ puts'[b] = puts[b]
               /\ puts'[b].alone = (puts[b].alone /\ puts[b].stage # "checking")
    <3>1. puts'[b] = puts[b]
      BY <1>6, <2>4
    <3>2. QED
      BY <2>2, <2>4, <3>1
  <2>5. QED
    BY <2>1, <2>2, <2>3, <2>4
<1>9. ConfigTyping'
  <2>1. \A b \in Admins : puts'[b] \in PutRow
    BY <1>6, <1>7, <1>8
  <2>2. puts' \in [Admins -> PutRow]
    BY <1>2, <2>1
  <2>3. QED
    BY <1>3, <2>2 DEF ConfigInv, ConfigTyping
<1>10. BodiesChosen'
  BY <1>4, <1>6, <1>7, <1>8 DEF ConfigInv, BodiesChosen, Chosen
<1>11. LoneSaves'
  <2>1. lone => \A b \in Admins : b # a => puts'[b].stage = "idle"
    BY <1>8 DEF lone, NotSaving
  <2>2. lone => /\ \A b \in Admins : b # a => puts'[b].stage = "idle"
                /\ puts'[a].values["duplicate"] = Bound(puts'[a], config', "duplicate")
    BY <1>3, <1>4, <1>6, <1>7, <2>1 DEF Bound
  <2>3. ASSUME NEW b \in Admins, b # a, puts'[b].alone, puts'[b].stage = "assigning"
        PROVE  /\ \A c \in Admins : c # b => puts'[c].stage # "assigning"
               /\ Bound(puts'[b], config', "match") < Bound(puts'[b], config', "duplicate")
    <3>1. puts[b].alone /\ puts[b].stage = "assigning"
      BY <1>8, <2>3
    <3>2. /\ \A c \in Admins : c # b => puts[c].stage # "assigning"
          /\ Bound(puts[b], config, "match") < Bound(puts[b], config, "duplicate")
      BY <3>1 DEF ConfigInv, LoneSaves
    <3>3. QED
      BY <1>3, <1>6, <1>7, <1>8, <2>3, <3>2 DEF Bound
  <2>4. \A b \in Admins : b # a /\ puts'[b].alone => puts'[b].stage # "checking"
    BY <1>8
  <2>5. QED
    BY <1>6, <1>7, <2>2, <2>3, <2>4 DEF LoneSaves, Bound
<1>12. \A b \in Admins : puts'[b].stage = "assigning" => /\ puts[b].stage = "assigning"
                                                         /\ puts[b].alone => puts'[b].alone
  BY <1>6, <1>7, <1>8
<1>13. OnlyLoneSaves' /\ CheckupWatched'
  BY <1>3, <1>12 DEF ConfigInv, OnlyLoneSaves, CheckupWatched
<1>14. \A b \in Admins : puts[b].stage = "assigning" => puts'[b].stage = "assigning"
  BY <1>3, <1>8
<1>15. SimilaritiesOrdered' /\ CheckupOrdered' /\ ChosenOrGiven'
  BY <1>3, <1>14 DEF ConfigInv, SimilaritiesOrdered, Assigning, Ordered, CheckupOrdered, ChosenOrGiven
<1>16. QED
  BY <1>9, <1>10, <1>11, <1>13, <1>15 DEF ConfigInv

\* What the step of one save leaves as it is in the others.
LEMMA Crossing ==
    \A r \in PutRow : /\ [r EXCEPT !.alone = FALSE] \in PutRow /\ [r EXCEPT !.alone = FALSE].stage = r.stage
                      /\ [r EXCEPT !.alone = FALSE].sent = r.sent
                      /\ [r EXCEPT !.alone = FALSE].values = r.values
                      /\ [r EXCEPT !.alone = FALSE].alone = FALSE
BY DEF PutRow

LEMMA Passing ==
    \A r \in PutRow : /\ [r EXCEPT !.stage = "assigning"] \in PutRow
                      /\ [r EXCEPT !.stage = "assigning"].stage = "assigning"
                      /\ [r EXCEPT !.stage = "assigning"].sent = r.sent
                      /\ [r EXCEPT !.stage = "assigning"].values = r.values
                      /\ [r EXCEPT !.stage = "assigning"].alone = r.alone
BY DEF PutRow

LEMMA Taking ==
    \A r \in PutRow : \A left \in SUBSET r.sent :
        /\ [r EXCEPT !.sent = left] \in PutRow /\ [r EXCEPT !.sent = left].stage = r.stage
        /\ [r EXCEPT !.sent = left].sent = left /\ [r EXCEPT !.sent = left].values = r.values
        /\ [r EXCEPT !.sent = left].alone = r.alone
BY DEF PutRow

LEMMA CheckSaveKeeps ==
    ASSUME ConfigInv, NEW a \in Admins, CheckSave(a)
    PROVE  ConfigInv'
<1>1. /\ puts[a].stage = "checking" /\ WouldBeOrdered(puts[a])
      /\ puts' = [b \in Admins |-> IF b = a THEN [puts[b] EXCEPT !.stage = "assigning"]
                                   ELSE IF Assigning(b) THEN [puts[b] EXCEPT !.alone = FALSE] ELSE puts[b]]
      /\ crossed' = (crossed \/ ~puts[a].alone)
      /\ checkup' = [checkup EXCEPT !.quiet = checkup.quiet /\ checkup.stage = "done"]
      /\ UNCHANGED <<environment, config, tuned>>
  BY DEF CheckSave
<1>2. /\ \A b \in Admins : puts[b] \in PutRow
      /\ config \in [ConfigKeys -> Nat] /\ crossed \in BOOLEAN
      /\ checkup \in [stage: {"idle", "begun", "done"}, match: Nat, duplicate: Nat, quiet: BOOLEAN]
  BY DEF ConfigInv, ConfigTyping
<1>3. /\ puts'[a] = [puts[a] EXCEPT !.stage = "assigning"]
      /\ \A b \in Admins : b # a /\ puts[b].stage = "assigning" => puts'[b] = [puts[b] EXCEPT !.alone = FALSE]
      /\ \A b \in Admins : b # a /\ puts[b].stage # "assigning" => puts'[b] = puts[b]
  BY <1>1 DEF Assigning
<1>4. /\ puts'[a] \in PutRow /\ puts'[a].stage = "assigning" /\ puts'[a].sent = puts[a].sent
      /\ puts'[a].values = puts[a].values /\ puts'[a].alone = puts[a].alone
  BY <1>2, <1>3, Passing
<1>5. \A b \in Admins : b # a =>
          /\ puts'[b] \in PutRow /\ puts'[b].stage = puts[b].stage /\ puts'[b].sent = puts[b].sent
          /\ puts'[b].values = puts[b].values
  BY ZenonT(60), <1>2, <1>3, Crossing
<1>6. \A b \in Admins : b # a => (puts'[b].alone => puts[b].alone /\ puts[b].stage # "assigning")
  <2> SUFFICES ASSUME NEW b \in Admins, b # a, puts'[b].alone, puts[b].stage = "assigning" PROVE FALSE
    BY <1>3
  <2>1. puts'[b] = [puts[b] EXCEPT !.alone = FALSE] /\ puts[b] \in PutRow
    BY <1>2, <1>3
  <2>2. QED
    BY <2>1, Crossing
<1>7. /\ checkup' \in [stage: {"idle", "begun", "done"}, match: Nat, duplicate: Nat, quiet: BOOLEAN]
      /\ checkup'.stage = checkup.stage /\ checkup'.match = checkup.match
      /\ checkup'.duplicate = checkup.duplicate
      /\ checkup'.quiet => checkup.quiet /\ checkup.stage = "done"
  <2>1. \A r \in [stage: {"idle", "begun", "done"}, match: Nat, duplicate: Nat, quiet: BOOLEAN] : \A q \in BOOLEAN :
            /\ [r EXCEPT !.quiet = q] \in [stage: {"idle", "begun", "done"}, match: Nat, duplicate: Nat, quiet: BOOLEAN]
            /\ [r EXCEPT !.quiet = q].stage = r.stage /\ [r EXCEPT !.quiet = q].match = r.match
            /\ [r EXCEPT !.quiet = q].duplicate = r.duplicate /\ [r EXCEPT !.quiet = q].quiet = q
    OBVIOUS
  <2>2. (checkup.quiet /\ checkup.stage = "done") \in BOOLEAN
    OBVIOUS
  <2>3. QED
    BY <1>1, <1>2, <2>1, <2>2
<1>8. ConfigTyping'
  <2>1. \A b \in Admins : puts'[b] \in PutRow
    BY <1>4, <1>5
  <2>2. puts' \in [Admins -> PutRow]
    BY <1>1, <2>1
  <2>3. crossed' \in BOOLEAN
    BY <1>1
  <2>4. QED
    BY <1>1, <1>7, <2>2, <2>3 DEF ConfigInv, ConfigTyping
<1>9. BodiesChosen'
  BY <1>4, <1>5 DEF ConfigInv, BodiesChosen, Chosen
<1>10. LoneSaves'
  <2>1. ASSUME puts'[a].alone
        PROVE  /\ \A b \in Admins : b # a => puts'[b].stage # "assigning"
               /\ Bound(puts'[a], config', "match") < Bound(puts'[a], config', "duplicate")
    <3>1. /\ \A b \in Admins : b # a => puts[b].stage = "idle"
          /\ puts[a].values["duplicate"] = Bound(puts[a], config, "duplicate")
      BY <1>1, <1>4, <2>1 DEF ConfigInv, LoneSaves
    <3>2. Bound(puts[a], config, "match") < Bound(puts[a], config, "duplicate")
      BY <1>1, <3>1 DEF WouldBeOrdered, Bound
    <3>3. QED
      BY <1>1, <1>4, <1>5, <3>1, <3>2 DEF Bound
  <2>2. ASSUME NEW b \in Admins, b # a, puts'[b].alone
        PROVE  FALSE \/ puts'[b].stage = "idle"
    <3>1. puts[b].alone /\ puts[b].stage # "assigning"
      BY <1>6, <2>2
    <3>2. puts[b].stage # "checking"
      BY <1>1, <2>2, <3>1 DEF ConfigInv, LoneSaves
    <3>3. puts[b].stage = "idle"
      BY <1>2, <3>1, <3>2 DEF PutRow
    <3>4. QED
      BY <1>5, <2>2, <3>3
  <2>3. QED
    BY <1>4, <2>1, <2>2 DEF LoneSaves
<1>11. OnlyLoneSaves'
  <2>1. SUFFICES ASSUME ~crossed', NEW b \in Admins, puts'[b].stage = "assigning"
                 PROVE  puts'[b].alone
    BY DEF OnlyLoneSaves
  <2>2. ~crossed /\ puts[a].alone
    BY <1>1, <2>1
  <2>3. \A c \in Admins : c # a => puts[c].stage = "idle"
    BY <1>1, <2>2 DEF ConfigInv, LoneSaves
  <2>4. b = a
    BY <1>5, <2>1, <2>3
  <2>5. QED
    BY <1>4, <2>2, <2>4
<1>12. CheckupWatched' /\ CheckupOrdered'
  <2>1. CheckupWatched'
    BY <1>7 DEF CheckupWatched
  <2>2. QED
    BY <1>7, <2>1 DEF ConfigInv, CheckupOrdered
<1>13. SimilaritiesOrdered'
  BY <1>4 DEF SimilaritiesOrdered, Assigning
<1>14. ChosenOrGiven'
  BY <1>1 DEF ConfigInv, ChosenOrGiven
<1>15. QED
  BY <1>8, <1>9, <1>10, <1>11, <1>12, <1>13, <1>14 DEF ConfigInv

\* A save that ends, and changes nothing as it ends.
LEMMA EndKeeps ==
    ASSUME ConfigInv, NEW a \in Admins, puts[a].stage # "idle",
           puts' = [puts EXCEPT ![a] = NoPut], crossed' \in BOOLEAN, ~crossed => ~crossed',
           puts[a].stage = "assigning" => puts[a].sent = {},
           crossed' = crossed \/ (puts[a].stage = "assigning" /\ puts[a].alone),
           UNCHANGED <<environment, config, checkup, tuned>>
    PROVE  ConfigInv'
<1>1. /\ \A b \in Admins : puts[b] \in PutRow
      /\ puts'[a] = NoPut /\ \A b \in Admins : b # a => puts'[b] = puts[b]
  BY DEF ConfigInv, ConfigTyping
<1>2. puts'[a] \in PutRow /\ puts'[a].stage = "idle" /\ puts'[a].sent = {} /\ puts'[a].alone = FALSE
  BY <1>1, EmptyPut
<1>3. ConfigTyping'
  <2>1. \A b \in Admins : puts'[b] \in PutRow
    BY <1>1, <1>2
  <2>2. puts' \in [Admins -> PutRow]
    BY <2>1 DEF ConfigInv, ConfigTyping
  <2>3. QED
    BY <2>2 DEF ConfigInv, ConfigTyping
<1>4. BodiesChosen'
  BY <1>1, <1>2 DEF ConfigInv, BodiesChosen, Chosen
<1>5. LoneSaves'
  BY <1>1, <1>2 DEF ConfigInv, LoneSaves, Bound
<1>6. OnlyLoneSaves'
  <2>1. SUFFICES ASSUME ~crossed', NEW b \in Admins, puts'[b].stage = "assigning"
                 PROVE  puts'[b].alone
    BY DEF OnlyLoneSaves
  <2>2. b # a /\ puts'[b] = puts[b]
    BY <1>1, <1>2, <2>1
  <2>3. CASE crossed' = crossed
    BY <2>1, <2>2, <2>3 DEF ConfigInv, OnlyLoneSaves
  <2>4. CASE puts[a].stage = "assigning" /\ puts[a].alone
    BY <2>1, <2>2, <2>4 DEF ConfigInv, LoneSaves
  <2>5. QED
    BY <2>3, <2>4
<1>7. CheckupWatched' /\ CheckupOrdered'
  BY <1>1, <1>2 DEF ConfigInv, CheckupWatched, CheckupOrdered
<1>8. SimilaritiesOrdered'
  <2>1. SUFFICES ASSUME ~crossed', \A b \in Admins : puts'[b].stage # "assigning"
                 PROVE  config'["match"] < config'["duplicate"]
    BY DEF SimilaritiesOrdered, Assigning, Ordered
  <2>2. \A b \in Admins : b # a => puts[b].stage # "assigning"
    BY <1>1, <2>1
  <2>3. CASE puts[a].stage = "assigning" /\ puts[a].alone
    <3>1. puts[a].sent = {} /\ Bound(puts[a], config, "match") < Bound(puts[a], config, "duplicate")
      BY <2>3 DEF ConfigInv, LoneSaves
    <3>2. QED
      BY <3>1 DEF Bound
  <2>4. CASE ~(puts[a].stage = "assigning" /\ puts[a].alone)
    <3>1. ~crossed
      BY <2>1, <2>4
    <3>2. puts[a].stage # "assigning"
      BY <2>4, <3>1 DEF ConfigInv, OnlyLoneSaves
    <3>3. \A b \in Admins : ~Assigning(b)
      BY <2>2, <3>2 DEF Assigning
    <3>4. QED
      BY <3>1, <3>3 DEF ConfigInv, SimilaritiesOrdered, Ordered
  <2>5. QED
    BY <2>3, <2>4
<1>9. ChosenOrGiven'
  BY DEF ConfigInv, ChosenOrGiven
<1>10. QED
  BY <1>3, <1>4, <1>5, <1>6, <1>7, <1>8, <1>9 DEF ConfigInv

LEMMA AssignKeeps ==
    ASSUME ConfigInv, NEW a \in Admins, Assign(a)
    PROVE  ConfigInv'
<1>1. PICK k \in puts[a].sent :
          /\ \A j \in puts[a].sent : Rank[k] <= Rank[j]
          /\ config' = [config EXCEPT ![k] = puts[a].values[k]]
          /\ tuned' = IF config[k] = puts[a].values[k] THEN tuned ELSE tuned \cup {k}
          /\ puts' = [puts EXCEPT ![a].sent = @ \ {k}]
  BY DEF Assign
<1>2. /\ puts[a].stage = "assigning" /\ UNCHANGED <<environment, checkup, crossed>>
      /\ \A b \in Admins : puts[b] \in PutRow
      /\ config \in [ConfigKeys -> Nat] /\ environment \in [ConfigKeys -> Nat]
      /\ checkup \in [stage: {"idle", "begun", "done"}, match: Nat, duplicate: Nat, quiet: BOOLEAN]
      /\ puts \in [Admins -> PutRow] /\ tuned \in SUBSET ConfigKeys /\ crossed \in BOOLEAN
  BY DEF Assign, Assigning, ConfigInv, ConfigTyping
<1>3. puts[a].sent \in SUBSET ConfigKeys /\ puts[a].values \in [ConfigKeys -> Nat] /\ k \in ConfigKeys
  BY <1>2 DEF PutRow
<1>4. puts[a].values[k] \in Chosen(k) /\ puts[a].values[k] \in Nat
  BY <1>3 DEF ConfigInv, BodiesChosen
<1>5. /\ puts'[a] = [puts[a] EXCEPT !.sent = puts[a].sent \ {k}]
      /\ \A b \in Admins : b # a => puts'[b] = puts[b]
  BY <1>1, <1>2
<1>6. /\ puts'[a] \in PutRow /\ puts'[a].stage = "assigning" /\ puts'[a].sent = puts[a].sent \ {k}
      /\ puts'[a].values = puts[a].values /\ puts'[a].alone = puts[a].alone
  <2>1. puts[a].sent \ {k} \in SUBSET puts[a].sent
    OBVIOUS
  <2>2. QED
    BY <1>2, <1>5, <2>1, Taking
<1>7. config' \in [ConfigKeys -> Nat] /\ config'[k] = puts[a].values[k]
      /\ \A j \in ConfigKeys : j # k => config'[j] = config[j]
  BY <1>1, <1>2, <1>3, <1>4
<1>8. ConfigTyping'
  <2>1. \A b \in Admins : puts'[b] \in PutRow
    BY <1>2, <1>5, <1>6
  <2>2. puts' \in [Admins -> PutRow]
    BY <1>1, <1>2, <2>1
  <2>3. tuned' \in SUBSET ConfigKeys
    BY <1>1, <1>2, <1>3
  <2>4. QED
    BY <1>2, <1>7, <2>2, <2>3 DEF ConfigTyping
<1>9. BodiesChosen'
  <2>1. \A j \in puts'[a].sent : puts'[a].values[j] \in Chosen(j)
    BY <1>6 DEF ConfigInv, BodiesChosen
  <2>2. \A b \in Admins : b # a => \A j \in puts'[b].sent : puts'[b].values[j] \in Chosen(j)
    BY <1>5 DEF ConfigInv, BodiesChosen
  <2>3. QED
    BY <2>1, <2>2 DEF BodiesChosen, Chosen
<1>10. LoneSaves'
  <2>1. ASSUME puts'[a].alone
        PROVE  /\ \A b \in Admins : b # a => puts'[b].stage # "assigning"
               /\ Bound(puts'[a], config', "match") < Bound(puts'[a], config', "duplicate")
    <3>1. /\ \A b \in Admins : b # a => puts[b].stage # "assigning"
          /\ Bound(puts[a], config, "match") < Bound(puts[a], config, "duplicate")
      BY <1>2, <1>6, <2>1 DEF ConfigInv, LoneSaves
    <3>2. \A j \in ConfigKeys : Bound(puts'[a], config', j) = Bound(puts[a], config, j)
      BY <1>6, <1>7 DEF Bound
    <3>3. QED
      BY <1>5, <3>1, <3>2 DEF ConfigKeys
  <2>2. ASSUME NEW b \in Admins, b # a, puts'[b].alone
        PROVE  puts'[b].stage = "idle"
    <3>1. puts[b].alone /\ puts'[b] = puts[b]
      BY <1>5, <2>2
    <3>2. puts[b].stage # "checking" /\ puts[b].stage # "assigning"
      BY <1>2, <2>2, <3>1 DEF ConfigInv, LoneSaves
    <3>3. QED
      BY <1>2, <3>1, <3>2 DEF PutRow
  <2>3. QED
    BY <1>6, <2>1, <2>2 DEF LoneSaves
<1>11. OnlyLoneSaves' /\ SimilaritiesOrdered'
  BY <1>2, <1>5, <1>6 DEF ConfigInv, OnlyLoneSaves, SimilaritiesOrdered, Assigning
<1>12. CheckupWatched' /\ CheckupOrdered'
  BY <1>2 DEF ConfigInv, CheckupWatched, CheckupOrdered
<1>13. ChosenOrGiven'
  <2>1. ASSUME NEW j \in ConfigKeys, j # k
        PROVE  config'[j] \in IF j \in tuned' THEN {v * Units[j] : v \in Ranges[j]} ELSE {environment'[j]}
    BY <1>1, <1>2, <1>7, <2>1 DEF ConfigInv, ChosenOrGiven
  <2>2. config'[k] \in IF k \in tuned' THEN {v * Units[k] : v \in Ranges[k]} ELSE {environment'[k]}
    <3>1. CASE config[k] = puts[a].values[k]
      BY <1>1, <1>2, <1>3, <1>7, <3>1 DEF ConfigInv, ChosenOrGiven
    <3>2. CASE config[k] # puts[a].values[k]
      BY <1>1, <1>4, <1>7, <3>2 DEF Chosen
    <3>3. QED
      BY <3>1, <3>2
  <2>3. QED
    BY <2>1, <2>2 DEF ChosenOrGiven
<1>14. QED
  BY <1>8, <1>9, <1>10, <1>11, <1>12, <1>13 DEF ConfigInv

LEMMA CheckupKeeps ==
    ASSUME ConfigInv, BeginCheckup \/ EndCheckup
    PROVE  ConfigInv'
<1>1. /\ UNCHANGED <<environment, config, puts, tuned, crossed>> /\ config \in [ConfigKeys -> Nat]
      /\ checkup \in [stage: {"idle", "begun", "done"}, match: Nat, duplicate: Nat, quiet: BOOLEAN]
  BY DEF BeginCheckup, EndCheckup, ConfigInv, ConfigTyping
<1>2. config["match"] \in Nat /\ config["duplicate"] \in Nat
  BY <1>1 DEF ConfigKeys
<1>3. /\ checkup' \in [stage: {"idle", "begun", "done"}, match: Nat, duplicate: Nat, quiet: BOOLEAN]
      /\ CheckupWatched' /\ CheckupOrdered'
  <2>1. CASE BeginCheckup
    <3> DEFINE quiet == ~crossed /\ \A a \in Admins : ~Assigning(a)
               new == [stage |-> "begun", match |-> config["match"], duplicate |-> 0, quiet |-> quiet]
    <3>1. checkup' = new /\ quiet \in BOOLEAN
      BY <2>1 DEF BeginCheckup
    <3> HIDE DEF quiet
    <3>2. /\ new \in [stage: {"idle", "begun", "done"}, match: Nat, duplicate: Nat, quiet: BOOLEAN]
          /\ new.stage = "begun" /\ new.match = config["match"] /\ new.quiet = quiet
      BY <1>2, <3>1
    <3> HIDE DEF new
    <3>3. quiet => ~crossed' /\ \A a \in Admins : puts'[a].stage # "assigning"
      BY <1>1 DEF quiet, Assigning
    <3>4. QED
      BY <1>1, <3>1, <3>2, <3>3 DEF CheckupWatched, CheckupOrdered
  <2>2. CASE EndCheckup
    <3> DEFINE new == [checkup EXCEPT !.stage = "done", !.duplicate = config["duplicate"]]
    <3>1. checkup' = new /\ checkup.stage = "begun"
      BY <2>2 DEF EndCheckup
    <3>2. /\ new \in [stage: {"idle", "begun", "done"}, match: Nat, duplicate: Nat, quiet: BOOLEAN]
          /\ new.stage = "done" /\ new.match = checkup.match /\ new.quiet = checkup.quiet
          /\ new.duplicate = config["duplicate"]
      BY <1>1, <1>2
    <3> HIDE DEF new
    <3>3. checkup.quiet => checkup.match < config["duplicate"]
      BY <3>1 DEF ConfigInv, CheckupWatched, SimilaritiesOrdered, Assigning, Ordered
    <3>4. QED
      BY <3>1, <3>2, <3>3 DEF CheckupWatched, CheckupOrdered
  <2>3. QED
    BY <2>1, <2>2
<1>4. QED
  BY <1>1, <1>3 DEF ConfigInv, ConfigTyping, BodiesChosen, Chosen, LoneSaves, Bound, OnlyLoneSaves,
                    SimilaritiesOrdered, Assigning, Ordered, ChosenOrGiven

LEMMA ConfigStep == ConfigInv /\ [ConfigNext]_configVars => ConfigInv'
<1> SUFFICES ASSUME ConfigInv, [ConfigNext]_configVars PROVE ConfigInv'
  OBVIOUS
<1>1. ASSUME NEW a \in Admins, LoadConsole(a) PROVE ConfigInv'
  BY <1>1, ConfigFrame DEF LoadConsole
<1>2. ASSUME NEW a \in Admins, RefuseSave(a) PROVE ConfigInv'
  BY <1>2, EndKeeps DEF RefuseSave, ConfigInv, ConfigTyping
<1>3. ASSUME NEW a \in Admins, AnswerSave(a) PROVE ConfigInv'
  <2>1. /\ puts[a].stage = "assigning" /\ puts[a].sent = {} /\ puts' = [puts EXCEPT ![a] = NoPut]
        /\ crossed' = (crossed /\ ~puts[a].alone) /\ UNCHANGED <<environment, config, checkup, tuned>>
        /\ crossed \in BOOLEAN
    BY <1>3 DEF AnswerSave, Assigning, ConfigInv, ConfigTyping
  <2>2. /\ crossed' \in BOOLEAN /\ (~crossed => ~crossed')
        /\ crossed' = crossed \/ (puts[a].stage = "assigning" /\ puts[a].alone)
    <3>1. CASE puts[a].alone
      BY <2>1, <3>1
    <3>2. CASE ~puts[a].alone
      BY <2>1, <3>2
    <3>3. QED
      BY <3>1, <3>2
  <2>3. QED
    BY <2>1, <2>2, EndKeeps
<1>4. ASSUME Restart PROVE ConfigInv'
  BY <1>4, FromEnvironment DEF Restart, ConfigInv, ConfigTyping
<1>5. CASE UNCHANGED configVars
  BY <1>5, ConfigFrame DEF configVars
<1>6. QED
  BY <1>1, <1>2, <1>3, <1>4, <1>5, BeginSaveKeeps, CheckSaveKeeps, AssignKeeps, CheckupKeeps DEF ConfigNext

\* However many administrators save, and whatever the environment says: the two similarities
\* stand in their order, in memory and in what a check of prints has read of them, but for the
\* cases the properties name; and what nobody set is, to the last byte, what was configured.
THEOREM SettingsStand == ConfigSpec => []ConfigHolds
<1>1. ConfigInv => ConfigHolds
  BY DEF ConfigInv, ConfigHolds
<1>2. QED
  BY <1>1, ConfigInitInv, ConfigStep, PTL DEF ConfigSpec

\* The type invariant of the settings.
LEMMA SettingsTyped == ConfigSpec => []ConfigTypeOK
<1> DEFINE Bounded == environment \in Environments /\ saves \in 0..MaxSaves
           Pages == consoles \in [Admins -> [ConfigKeys -> Nat]]
<1>0. MaxSaves \in Nat /\ Units \in [ConfigKeys -> Nat \ {0}] /\ Environments \subseteq [ConfigKeys -> Nat]
  BY ConfigAssumption
<1>1. ASSUME NEW values \in [ConfigKeys -> Nat]
      PROVE  Displayed(values) \in [ConfigKeys -> Nat]
  <2>1. ASSUME NEW v \in Nat, NEW u \in Nat \ {0}
        PROVE  Shown(v, u) \in Nat
    <3>1. v \div u \in Nat
      OBVIOUS
    <3> DEFINE q == v \div u
    <3>2. Shown(v, u) \in {q, q + 1}
      BY DEF Shown
    <3> HIDE DEF q
    <3>3. q + 1 \in Nat
      BY <3>1 DEF q
    <3>4. QED
      BY <3>1, <3>2, <3>3 DEF q
  <2>2. \A k \in ConfigKeys : values[k] \in Nat /\ Units[k] \in Nat \ {0}
    BY <1>0
  <2>3. QED
    BY <2>1, <2>2 DEF Displayed
<1>2. ConfigInit => Bounded /\ Pages
  BY <1>0, <1>1 DEF ConfigInit
<1>3. Bounded /\ [ConfigNext]_configVars => Bounded'
  BY <1>0 DEF ConfigNext, configVars, LoadConsole, BeginSave, CheckSave, RefuseSave, Assign, AnswerSave, Restart,
         BeginCheckup, EndCheckup
<1>4. ConfigInv /\ Pages /\ [ConfigNext]_configVars => Pages'
  <2> SUFFICES ASSUME config \in [ConfigKeys -> Nat], Pages, [ConfigNext]_configVars PROVE Pages'
    BY DEF ConfigInv, ConfigTyping
  <2>1. Displayed(config) \in [ConfigKeys -> Nat]
    BY <1>1
  <2>2. \/ consoles' = consoles
        \/ \E a \in Admins : consoles' = [consoles EXCEPT ![a] = Displayed(config)]
    BY DEF ConfigNext, configVars, LoadConsole, BeginSave, CheckSave, RefuseSave, Assign, AnswerSave, Restart,
           BeginCheckup, EndCheckup
  <2>3. QED
    BY <2>1, <2>2
<1>5. ConfigInv /\ Bounded /\ Pages => ConfigTypeOK
  BY DEF ConfigInv, ConfigTyping, PutRow, ConfigTypeOK
<1> HIDE DEF Bounded, Pages
<1>6. QED
  BY <1>2, <1>3, <1>4, <1>5, ConfigInitInv, ConfigStep, PTL DEF ConfigSpec
=============================================================================
