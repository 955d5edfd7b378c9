---------------------------- MODULE Transcripts ----------------------------
(***************************************************************************)
(* The transcripts of one session: received, corrected by segment,         *)
(* attributed to speakers, and reviewed.                                   *)
(*                                                                         *)
(* A recording's diarizer numbers its own speakers.  The server gives each *)
(* of them a label of the session, and keeps it when the recording is      *)
(* transcribed anew.  A review is bound to a token, a hash of what is      *)
(* read: texts, attribution, and the speakers with the names of the people *)
(* they were identified as.  Those names are changed in the registry,      *)
(* without the session's lock.                                             *)
(*                                                                         *)
(* The handlers that correct a segment lock it, load the session, and then *)
(* wait for the session's lock without reading the session again.          *)
(***************************************************************************)
EXTENDS Naturals, FiniteSets, Sequences

CONSTANTS
    Editors,        \* the requests that may be under way at once
    Recordings,
    Diarized,       \* the labels a diarizer gives: 0, 1, ..., in the order in which speakers are first heard
    People,         \* people a speaker may be identified as
    Nobody,
    MaxTranscripts, \* bound: results received
    MaxCorrections, \* bound: corrections of segments
    MaxRenames      \* bound: names given in the registry

ASSUME TranscriptsAssumption ==
    /\ IsFiniteSet(Recordings)
    /\ IsFiniteSet(Diarized) /\ Diarized = 0..(Cardinality(Diarized) - 1)
    /\ Nobody \notin People
    /\ MaxTranscripts \in Nat /\ MaxCorrections \in Nat /\ MaxRenames \in Nat

VARIABLES
    workflow,   \* the session is open, under review or reviewed, or sealed
    observed,   \* SessionSpeaker rows, by label
    transcripts,\* Transcript rows, oldest first
    segments,   \* TranscriptSegment rows
    names,      \* [People -> what the registry calls them]
    editing     \* [Editors -> the request under way]

transcriptVars == <<workflow, observed, transcripts, segments, names, editing>>

Taken(rows) == DOMAIN rows
Labels == 0..(Cardinality(Recordings) * Cardinality(Diarized))
Idle   == [kind |-> "none", step |-> "idle", target |-> 1, revision |-> 0, known |-> "OPEN", shown |-> {}]

\* Types, and: a segment is locked by one request at a time.
TranscriptsTypeOK ==
    /\ workflow \in {"OPEN", "REVIEWED", "SEALED"}
    /\ Taken(observed) \subseteq Labels
    /\ \A l \in Taken(observed) :
          observed[l] \in [recording: Recordings, source: Diarized, person: People \cup {Nobody}]
    /\ \A t \in DOMAIN transcripts :
          transcripts[t].recording \in Recordings /\ Cardinality(transcripts[t].token) <= 1
    /\ \A s \in DOMAIN segments :
          segments[s] \in [transcript: DOMAIN transcripts, label: Labels, revision: 0..MaxCorrections,
                           text: 0..MaxCorrections, parts: SUBSET Labels]
    /\ names \in [People -> 0..MaxRenames]
    /\ \A a, b \in Editors :
          (editing[a].step = "loaded" /\ editing[b].step = "loaded" /\ editing[a].kind # "review"
             /\ editing[b].kind # "review" /\ editing[a].target = editing[b].target) => a = b

TranscriptsInit ==
    /\ workflow = "OPEN"
    /\ observed = [l \in {} |-> 0] /\ transcripts = <<>> /\ segments = <<>>
    /\ names = [p \in People |-> 0]
    /\ editing = [e \in Editors |-> Idle]

----------------------------------------------------------------------------
(* What is read, and the token that stands for it *)

SegmentsOf(t) == {s \in DOMAIN segments : segments[s].transcript = t}
SpeakersOf(r) == {l \in Taken(observed) : observed[l].recording = r}

\* _identity_fact: the person and the present name.
IdentityFact(p) == <<p, IF p = Nobody THEN 0 ELSE names[p]>>

\* speech_parts: who is heard saying what.
SpeechParts(s) ==
    <<IF segments[s].parts = {} THEN {segments[s].label} ELSE segments[s].parts, segments[s].text>>

Content(t) ==
    [segments |-> [s \in SegmentsOf(t) |-> SpeechParts(s)],
     speakers |-> [l \in SpeakersOf(transcripts[t].recording) |-> IdentityFact(observed[l].person)]]

\* Mutant of TokenFor.
TokenForIdsOnly(t) ==
    [segments |-> [s \in SegmentsOf(t) |-> <<segments[s].revision, SpeechParts(s)>>],
     speakers |-> [l \in SpeakersOf(transcripts[t].recording) |-> observed[l].person]]

TokenFor(t) ==
    [segments |-> [s \in SegmentsOf(t) |-> <<segments[s].revision, SpeechParts(s)>>],
     speakers |-> [l \in SpeakersOf(transcripts[t].recording) |-> IdentityFact(observed[l].person)]]

IsReviewed(t) == transcripts[t].token = {TokenFor(t)}

----------------------------------------------------------------------------
(* A result *)

SmallestFree(rows) ==
    CHOOSE n \in 0..Cardinality(Taken(rows)) :
        n \notin Taken(rows) /\ \A m \in 0..(n - 1) : m \in Taken(rows)

NextFreeLabel(rows, preferred) ==
    IF preferred \in Taken(rows) THEN SmallestFree(rows) ELSE preferred

Observation(rows, r, local) ==
    {l \in Taken(rows) : rows[l].recording = r /\ rows[l].source = local}

Observe(rows, r, local) ==
    IF Observation(rows, r, local) # {} THEN rows
    ELSE LET new == NextFreeLabel(rows, local)
         IN  [l \in Taken(rows) \cup {new} |->
                IF l = new THEN [recording |-> r, source |-> local, person |-> Nobody] ELSE rows[l]]

\* The labels of the result are resolved in order.
ObserveAll(r, locals) ==
    LET upTo[n \in 0..Cardinality(Diarized)] ==
          IF n = 0 THEN observed
          ELSE IF n - 1 \in locals THEN Observe(upTo[n - 1], r, n - 1) ELSE upTo[n - 1]
    IN  upTo[Cardinality(Diarized)]

EvidenceMayChange(known) ==
    /\ known # "SEALED"
    /\ workflow' = IF known = "REVIEWED" THEN "OPEN" ELSE workflow

\* One segment is kept for each speaker heard.
ReceiveTranscript(r, locals) ==
    /\ Len(transcripts) < MaxTranscripts
    /\ EvidenceMayChange(workflow)
    /\ observed' = ObserveAll(r, locals)
    /\ transcripts' = Append(transcripts, [recording |-> r, token |-> {}, readAs |-> {}])
    /\ LET order == [n \in 1..Cardinality(locals) |->
                       CHOOSE x \in locals : Cardinality({y \in locals : y < x}) = n - 1]
       IN  segments' = segments \o [n \in DOMAIN order |->
             [transcript |-> Len(transcripts) + 1,
              label |-> CHOOSE l \in Observation(observed', r, order[n]) : TRUE,
              revision |-> 0, text |-> 0, parts |-> {}]]
    /\ UNCHANGED <<names, editing>>

----------------------------------------------------------------------------
(* Requests *)

Finish(e) == editing' = [editing EXCEPT ![e] = Idle]

\* The client composes a request from what it is shown.
Compose(e, kind, target) ==
    /\ editing[e].kind = "none"
    /\ target \in IF kind = "review" THEN DOMAIN transcripts ELSE DOMAIN segments
    /\ editing' = [editing EXCEPT ![e] =
          [Idle EXCEPT !.kind = kind, !.step = "sent", !.target = target,
             !.revision = IF kind = "review" THEN 0 ELSE segments[target].revision,
             !.shown = IF kind = "review" THEN {<<TokenFor(target), Content(target)>>} ELSE {}]]
    /\ UNCHANGED <<workflow, observed, transcripts, segments, names>>

LockedSegment(s) ==
    \E e \in Editors : editing[e].kind \in {"text", "parts"} /\ editing[e].step = "loaded" /\ editing[e].target = s

\* A correction locks its segment; then the session is loaded, and its lock awaited.
Load(e) ==
    /\ editing[e].step = "sent"
    /\ editing[e].kind # "review" => ~LockedSegment(editing[e].target)
    /\ editing' = [editing EXCEPT ![e].step = "loaded", ![e].known = workflow]
    /\ UNCHANGED <<workflow, observed, transcripts, segments, names>>

Refuse(e) ==
    /\ editing[e].step # "idle"
    /\ Finish(e)
    /\ UNCHANGED <<workflow, observed, transcripts, segments, names>>

Loaded(e, kind) == editing[e].kind = kind /\ editing[e].step = "loaded"

Corrections == Cardinality({x \in (1..Len(segments)) \X (1..MaxCorrections) : x[2] <= segments[x[1]].revision})

\* The words of a correction are new, or (0) those of the result again.
EditSegment(e, text) ==
    LET s == editing[e].target
    IN  /\ Loaded(e, "text")
        /\ EvidenceMayChange(editing[e].known)
        /\ editing[e].revision = segments[s].revision
        /\ segments[s].parts = {}
        /\ segments' = [segments EXCEPT ![s].revision = @ + 1, ![s].text = text]
        /\ Finish(e)
        /\ UNCHANGED <<observed, transcripts, names>>

ReviewAttribution(e, parts) ==
    LET s == editing[e].target
    IN  /\ Loaded(e, "parts")
        /\ EvidenceMayChange(editing[e].known)
        /\ editing[e].revision = segments[s].revision
        /\ parts # {} /\ parts \subseteq SpeakersOf(transcripts[segments[s].transcript].recording)
        /\ segments' = [segments EXCEPT ![s].revision = @ + 1, ![s].text = Corrections + 1, ![s].parts = parts]
        /\ Finish(e)
        /\ UNCHANGED <<observed, transcripts, names>>

ReviewTranscript(e) ==
    LET t == editing[e].target
    IN  /\ Loaded(e, "review")
        /\ \E seen \in editing[e].shown :
              /\ seen[1] = TokenFor(t)
              /\ transcripts' = [transcripts EXCEPT ![t].token = {seen[1]}, ![t].readAs = {seen[2]}]
        /\ SegmentsOf(t) # {}
        /\ EvidenceMayChange(editing[e].known)
        /\ Finish(e)
        /\ UNCHANGED <<observed, segments, names>>

\* The session is read again under its lock.
UpdateSpeaker(l, p) ==
    /\ l \in Taken(observed) /\ observed[l].person # p
    /\ EvidenceMayChange(workflow)
    /\ observed' = [observed EXCEPT ![l].person = p]
    /\ UNCHANGED <<transcripts, segments, names, editing>>

RenamePerson(p) ==
    /\ names[p] < MaxRenames
    /\ names' = [names EXCEPT ![p] = @ + 1]
    /\ UNCHANGED <<workflow, observed, transcripts, segments, editing>>

MoveSession(to) ==
    /\ to # workflow
    /\ to = "SEALED" \/ workflow # "SEALED" \/ to = "OPEN"
    /\ workflow' = to
    /\ UNCHANGED <<observed, transcripts, segments, names, editing>>

ResultSteps == \E r \in Recordings : \E locals \in SUBSET Diarized : ReceiveTranscript(r, locals)

EditorSteps(e) ==
    \/ \E target \in DOMAIN segments : \E kind \in {"text", "parts"} : Compose(e, kind, target)
    \/ \E target \in DOMAIN transcripts : Compose(e, "review", target)
    \/ Load(e) \/ Refuse(e) \/ ReviewTranscript(e)
    \/ /\ Corrections < MaxCorrections
       /\ \/ \E text \in {0, Corrections + 1} : EditSegment(e, text)
          \/ \E parts \in SUBSET Taken(observed) : ReviewAttribution(e, parts)

SpeakerSteps ==
    \/ \E l \in Taken(observed) : \E p \in People : UpdateSpeaker(l, p)
    \/ \E p \in People : RenamePerson(p)

SessionSteps == \E to \in {"OPEN", "REVIEWED", "SEALED"} : MoveSession(to)

TranscriptsNext == ResultSteps \/ (\E e \in Editors : EditorSteps(e)) \/ SpeakerSteps \/ SessionSteps

TranscriptsSpec == TranscriptsInit /\ [][TranscriptsNext]_transcriptVars

----------------------------------------------------------------------------
(* Properties *)

\* A transcript counts as reviewed only while it reads exactly as it read to its reviewer: the
\* words, who says them, and what these people are called, whoever changed what in between.
ReviewedAsRead ==
    \A t \in DOMAIN transcripts : IsReviewed(t) => transcripts[t].readAs = {Content(t)}

\* Speakers of different recordings are never taken for each other: a label stands for one
\* diarized speaker of one recording, and what a transcript attributes to a label was heard in its
\* own recording.
SpeakersApart ==
    /\ \A l, m \in Taken(observed) :
          (observed[l].recording = observed[m].recording /\ observed[l].source = observed[m].source) => l = m
    /\ \A s \in DOMAIN segments : \A l \in segments[s].parts \cup {segments[s].label} :
          observed[l].recording = transcripts[segments[s].transcript].recording

\* A reviewed transcript says what its reviewer read, of the people who were heard in it.
TranscriptsHold == ReviewedAsRead /\ SpeakersApart
=============================================================================
