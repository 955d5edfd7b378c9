----------------------------- MODULE MCServices -----------------------------
(***************************************************************************)
(* One run for the parts of the server and of the agent that do not act on *)
(* one another's state: `component` names the part that moves, and the     *)
(* others keep their initial state.  A large part is named more than once, *)
(* each time with some of its operations and its own bounds.               *)
(***************************************************************************)
EXTENDS Reports, Transcripts, Voices, Sessions, Statements, Dialogue, Embeddings, Registry,
        Accounts, Wording, Wipe, Gallery, Composer, Workspace, RuntimeConfig

CONSTANTS c1, c2, d1, e1, e2, r1, r2, w1, w2, p1, p2, s1, s2, v1, k1, k2, o1, a1, a2, a3, a4

\* Who and what the moves below name is among those there are.
ASSUME ServicesAssumption ==
    r1 \in Recordings /\ 0 \in Diarized /\ p1 \in People /\ s1 \in Speakers /\ e1 \in Forms

VARIABLE component

Region(a, b) == [start |-> a, end |-> b]
MCSpeechSets == {<<>>, <<Region(0, 3), Region(4, 6)>>, <<Region(0, 1), Region(2, 4), Region(5, 6)>>}

\* Detected speech with and without a silence, in the time of the turns of Embeddings.
MCDetections == {{<<0, 4>>}, {<<0, 1>>, <<2, 4>>}}

\* Three profiles: a large model on a card, a small one on a card, the small one without.
MCLadder == <<[model |-> "14b", on |-> "gpu", needs |-> 3], [model |-> "8b", on |-> "gpu", needs |-> 1],
              [model |-> "8b", on |-> "cpu", needs |-> 1]>>
MCTags ==
    {[model |-> "8b", form |-> "exact"], [model |-> "8b", form |-> "lookalike"],
     [model |-> "14b", form |-> "variant"]}

\* Two small cards are not one large one; the last machine has too little memory for any model.
MCMachines ==
    [cards : {{}, {1}, {1, 2}, {3}}, memory : {1}] \cup {[cards |-> {1}, memory |-> 0]}
MCSettings ==
    [environment : {"development"}, mode : {"auto", "local"}, enabled : {TRUE}]
    \cup {[environment |-> "production", mode |-> "auto", enabled |-> TRUE],
          [environment |-> "production", mode |-> "off", enabled |-> FALSE],
          [environment |-> "staging", mode |-> "auto", enabled |-> FALSE]}

\* Prints created in the order of their identifiers, against it, and mixed; the two that look the
\* same are the first two.
PairsOfPrints == {s \in SUBSET Enrolled : Cardinality(s) = 2}
MCOrders      == {[p \in Enrolled |-> p], [p \in Enrolled |-> 5 - p], [p \in Enrolled |-> <<3, 1, 4, 2>>[p]]}
MCLikenesses  == {l \in [PairsOfPrints -> {0, 2, 4}] : \A s \in PairsOfPrints : (l[s] = 4) => s = {1, 2}}
MCModels      == {[p \in Enrolled |-> 0], [p \in Enrolled |-> IF p = 4 THEN 1 ELSE 0]}

Row(v, s, u) == [person |-> v, score |-> s, usable |-> u]
MCRows       == {Row(v, s, TRUE) : v \in {a1, a2}, s \in 1..4} \cup {Row(a1, 4, FALSE), Row(Anyone, 4, TRUE)}
MCGalleries  == [1..3 -> MCRows]

\* One environment as it should be, its size no round number of units; and one that nobody checked.
MCRanges       == [match |-> {1, 2}, duplicate |-> {2, 3}, upload |-> {1, 2}]
MCUnits        == [match |-> 1, duplicate |-> 1, upload |-> 2]
MCEnvironments == {[match |-> 1, duplicate |-> 3, upload |-> 3], [match |-> 2, duplicate |-> 2, upload |-> 2]}

serviceVars == <<component, reportVars, transcriptVars, voiceVars, sessionVars, statementVars,
                 dialogueVars, segmentVars, embeddingVars, registryVars, accountVars,
                 wordingVars, wipeVars, galleryVars, composerVars, workspaceVars, configVars>>

ReportComponents     == {"reports", "narrations"}
TranscriptComponents == {"reading", "observing"}
VoiceComponents      == {"scans", "voices", "attestations"}
SessionComponents    == {"record", "uploads"}
StatementComponents  == {"facts", "quotes"}
RegistryComponents   == {"people", "profiles"}
GalleryComponents    == {"matching", "gallery"}

\* The parts that stand still start from one of their initial states.
ReportsPinned     == gaps = {"content"}
VoicesPinned      == prints[p1].status = "active" /\ prints[p1].person = v1
SessionsPinned    == participants[k1].status = "live" /\ (component # "record" => record.stage = "DRAFT")
StatementsPinned  == facts = [f \in Fields |-> 0]
SegmentsPinned    == spans = <<>> /\ speech = <<>>
EmbeddingsPinned  == reported = <<>> /\ detected = {<<0, 4>>}
RegistryPinned    == \A f \in ProfileRows : ~entries[f].there
WordingPinned     ==
    /\ setting = [environment |-> "production", mode |-> "auto", enabled |-> TRUE]
    /\ machine = [cards |-> {3}, memory |-> 1] /\ keyed = FALSE
    /\ runtime = [up |-> TRUE, models |-> {}]
LikenessPinned    == likeness = [s \in PairsOfPrints |-> 0] /\ identifier = [p \in Enrolled |-> p]
                     /\ modelOf = [p \in Enrolled |-> 0]
GalleriesPinned   == match = [rows |-> [n \in 1..3 |-> Row(a1, 4, TRUE)], at |-> 1, people |-> <<>>]
PurposePinned     == purpose = "INTERVIEW"
EnvironmentPinned == environment["match"] = 1
WipePinned        == noise = FALSE /\ container = "running"

ServicesInit ==
    /\ component \in ReportComponents \cup TranscriptComponents \cup VoiceComponents \cup StatementComponents
                       \cup SessionComponents \cup RegistryComponents
                       \cup GalleryComponents \cup {"dialogue", "segments", "embeddings", "accounts",
                              "wording", "wipe", "editor", "workspace", "settings"}
    /\ ReportsInit /\ ReportsPinned
    /\ TranscriptsInit
    /\ VoicesInit /\ VoicesPinned
    /\ SessionsInit /\ SessionsPinned
    /\ StatementsInit /\ StatementsPinned
    /\ DialogueInit
    /\ (component # "embeddings" => EmbeddingsPinned) /\ EmbeddingsInit
    /\ RegistryInit /\ (component \notin RegistryComponents => RegistryPinned)
    /\ AccountsInit
    /\ (component # "wording" => WordingPinned) /\ WordingInit
    /\ (component # "wipe" => WipePinned) /\ WipeInit
    /\ (component # "gallery" => LikenessPinned) /\ (component # "matching" => GalleriesPinned)
    /\ GalleryInit
    /\ ComposerInit
    /\ (component # "workspace" => PurposePinned) /\ WorkspaceInit
    /\ (component # "segments" => SegmentsPinned) /\ SegmentsInit
    /\ ConfigInit /\ (component # "settings" => EnvironmentPinned)

ReportsMove ==
    \/ /\ component = "reports"
       /\ ReportSteps
       /\ Cardinality(gaps') <= 1 /\ sources'.people + sources'.evidence <= 1
    \/ /\ component = "narrations"
       /\ ReportSteps \/ NarrationSteps
       /\ issues' <= 1 /\ sources' = sources /\ state' # "ARCHIVED"
       /\ \A c \in Clients : asked'[c].kind # "details"

TranscriptsMove ==
    \/ /\ component = "reading"
       /\ \/ transcripts = <<>> /\ ReceiveTranscript(r1, {0})
          \/ (\E e \in Editors : EditorSteps(e)) \/ SpeakerSteps \/ SessionSteps
       /\ editing'[e2].kind \in {"none", "text"} /\ Corrections' + names'[p1] <= 2
    \/ /\ component = "observing"
       /\ ResultSteps \/ \E l \in Taken(observed) : UpdateSpeaker(l, p1)

VoicesMove ==
    \/ /\ component = "scans"
       /\ \/ \E w \in Workers : Rollback(w) \/ ScanSteps(w) \/ DecisionSteps(w) \/ PrintSteps(w)
          \/ \E s \in Speakers : StoreVoice(s) \/ \E v \in VoicePeople : UpdateSpeakerPerson(s, v)
       /\ \A p \in Prints : prints'[p].version <= 1
       /\ work'[w2].kind \notin {"accept", "reject"}
    \/ /\ component = "voices"
       /\ \/ \E w \in Workers : Rollback(w) \/ ScanSteps(w) \/ DecisionSteps(w) \/ PrintSteps(w)
          \/ StoreVoice(s1)
          \/ \E v \in VoicePeople : UpdateSpeakerPerson(s1, v)
          \/ \E p \in Prints : EnrollFromSpeaker(s1, p) \/ Reactivate(p)
          \/ \E from, to \in VoicePeople : Repoint(from, to)
    \/ /\ component = "attestations"
       /\ \/ \E w \in Workers : Rollback(w) \/ PrintSteps(w) \/ AttestationSteps(w)
          \/ \E p \in Prints : Reactivate(p) \/ \E flag \in BOOLEAN : ReviewPrint(p, flag)
          \/ \E from, to \in VoicePeople : Repoint(from, to)
          \/ \E n \in DOMAIN attested : ReopenSet(n)

SessionsMove ==
    \/ /\ component = "record"
       /\ (\E e \in Forms : FormSteps(e)) \/ (\E w \in Readers : ReaderSteps(w))
       /\ record'.revision <= 2
    \/ /\ component = "uploads"
       /\ UploadSteps \/ FormSteps(e1)

StatementsMove ==
    /\ \/ component = "facts" /\ (FactSteps \/ DraftSteps) /\ report'.revision <= 2 /\ 0 \in {facts'[c1], facts'[c2]}
       \/ component = "quotes" /\ (SpeechSteps \/ DraftSteps)

RegistryMove ==
    \/ /\ component = "people"
       /\ RegistryNext
       /\ \A n \in DOMAIN saving'[w2].todo : n = 1 /\ saving'[w2].todo[n].row \in SubjectRows
    \/ /\ component = "profiles"
       /\ RegistryNext
       /\ Len(saving'[w1].todo) <= 1 /\ Len(saving'[w2].todo) <= 1

GalleryMove ==
    \/ component = "matching" /\ ScorePrint
    \/ component = "gallery" /\ CheckSteps

\* The second administrator changes one similarity, and looks at it.
SettingsMove ==
    /\ component = "settings" /\ ConfigNext
    /\ puts'[a2].sent \subseteq {"match"} /\ \A k \in ConfigKeys \ {"match"} : consoles'[a2][k] = consoles[a2][k]

ServicesNext ==
    /\ UNCHANGED component
    /\ (component \notin ReportComponents /\ UNCHANGED reportVars) \/ ReportsMove
    /\ (component \notin TranscriptComponents /\ UNCHANGED transcriptVars) \/ TranscriptsMove
    /\ (component \notin VoiceComponents /\ UNCHANGED voiceVars) \/ VoicesMove
    /\ (component \notin StatementComponents /\ UNCHANGED statementVars) \/ StatementsMove
    /\ (component \notin SessionComponents /\ UNCHANGED sessionVars) \/ SessionsMove
    /\ (component # "dialogue" /\ UNCHANGED dialogueVars) \/ (component = "dialogue" /\ DialogueNext)
    /\ (component # "segments" /\ UNCHANGED segmentVars) \/ (component = "segments" /\ SegmentsNext)
    /\ (component # "embeddings" /\ UNCHANGED embeddingVars) \/ (component = "embeddings" /\ EmbeddingsNext)
    /\ (component \notin RegistryComponents /\ UNCHANGED registryVars) \/ RegistryMove
    /\ (component # "accounts" /\ UNCHANGED accountVars) \/ (component = "accounts" /\ AccountsNext)
    /\ (component # "wording" /\ UNCHANGED wordingVars) \/ (component = "wording" /\ WordingNext)
    /\ (component # "wipe" /\ UNCHANGED wipeVars) \/ (component = "wipe" /\ WipeNext)
    /\ (component \notin GalleryComponents /\ UNCHANGED galleryVars) \/ GalleryMove
    /\ (component # "editor" /\ UNCHANGED composerVars) \/ (component = "editor" /\ ComposerNext)
    /\ (component # "settings" /\ UNCHANGED configVars) \/ SettingsMove
    /\ (component # "workspace" /\ UNCHANGED workspaceVars) \/ (component = "workspace" /\ WorkspaceNext
                                                  /\ takes' + Len(grants') <= 3)

ServicesSpec == ServicesInit /\ [][ServicesNext]_serviceVars

\* The types of the part that moves, and what its variables may hold together.
ServicesTypeOK ==
    /\ component \in ReportComponents => ReportsTypeOK
    /\ component \in TranscriptComponents => TranscriptsTypeOK
    /\ component \in VoiceComponents => VoicesTypeOK
    /\ component \in StatementComponents => StatementsTypeOK
    /\ component \in SessionComponents => SessionsTypeOK
    /\ component \in RegistryComponents => RegistryTypeOK
    /\ component \in GalleryComponents => GalleryTypeOK
    /\ component = "dialogue" => DialogueTypeOK
    /\ component = "segments" => SegmentsTypeOK
    /\ component = "embeddings" => EmbeddingsTypeOK
    /\ component = "accounts" => AccountsTypeOK
    /\ component = "wording" => WordingTypeOK
    /\ component = "wipe" => WipeTypeOK
    /\ component = "editor" => ComposerTypeOK
    /\ component = "workspace" => WorkspaceTypeOK
    /\ component = "settings" => ConfigTypeOK

\* What was said, from the diarizer to the voice prints: the agent's segments hold the detected
\* speech of the right speaker, and no voice print is made of two people's speech.
SpeechHolds == SegmentsHold /\ VoicesUnmixed

\* The voice prints of the server: what is attested is what was seen, one voice is matched in
\* memory as in the database, the prints of a person are grouped as they sound, and the
\* similarities they are compared with stay as they were chosen, one above the other.
PrintsHold == AttestedAsSeen /\ GalleryHolds /\ ConfigHolds
=============================================================================
