-------------------------- MODULE Services_proofs --------------------------
(***************************************************************************)
(* Proofs about the parts of the server and of the agent side by side, as  *)
(* the run Services checks them: what the theorems of the other modules    *)
(* say of each part by itself, the composition of the parts inherits.      *)
(*                                                                         *)
(* The composition starts each part in one of its initial states and lets  *)
(* it take its own steps or none.  Every behaviour of the composition is   *)
(* therefore a behaviour of every part, with other variables beside it.    *)
(***************************************************************************)
EXTENDS MCServices, Server_proofs, Reports_proofs, Speech_proofs

-----------------------------------------------------------------------------
(* The composition implements each of its parts *)

LEMMA ReportsPart == ServicesSpec => ReportsSpec
<1>1. ServicesInit => ReportsInit
  BY DEF ServicesInit
<1>2. ReportsMove => ReportsNext
  BY ServicesAssumption DEF ReportsMove, ReportsNext
<1>3. [ServicesNext]_serviceVars => [ReportsNext]_reportVars
  BY <1>2 DEF ServicesNext, serviceVars
<1>4. QED
  BY <1>1, <1>3, PTL DEF ServicesSpec, ReportsSpec

LEMMA TranscriptsPart == ServicesSpec => TranscriptsSpec
<1>1. ServicesInit => TranscriptsInit
  BY DEF ServicesInit
<1>2. TranscriptsMove => TranscriptsNext
  BY ServicesAssumption DEF TranscriptsMove, TranscriptsNext, ResultSteps, SpeakerSteps, Taken
<1>3. [ServicesNext]_serviceVars => [TranscriptsNext]_transcriptVars
  BY <1>2 DEF ServicesNext, serviceVars
<1>4. QED
  BY <1>1, <1>3, PTL DEF ServicesSpec, TranscriptsSpec

LEMMA VoicesPart == ServicesSpec => VoicesSpec
<1>1. ServicesInit => VoicesInit
  BY DEF ServicesInit
<1>2. VoicesMove => VoicesNext
  BY ServicesAssumption DEF VoicesMove, VoicesNext
<1>3. [ServicesNext]_serviceVars => [VoicesNext]_voiceVars
  BY <1>2 DEF ServicesNext, serviceVars
<1>4. QED
  BY <1>1, <1>3, PTL DEF ServicesSpec, VoicesSpec

LEMMA SessionsPart == ServicesSpec => SessionsSpec
<1>1. ServicesInit => SessionsInit
  BY DEF ServicesInit
<1>2. SessionsMove => SessionsNext
  BY ServicesAssumption DEF SessionsMove, SessionsNext
<1>3. [ServicesNext]_serviceVars => [SessionsNext]_sessionVars
  BY <1>2 DEF ServicesNext, serviceVars
<1>4. QED
  BY <1>1, <1>3, PTL DEF ServicesSpec, SessionsSpec

LEMMA StatementsPart == ServicesSpec => StatementsSpec
<1>1. ServicesInit => StatementsInit
  BY DEF ServicesInit
<1>2. StatementsMove => StatementsNext
  BY ServicesAssumption DEF StatementsMove, StatementsNext
<1>3. [ServicesNext]_serviceVars => [StatementsNext]_statementVars
  BY <1>2 DEF ServicesNext, serviceVars
<1>4. QED
  BY <1>1, <1>3, PTL DEF ServicesSpec, StatementsSpec

LEMMA DialoguePart == ServicesSpec => DialogueSpec
<1>1. ServicesInit => DialogueInit
  BY DEF ServicesInit
<1>2. [ServicesNext]_serviceVars => [DialogueNext]_dialogueVars
  BY DEF ServicesNext, serviceVars
<1>3. QED
  BY <1>1, <1>2, PTL DEF ServicesSpec, DialogueSpec

LEMMA SegmentsPart == ServicesSpec => SegmentsSpec
<1>1. ServicesInit => SegmentsInit
  BY DEF ServicesInit
<1>2. [ServicesNext]_serviceVars => [SegmentsNext]_segmentVars
  BY DEF ServicesNext, serviceVars
<1>3. QED
  BY <1>1, <1>2, PTL DEF ServicesSpec, SegmentsSpec

LEMMA EmbeddingsPart == ServicesSpec => EmbeddingsSpec
<1>1. ServicesInit => EmbeddingsInit
  BY DEF ServicesInit
<1>2. [ServicesNext]_serviceVars => [EmbeddingsNext]_embeddingVars
  BY DEF ServicesNext, serviceVars
<1>3. QED
  BY <1>1, <1>2, PTL DEF ServicesSpec, EmbeddingsSpec

LEMMA RegistryPart == ServicesSpec => RegistrySpec
<1>1. ServicesInit => RegistryInit
  BY DEF ServicesInit
<1>2. RegistryMove => RegistryNext
  BY ServicesAssumption DEF RegistryMove
<1>3. [ServicesNext]_serviceVars => [RegistryNext]_registryVars
  BY <1>2 DEF ServicesNext, serviceVars
<1>4. QED
  BY <1>1, <1>3, PTL DEF ServicesSpec, RegistrySpec

LEMMA AccountsPart == ServicesSpec => AccountsSpec
<1>1. ServicesInit => AccountsInit
  BY DEF ServicesInit
<1>2. [ServicesNext]_serviceVars => [AccountsNext]_accountVars
  BY DEF ServicesNext, serviceVars
<1>3. QED
  BY <1>1, <1>2, PTL DEF ServicesSpec, AccountsSpec

LEMMA WordingPart == ServicesSpec => WordingSpec
<1>1. ServicesInit => WordingInit
  BY DEF ServicesInit
<1>2. [ServicesNext]_serviceVars => [WordingNext]_wordingVars
  BY DEF ServicesNext, serviceVars
<1>3. QED
  BY <1>1, <1>2, PTL DEF ServicesSpec, WordingSpec

LEMMA WipePart == ServicesSpec => WipeSpec
<1>1. ServicesInit => WipeInit
  BY DEF ServicesInit
<1>2. [ServicesNext]_serviceVars => [WipeNext]_wipeVars
  BY DEF ServicesNext, serviceVars
<1>3. QED
  BY <1>1, <1>2, PTL DEF ServicesSpec, WipeSpec

LEMMA GalleryPart == ServicesSpec => GallerySpec
<1>1. ServicesInit => GalleryInit
  BY DEF ServicesInit
<1>2. GalleryMove => GalleryNext
  BY ServicesAssumption DEF GalleryMove, GalleryNext
<1>3. [ServicesNext]_serviceVars => [GalleryNext]_galleryVars
  BY <1>2 DEF ServicesNext, serviceVars
<1>4. QED
  BY <1>1, <1>3, PTL DEF ServicesSpec, GallerySpec

LEMMA ComposerPart == ServicesSpec => ComposerSpec
<1>1. ServicesInit => ComposerInit
  BY DEF ServicesInit
<1>2. [ServicesNext]_serviceVars => [ComposerNext]_composerVars
  BY DEF ServicesNext, serviceVars
<1>3. QED
  BY <1>1, <1>2, PTL DEF ServicesSpec, ComposerSpec

LEMMA WorkspacePart == ServicesSpec => WorkspaceSpec
<1>1. ServicesInit => WorkspaceInit
  BY DEF ServicesInit
<1>2. [ServicesNext]_serviceVars => [WorkspaceNext]_workspaceVars
  BY DEF ServicesNext, serviceVars
<1>3. QED
  BY <1>1, <1>2, PTL DEF ServicesSpec, WorkspaceSpec

LEMMA ConfigPart == ServicesSpec => ConfigSpec
<1>1. ServicesInit => ConfigInit
  BY DEF ServicesInit
<1>2. SettingsMove => ConfigNext
  BY ServicesAssumption DEF SettingsMove
<1>3. [ServicesNext]_serviceVars => [ConfigNext]_configVars
  BY <1>2 DEF ServicesNext, serviceVars
<1>4. QED
  BY <1>1, <1>3, PTL DEF ServicesSpec, ConfigSpec

-----------------------------------------------------------------------------
(* What the parts promise, of the composition *)

\* Whatever part moves, its variables keep their types and what they must hold together: reports
\* and transcripts, voice prints and speakers, the record and its statements, persons and accounts,
\* the wipe and the wording, and the two pages of the browser.
THEOREM ServicesTyping == ServicesSpec => []ServicesTypeOK
<1>1. ServicesSpec => [](ReportsTypeOK /\ TranscriptsTypeOK /\ VoicesTypeOK /\ StatementsTypeOK)
  BY ReportsPart, TranscriptsPart, VoicesPart, StatementsPart,
     ReportsTyping, TranscriptsTyped, VoicesTyped, StatementsTyped, PTL
<1>2. ServicesSpec => [](SessionsTypeOK /\ RegistryTypeOK /\ GalleryTypeOK /\ DialogueTypeOK)
  BY SessionsPart, RegistryPart, GalleryPart, DialoguePart,
     SessionsTyped, ReferencesAreSettled, PrintsAreGrouped, DialogueTyped, PTL
<1>3. ServicesSpec => [](SegmentsTypeOK /\ EmbeddingsTypeOK /\ AccountsTypeOK /\ WordingTypeOK)
  BY SegmentsPart, EmbeddingsPart, AccountsPart, WordingPart,
     SpeechIsPlanned, PrintsAreUnmixed, AccountsTyped, WordingTyped, PTL
<1>4. ServicesSpec => [](WipeTypeOK /\ ComposerTypeOK /\ WorkspaceTypeOK /\ ConfigTypeOK)
  BY WipePart, ComposerPart, WorkspacePart, ConfigPart,
     WipeTyped, ComposerTyped, WorkspaceTyped, SettingsTyped, PTL
<1>5. (/\ ReportsTypeOK /\ TranscriptsTypeOK /\ VoicesTypeOK /\ StatementsTypeOK
       /\ SessionsTypeOK /\ RegistryTypeOK /\ GalleryTypeOK /\ DialogueTypeOK
       /\ SegmentsTypeOK /\ EmbeddingsTypeOK /\ AccountsTypeOK /\ WordingTypeOK
       /\ WipeTypeOK /\ ComposerTypeOK /\ WorkspaceTypeOK /\ ConfigTypeOK) => ServicesTypeOK
  BY DEF ServicesTypeOK
<1>6. QED
  BY <1>1, <1>2, <1>3, <1>4, <1>5, PTL

\* From the microphone to the voice prints, in one composition: the page of the browser loses no
\* take and hands a dictation over once, the segments the agent plans hold the detected speech,
\* and no voice print is made of two people's speech.
THEOREM SpeechIsSafe == ServicesSpec => [](WorkspaceHolds /\ SpeechHolds)
<1>1. ServicesSpec => [](WorkspaceHolds /\ SegmentsHold /\ VoicesUnmixed)
  BY WorkspacePart, SegmentsPart, EmbeddingsPart,
     TakesReachTheAgent, SpeechIsPlanned, PrintsAreUnmixed, PTL
<1>2. QED
  BY <1>1, PTL DEF SpeechHolds

\* The voice prints of the server, in one composition: an attestation that counts is of what its
\* reviewer saw, the prints of a person are grouped as they sound and a voice is matched in memory
\* as in the database, by similarities that stay as they were chosen.
THEOREM PrintsAreSafe == ServicesSpec => []PrintsHold
<1>1. ServicesSpec => [](AttestedAsSeen /\ GalleryHolds /\ ConfigHolds)
  BY VoicesPart, GalleryPart, ConfigPart, AttestationsTrue, PrintsAreGrouped, SettingsStand, PTL
<1>2. QED
  BY <1>1, PTL DEF PrintsHold

\* The other invariants of the composition: what an issued report, a reviewed transcript, an
\* accepted scan, an answer of the testimony, a number of a person, a corrected wording and a
\* finished wipe each stand for.
THEOREM RecordsAreSafe ==
    ServicesSpec => [](/\ IssuedReportsHold /\ TranscriptsHold /\ ScansKept /\ TestimonyKept
                       /\ NumbersLeadHome /\ WordedAsApproved /\ WipeHolds)
<1>1. ServicesSpec => [](IssuedReportsHold /\ TranscriptsHold /\ ScansKept /\ TestimonyKept)
  BY ReportsPart, TranscriptsPart, SessionsPart, DialoguePart,
     ReportsAreReviewed, TranscriptsStand, ScansStand, TestimonyIsKept, PTL
<1>2. ServicesSpec => [](NumbersLeadHome /\ WordedAsApproved /\ WipeHolds)
  BY RegistryPart, WordingPart, WipePart, NumbersLeadToPersons, WordingApproved, WipeLeavesNothing, PTL
<1>3. QED
  BY <1>1, <1>2, PTL

\* What a step of the composition may never do: to the typing in an editor, to a dictation that was
\* decided, to a decision about a speaker, to a closed record, to a statement and to an account.
THEOREM StepsAreSafe ==
    ServicesSpec => EditorHolds /\ NarrationsHold /\ DecisionsHold /\ RecordHolds /\ StatementsHold /\ AccountsHold
<1>1. ServicesSpec => EditorHolds /\ NarrationsHold /\ DecisionsHold
  BY ComposerPart, ReportsPart, VoicesPart, EditorKept, NarrationsStay, DecisionsStand, PTL
<1>2. ServicesSpec => RecordHolds /\ StatementsHold /\ AccountsHold
  BY SessionsPart, StatementsPart, AccountsPart, RecordStands, StatementsStand, AccountsKept, PTL
<1>3. QED
  BY <1>1, <1>2, PTL
=============================================================================
