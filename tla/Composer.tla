------------------------------ MODULE Composer ------------------------------
(***************************************************************************)
(* The report editor in one browser window (useReportDraft and the         *)
(* components around it), and another window on the same report.           *)
(*                                                                         *)
(* Typing is saved by one request after the other.  An operation of the    *)
(* editor (importing statements, taking a dictation in) saves first, with  *)
(* the fields disabled, and shows the report the server then returns.  The *)
(* panel that reviews and issues does not disable the fields.              *)
(*                                                                         *)
(* A document is the set of the changes it holds, whether a change puts    *)
(* text in or takes it out; each is made once, and what a save or an       *)
(* answer drops is a change undone.  That a user takes a change back       *)
(* before it is saved is left out: the text is then as it was stored.  The *)
(* server's token is a number that moves with every write.                 *)
(***************************************************************************)
EXTENDS Naturals, FiniteSets

CONSTANTS
    Typed,       \* the pieces this window may type
    Foreign,     \* the pieces another window may save
    MaxToken,    \* bound: writes of the report
    Silent       \* no request, no conflict

ASSUME ComposerAssumption ==
    /\ Typed \cap Foreign = {} /\ MaxToken \in Nat
    /\ Silent \notin [token : 0..MaxToken, text : SUBSET (Typed \cup Foreign)]

VARIABLES
    server,     \* what is stored: [token, text]
    history,     \* every text the server has held, by its token
    base,       \* the answer the editor last accepted
    current,    \* the text in the editor
    edition,    \* editVersion
    flight,     \* the save under way
    paused,     \* a save has failed
    alarm,      \* the failure is shown: no save by itself
    clash,      \* the stored report the user is asked to reconcile with
    operating,  \* the step of the operation under way
    issuing,    \* the step of the review panel's request
    displayed   \* every piece the user has been shown

composerVars == <<server, history, base, current, edition, flight, paused, alarm, clash,
                  operating, issuing, displayed>>

TextPieces == Typed \cup Foreign
ReportAnswers == [token : 0..MaxToken, text : SUBSET TextPieces]
NoStep == [step |-> "idle", token |-> 0]
Parked == [step |-> "idle", text |-> {}, token |-> 0, edition |-> 0]

\* Types, and: what the server holds is what it last stored; a conflict pauses the saving.
ComposerTypeOK ==
    /\ server \in ReportAnswers /\ base \in ReportAnswers /\ current \subseteq TextPieces
    /\ history[server.token] = server.text
    /\ flight.step \in {"idle", "sent", "saved", "refused", "lost"}
    /\ operating.step \in {"idle", "saving", "posting", "posted"}
    /\ issuing.step \in {"idle", "posting", "reading"}
    /\ clash = Silent \/ clash \in ReportAnswers

ComposerInit ==
    /\ server = [token |-> 0, text |-> {}] /\ history = [t \in 0..MaxToken |-> {}]
    /\ base = server /\ current = {} /\ edition = 0
    /\ flight = Parked /\ paused = FALSE /\ alarm = FALSE /\ clash = Silent
    /\ operating = NoStep /\ issuing = NoStep /\ displayed = {}

----------------------------------------------------------------------------
(* The server *)

Writable == server.token < MaxToken

WriteText(text) ==
    /\ server' = [token |-> server.token + 1, text |-> text]
    /\ history' = [history EXCEPT ![server.token + 1] = text]

\* Another window saves: it has added a piece, or taken one out.
SaveElsewhere(x) ==
    /\ Writable
    /\ WriteText(IF x \in server.text THEN server.text \ {x} ELSE server.text \cup {x})
    /\ UNCHANGED <<base, current, edition, flight, paused, alarm, clash, operating, issuing, displayed>>

\* The save arrives: it is taken if nobody has written since the token it carries.
StoreDraft ==
    /\ flight.step = "sent"
    /\ IF flight.token = server.token
       THEN /\ Writable /\ WriteText(flight.text)
            /\ flight' = [step |-> "saved", text |-> flight.text, token |-> flight.token + 1, edition |-> flight.edition]
       ELSE flight' = [flight EXCEPT !.step = "refused"] /\ UNCHANGED <<server, history>>
    /\ UNCHANGED <<base, current, edition, paused, alarm, clash, operating, issuing, displayed>>

\* The request or its answer is lost.
LoseSave ==
    /\ flight.step \in {"sent", "saved"} /\ flight' = [flight EXCEPT !.step = "lost"]
    /\ UNCHANGED <<server, history, base, current, edition, paused, alarm, clash, operating, issuing, displayed>>

----------------------------------------------------------------------------
(* useReportDraft *)

Dirty    == current # base.text
Disabled == operating # NoStep \/ clash # Silent

Change(x) ==
    /\ ~Disabled /\ x \notin current
    /\ current' = current \cup {x} /\ edition' = edition + 1 /\ displayed' = displayed \cup {x}
    /\ UNCHANGED <<server, history, base, flight, paused, alarm, clash, operating, issuing>>

Send == flight' = [step |-> "sent", text |-> current, token |-> base.token, edition |-> edition]

\* The timer: a second after the last change, unless a save is under way or has failed.
Autosave ==
    /\ Dirty /\ flight.step = "idle" /\ ~alarm /\ ~paused
    /\ Send
    /\ UNCHANGED <<server, history, base, current, edition, paused, alarm, clash, operating, issuing, displayed>>

\* Mutant of AfterSave: the answer is shown whatever has been typed since it was sent.
AfterSaveAlways(text) == text

\* The answer of a save replaces the text only if nothing has been typed since it was sent.
AfterSave(text) == IF flight.edition = edition THEN text ELSE current

SaveAnswered ==
    /\ flight.step = "saved"
    /\ base' = [token |-> flight.token, text |-> flight.text]
    /\ current' = AfterSave(flight.text)
    /\ flight' = Parked /\ alarm' = FALSE
    /\ UNCHANGED <<server, history, edition, paused, clash, operating, issuing, displayed>>

\* A refused save fetches the stored report for the user to compare; any failure pauses the
\* saving and ends the operation that waited for it.
SaveFailed ==
    /\ flight.step \in {"refused", "lost"}
    /\ \/ flight.step = "refused" /\ clash' = server /\ displayed' = displayed \cup server.text
       \/ UNCHANGED <<clash, displayed>>
    /\ paused' = TRUE /\ alarm' = TRUE /\ flight' = Parked
    /\ operating' = IF operating.step = "saving" THEN NoStep ELSE operating
    /\ UNCHANGED <<server, history, base, current, edition, issuing>>

Retry ==
    /\ alarm /\ clash = Silent /\ flight.step = "idle"
    /\ paused' = FALSE /\ alarm' = FALSE
    /\ IF Dirty THEN Send ELSE UNCHANGED flight
    /\ UNCHANGED <<server, history, base, current, edition, clash, operating, issuing, displayed>>

\* The user takes each piece from one version or the other.
Reconcile(fromServer) ==
    /\ clash # Silent
    /\ current' = {x \in TextPieces : x \in IF x \in fromServer THEN clash.text ELSE current}
    /\ base' = clash /\ clash' = Silent /\ paused' = FALSE /\ alarm' = FALSE
    /\ edition' = edition + 1
    /\ UNCHANGED <<server, history, flight, operating, issuing, displayed>>

----------------------------------------------------------------------------
(* An operation of the editor: flush, a request with the saved token, accept *)

BeginOperation ==
    /\ ~Disabled /\ operating' = [NoStep EXCEPT !.step = "saving"]
    /\ UNCHANGED <<server, history, base, current, edition, flight, paused, alarm, clash, issuing, displayed>>

\* flush(): wait for the save under way, then save what is left; a paused queue ends it.
Flush ==
    /\ operating.step = "saving" /\ flight.step = "idle"
    /\ IF paused THEN operating' = NoStep /\ UNCHANGED flight
       ELSE IF Dirty THEN Send /\ UNCHANGED operating
       ELSE operating' = [step |-> "posting", token |-> base.token] /\ UNCHANGED flight
    /\ UNCHANGED <<server, history, base, current, edition, paused, alarm, clash, issuing, displayed>>

\* The server writes (it refreshes its import catalogue, say); this text stays.
PostOperation ==
    /\ operating.step = "posting"
    /\ IF operating.token = server.token
       THEN Writable /\ WriteText(server.text) /\ operating' = [step |-> "posted", token |-> operating.token + 1]
       ELSE operating' = NoStep /\ UNCHANGED <<server, history>>
    /\ UNCHANGED <<base, current, edition, flight, paused, alarm, clash, issuing, displayed>>

\* The editor shows a report as the server has returned it.
ShowAnswer(answer) ==
    /\ base' = answer /\ current' = answer.text /\ displayed' = displayed \cup answer.text
    /\ alarm' = FALSE /\ clash' = Silent /\ paused' = FALSE

\* The answer is the report as that request left it, whoever has written since.
OperationAnswered ==
    /\ operating.step = "posted" /\ operating' = NoStep
    /\ ShowAnswer([token |-> operating.token, text |-> history[operating.token]])
    /\ UNCHANGED <<server, history, edition, flight, issuing>>

\* The request or its answer is lost.
OperationFailed ==
    /\ operating.step \in {"posting", "posted"} /\ operating' = NoStep
    /\ UNCHANGED <<server, history, base, current, edition, flight, paused, alarm, clash, issuing, displayed>>

----------------------------------------------------------------------------
(* The review panel: a request with the saved token, the report again, accept *)

Issue ==
    /\ issuing = NoStep /\ operating = NoStep /\ ~Dirty /\ flight.step = "idle"
    /\ issuing' = [step |-> "posting", token |-> base.token]
    /\ UNCHANGED <<server, history, base, current, edition, flight, paused, alarm, clash, operating, displayed>>

PostIssue ==
    /\ issuing.step = "posting"
    /\ \/ issuing.token = server.token /\ Writable /\ WriteText(server.text) /\ issuing' = [issuing EXCEPT !.step = "reading"]
       \/ issuing' = NoStep /\ UNCHANGED <<server, history>>
    /\ UNCHANGED <<base, current, edition, flight, paused, alarm, clash, operating, displayed>>

\* The report is read once more; the answer may be shown when others have written again.
IssueAnswered ==
    /\ issuing.step = "reading" /\ issuing' = NoStep
    /\ ShowAnswer(server)
    /\ UNCHANGED <<server, history, edition, flight, operating>>

----------------------------------------------------------------------------
ComposerNext ==
    \/ \E x \in Foreign : SaveElsewhere(x)
    \/ \E x \in Typed : Change(x)
    \/ StoreDraft \/ LoseSave \/ Autosave \/ SaveAnswered \/ SaveFailed \/ Retry
    \/ \E fromServer \in SUBSET TextPieces : Reconcile(fromServer)
    \/ BeginOperation \/ Flush \/ PostOperation \/ OperationAnswered \/ OperationFailed
    \/ Issue \/ PostIssue \/ IssueAnswered

ComposerSpec == ComposerInit /\ [][ComposerNext]_composerVars

----------------------------------------------------------------------------
(* Properties *)

\* "A response may advance the token, never overwrite newer typing" (useReportDraft): what is in
\* the editor leaves it only by the user's choice between two versions, or when the review panel
\* shows the report again, which it does over whatever was typed while it waited.
TypingKept ==
    [][current \cap Typed \subseteq current'
         \/ (clash # Silent /\ edition' # edition)
         \/ (issuing.step = "reading" /\ issuing' = NoStep)]_composerVars

\* A save takes nothing out of the stored report that its user was not shown, however the two
\* windows, lost answers and reconciliations interleave.
UnseenKept ==
    [][(flight.step = "sent" /\ flight'.step = "saved") =>
          server.text \ server'.text \subseteq displayed]_composerVars

\* When the editor says that everything is saved, the server has held exactly this text.
CleanIsStored == [](~Dirty => history[base.token] = current)

EditorHolds == TypingKept /\ UnseenKept /\ CleanIsStored
=============================================================================
