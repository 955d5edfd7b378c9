----------------------------- MODULE Statements -----------------------------
(***************************************************************************)
(* One participant's statement in a report draft: the facts about the      *)
(* person, copied from the record and perhaps written over by an operator, *)
(* and the answers quoted from a recording.                                *)
(*                                                                         *)
(* The record goes on changing while the draft is written.  A correction   *)
(* made in the session is carried into a draft that was not reviewed,      *)
(* where the fact is still as it was imported; one made in the registry    *)
(* arrives with the next save.  Answers are taken from the dialogue that   *)
(* was built when the sources were last refreshed, and only while that is  *)
(* what the reviewed transcript says.                                      *)
(*                                                                         *)
(* Handlers hold the session's lock, so each is one action; what a browser *)
(* shows is older than the draft.                                          *)
(***************************************************************************)
EXTENDS Naturals, FiniteSets

CONSTANTS
    Operators,     \* editors of the report in browsers
    Fields,        \* facts about a person
    Values,
    MaxDraft,      \* bound: revision of the draft
    MaxSpoken      \* bound: transcripts of the recording, and corrections of one

ASSUME StatementsAssumption ==
    /\ MaxDraft \in Nat /\ MaxSpoken \in Nat

VARIABLES
    facts,         \* participant_values: [Fields -> Values]
    spoken,        \* the newest transcript of the recording
    attributed,    \* its speaker is identified as the participant
    report,        \* ReportDraft: revision, a review recorded
    block,         \* the statement in the draft, if any
    catalogue,     \* the answer in ReportQABlock, and the transcript it is pinned to
    pages,         \* [Operators -> the draft as loaded and edited, if any]
    typed          \* [Fields -> what an operator wrote over the imported fact, if anything]

statementVars == <<facts, spoken, attributed, report, block, catalogue, pages, typed>>

PersonFacts == [Fields -> Values]
Spoken == [transcript: 0..MaxSpoken, revision: 0..MaxSpoken, text: Values, reviewed: BOOLEAN]
Sources == [id: 0..MaxDraft, transcript: 0..MaxSpoken, text: Values]
Quotes  == [id: 0..MaxDraft, text: Values]
Statement == [values: PersonFacts, imported: PersonFacts, entries: SUBSET Quotes]
\* A form's block is fresh when the server has not stored it yet; touched are the facts typed.
Form == [revision: 0..MaxDraft, filled: BOOLEAN, fresh: BOOLEAN, values: PersonFacts,
         touched: SUBSET Fields, sources: SUBSET (0..MaxDraft)]

StatementsTypeOK ==
    /\ facts \in PersonFacts /\ spoken \in Spoken /\ attributed \in BOOLEAN
    /\ report \in [revision: 0..MaxDraft, reviewed: BOOLEAN]
    /\ block \subseteq Statement /\ \A b, c \in block : b = c
    /\ catalogue \in Sources
    /\ \A o \in Operators : pages[o] \subseteq Form /\ \A f, g \in pages[o] : f = g
    /\ \A f \in Fields : typed[f] \subseteq Values

StatementsInit ==
    /\ \E v \in Values : /\ facts = [f \in Fields |-> v]
                         /\ spoken = [transcript |-> 0, revision |-> 0, text |-> v, reviewed |-> TRUE]
                         /\ catalogue = [id |-> 0, transcript |-> 0, text |-> v]
    /\ attributed = TRUE /\ report = [revision |-> 0, reviewed |-> FALSE] /\ block = {}
    /\ pages = [o \in Operators |-> {}] /\ typed = [f \in Fields |-> {}]

----------------------------------------------------------------------------
(* The record and the recording *)

MayChange == report.revision < MaxDraft

\* What was written over a fact is forgotten when the record comes to say the same.
Agreed(imported) == [f \in Fields |-> typed[f] \ {imported[f]}]

Refreshed(b, now) ==
    [values |-> [f \in Fields |-> IF b.values[f] = b.imported[f] THEN now[f] ELSE b.values[f]],
     imported |-> now, entries |-> b.entries]

\* A handler of the session corrects the participant and refreshes the untouched facts: the draft
\* is written only when one of them changes.
EditParticipant(now) ==
    /\ facts' = now /\ MayChange
    /\ LET refreshed == IF report.reviewed THEN {} ELSE {Refreshed(b, now) : b \in block}
           changes == \E r \in refreshed : \E b \in block : r.values # b.values
       IN  /\ block' = IF changes THEN refreshed ELSE block
           /\ report' = IF changes THEN [report EXCEPT !.revision = @ + 1] ELSE report
           /\ typed' = IF changes THEN Agreed(now) ELSE typed
    /\ UNCHANGED <<spoken, attributed, catalogue, pages>>

\* The person is renamed or merged in the registry.
CorrectRegistry(f, v) ==
    /\ facts[f] # v /\ facts' = [facts EXCEPT ![f] = v]
    /\ UNCHANGED <<spoken, attributed, report, block, catalogue, pages, typed>>

Reprocess(v) ==
    /\ spoken.transcript < MaxSpoken
    /\ spoken' = [transcript |-> spoken.transcript + 1, revision |-> 0, text |-> v, reviewed |-> FALSE]
    /\ UNCHANGED <<facts, attributed, report, block, catalogue, pages, typed>>

CorrectSpeech(v) ==
    /\ spoken.revision < MaxSpoken
    /\ spoken' = [spoken EXCEPT !.revision = @ + 1, !.text = v, !.reviewed = FALSE]
    /\ UNCHANGED <<facts, attributed, report, block, catalogue, pages, typed>>

ReviewSpeech ==
    /\ ~spoken.reviewed /\ spoken' = [spoken EXCEPT !.reviewed = TRUE]
    /\ UNCHANGED <<facts, attributed, report, block, catalogue, pages, typed>>

\* The speaker is given to the participant, or to somebody else: the review is not of this.
Identify ==
    /\ attributed' = ~attributed /\ spoken' = [spoken EXCEPT !.reviewed = FALSE]
    /\ UNCHANGED <<facts, report, block, catalogue, pages, typed>>

----------------------------------------------------------------------------
(* The report *)

Stale == catalogue.transcript # spoken.transcript \/ catalogue.text # spoken.text

\* Mutant of Importable.
ImportableIfReviewed == spoken.reviewed

\* require_current_sources.
Importable == spoken.reviewed /\ ~Stale

OpenReport(o) ==
    /\ pages' = [pages EXCEPT ![o] = {
          [revision |-> report.revision, filled |-> block # {}, fresh |-> FALSE,
           values |-> IF block = {} THEN facts ELSE (CHOOSE b \in block : TRUE).values,
           touched |-> {}, sources |-> UNION {{e.id : e \in b.entries} : b \in block}]}]
    /\ UNCHANGED <<facts, spoken, attributed, report, block, catalogue, typed>>

TypeValue(o, f, v) ==
    /\ \E form \in pages[o] :
          /\ form.filled /\ form.values[f] # v
          /\ pages' = [pages EXCEPT ![o] = {[form EXCEPT !.values[f] = v, !.touched = @ \cup {f}]}]
    /\ UNCHANGED <<facts, spoken, attributed, report, block, catalogue, typed>>

\* statement_preview fills a new block; it does not ask which revision the form shows.
AddStatement(o) ==
    /\ attributed => Importable
    /\ \E form \in pages[o] :
          /\ ~form.filled
          /\ pages' = [pages EXCEPT ![o] = {
                [form EXCEPT !.filled = TRUE, !.fresh = TRUE, !.values = facts, !.touched = {},
                             !.sources = IF attributed THEN {catalogue.id} ELSE {}]}]
    /\ UNCHANGED <<facts, spoken, attributed, report, block, catalogue, typed>>

RemoveStatement(o) ==
    /\ \E form \in pages[o] :
          /\ form.filled
          /\ pages' = [pages EXCEPT ![o] = {[form EXCEPT !.filled = FALSE, !.touched = {}, !.sources = {}]}]
    /\ UNCHANGED <<facts, spoken, attributed, report, block, catalogue, typed>>

\* An answer quoted before keeps its words; any other must be importable now.
Quoted(form) ==
    LET prior == UNION {{e \in b.entries : e.id \in form.sources} : b \in IF form.fresh THEN {} ELSE block}
    IN  prior \cup {[id |-> catalogue.id, text |-> catalogue.text] : i \in form.sources \ {e.id : e \in prior}}

CanQuote(form) ==
    LET new == form.sources \ UNION {{e.id : e \in b.entries} : b \in IF form.fresh THEN {} ELSE block}
    IN  /\ form.sources # {} => attributed
        /\ new # {} => Importable /\ new = {catalogue.id}

\* prepare_document: a fact the form leaves as it was imported is brought up to date, unless the
\* draft has been reviewed.
Prepared(form) ==
    [values |-> IF form.fresh \/ report.reviewed THEN form.values
                ELSE [f \in Fields |-> IF form.values[f] \in {b.imported[f] : b \in block} THEN facts[f]
                                       ELSE form.values[f]],
     imported |-> facts, entries |-> Quoted(form)]

\* What the operator has written over a fact by this save.  One who types the fact as it was
\* imported writes nothing over it: it is then brought up to date as if nobody had touched it.
Written(form, prepared) ==
    [f \in Fields |->
        (IF f \in form.touched THEN {form.values[f]} \cap {prepared.values[f]}
         ELSE IF form.fresh THEN {} ELSE typed[f]) \ {facts[f]}]

Save(o) ==
    /\ MayChange
    /\ \E form \in pages[o] :
          /\ form.revision = report.revision
          /\ CanQuote(form)
          /\ block' = IF form.filled THEN {Prepared(form)} ELSE {}
          /\ typed' = IF form.filled THEN Written(form, Prepared(form)) ELSE [f \in Fields |-> {}]
    /\ report' = [report EXCEPT !.revision = @ + 1]
    /\ pages' = [pages EXCEPT ![o] = {}]
    /\ UNCHANGED <<facts, spoken, attributed, catalogue>>

ReviewReport ==
    /\ ~report.reviewed /\ report' = [report EXCEPT !.reviewed = TRUE]
    /\ UNCHANGED <<facts, spoken, attributed, block, catalogue, pages, typed>>

\* The dialogue is built anew and the review forgotten; the statement stays as it is.
RebuildDialogue ==
    /\ MayChange
    /\ report' = [revision |-> report.revision + 1, reviewed |-> FALSE]
    /\ catalogue' = [id |-> report.revision + 1, transcript |-> spoken.transcript, text |-> spoken.text]
    /\ UNCHANGED <<facts, spoken, attributed, block, pages, typed>>

FactSteps ==
    \/ \E now \in PersonFacts : EditParticipant(now)
    \/ \E f \in Fields : \E v \in Values : CorrectRegistry(f, v)
    \/ \E o \in Operators : \E f \in Fields : \E v \in Values : TypeValue(o, f, v)

SpeechSteps ==
    \/ \E v \in Values : Reprocess(v) \/ CorrectSpeech(v)
    \/ ReviewSpeech \/ Identify

DraftSteps ==
    \/ ReviewReport \/ RebuildDialogue
    \/ \E o \in Operators : OpenReport(o) \/ AddStatement(o) \/ RemoveStatement(o) \/ Save(o)

StatementsNext == FactSteps \/ SpeechSteps \/ DraftSteps

StatementsSpec == StatementsInit /\ [][StatementsNext]_statementVars

----------------------------------------------------------------------------
(* Properties *)

\* What an operator wrote over an imported fact stands in the draft until an operator changes it
\* or the record has come to say the same: no correction and no save of another form undoes it.
OverridesStand ==
    \A f \in Fields : typed[f] # {} => \E b \in block : typed[f] = {b.values[f]}

\* An answer enters a statement only in the words of the newest transcript, under a review of it
\* that is still good, although it was taken from a dialogue built earlier and asked for by a form
\* that is older still; and once it is there its words do not change.
QuotedAsReviewed ==
    [][/\ \A b \in block' : \A e \in b.entries :
            (\A c \in block : e \notin c.entries) => spoken.reviewed /\ e.text = spoken.text
       /\ \A b \in block, c \in block' : \A e \in b.entries, g \in c.entries :
            e.id = g.id => e = g]_statementVars

StatementsHold == []OverridesStand /\ QuotedAsReviewed
=============================================================================
