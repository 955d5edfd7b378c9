------------------------------ MODULE Dialogue ------------------------------
(***************************************************************************)
(* How the transcripts of a session become the questions and answers of a  *)
(* report draft: build_turns joins the parts of speech into turns, and     *)
(* build_qa_blocks the turns into blocks.                                  *)
(*                                                                         *)
(* A step is one iteration of the loop over the parts, or of the loop over *)
(* the turns.  Parts are known by their positions; the texts of a turn, a  *)
(* question and an answer are joined in that order, so that a text is the  *)
(* set of the positions it is made of.                                     *)
(***************************************************************************)
EXTENDS Naturals, Sequences

CONSTANTS
    Voiced,        \* speaker labels
    Asking,        \* labels whose speaker has the role INVESTIGATOR
    Nameless,      \* labels without a SessionSpeaker row
    MaxFiles,      \* bound: recordings
    MaxParts       \* bound: parts of speech

ASSUME DialogueAssumption ==
    /\ Asking \subseteq Voiced /\ Nameless \subseteq Voiced /\ Asking \cap Nameless = {}
    /\ MaxFiles \in Nat /\ MaxParts \in Nat

VARIABLES
    utterances,\* the parts read so far, in the order of recordings and segments
    turns,     \* Turn
    blocks,    \* QADraft
    pending,   \* the block being built, if any
    phase,     \* "reading" the parts, or "pairing" the turns
    paired     \* how many turns have been put into blocks

dialogueVars == <<utterances, turns, blocks, pending, phase, paired>>

Files == 1..MaxFiles
Part  == [label: Voiced, file: Files, blank: BOOLEAN]
Turn  == [label: Voiced, file: Files, text: SUBSET (1..MaxParts)]

\* The row a label stands for: labels without a row are all the same.
SpeakerIds   == Voiced \cup {"None"}
SpeakerId(l) == IF l \in Nameless THEN "None" ELSE l
Block == [question: SUBSET (1..MaxParts), answer: SUBSET (1..MaxParts), by: SpeakerIds, file: Files]

DialogueTypeOK ==
    /\ utterances \in Seq(Part) /\ Len(utterances) <= MaxParts
    /\ turns \in Seq(Turn)
    /\ blocks \in Seq(Block)
    /\ pending \in SUBSET Block /\ \A b, c \in pending : b = c
    /\ phase \in {"reading", "pairing"} /\ paired \in Nat

DialogueInit ==
    /\ utterances = <<>> /\ turns = <<>> /\ blocks = <<>>
    /\ pending = {} /\ phase = "reading" /\ paired = 0

----------------------------------------------------------------------------
(* build_turns *)

\* The part continues the present turn: the same recording and speaker, and the pause is short.
Continues(p, close) ==
    /\ close /\ turns # <<>>
    /\ turns[Len(turns)].file = p.file /\ turns[Len(turns)].label = p.label

ReadPart(p, close) ==
    LET n == Len(utterances) + 1
    IN  /\ phase = "reading" /\ n <= MaxParts
        /\ utterances # <<>> => p.file >= utterances[Len(utterances)].file
        /\ utterances' = Append(utterances, p)
        /\ turns' = IF p.blank THEN turns
                    ELSE IF Continues(p, close)
                    THEN [turns EXCEPT ![Len(turns)].text = @ \cup {n}]
                    ELSE Append(turns, [label |-> p.label, file |-> p.file, text |-> {n}])
        /\ UNCHANGED <<blocks, pending, phase, paired>>

EndOfParts ==
    /\ phase = "reading"
    /\ phase' = "pairing"
    /\ UNCHANGED <<utterances, turns, blocks, pending, paired>>

----------------------------------------------------------------------------
(* build_qa_blocks *)

Flushed(b) == blocks \o <<b>>
Answering(t, question) ==
    [question |-> question, answer |-> t.text, by |-> SpeakerId(t.label), file |-> t.file]

\* The block under way that the turn may still belong to; one of an earlier recording is flushed.
Open(t) == {b \in pending : b.file = t.file}

AskQuestion(t) ==
    /\ t.label \in Asking
    /\ blocks' = IF pending = {} THEN blocks ELSE Flushed(CHOOSE b \in pending : TRUE)
    /\ pending' = {[question |-> t.text, answer |-> {}, by |-> "None", file |-> t.file]}

\* Testimony with no question before it.
Volunteer(t) ==
    /\ t.label \notin Asking /\ Open(t) = {}
    /\ blocks' = IF pending = {} THEN blocks ELSE Flushed(CHOOSE b \in pending : TRUE)
    /\ pending' = {Answering(t, {})}

\* Mutant of OtherAnswers.
OtherJoins(t) ==
    /\ t.label \notin Asking
    /\ \E b \in Open(t) :
          /\ b.answer # {} /\ b.by # SpeakerId(t.label)
          /\ blocks' = blocks
          /\ pending' = {[b EXCEPT !.answer = @ \cup t.text]}

\* A different person answers the same question, which is repeated.
OtherAnswers(t) ==
    /\ t.label \notin Asking
    /\ \E b \in Open(t) :
          /\ b.answer # {} /\ b.by # SpeakerId(t.label)
          /\ blocks' = Flushed(b)
          /\ pending' = {Answering(t, b.question)}

JoinAnswer(t) ==
    /\ t.label \notin Asking
    /\ \E b \in Open(t) :
          /\ b.answer = {} \/ b.by = SpeakerId(t.label)
          /\ blocks' = blocks
          /\ pending' = {[b EXCEPT !.answer = @ \cup t.text,
                                   !.by = IF @ = "None" THEN SpeakerId(t.label) ELSE @]}

TakeTurn ==
    /\ phase = "pairing" /\ paired < Len(turns)
    /\ LET t == turns[paired + 1]
       IN  AskQuestion(t) \/ Volunteer(t) \/ OtherAnswers(t) \/ JoinAnswer(t)
    /\ paired' = paired + 1
    /\ UNCHANGED <<utterances, turns, phase>>

LastFlush ==
    /\ phase = "pairing" /\ paired = Len(turns) /\ pending # {}
    /\ blocks' = Flushed(CHOOSE b \in pending : TRUE)
    /\ pending' = {}
    /\ UNCHANGED <<utterances, turns, phase, paired>>

DialogueNext ==
    \/ \E p \in Part : \E close \in BOOLEAN : ReadPart(p, close)
    \/ EndOfParts \/ TakeTurn \/ LastFlush

DialogueSpec == DialogueInit /\ [][DialogueNext]_dialogueVars

----------------------------------------------------------------------------
(* Properties *)

Audible(n)   == n \in DOMAIN utterances /\ ~utterances[n].blank
Asked(n)    == Audible(n) /\ utterances[n].label \in Asking

\* The last thing the investigators said before part n, in its recording.
LastAsked(n) ==
    {m \in 1..(n - 1) : /\ Asked(m) /\ utterances[m].file = utterances[n].file
                        /\ \A k \in (m + 1)..(n - 1) : ~(Asked(k) /\ utterances[k].file = utterances[n].file)}

\* Nothing that was said is lost, said twice or given to another: in a finished draft every part
\* of speech by an investigator is in a question; any other is in one answer, of a block that
\* holds the words of its speaker only, under the last question asked before it in its recording.
TestimonyKept ==
    (phase = "pairing" /\ paired = Len(turns) /\ pending = {}) =>
        /\ \A n \in DOMAIN utterances : Asked(n) => \E b \in DOMAIN blocks : n \in blocks[b].question
        /\ \A n \in DOMAIN utterances : (Audible(n) /\ ~Asked(n)) =>
              \E b \in DOMAIN blocks :
                 /\ n \in blocks[b].answer
                 /\ \A c \in DOMAIN blocks : n \in blocks[c].answer => c = b
                 /\ \A m \in blocks[b].answer : SpeakerId(utterances[m].label) = SpeakerId(utterances[n].label)
                 /\ LastAsked(n) \subseteq blocks[b].question
                 /\ LastAsked(n) = {} => blocks[b].question = {}
        /\ \A b \in DOMAIN blocks :
              /\ \A n \in blocks[b].question : Asked(n)
              /\ \A n \in blocks[b].answer : Audible(n) /\ ~Asked(n)
=============================================================================
