------------------------------ MODULE Segments ------------------------------
(***************************************************************************)
(* plan_segments: from the turns a diarizer reports to the windows of      *)
(* audio the transcriber is given.                                         *)
(*                                                                         *)
(* A stage of the function is an action, and the loops of merge and        *)
(* split_long are a step per iteration.  Times are whole ticks, those of   *)
(* windows half ticks.  A tick is longer than the 0.05 seconds below which *)
(* the rest of a split is dropped, and than the rounding to milliseconds.  *)
(***************************************************************************)
EXTENDS Integers, Sequences, FiniteSets

CONSTANTS
    Heard,         \* speaker labels
    Duration,      \* of the audio (0 in the program where it is not known)
    MaxTurns,      \* bound: turns reported
    SpeechSets,    \* what the voice activity detector may report: regions, in order
    MinTurn, MergeGap, MaxLength, MinPiece, Padding

Regions == [start : Nat, end : Nat]

ASSUME SegmentsAssumption ==
    /\ \A s \in SpeechSets : /\ s \in Seq(Regions) /\ \A n \in DOMAIN s : s[n].start <= s[n].end
                             /\ \A m, n \in DOMAIN s : m < n => s[m].end <= s[n].start
    /\ Duration \in Nat \ {0} /\ MaxTurns \in Nat
    /\ MinTurn \in Nat /\ MergeGap \in Nat /\ Padding \in Nat
    /\ MaxLength \in Nat /\ MinPiece \in Nat /\ MinPiece < MaxLength

VARIABLES
    todo,      \* the function called next
    speech,    \* regions of speech, in order
    spans,     \* the turns that are still to be dealt with
    tidied,    \* what merge is given
    out        \* what the function that runs has made of them so far

segmentVars == <<todo, speech, spans, tidied, out>>

Times    == 0..(Duration + 1)
Turns    == [label: Heard, start: Times, end: Times]
Length(t) == t.end - t.start
Earlier(t, u) == t.start < u.start \/ (t.start = u.start /\ t.end < u.end)

\* The members of a list at some places, in their order.
Picked(s, places) ==
    [k \in 1..Cardinality(places) |->
        s[CHOOSE n \in places : Cardinality({m \in places : m <= n}) = k]]

\* The sort is stable: of two turns of the same times, the first stays first.
Ahead(s, m, n) == Earlier(s[m], s[n]) \/ (~Earlier(s[n], s[m]) /\ m <= n)
Sorted(s) ==
    [k \in DOMAIN s |-> s[CHOOSE n \in DOMAIN s : Cardinality({m \in DOMAIN s : Ahead(s, m, n)}) = k]]

Larger(a, b)  == IF a > b THEN a ELSE b
Smaller(a, b) == IF a < b THEN a ELSE b

SegmentsTypeOK ==
    /\ todo \in {"clean", "trim_to_vad", "drop_tiny", "merge", "split_long", "build_windows", "planned"}
    /\ spans \in Seq(Turns) /\ tidied \in Seq(Turns)
    /\ todo # "planned" => out \in Seq(Turns)

\* Two turns of one speaker do not overlap.
SegmentsInit ==
    /\ todo = "clean" /\ tidied = <<>> /\ out = <<>>
    /\ speech \in SpeechSets
    /\ \E n \in 0..MaxTurns : spans \in [1..n -> {t \in Turns : t.start <= t.end}]
    /\ \A m, n \in DOMAIN spans : m < n =>
          /\ ~Earlier(spans[n], spans[m])
          /\ spans[m].label = spans[n].label => spans[m].end <= spans[n].start

----------------------------------------------------------------------------
Clipped(t) == [t EXCEPT !.end = Smaller(t.end, Duration)]

Clean ==
    /\ todo = "clean" /\ todo' = "trim_to_vad"
    /\ LET clipped == [n \in DOMAIN spans |-> Clipped(spans[n])]
       IN  spans' = Sorted(Picked(clipped, {n \in DOMAIN clipped : Length(clipped[n]) > 0}))
    /\ UNCHANGED <<speech, tidied, out>>

\* Turns x regions, in the order of the two loops.
Overlaps ==
    LET pairs == 1..(Len(spans) * Len(speech))
        cut(n) == LET t == spans[((n - 1) \div Len(speech)) + 1]
                      r == speech[((n - 1) % Len(speech)) + 1]
                  IN  [t EXCEPT !.start = Larger(@, r.start), !.end = Smaller(@, r.end)]
    IN  Picked([n \in pairs |-> cut(n)], {n \in pairs : Length(cut(n)) > 0})

TrimToVad ==
    /\ todo = "trim_to_vad" /\ todo' = "drop_tiny"
    /\ \/ spans' = Sorted(Overlaps)
       \/ speech = <<>> /\ spans' = spans      \* the detector is off
    /\ UNCHANGED <<speech, tidied, out>>

Longest == CHOOSE n \in DOMAIN spans :
    \A m \in DOMAIN spans : Length(spans[m]) < Length(spans[n]) \/ (Length(spans[m]) = Length(spans[n]) /\ n <= m)

DropTiny ==
    /\ todo = "drop_tiny" /\ todo' = "merge"
    /\ LET long == {n \in DOMAIN spans : Length(spans[n]) >= MinTurn}
       IN  spans' = IF long = {} /\ spans # <<>> THEN <<spans[Longest]>> ELSE Picked(spans, long)
    /\ tidied' = spans'
    /\ UNCHANGED <<speech, out>>

\* _other_speaker_in_gap
OtherSpeakerInGap(a, b) ==
    \E n \in DOMAIN tidied :
        /\ tidied[n].label # a.label
        /\ \/ tidied[n].start >= a.end /\ tidied[n].start <= b.start
           \/ tidied[n].start < a.end /\ tidied[n].end > b.start

LastOf(label) == {n \in DOMAIN out : out[n].label = label /\ \A m \in (n + 1)..Len(out) : out[m].label # label}

\* Mutant of MayMerge.
MayMergeAcross(a, b) ==
    b.start - a.end \in 0..MergeGap /\ b.end - a.start <= MaxLength

MayMerge(a, b) ==
    b.start - a.end \in 0..MergeGap /\ b.end - a.start <= MaxLength /\ ~OtherSpeakerInGap(a, b)

MergeTurn ==
    /\ todo = "merge" /\ spans # <<>>
    /\ LET t == Head(spans)
           into == {n \in LastOf(t.label) : MayMerge(out[n], t)}
       IN  out' = IF into = {} THEN Append(out, t)
                  ELSE [n \in DOMAIN out |-> IF n \in into THEN [out[n] EXCEPT !.end = Larger(@, t.end)] ELSE out[n]]
    /\ spans' = Tail(spans)
    /\ UNCHANGED <<todo, speech, tidied>>

EndMerge ==
    /\ todo = "merge" /\ spans = <<>> /\ todo' = "split_long"
    /\ spans' = Sorted(out) /\ out' = <<>>
    /\ UNCHANGED <<speech, tidied>>

\* The silences strictly inside (from, to) that follow some speech.
Silences(from, to) ==
    {[start |-> speech[n].end, end |-> speech[n + 1].start] : n \in
        {n \in 1..(Len(speech) - 1) : /\ from < speech[n].end /\ speech[n].end < speech[n + 1].start
                                       /\ speech[n + 1].start < to}}

\* Where a long turn is cut: at a widest silence, or at the limit.
Cuts(t) ==
    LET limit == t.start + MaxLength
        silences == Silences(t.start + MinPiece, limit)
    IN  IF silences = {} THEN {[start |-> limit, end |-> limit]}
        ELSE {g \in silences : \A h \in silences : Length(h) <= Length(g)}

SplitTurn ==
    /\ todo = "split_long" /\ spans # <<>>
    /\ LET t == Head(spans)
       IN  \/ /\ Length(t) <= MaxLength
              /\ out' = Append(out, t) /\ spans' = Tail(spans)
           \/ /\ Length(t) > MaxLength
              /\ \E cut \in Cuts(t) :
                    /\ out' = Append(out, [t EXCEPT !.end = cut.start])
                    /\ spans' = <<[t EXCEPT !.start = cut.end]>> \o Tail(spans)
    /\ UNCHANGED <<todo, speech, tidied>>

EndSplit ==
    /\ todo = "split_long" /\ spans = <<>> /\ todo' = "build_windows"
    /\ spans' = Sorted(out) /\ out' = <<>>
    /\ UNCHANGED <<speech, tidied>>

\* The neighbours a window is clamped to: the nearest by position that ends before the turn, and
\* the first that starts after it.
Before(n) == {m \in 1..(n - 1) : spans[m].end <= spans[n].start}
After(n)  == {m \in (n + 1)..Len(spans) : spans[m].start >= spans[n].end}

WindowStart(n) ==
    LET padded == Larger(0, 2 * (spans[n].start - Padding))
    IN  IF Before(n) = {} THEN padded
        ELSE LET near == CHOOSE m \in Before(n) : \A k \in Before(n) : k <= m
             IN  Larger(padded, spans[near].end + spans[n].start)

WindowEnd(n) ==
    LET padded == Smaller(2 * Duration, 2 * (spans[n].end + Padding))
    IN  IF After(n) = {} THEN padded
        ELSE LET near == CHOOSE m \in After(n) : \A k \in After(n) : m <= k
             IN  Smaller(padded, spans[n].end + spans[near].start)

BuildWindows ==
    /\ todo = "build_windows" /\ todo' = "planned"
    /\ out' = [n \in DOMAIN spans |->
          [label |-> spans[n].label, start |-> spans[n].start, end |-> spans[n].end,
           window |-> [start |-> WindowStart(n), end |-> WindowEnd(n)]]]
    /\ UNCHANGED <<speech, spans, tidied>>

SegmentsNext ==
    \/ Clean \/ TrimToVad \/ DropTiny
    \/ MergeTurn \/ EndMerge \/ SplitTurn \/ EndSplit \/ BuildWindows

SegmentsSpec == SegmentsInit /\ [][SegmentsNext]_segmentVars

----------------------------------------------------------------------------
(* Properties *)

Covers(t, tick) == t.start <= tick /\ tick < t.end

\* No speech that was tidied is lost on the way to the transcriber, and none goes to the wrong
\* voice: each instant of a turn is in a segment of its speaker, segments are short enough, and
\* nobody else begins to speak inside one outside its speaker's own spans.
SpeechPlanned ==
    todo = "planned" =>
        /\ \A n \in DOMAIN tidied : \A tick \in tidied[n].start..(tidied[n].end - 1) :
              \E m \in DOMAIN out : out[m].label = tidied[n].label /\ Covers(out[m], tick)
        /\ \A m \in DOMAIN out : Length(out[m]) \in 1..MaxLength
        /\ \A m \in DOMAIN out : \A n \in DOMAIN tidied :
              (tidied[n].label # out[m].label /\ Covers(out[m], tidied[n].start)) =>
                 \E k \in DOMAIN tidied : tidied[k].label = out[m].label /\ Covers(tidied[k], tidied[n].start)

\* The windows of two segments that do not overlap share no audio (segment_service.py: "two windows
\* never cover the same audio").  The program breaks this.
WindowsShareNoAudio ==
    todo = "planned" =>
        \A m, n \in DOMAIN out :
            (m < n /\ out[m].end <= out[n].start) => out[m].window.end <= out[n].window.start

\* What is left of it: they share audio only if a segment that begins between the two ends before
\* the first does, and so hides the first from the second.
WindowsApart ==
    todo = "planned" =>
        \A m, n \in DOMAIN out :
            (m < n /\ out[m].end <= out[n].start) =>
               \/ out[m].window.end <= out[n].window.start
               \/ \E k \in (m + 1)..(n - 1) : out[k].end < out[m].end

\* The plan the transcriber follows gives every voice its own speech, and no audio twice but for a
\* segment that another one hides.
SegmentsHold == SpeechPlanned /\ WindowsApart
=============================================================================
