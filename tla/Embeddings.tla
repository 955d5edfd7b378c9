----------------------------- MODULE Embeddings -----------------------------
(***************************************************************************)
(* The audio a voice print is made of: from the turns a diarizer reports,  *)
(* the spans in which nobody else is heard, within the speech the detector *)
(* found, the longest first and no more than a given amount per speaker.   *)
(* Spans are pairs of whole ticks, the second excluded.                    *)
(***************************************************************************)
EXTENDS Segments

CONSTANTS
    Ticks,        \* of the audio
    MaxReported,  \* bound: turns the diarizer reports
    Detections,   \* what the detector may report here: sets of spans that do not touch
    MinOverlap,   \* diarization_min_overlap_seconds
    MaxClip,      \* speaker_id_max_seconds
    MinClip       \* speaker_id_min_seconds

Spans == (0..Ticks) \X (0..Ticks)

ASSUME EmbeddingsAssumption ==
    /\ Ticks \in Nat /\ MaxReported \in Nat /\ MinOverlap \in Nat \ {0} /\ MaxClip \in Nat \ {0} /\ MinClip \in Nat
    /\ IsFiniteSet(Heard) /\ Detections \subseteq SUBSET Spans

VARIABLES
    diarization,       \* "raw", "diarized", "cleaned" or "identified"
    reported,    \* the turns, in order: [label, start, end, is_overlap]
    detected,    \* the regions of speech
    clean,       \* [labels -> spans, in order]
    clips        \* [labels -> whether it has an embedding, and the chunks it was made of]

embeddingVars == <<diarization, reported, detected, clean, clips>>

Reported == [label : Heard \cup 0..Cardinality(Heard), start : 0..Ticks, end : 0..Ticks, is_overlap : BOOLEAN]
VoiceLabels   == {reported[n].label : n \in DOMAIN reported}
Amount(s) ==
    LET upto[n \in 0..Len(s)] == IF n = 0 THEN 0 ELSE upto[n - 1] + s[n][2] - s[n][1]
    IN  upto[Len(s)]

OpenClip == [state |-> "open", chunks |-> <<>>]

EmbeddingsTypeOK ==
    /\ diarization \in {"raw", "diarized", "cleaned", "identified"} /\ reported \in Seq(Reported)
    /\ diarization # "raw" => DOMAIN clips = VoiceLabels
    /\ \A l \in DOMAIN clips : clips[l].state \in {"open", "skipped", "embedded"}
    /\ diarization \in {"cleaned", "identified"} => DOMAIN clean = VoiceLabels

EmbeddingsInit ==
    /\ diarization = "raw" /\ clean = <<>> /\ clips = <<>> /\ detected \in Detections
    /\ \E n \in 0..MaxReported :
          reported \in [1..n -> {t \in [label : Heard, start : 0..Ticks, end : 1..Ticks, is_overlap : {FALSE}] : t.start < t.end}]
    /\ \A m, n \in DOMAIN reported : m < n => ~Earlier(reported[n], reported[m])

----------------------------------------------------------------------------
(* The diarizer's answer *)

\* relabel_by_first_appearance.
Numbered(label) ==
    LET first(l) == CHOOSE n \in DOMAIN reported : reported[n].label = l /\ \A m \in 1..(n - 1) : reported[m].label # l
    IN  Cardinality({l \in VoiceLabels : first(l) < first(label)})

\* mark_overlaps.
Overlapping(m, n) ==
    /\ reported[m].label # reported[n].label
    /\ Smaller(reported[m].end, reported[n].end) - Larger(reported[m].start, reported[n].start) >= MinOverlap

Diarize ==
    /\ diarization = "raw" /\ diarization' = "diarized"
    /\ reported' = [n \in DOMAIN reported |->
          [reported[n] EXCEPT !.label = Numbered(@), !.is_overlap = \E m \in DOMAIN reported : Overlapping(m, n)]]
    /\ clips' = [l \in {Numbered(v) : v \in VoiceLabels} |-> OpenClip]
    /\ UNCHANGED <<detected, clean>>

----------------------------------------------------------------------------
(* clean_diarized_speaker_spans *)

Competes(m, n) ==
    /\ reported[m].label # reported[n].label
    /\ reported[m].start < reported[n].end /\ reported[m].end > reported[n].start

\* A turn that was flagged although no other is heard in it: where it is clean is not known.
Unresolved(n) == reported[n].is_overlap /\ \A m \in DOMAIN reported : ~Competes(m, n)

Without(pieces, t) ==
    {p \in pieces : t.end <= p[1] \/ t.start >= p[2]}
    \cup UNION {{<<p[1], t.start>>, <<t.end, p[2]>>} : p \in {q \in pieces : t.end > q[1] /\ t.start < q[2]}}

\* Mutant of Rival.
RivalIfFlagged(m, n) == reported[m].label # reported[n].label /\ reported[m].is_overlap /\ reported[n].start < reported[m].start

\* The turns whose time is taken away from a turn.
Rival(m, n) == reported[m].label # reported[n].label \/ Unresolved(m)

\* clean_speaker_spans, for one turn: an empty rest is dropped when the spans are merged.
Pieces(n) ==
    LET rest[m \in 0..Len(reported)] ==
            IF m = 0 THEN {<<reported[n].start, reported[n].end>>}
            ELSE IF Rival(m, n) THEN Without(rest[m - 1], reported[m]) ELSE rest[m - 1]
    IN  {p \in rest[Len(reported)] : p[1] < p[2]}

\* Spans by their start, then by their end.
Precedes(p, q) == p[1] < q[1] \/ (p[1] = q[1] /\ p[2] <= q[2])
SortedSpans(pieces) ==
    [k \in 1..Cardinality(pieces) |->
        CHOOSE p \in pieces : Cardinality({q \in pieces : Precedes(q, p)}) = k]

\* A span is joined to the last one where the two touch.
Join(s, p) ==
    IF s # <<>> /\ p[1] <= s[Len(s)][2]
    THEN [s EXCEPT ![Len(s)] = <<s[Len(s)][1], Larger(s[Len(s)][2], p[2])>>]
    ELSE Append(s, p)

Joined(pieces) ==
    LET ordered == SortedSpans(pieces)
        so_far[n \in 0..Len(ordered)] == IF n = 0 THEN <<>> ELSE Join(so_far[n - 1], ordered[n])
    IN  so_far[Len(ordered)]

CleanSpans(label) ==
    LET own == UNION {Pieces(n) : n \in {m \in DOMAIN reported : reported[m].label = label /\ ~Unresolved(m)}}
        windows == Joined(own)
        within == {<<Larger(windows[n][1], r[1]), Smaller(windows[n][2], r[2])>> : n \in DOMAIN windows, r \in detected}
    IN  Joined({p \in within : p[1] < p[2]})

CleanTurns ==
    /\ diarization = "diarized" /\ diarization' = "cleaned"
    /\ clean' = [l \in VoiceLabels |-> CleanSpans(l)]
    /\ UNCHANGED <<reported, detected, clips>>

----------------------------------------------------------------------------
(* _stage_identify_speakers *)

\* The longest spans first; of two of one length, the one that was first stays first.
Outlasts(s, m, n) ==
    \/ s[m][2] - s[m][1] > s[n][2] - s[n][1]
    \/ s[m][2] - s[m][1] = s[n][2] - s[n][1] /\ m <= n
LongestFirst(s) ==
    [k \in DOMAIN s |-> s[CHOOSE n \in DOMAIN s : Cardinality({m \in DOMAIN s : Outlasts(s, m, n)}) = k]]

\* collect_speaker_audio: the last one is cut off at the limit.
Collected(s) ==
    LET ordered == LongestFirst(s)
        total[n \in 0..Len(ordered)] ==
            IF n = 0 THEN 0 ELSE Smaller(MaxClip, total[n - 1] + ordered[n][2] - ordered[n][1])
        chunks == [n \in DOMAIN ordered |-> <<ordered[n][1], ordered[n][1] + total[n] - total[n - 1]>>]
    IN  Picked(chunks, {n \in DOMAIN chunks : chunks[n][1] < chunks[n][2]})

Embed(label) ==
    /\ diarization = "cleaned" /\ clips[label] = OpenClip
    /\ Amount(Collected(clean[label])) >= MinClip /\ Collected(clean[label]) # <<>>
    /\ clips' = [clips EXCEPT ![label] = [state |-> "embedded", chunks |-> Collected(clean[label])]]
    /\ UNCHANGED <<diarization, reported, detected, clean>>

\* Too little clean speech, or the model fails on it: no print, and the job goes on.
SkipVoice(label) ==
    /\ diarization = "cleaned" /\ clips[label] = OpenClip
    /\ clips' = [clips EXCEPT ![label].state = "skipped"]
    /\ UNCHANGED <<diarization, reported, detected, clean>>

\* Every voice has been tried, or the model cannot be loaded or the audio read.
Identified ==
    /\ diarization = "cleaned" /\ diarization' = "identified"
    /\ (\A l \in VoiceLabels : clips[l] # OpenClip) \/ (\A l \in VoiceLabels : clips[l] = OpenClip)
    /\ UNCHANGED <<reported, detected, clean, clips>>

EmbeddingsNext ==
    \/ Diarize \/ CleanTurns \/ (\E l \in VoiceLabels : Embed(l) \/ SkipVoice(l)) \/ Identified

EmbeddingsSpec == EmbeddingsInit /\ [][EmbeddingsNext]_embeddingVars

----------------------------------------------------------------------------
Inside(t, span)    == span[1] <= t /\ t < span[2]
Sounds(t, n)   == reported[n].start <= t /\ t < reported[n].end
Alone(l, t) ==
    /\ \E r \in detected : Inside(t, r)
    /\ \E n \in DOMAIN reported : reported[n].label = l /\ Sounds(t, n)
    /\ \A n \in DOMAIN reported : Sounds(t, n) => reported[n].label = l

\* A voice print is made of one person's voice: of instants within detected speech in which that
\* speaker is heard and nobody else is, none of them twice; and of all such instants, unless
\* the limit was reached, however the turns and the regions overlap.
VoicesUnmixed ==
    \A l \in DOMAIN clips : clips[l].state = "embedded" =>
        LET used == {t \in 0..Ticks : \E n \in DOMAIN clips[l].chunks : Inside(t, clips[l].chunks[n])}
            own  == {t \in 0..Ticks : Alone(l, t)}
        IN  /\ used \subseteq own /\ Amount(clips[l].chunks) = Cardinality(used)
            /\ Cardinality(used) = Smaller(MaxClip, Cardinality(own))
=============================================================================
