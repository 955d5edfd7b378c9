----------------------------- MODULE MCSegments -----------------------------
(***************************************************************************)
(* Segments with what the diarizer reported kept beside it, so that the    *)
(* plan can be compared with the turns it was made from.                   *)
(***************************************************************************)
EXTENDS Segments

VARIABLE reported

WatchedInit == SegmentsInit /\ reported = spans
WatchedNext == SegmentsNext /\ UNCHANGED reported
WatchedSpec == WatchedInit /\ [][WatchedNext]_<<segmentVars, reported>>

Region(a, b) == [start |-> a, end |-> b]

\* The first pause is longer than the second; merge closes pauses of either length.
PausedSpeech == {<<Region(0, 2), Region(4, 5), Region(6, 8)>>}

\* A turn that is too long is cut at a widest silence in its first MaxLength, if there is one there
\* (docs/audio-pipeline.md:42-43, split_long).
LongTurnsCutAtTheWidest ==
    todo = "planned" =>
        \A n \in DOMAIN reported :
            LET t == Clipped(reported[n])
            IN  (Length(t) > MaxLength /\ Silences(t.start + MinPiece, t.start + MaxLength) # {}) =>
                   \E cut \in Cuts(t) : \A m \in DOMAIN out :
                      out[m].label = t.label => ~(out[m].start < cut.start /\ cut.end < out[m].end)

\* docs/audio-pipeline.md:42-48 promises of every plan that long turns are cut at the widest silence,
\* and that two windows never contain the same audio: a plan that violates this keeps neither.  The
\* first fails because trim_to_vad has cut the turn at every silence, and merge has closed the first
\* ones again, before split_long looks for one; the second because build_windows looks no further
\* than the nearest turn of the list.
EitherPromiseKept == LongTurnsCutAtTheWidest \/ WindowsShareNoAudio
=============================================================================
