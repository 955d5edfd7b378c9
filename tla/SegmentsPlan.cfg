\* Two speakers, and three stretches of speech in the time of a turn that is too long.
SPECIFICATION WatchedSpec
CONSTANTS
  Heard = {s1, s2}
  Duration = 8
  MaxTurns = 2
  SpeechSets <- PausedSpeech
  MinTurn = 1
  MergeGap = 2
  MaxLength = 6
  MinPiece = 1
  Padding = 1
INVARIANT EitherPromiseKept
CHECK_DEADLOCK FALSE
