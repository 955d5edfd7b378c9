\* Three jobs on two recordings (so a recording can be retried while the other
\* is processed) and results under two keys.  Three persons, so that a chain of
\* two hops exceeds MaxHops; two concurrent merges; two records.  Merges are
\* named as recordings and records as keys: one permutation serves both parts.
SPECIFICATION CentralSpec
CONSTANTS
  Jobs = {a, b, c}
  NoJob = NoJob
  Recordings = {r, s}
  NoRecording = NoRecording
  Keys = {k, l}
  NoKey = NoKey
  People = {1, 2, 3}
  NoOne = NoOne
  Records = {k, l}
  Merges = {r, s}
  MaxHops = 1
  MaxAttempts = 2
SYMMETRY Symmetric
INVARIANTS CentralTypeOK EvidenceSettled ResultIffCompleted OneActivePerRecording ArchivedStatus NoCircle DeadlockNeedsRetry
PROPERTIES OutcomesAreFinal EvidenceOnlyWhileOpen AliasesAreFinal NothingLeftBehind
CHECK_DEADLOCK FALSE
