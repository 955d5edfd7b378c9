\* An interview and a dictation, audio upload, one attempt before giving up;
\* two restarts, one while both jobs are known (BoundedNext).
SPECIFICATION BoundedSpec
CONSTANTS
  Jobs = {j1, j2}
  NoJob = NoJob
  Dictations = {j2}
  UploadAudio = TRUE
  MaxAttempts = 1
  MaxCrashes = 2
INVARIANTS TypeOK OneJobAtATime OutboxDeliverable FailureReportIsFinal
PROPERTIES CancelNeverCleared FinishedRowsStay CancelEndsJob FinishedIsDelivered
CHECK_DEADLOCK FALSE
