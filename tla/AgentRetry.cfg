SPECIFICATION Spec
CONSTANTS
  Jobs = {j1}
  NoJob = NoJob
  Dictations = {}
  UploadAudio = FALSE
  MaxAttempts = 0
  MaxCrashes = 1
PROPERTY NoRetryAfterRejection
CHECK_DEADLOCK FALSE
