\* One interview with audio, one restart of the agent, and one fault: a call
\* that is lost or not answered in time, or a restart of the server.
SPECIFICATION FairSyncSpec
CONSTANTS
  Jobs = {j1}
  NoJob = NoJob
  Dictations = {}
  UploadAudio = TRUE
  MaxAttempts = 0
  MaxCrashes = 1
  NoKey = NoKey
  MaxFaults = 1
INVARIANT SyncTypeOK
PROPERTIES ImplementsDelivery SidesAgree DeliveredAtLast
CHECK_DEADLOCK FALSE
