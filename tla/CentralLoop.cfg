SPECIFICATION Spec
CONSTANTS
  Jobs = {a, b}
  NoJob = NoJob
  Recordings = {r, s}
  NoRecording = NoRecording
  Keys = {k}
  NoKey = NoKey
INVARIANT LoopNeverWaitsForItself
CHECK_DEADLOCK FALSE
