SPECIFICATION MergeSpec
CONSTANTS
  People = {1, 2, 3}
  NoOne = NoOne
  Records = {r}
  Merges = {m}
  MaxHops = 1
  MaxAttempts = 2
PROPERTY OnlyRecordsOfTheSourceMove
CHECK_DEADLOCK FALSE
