SPECIFICATION SessionsSpec
CONSTANTS
  Forms = {f}
  Readers = {w}
  Keys = {k}
  Papers = {}
  Scans = {}
  Persons = {p}
  Nothing = Nothing
  MaxRecord = 3
PROPERTY ClosedRecordStands
CHECK_DEADLOCK FALSE
