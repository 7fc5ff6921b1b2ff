SPECIFICATION RecordSpec
CONSTANTS
  Requests = {q1}
  ExportIds = {}
  Cases = {c1}
  Runs = {r1}
  Concurrency = 1
  MaxCreates = 1
  MaxCrashes = 0
  MaxFaults = 0
  Ops <- ConflictOps
CHECK_DEADLOCK FALSE
INVARIANTS
  UnfinishedHasRun
