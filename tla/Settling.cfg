SPECIFICATION FairSpec
CONSTANTS
  Requests = {}
  ExportIds = {}
  Cases = {c1, c2, c3}
  Runs = {r1}
  Concurrency = 2
  MaxCreates = 1
  MaxCrashes = 2
  MaxFaults = 2
CHECK_DEADLOCK FALSE
PROPERTIES
  Settles
