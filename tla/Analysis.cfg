SPECIFICATION Spec
CONSTANTS
  Requests = {}
  ExportIds = {}
  Cases = {c1, c2}
  Runs = {r1, r2}
  Concurrency = 2
  MaxCreates = 2
  MaxCrashes = 2
  MaxFaults = 1
SYMMETRY AnalysisSymmetry
CHECK_DEADLOCK FALSE
INVARIANTS
  TypeOK
  ReadyMeansResearched
  UnfinishedHasRun
PROPERTIES
  EvidenceSurvives
  FailureSticks
