SPECIFICATION Spec
CONSTANTS
  Requests = {q1, q2, q3, q4}
  Cloud = cloud
  None = none
  Ops <- AllOps
  ScriptScans <- OneScript
  CutScans <- OneCut
  Matchings <- Answered
  Duration = 4
  MaxPuts = 2
  MaxTroubles = 1
SYMMETRY RequestSymmetry
CHECK_DEADLOCK FALSE
INVARIANTS
  TypeOK
  FilesAsRecorded
  NoOrphans
  FinalizeAgrees
  CasesComplete
  AcceptedSourcesScan
