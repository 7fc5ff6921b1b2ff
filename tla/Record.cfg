SPECIFICATION RecordSpec
CONSTANTS
  Requests = {q1, q2}
  ExportIds = {e1}
  Cases = {c1}
  Runs = {r1}
  Concurrency = 1
  MaxCreates = 1
  MaxCrashes = 1
  MaxFaults = 1
  Ops <- AllOps
SYMMETRY RequestSymmetry
CHECK_DEADLOCK FALSE
INVARIANTS
  RecordTypeOK
  TrailExplainsStatus
  NoMachineApproval
  MachinesYieldToHumans
  OneExportPerRequest
  SealedDecisionsSurvive
  PermissionsHaveDocuments
