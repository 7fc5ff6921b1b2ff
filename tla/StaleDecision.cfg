SPECIFICATION Spec
CONSTANTS
  Requests = {q1, q2, q3}
  Names = {"mug", "logo", "song"}
  CategoryOf <- Categories
  Scenes = {1, 2}
  Times = {0, 8}
  Nearby = 8
  First <- TwoFound
  Scans <- MovedOnly
  Ops <- AllOps
  MaxTroubles = 1
SYMMETRY RequestSymmetry
CHECK_DEADLOCK FALSE
PROPERTIES
  ReportedCasesReopen
