SPECIFICATION Spec
CONSTANTS
  Ids = {p1, p2}
  Calls = {c1, c2, c3, c4}
  Nothing = Nothing
  MaxFaults = 1
  MaxCrashes = 1
SYMMETRY Symmetry
CHECK_DEADLOCK FALSE
INVARIANTS
  TypeOK
  OneWriteAtATime
  FailuresStayAlone
  LastCallWins
PROPERTIES
  ImplementsStore
