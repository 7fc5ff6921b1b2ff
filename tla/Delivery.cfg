SPECIFICATION Spec
CONSTANTS
  None = none
  c1 = c1
  u1 = u1
  u2 = u2
  d1 = d1
  h1 = h1
  Absent = absent
  Malformed = malformed
  Refused = refused
  MinPart = 2
  TargetPart = 4
  MaxParts = 3
  Cases = {c1}
  Pages = {p1}
  Hooks = {h1, h2, h3, h4}
  HookOps <- HandlerOps
  Searches <- Found
  Answers <- Replies
  HistoryLimit = 3
  MaxPolls = 1
  MaxFaults <- OneOfEach
CHECK_DEADLOCK FALSE
INVARIANTS
  TypeOK
  EvidenceHonest
  HandOverFindsReady
  ReopenedOncePerDelivery
PROPERTIES
  PageCatchesUp
