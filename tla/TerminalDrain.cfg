SPECIFICATION Spec

CONSTANTS
  s1 = s1
  s2 = s2
  t1 = t1
  q1 = q1
  NoSlot = NoSlot
  NoBatch = NoBatch
  Submissions <- TwoSubmissions
  Capacity = 2
  Turns <- OneTurn
  Pollers <- OnePoller
  RetirementRoom = 1
  CommitFirst = TRUE
  MaxGeneration = 2

INVARIANTS
  CompletionsAreHeard
  RecordsAreExact
  LeasesFollowRecords

PROPERTIES
  ImplementsChannel

SYMMETRY Symmetry

CHECK_DEADLOCK FALSE
