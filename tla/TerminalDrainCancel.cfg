SPECIFICATION Spec

CONSTANTS
  s1 = s1
  s2 = s2
  t1 = t1
  q1 = q1
  NoSlot = NoSlot
  NoBatch = NoBatch
  Submissions <- OneSubmission
  Capacity = 1
  Turns <- OneTurn
  Pollers <- NoPoller
  RetirementRoom = 1
  CommitFirst = TRUE
  MaxGeneration = 2

INVARIANTS
  CancelledKeepsLease

CHECK_DEADLOCK FALSE
