SPECIFICATION FairSettlingSpec

CONSTANTS
  Subjects = {"terminal", "retirement"}
  s1 = s1
  s2 = s2
  t1 = t1
  p1 = p1
  p2 = p2
  d1 = d1
  d2 = d2
  NoSlot = NoSlot
  NoBatch = NoBatch
  Submissions <- TwoSubmissions
  Capacity = 2
  Turns <- OneTurn
  Pollers <- NoPoller
  RetirementRoom = 2
  CommitFirst = TRUE
  MaxGeneration = 2
  Publishers <- TwoPublishers
  QueueSlots = 2
  PoolBytes = 3
  MaxBytes = 2
  NoReservation = NoReservation
  MaxVersion = 2
  Destroyers <- TwoDestroyers

INVARIANTS
  RetirementIsExact
  SlotsAccounted

PROPERTIES
  DrainFinishes
  RetirementProgresses

CHECK_DEADLOCK FALSE
