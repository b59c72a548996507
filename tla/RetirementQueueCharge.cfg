SPECIFICATION RetirementSpec

CONSTANTS
  p1 = p1
  p2 = p2
  d1 = d1
  d2 = d2
  Publishers <- TwoPublishers
  QueueSlots = 2
  PoolBytes = 4
  MaxBytes = 2
  NoReservation = NoReservation
  MaxVersion = 2
  Destroyers <- OneDestroyer

INVARIANTS
  ChargedUntilDestroyed

CHECK_DEADLOCK FALSE
