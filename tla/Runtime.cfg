SPECIFICATION FairRuntimeSpec

CONSTANTS
  Subjects = {"wake", "gpu"}
  c1 = c1
  c2 = c2
  Consumers <- TwoConsumers
  QueueCapacity = 2
  MaxGeneration = 4
  MaxTake = 2
  NoBatch = NoBatch
  q1 = q1
  q2 = q2
  s1 = s1
  s2 = s2
  b1 = b1
  b2 = b2
  NoQueue = NoQueue
  Buffers <- TwoBuffers
  Queues <- TwoQueues
  Submissions <- TwoSubmissions
  Capacity <- OneThenTwo
  MaxEpoch = 2

INVARIANTS
  NoLostWake
  DeliveryIsExact
  SubmissionsAreExact
  BuffersAreLocked

PROPERTIES
  PendingWakeStands
  TurnsFinishTheWork
  FlightsLand

CHECK_DEADLOCK FALSE
