SPECIFICATION FairHostSpec

CONSTANTS
  Subjects = {"pacing", "atlas", "handles", "visits", "bookmarks"}
  MaxInFlight = 2
  MaxEngines = 2
  MaxBindings = 3
  MaxTargets = 1
  ga = ga
  gb = gb
  gc = gc
  Glyphs <- Alphabet
  Width <- Widths
  Height <- Heights
  MinShelf = 3
  Word = 64
  Kind <- OneKind
  PageSize = 6
  MaxPages = 1
  QueueCapacity = 2
  MaxFrame = 3
  MaxDevice = 2
  MaxReuse = 2
  MaxPins = 2
  Owners = {o1}
  Resources = {v1, v2}
  MaxSlots = 2
  MaxGeneration = 2
  MaxDomains = 2
  Offered <- TwoRevisions
  Places = {0, 1}
  MaxDeskPanes = 2
  MaxSources = 2
  MaxVisits = 2
  MaxMarks = 1
  MaxPaneId = 2
  MaxMarkId = 1
  MaxIdentity = 4
  MaxUpdates = 2

INVARIANTS
  PacingIsCounted
  AtlasIsConsistent
  HandlesAreSpentOnce

PROPERTIES
  RequestsAreStarted
  StaleRefsStayStale
  ImplementsRegistry
  DeskStands

CHECK_DEADLOCK FALSE
