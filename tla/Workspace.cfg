SPECIFICATION WorkspaceSpec

SYMMETRY SwapThreads

CONSTANTS
  Subjects = {"namespace", "reconciliation", "continuity", "snapshots", "sessions",
              "search", "shell", "navigation"}
  Sessions = {s1}
  Names = {n1}
  MaxGenerations = 3
  fa = fa
  fe = fe
  src = src
  deep = deep
  Files <- TwoFiles
  Dirs <- TwoDirs
  Above <- Tree
  Root = Root
  Contents = {c1}
  Absent = Absent
  Passes = {p1}
  Scopes = {Root}
  MaxSequence = 3
  Tracked = {fa, fe}
  Inodes = {i1, i2}
  Texts = {x1, x2}
  Notes = {note1}
  MaxIdentities = 3
  MaxRevisions = 2
  TooShort = TooShort
  NoInode = NoInode
  Revisions = {r1}
  Stores = {st1, st2}
  Tokens = {1, 2}
  MaxChunks = 2
  MaxWrites = 2
  MaxRetries = 1
  CoarseClock = FALSE
  NoCapture = NoCapture
  NoPin = NoPin
  t1 = t1
  t2 = t2
  Threads <- TwoThreads
  MaxSessions = 2
  MaxHandles = 3
  MaxRevocations = 1
  Queries = {"qa", "qb"}
  Hits = {h1, h2}
  MaxQueries = 3
  MaxRows = 2
  Plain <- TwoSurfaces
  Documents = {f1}
  Captures = {r1}
  Uncaptured = Uncaptured
  StackCapacity = 2
  QueueCapacity = 1
  MaxCaptured = 1
  MaxPanes = 2
  Endpoints = {0, 4, 9}
  MaxHistory = 2

INVARIANTS
  
  
  NotesFollowFiles
  CapturesAreWhole
  RevokedIsNotDelivered
  SessionsAreAccounted

PROPERTIES
  ImplementsStore
  SearchIsCoherent
  ShellIsCoherent
  NavigationStands

CHECK_DEADLOCK FALSE
