SPECIFICATION ContentSpec

CONSTANTS
  Subjects = {"decoder", "scan", "reader", "index", "lines", "named"}
  DecodedFiles <- MixedFiles
  MaxChunk = 4
  ScannedFiles <- SearchedFiles
  TextQueries <- SearchedTexts
  Window = 4
  ChunkSizes = {1, 3, 5}
  MatchLimits = {1, 9}
  ByteLimits = {3, 99}
  ReadInputs <- ReadFiles
  ReadRequests <- Requests
  StepBudgets <- Steps
  BufferSize = 5
  IndexedCaptures <- CapturePairs
  Stride = 2
  MaxScreen = 3
  LineFiles <- LinedFiles
  LineScanStep = 3
  MaxLine = 3
  MaxRequests = 2
  NamedFiles <- FilesToRead
  NamedRequests <- LinesWanted
  ReadBytes = 6
  MaxReadCalls = 7

INVARIANTS
  TextIsExact
  PublishedLinesStand
  CheckpointsServeAllLines
  NamedLinesAreWhole

CHECK_DEADLOCK FALSE
