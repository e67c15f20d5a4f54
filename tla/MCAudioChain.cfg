SPECIFICATION Spec
CONSTANTS
  Files <- SomeFiles
  ScanLen = 256
  Pages <- SomePages
  MaxPages = 4
  MaxPackets = 1
INVARIANTS BodyDecides Id3ReportedOnce TrailerFound
  PacketsWellFormed HolesReported NothingLeftBehind
CHECK_DEADLOCK FALSE
CONSTRAINT LongStreams
