SPECIFICATION FairSpec
CONSTANTS
  Addresses = {a1, a2}
  NoAddress = none
  EntryShapes <- WalkShapes
  FileTypes = {"ARW", "SRW"}
  Shared = FALSE
  MaxWarnings = 0
  MaxSubdirs = 2
  MaxBlob = 8
  BlockLength = 6
  Standalone = {"ARW", "SRW"}
  MaxBlockEntries <- WalkEntries
  MaxWalks = 30
INVARIANTS TypeOK PathNeverRepeats ChainStopsAtCorruption FailureContained
PROPERTY Terminates
CHECK_DEADLOCK FALSE
