SPECIFICATION Spec
CONSTANTS
  Addresses = {a1, a2}
  NoAddress = none
  EntryShapes <- WalkShapes
  FileTypes = {"TIFF"}
  Shared = FALSE
  MaxWarnings = 1
  MaxSubdirs = 2
  MaxBlob = 8
  BlockLength = 6
  Standalone = {"TIFF"}
  MaxBlockEntries <- WalkEntries
  MaxWalks = 30
INVARIANT MembersAreOwn
CHECK_DEADLOCK FALSE
