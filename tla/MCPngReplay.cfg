SPECIFICATION ReplaySpec
CONSTANTS
  Addresses = {a1, a2}
  NoAddress = none
  EntryShapes <- PngShapes
  FileTypes = {""}
  Shared = TRUE
  MaxWarnings = 1
  MaxSubdirs = 2
  MaxBlob = 8
  BlockLength = 6
  Standalone = {}
  MaxBlockEntries <- PngEntries
  MaxWalks = 30
  MAX_ZXIF_INFLATE_TOTAL = 3
  MAX_ZXIF_DEPTH = 2
  Inflations = {1, 2}
  TextBodies <- SomeTextBodies
  BoxWarnings <- SomeBoxWarnings
  MaxChunks = 4
INVARIANTS RefusedIfClaimed WarningsNameFirstClaim DiagnosticsInWalkOrder InflationBounded
CHECK_DEADLOCK FALSE
CONSTRAINTS LongFiles Inflated Replayed
SYMMETRY AddressSymmetry
