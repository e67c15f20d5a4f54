SPECIFICATION EmitSpec
CONSTANTS
  a1 = a1
  a2 = a2
  a3 = a3
  Addresses = {a1, a2, a3}
  NoAddress = none
  EntryShapes <- EmitShapes
  FileTypes = {"", "SR2", "TIFF"}
  Shared = FALSE
  MaxWarnings = 1
  MaxSubdirs = 2
  MaxBlob = 8
  BlockLength = 6
  Standalone = {"SR2", "TIFF"}
  MaxBlockEntries <- EmitEntries
  MaxWalks = 30
  MaxBlocks = 2
INVARIANTS EmissionComplete BlocksInOrder MakerNoteAtItsPointer ImagesFromOneWalk
CHECK_DEADLOCK FALSE
CONSTRAINTS Layout FileFits
