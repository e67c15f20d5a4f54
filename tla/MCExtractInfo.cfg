CONSTANTS
  FILE_TYPES <- MCFileTypes
  Signed = {"JPEG", "EXV", "TIFF", "XMP", "Real", "FLAC", "MKV", "MXF", "PLIST", "PHP"}
  Core = {"JPEG", "EXV", "TIFF"}
  Unsupported = {"PHP", "DIR"}
  NoMagic = {"MXF"}
  WeakMagic = {"MP3"}
  Names <- MCNames
  Files <- MCFiles
  NoExt = NoExt
  NoMarker = NoMarker
  Parsed = {"JPEG", "TIFF", "XMP", "WV", "Real", "FLAC", "MKV", "MXF", "PLIST", "MP3"}
  Chained = {"FLAC", "MP3"}
  Silent = {"MKV"}
SPECIFICATION Spec
INVARIANTS ClaimedByFirst DriversAgree DocumentTellsOutcome
CHECK_DEADLOCK FALSE
