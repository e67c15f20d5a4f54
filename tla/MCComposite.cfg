CONSTANTS
  Words <- MCWords
  Cases <- MCCases
  DocCount = 1
  MayDecline = {"B", "ScaleFactor35efl", "GPSLatitude"}
SPECIFICATION FairSpec
PROPERTY Terminates
INVARIANTS TypeOK ReadsFinal DroppedOnCycle

CHECK_DEADLOCK FALSE
