CONSTANTS
  MaxBoxDepth = 3
  MaxBoxes = 5
  Labels = {"L"}
  Fields = {"JUMDLabel"}
  Contents = {"Data"}
  NoLabel = NoLabel
SPECIFICATION Spec
INVARIANT ContentsNeverCollide
CHECK_DEADLOCK FALSE
