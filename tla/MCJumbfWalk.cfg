CONSTANTS
  MaxBoxDepth = 3
  MaxBoxes = 6
  Labels = {"L"}
  Fields = {"JUMDLabel"}
  Contents = {"Data"}
  NoLabel = NoLabel
SPECIFICATION Spec
INVARIANTS TypeOK OwnPathsDistinct DocumentIsTopLevelBox LabelStaysInside
VIEW withoutWarnings
CHECK_DEADLOCK FALSE
