CONSTANTS
  Texts = {"a", "b"}
  Groups = {"GPS"}
  Document = Document
  Emitted <- MCEmitted
  MaxFired = 3
SPECIFICATION Spec
INVARIANTS WarningsInOrder CountsExact
CHECK_DEADLOCK FALSE
