SPECIFICATION GroupSpec
CONSTANTS
  Words = {"a", "b", "c", "d", "x", "y", "z"}
  BeginMarker = "<$"
  EndMarker = "$>"
  None = None
  Pieces <- MCPieces
  MaxPieces = 5
  Groups <- MCGroups
  Main <- A
  Parameters <- MCParameters
  MaxCalls = 4
CHECK_DEADLOCK FALSE
INVARIANTS ParsesRight EvaluatesRight EvaluatedOnce
