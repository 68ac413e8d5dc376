\* A capture of a tree in which changes are staged.
SPECIFICATION Spec
CONSTANTS
  Files = {"in", "out"}
  InScope = {"in", "out"}
  OutScope = {"out"}
  Spaced = {2}
  MaxEdits = 0
  MaxMoves = 0
INVARIANT CapturedAgainstHead
CHECK_DEADLOCK FALSE
