\* One capture and review, with files edited, staged, committed and taken back meanwhile.
SPECIFICATION Spec
CONSTANTS
  Files = {"in", "out"}
  InScope = {"in", "out"}
  OutScope = {"out"}
  Spaced = {2}
  MaxEdits = 2
  MaxMoves = 1
INVARIANTS CTypeOK DiffIsOfOneTree WholeChangeReviewed DiffInScope
CHECK_DEADLOCK FALSE
