\* A 3x3x3 cube with 27 distinct values, every walk of at most 6 moves.
CONSTANTS
  Side = 3
  MaxMoves = 6
  PerfectCube <- MCPerfectCube
SPECIFICATION MCSpec
INVARIANTS
  WalkTypeOK
  Rearranged
  CarriedCell
PROPERTY Reversible
CHECK_DEADLOCK FALSE
