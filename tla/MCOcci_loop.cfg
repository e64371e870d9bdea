SPECIFICATION ProgramSpec
CONSTANTS
  MaxRows = 2
  NCols = 2
  Kinds <- FromAuth
  BatchSizes = {2}
INVARIANT RangeForEnds
CHECK_DEADLOCK FALSE
