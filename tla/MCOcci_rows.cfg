SPECIFICATION ProgramSpec
CONSTANTS
  MaxRows = 3
  NCols = 3
  Kinds <- EachKind
  BatchSizes = {0, 1, 2}
INVARIANTS RowsTransformed RowsInOrder CommittedPrefix ResourcesReleased
CHECK_DEADLOCK FALSE
