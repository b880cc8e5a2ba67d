SPECIFICATION Spec
CONSTANTS
  MaxInt = 15
  MaxPageSize = 3
  DefaultPageSize = 2
  Writers = {w1}
  MaxEvents = 4
  RowsPerPage = 2
  MaxFetches = 4
INVARIANT WalkComplete
CHECK_DEADLOCK FALSE
