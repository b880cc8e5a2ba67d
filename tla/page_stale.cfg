SPECIFICATION Spec
CONSTANTS
  MaxInt = 15
  MaxPageSize = 3
  DefaultPageSize = 2
  Writers = {w1, w2}
  MaxEvents = 3
  RowsPerPage = 1
  MaxFetches = 4
INVARIANTS RowsMatchLabel
CHECK_DEADLOCK FALSE
