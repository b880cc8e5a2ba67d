SPECIFICATION FairSpec
CONSTANTS
  Attempts = {a1, a2, a3}
  MaxLoginAttempts = 2
  LockoutDuration = 3
  MaxErrors = 2
  Rows = {1, 2, 3}
  LastTime = 3
  PageRows = 1
  Ids = {1, 2}
  Dates = {1, 2}
  Names = {"alice", "bob", "carol"}
  Rest = {"plain", "stray"}
  Fit = {"plain"}
  TimeStep = 3
  MaxCounter = 255
  LastSecond = 13
  MaxDrift = 7
INVARIANTS FailuresBounded ReaderSeesAll StoresAgree WindowIsKept
PROPERTIES LockoutRunsOut LockoutEnds
CHECK_DEADLOCK FALSE
