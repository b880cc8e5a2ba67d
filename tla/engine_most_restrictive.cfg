SPECIFICATION Spec
CONSTANTS
  Names <- AnyName
  Conns = {c1, c2}
  Calls <- LockdownCalls
  MaxCalls = 2
  MaxRestarts = 0

PROPERTIES MostRestrictive
