SPECIFICATION Spec
CONSTANTS
  Conns = {c1}
  Calls <- Everyone
  Names <- TheNames
  BadNames <- TooShort
  Passwords <- ThePasswords
  WeakPasswords = {"weak"}
  LongPasswords = {"long"}
  Accounts <- EnrolledAccounts
  Durable = TRUE
  Keys = {env}
  TokenLife = 1
  MaxClock = 0
  MaxCalls = 1
  MaxBoots = 1
PROPERTIES ShutdownCompletesInserts
CHECK_DEADLOCK FALSE
