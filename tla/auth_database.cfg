SPECIFICATION Spec
CONSTANTS
  Conns = {c1, c2}
  Calls <- Everyone
  Names <- TheNames
  BadNames <- TooShort
  Passwords <- ThePasswords
  WeakPasswords = {"weak"}
  LongPasswords = {"long"}
  Accounts <- EnrolledAccounts
  Durable = TRUE
  Keys = {env}
  TokenLife = 1
  MaxClock = 1
  MaxCalls = 3
  MaxBoots = 1
INVARIANTS EventsAreTrue SecondFactorIsStored
CHECK_DEADLOCK FALSE
