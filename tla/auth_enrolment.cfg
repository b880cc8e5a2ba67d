SPECIFICATION Spec
CONSTANTS
  Conns = {c1}
  Calls <- Everyone
  Names <- TheNames
  BadNames <- TooShort
  Passwords <- ThePasswords
  WeakPasswords = {"weak"}
  LongPasswords = {"long"}
  Accounts <- EnrolledAccounts
  Durable = FALSE
  Keys = {env}
  TokenLife = 1
  MaxClock = 0
  MaxCalls = 3
  MaxBoots = 0
PROPERTIES EnrolmentWorks
CHECK_DEADLOCK FALSE
