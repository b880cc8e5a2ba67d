SPECIFICATION Spec
CONSTANTS
  Conns = {c1, c2}
  Calls <- Newcomers
  Names <- TheNames
  BadNames <- TooShort
  Passwords <- ThePasswords
  WeakPasswords = {"weak"}
  LongPasswords = {"long"}
  Accounts <- TheAccounts
  Durable = FALSE
  Keys = {env}
  TokenLife = 1
  MaxClock = 1
  MaxCalls = 4
  MaxBoots = 1
INVARIANTS NamesUnique AccountsMatchTrail TokensTellTheTruth TokensOnRecord
CHECK_DEADLOCK FALSE
