SPECIFICATION FairSpec
CONSTANTS
  Accounts = {"ada", "ann", "vic"}
  NoOne = "no one"
  RoleOf <- TheRoles
  Visits <- TypedPaths
  MaxCalls = 2
  MaxLoads = 2
INVARIANTS SessionAgrees DoorsAgree SpinnersAreOwed
PROPERTY SpinnersEnd
