SPECIFICATION FairSpec
CONSTANTS
  Roles = {"admin", "security_manager", "developer"}
  MaxRequests = 3
  PolicyIds = {1, 2, 3}
  BuiltInIds <- FirstPolicies
  MaxVersions = 3
  Apps = {"aws-console", "prod-db"}
  Postures = {1}
  Accounts <- Names
  Seeded = {"admin"}
  MaxEditions = 3
  RoleOfAccount <- RoleOf
  Choices = {"all", "developer"}
  Searches <- SearchTexts
  FeedSize = 2
  Polls = {1, 2}
INVARIANTS OneTruthAboutRoles ReadYourWrites DirectoryFresh VerdictsInPlace AllowIsTheEngines DashboardHonest SpinnersAreOwed
CHECK_DEADLOCK FALSE
PROPERTIES BadgeStaysRight SpinnersStop BadgeConverges
