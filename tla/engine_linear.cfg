SPECIFICATION FairSpec
CONSTANTS
  Names <- AnyName
  Conns = {c1, c2}
  Calls <- EngineCalls
  MaxCalls = 3
  MaxRestarts = 1
INVARIANTS TypeOK NoMapRace LedgerMatchesStore NoSecondEvent NobodyIsStuck
PROPERTIES GrantIsUnanimous LockIsGivenBack Linearizable EveryCallAnswered
