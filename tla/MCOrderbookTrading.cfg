CONSTANTS
  alice = alice
  bob = bob
  gold = gold
  Pairs = {gold}
  AccountIds = {alice, bob}
  Prices = {1, 2}
  VolumeMod = 4
  Insertions <- EveryType
  MaxOrders = 4
  NoOrder = NoOrder
SPECIFICATION FairSpec
INVARIANTS
  TypeOK
  Uncrossed
  TimePriority
  RestsOnce
  CleanupExact
  FilledOrKilled
PROPERTIES
  InsertionTerminates
  MatchesBestFirst
