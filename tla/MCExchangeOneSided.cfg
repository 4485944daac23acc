CONSTANTS
  alice = alice
  bob = bob
  mallory = mallory
  eur = eur
  usd = usd
  gold = gold
  Pairs <- OnePair
  AccountIds = {alice, bob}
  Accounts = {alice, bob}
  Assets = {eur, usd}
  Prices = {1, 2}
  VolumeMod = 16
  Insertions <- OneSided
  MaxOrders = 4
  NoOrder = NoOrder
  NewVolumes = {}
  BalanceHalf = 64
  OverflowChecks = TRUE
SPECIFICATION ExchangeSpec
INVARIANTS
  RestingMatchesSession
  PositionsMatchFills
  NeverPanics
