CONSTANTS
  alice = alice
  bob = bob
  mallory = mallory
  eur = eur
  usd = usd
  gold = gold
  Pairs <- OnePair
  AccountIds = {alice, bob}
  Accounts = {alice, bob}
  Assets = {eur, usd}
  Prices = {1, 2}
  VolumeMod = 8
  Insertions <- OneSided
  MaxOrders = 2
  NoOrder = NoOrder
  NewVolumes = {0, 1}
  BalanceHalf = 64
  OverflowChecks = FALSE
SPECIFICATION ExchangeSpec
INVARIANTS
  FilledOrdersDoNotRest
