CONSTANTS
  alice = alice
  bob = bob
  mallory = mallory
  eur = eur
  usd = usd
  gold = gold
  Pairs <- WithUntraded
  AccountIds = {alice, bob}
  Accounts = {alice, bob}
  Assets = {eur, usd}
  Prices = {1, 2}
  VolumeMod = 4
  Insertions <- Large
  MaxOrders = 3
  NoOrder = NoOrder
  NewVolumes = {0, 2}
  BalanceHalf = 16
  OverflowChecks = TRUE
SPECIFICATION ExchangeSpec
INVARIANTS
  BalancesConserved
PROPERTY
  ImplementsOrderbook
