CONSTANTS
  alice = alice
  bob = bob
  mallory = mallory
  eur = eur
  usd = usd
  gold = gold
  Pairs <- OnePair
  AccountIds = {alice, bob, mallory}
  Accounts = {alice, bob}
  Assets = {eur, usd}
  Prices = {1, 2}
  VolumeMod = 8
  Insertions <- BothSides
  MaxOrders = 3
  NoOrder = NoOrder
  NewVolumes = {}
  BalanceHalf = 64
  OverflowChecks = FALSE
SPECIFICATION ExchangeSpec
INVARIANTS
  NoIndexOverlap
