CONSTANTS
  alice = alice
  bob = bob
  mallory = mallory
  eur = eur
  usd = usd
  gold = gold
  Pairs <- WithUntraded
  AccountIds = {alice, bob, mallory}
  Accounts = {alice, bob}
  Assets = {eur, usd}
  Prices = {1, 2}
  VolumeMod = 8
  Insertions <- BothSides
  MaxOrders = 3
  NoOrder = NoOrder
  NewVolumes = {0, 1}
  BalanceHalf = 4
  OverflowChecks = FALSE
SPECIFICATION ExchangeSpec
INVARIANTS
  ExchangeTypeOK
  BookMatchesSession
  SettledOrdersExist
  BalancesConserved
PROPERTY
  FinalStatusIsFinal
