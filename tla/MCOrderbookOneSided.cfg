CONSTANTS
  alice = alice
  bob = bob
  gold = gold
  Pairs = {gold}
  AccountIds = {alice, bob}
  Prices = {1, 2}
  VolumeMod = 16
  Insertions <- OneSided
  MaxOrders = 4
  NoOrder = NoOrder
SPECIFICATION Spec
INVARIANTS
  FillsAddUp
  QuotesAreLive
