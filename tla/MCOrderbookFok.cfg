CONSTANTS
  alice = alice
  bob = bob
  gold = gold
  Pairs = {gold}
  AccountIds = {alice, bob}
  Prices = {1, 2}
  VolumeMod = 8
  Insertions <- EveryType
  MaxOrders = 3
  NoOrder = NoOrder
SPECIFICATION Spec
INVARIANTS
  FokKilledOnlyWhenShort
