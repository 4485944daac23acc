CONSTANTS
  EUR = EUR
  eur = eur
  USD = USD
  CHF = CHF
  Configs <- SetUps
  Upper <- ToUpper
  Amounts <- TradeAmounts
  NoBalance = NoBalance
  RingCapacity = 2
  Volumes = {1}
  Prices = {2}
  MaxTrades = 3
  NoConfig = NoConfig
  MaxSize = 5
  MaxBalance = 1
SPECIFICATION LedgerSpec
INVARIANTS
  LedgerTypeOK
  CellsForEveryone
  OverlapOnlyIfSame
  ReadsWrapAround
  RecentInOrder
  MarketsAsConfigured
  BalancesAuditable
PROPERTY
  ImplementsTable
