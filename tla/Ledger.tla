------------------------------- MODULE Ledger -------------------------------
(***************************************************************************)
(* How an exchange is set up (src/util/exchange_configs.rs, the set-up     *)
(* methods of src/exchange.rs) and what a settlement then writes: the      *)
(* balance book and the recent transactions.                               *)
(*                                                                         *)
(* A configuration lists accounts, asset symbols and markets.  custom()    *)
(* creates the accounts first; Exchange lets its user create them at any   *)
(* time before run(), and so does this module: that is when add_account    *)
(* has to shift cells.  An unwrap or expect that fails ends the program.   *)
(*                                                                         *)
(* BalanceBook is also a public type of the library: in the phase "alone"  *)
(* there is no exchange and its methods are called directly, in any order, *)
(* so that the book grows with balances in it.                             *)
(***************************************************************************)
EXTENDS BalanceBook, RecentTransactions

CONSTANTS
  Configs,    \* [accounts : Nat, assets : Seq(Symbols), markets : Seq(pairs of Symbols)]
  Upper,      \* to_uppercase: a function on the symbols
  Volumes,
  Prices,
  NoConfig,   \* in the phase "alone"
  MaxTrades,  \* bound on the settled transactions
  MaxSize,    \* bound on accounts plus assets of a book alone
  MaxBalance  \* bound on its balances

\* Only symbols can be listed.
ASSUME ConfigAssumption ==
  \A c \in Configs :
    /\ c.accounts \in Nat
    /\ c.assets \in Seq(DOMAIN Upper)
    /\ c.markets \in Seq([primary : DOMAIN Upper, secondary : DOMAIN Upper])

\* Amounts has what a trade can move.
ASSUME AmountAssumption ==
  /\ Volumes \subseteq Int
  /\ Prices \subseteq Int
  /\ \A volume \in Volumes, price \in Prices :
       {volume, - volume, volume * price, (- volume) * price} \subseteq Amounts

VARIABLES
  config,      \* the configuration
  registered,  \* accounts.len()
  listed,      \* the symbols of traded_assets; asset i is listed[i + 1]
  markets,     \* the asset pairs of the markets, in the order they were added
  phase        \* "setup", "running" or "panicked"; "alone" without an exchange

ledgerVars == <<bookVars, ringVars, config, registered, listed, markets, phase>>

\* The first asset with that symbol, or -1.
AssetId(symbol) == SelectInSeq(listed, LAMBDA s : s = Upper[symbol]) - 1

MarketOf(wanted) ==
  [primary |-> AssetId(wanted.primary), secondary |-> AssetId(wanted.secondary)]

IsTradedAsset(id) == id \in 0 .. Len(listed) - 1

\* Mutation of CanAddMarket: markets.contains is not asked.
CanRepeatMarket(pair) == IsTradedAsset(pair.primary) /\ IsTradedAsset(pair.secondary)

CanAddMarket(pair) ==
  /\ IsTradedAsset(pair.primary)
  /\ IsTradedAsset(pair.secondary)
  /\ pair \notin ToSet(markets)

NextMarket == config.markets[Len(markets) + 1]
-----------------------------------------------------------------------------
LedgerInit ==
  /\ BookInit
  /\ RingInit
  /\ \/ phase = "setup" /\ config \in Configs
     \/ phase = "alone" /\ config = NoConfig
  /\ registered = 0
  /\ listed = <<>>
  /\ markets = <<>>

\* Mutation of CreateAccount: create_account_with_name, which does not tell the
\* balance book.
CreateAccountWithName ==
  /\ phase = "setup"
  /\ registered < config.accounts
  /\ ~ widening
  /\ registered' = registered + 1
  /\ UNCHANGED <<bookVars, ringVars, config, listed, markets, phase>>

CreateAccount ==
  /\ phase = "setup"
  /\ registered < config.accounts
  /\ BeginAddAccount
  /\ registered' = registered + 1
  /\ UNCHANGED <<ringVars, config, listed, markets, phase>>

\* The rest of balance_book.add_account().
WidenBook ==
  /\ phase = "setup"
  /\ InsertCell \/ FinishAddAccount
  /\ UNCHANGED <<ringVars, config, registered, listed, markets, phase>>

ListAsset ==
  /\ phase = "setup"
  /\ Len(listed) < Len(config.assets)
  /\ AddAsset
  /\ listed' = Append(listed, Upper[config.assets[Len(listed) + 1]])
  /\ UNCHANGED <<ringVars, config, registered, markets, phase>>

ReadyForMarket ==
  /\ phase = "setup"
  /\ ~ widening
  /\ Len(listed) = Len(config.assets)
  /\ Len(markets) < Len(config.markets)

AddMarket ==
  /\ ReadyForMarket
  /\ CanAddMarket(MarketOf(NextMarket))
  /\ markets' = Append(markets, MarketOf(NextMarket))
  /\ UNCHANGED <<bookVars, ringVars, config, registered, listed, phase>>

\* An unknown symbol, or a market that exists already.
SetupPanics ==
  /\ ReadyForMarket
  /\ ~ CanAddMarket(MarketOf(NextMarket))
  /\ phase' = "panicked"
  /\ UNCHANGED <<bookVars, ringVars, config, registered, listed, markets>>

Run ==
  /\ phase = "setup"
  /\ ~ widening
  /\ registered = config.accounts
  /\ Len(listed) = Len(config.assets)
  /\ Len(markets) = Len(config.markets)
  /\ phase' = "running"
  /\ UNCHANGED <<bookVars, ringVars, config, registered, listed, markets>>

Transactions ==
  [market : ToSet(markets), price : Prices, volume : Volumes, takerSide : {"Ask", "Bid"},
   maker : 0 .. registered - 1, taker : 0 .. registered - 1]

\* Mutation of SettleTrade: the accounts change places on the way to the book.
SettleForTheOther(t) ==
  LET bought == IF t.takerSide = "Bid" THEN t.volume ELSE - t.volume
  IN  /\ phase = "running"
      /\ Len(pushed) < MaxTrades
      /\ Transfer(t.market.primary, t.market.secondary, t.taker, t.maker,
                  bought, bought * t.price)
      /\ Push(t)
      /\ UNCHANGED <<config, registered, listed, markets, phase>>

\* process_transactions, as far as balances and recent transactions go.
SettleTrade(t) ==
  LET bought == IF t.takerSide = "Bid" THEN t.volume ELSE - t.volume
  IN  /\ phase = "running"
      /\ Len(pushed) < MaxTrades
      /\ Transfer(t.market.primary, t.market.secondary, t.maker, t.taker,
                  bought, bought * t.price)
      /\ Push(t)
      /\ UNCHANGED <<config, registered, listed, markets, phase>>

\* `expect("Index overlap is impossible ..")`
SettlementPanics(t) ==
  /\ phase = "running"
  /\ ~ IsDisjoint(TradePositions(t.market.primary, t.market.secondary, t.maker, t.taker))
  /\ phase' = "panicked"
  /\ UNCHANGED <<bookVars, ringVars, config, registered, listed, markets>>

CallBook ==
  /\ phase = "alone"
  /\ BookNext
  /\ accounts' + assets' <= MaxSize
  /\ \A i \in DOMAIN balances' : balances'[i] \in -MaxBalance .. MaxBalance
  /\ UNCHANGED <<ringVars, config, registered, listed, markets, phase>>

\* GetBalance, GetAssets and GetLast100Transactions; nothing follows a panic.
ReadOrRest == phase # "setup" /\ UNCHANGED ledgerVars

LedgerNext ==
  \/ CreateAccount
  \/ WidenBook
  \/ ListAsset
  \/ AddMarket
  \/ SetupPanics
  \/ Run
  \/ \E t \in Transactions : SettleTrade(t) \/ SettlementPanics(t)
  \/ CallBook
  \/ ReadOrRest

LedgerSpec == LedgerInit /\ [][LedgerNext]_ledgerVars
-----------------------------------------------------------------------------
\* The variables keep their types.
LedgerTypeOK ==
  /\ BookTypeOK
  /\ inner \in Seq(Transactions)
  /\ Len(inner) <= RingCapacity
  /\ writeIdx = Len(pushed)
  /\ phase \in {"setup", "running", "panicked", "alone"}

(***************************************************************************)
(* The balance book has a cell for every account and asset the exchange    *)
(* knows whenever a command runs: insert_order, which compares an account  *)
(* with accounts.len() only, lets nobody trade on another one's balance.   *)
(***************************************************************************)
CellsForEveryone ==
  phase # "alone" /\ ~ widening => accounts = registered /\ assets = Len(listed)

(***************************************************************************)
(* A running exchange has the markets its configuration asks for, each     *)
(* once: their ids lead back to the symbols of the configuration, though   *)
(* these differ in case and may be listed twice.                           *)
(***************************************************************************)
MarketsAsConfigured ==
  phase = "running" =>
    /\ Len(markets) = Len(config.markets)
    /\ \A i, j \in DOMAIN markets : markets[i] = markets[j] => i = j
    /\ \A i \in DOMAIN markets :
         /\ listed[markets[i].primary + 1] = Upper[config.markets[i].primary]
         /\ listed[markets[i].secondary + 1] = Upper[config.markets[i].secondary]

(***************************************************************************)
(* Balances can be audited: as long as the ring has not dropped a          *)
(* transaction, the balance of an account in an asset is what the recent   *)
(* transactions moved to it.                                               *)
(***************************************************************************)
MovedTo(t, asset, account) ==
  LET bought == IF t.takerSide = "Bid" THEN t.volume ELSE - t.volume
      sign == (IF account = t.taker THEN 1 ELSE 0) - (IF account = t.maker THEN 1 ELSE 0)
  IN  (IF asset = t.market.primary THEN sign * bought ELSE 0)
        - (IF asset = t.market.secondary THEN sign * bought * t.price ELSE 0)

BalancesAuditable ==
  phase = "running" /\ Len(pushed) <= RingCapacity =>
    \A asset \in 0 .. assets - 1, account \in 0 .. accounts - 1 :
      Get(account, asset) =
        SumFunction([i \in DOMAIN GetRecent |-> MovedTo(GetRecent[i], asset, account)])
=============================================================================
