------------------------------ MODULE Exchange ------------------------------
(***************************************************************************)
(* The exchange thread (src/exchange.rs): the order books of Orderbook,    *)
(* the session's orders, and the balances, changed by one command at a     *)
(* time.  Accounts and assets are created before the thread starts         *)
(* (util/exchange_configs.rs), so they are constants here.                 *)
(*                                                                         *)
(* The matching steps are those of Orderbook.  Exchange::insert_order adds *)
(* the session order and then settles the transaction buffer from its end; *)
(* `step` is "settle" meanwhile.  Order id i is sessionOrders[i + 1], and  *)
(* nextId is session_orders.len().  A pair is a record of two assets.      *)
(*                                                                         *)
(* A panic ends the thread: it owns the receiver and all of this state, so *)
(* nothing of it is ever seen again.  OverflowChecks tells a debug build,  *)
(* where arithmetic overflow panics, from a release build, where it wraps. *)
(***************************************************************************)
EXTENDS Orderbook

CONSTANTS
  Accounts,        \* the accounts that exist, among AccountIds
  Assets,          \* the assets that are traded
  NewVolumes,      \* the volumes that modification requests may ask for
  BalanceHalf,     \* Balance holds -BalanceHalf .. BalanceHalf-1 whole units
  OverflowChecks   \* TRUE in a debug build

VARIABLES
  sessionOrders,   \* every order of the session, at its id + 1
  balances,        \* balance of each asset and account
  alive            \* FALSE once the thread has panicked

ASSUME ExchangeAssumption ==
  /\ Accounts \subseteq AccountIds
  /\ IsFiniteSet(Accounts)
  /\ NewVolumes \subseteq Volume
  /\ BalanceHalf \in Nat \ {0}
  /\ OverflowChecks \in BOOLEAN

exchangeVars == <<vars, sessionOrders, balances, alive>>

Cells == Assets \X Accounts

Status == {"AwaitingFill", "Filled", "Cancelled"}

PlacedOrder ==
  [account : AccountIds, pair : Pairs, side : Side, price : Prices,
   volume : Volume, remaining : Volume, status : Status]

(***************************************************************************)
(* Arithmetic.                                                             *)
(***************************************************************************)
WrapVolume(v) == v % VolumeMod

\* Mutation of WrapBalance: an unsigned balance.
WrapUnsigned(b) == b % (2 * BalanceHalf)

\* Two's complement, as a release build computes.
WrapBalance(b) == ((b + BalanceHalf) % (2 * BalanceHalf)) - BalanceHalf

FitsBalance(b) == b \in -BalanceHalf .. BalanceHalf - 1

(***************************************************************************)
(* Requests: which answer each gets.                                       *)
(***************************************************************************)
OrderOf(id) == sessionOrders[id + 1]

IsPlaced(id) == id + 1 \in DOMAIN sessionOrders

SlotOf(order) == Slot(order.pair, order.side, order.price)

Rests(id) ==
  LET s == SlotOf(OrderOf(id))
  IN  s \in DOMAIN book /\ Positions(s, id) # {}

AddMarketResult(pair) ==
  CASE {pair.primary, pair.secondary} \subseteq Assets /\ pair \notin markets -> "Ok"
    [] {pair.primary, pair.secondary} \subseteq Assets /\ pair \in markets ->
         "MarketAlreadyExists"
    [] OTHER -> "AssetNotTraded"

\* Checked in this order; whether the volume is there is the book's decision.
InsertIsAccepted(request) ==
  request.pair \in markets /\ request.account \in Accounts

\* Mutation of CancelResult: the status is not checked.
CancelResultUnchecked(account, id) ==
  IF ~ IsPlaced(id) THEN "OrderDoesNotExist"
  ELSE IF OrderOf(id).account # account THEN "Unauthorized"
  ELSE IF Rests(id) THEN "Ok" ELSE "AlreadyFilled"

CancelResult(account, id) ==
  IF ~ IsPlaced(id) THEN "OrderDoesNotExist"
  ELSE LET order == OrderOf(id)
       IN  IF order.account # account THEN "Unauthorized"
           ELSE IF order.status = "Cancelled" THEN "AlreadyCancelled"
           ELSE IF order.status = "Filled" \/ ~ Rests(id) THEN "AlreadyFilled"
           ELSE "Ok"

ModifyResult(account, id, newVolume) ==
  IF ~ IsPlaced(id) THEN "OrderDoesNotExist"
  ELSE LET order == OrderOf(id)
       IN  IF order.account # account THEN "Unauthorized"
           ELSE IF order.status = "Filled" THEN "AlreadyFilled"
           ELSE IF newVolume > order.volume THEN "VolumeNotLower"
           ELSE IF Rests(id) THEN "Ok" ELSE "OrderNotFound"

(***************************************************************************)
(* Settlement of one transaction, for the pair of the insertion that       *)
(* triggers it.                                                            *)
(***************************************************************************)
Trade == Last(transactionBuf)

\* Mutations of Flow: the maker is forgotten; the taker's side is ignored.
FlowToTaker(trade, maker, trader, pair, cell) ==
  LET bought == IF trade.takerSide = "Bid" THEN trade.volume ELSE - trade.volume
  IN  CASE cell = <<pair.primary, trader>>   -> bought
        [] cell = <<pair.secondary, trader>> -> - bought * trade.price
        [] OTHER                             -> 0

FlowAsBid(trade, maker, trader, pair, cell) ==
  CASE cell = <<pair.primary, trader>>   -> trade.volume
    [] cell = <<pair.primary, maker>>    -> - trade.volume
    [] cell = <<pair.secondary, trader>> -> - trade.volume * trade.price
    [] cell = <<pair.secondary, maker>>  -> trade.volume * trade.price
    [] OTHER                             -> 0

\* What the transaction adds to each cell.
Flow(trade, maker, trader, pair, cell) ==
  LET bought == IF trade.takerSide = "Bid" THEN trade.volume ELSE - trade.volume
  IN  CASE cell = <<pair.primary, trader>>   -> bought
        [] cell = <<pair.primary, maker>>    -> - bought
        [] cell = <<pair.secondary, trader>> -> - bought * trade.price
        [] cell = <<pair.secondary, maker>>  -> bought * trade.price
        [] OTHER                             -> 0

IdsAreValid(trade) ==
  IsPlaced(trade.maker) /\ IsPlaced(trade.taker) /\ trade.maker # trade.taker

CellsAreDisjoint(trade) ==
  LET maker == OrderOf(trade.maker).account
      trader == OrderOf(trade.taker).account
  IN  maker # trader /\ taker.pair.primary # taker.pair.secondary

\* Mutation of AfterTrade: any fill marks the order as filled.
FilledByAnyTrade(order, volume) ==
  [order EXCEPT !.remaining = WrapVolume(@ - volume), !.status = "Filled"]

AfterTrade(order, volume) ==
  LET left == WrapVolume(order.remaining - volume)
  IN  [order EXCEPT !.remaining = left, !.status = IF left = 0 THEN "Filled" ELSE @]

NewBalance(trade, cell) ==
  balances[cell] + Flow(trade, OrderOf(trade.maker).account,
                        OrderOf(trade.taker).account, taker.pair, cell)

SettlementOverflows(trade) ==
  \/ OrderOf(trade.maker).remaining < trade.volume
  \/ OrderOf(trade.taker).remaining < trade.volume
  \/ ~ FitsBalance(trade.volume * trade.price)
  \/ \E cell \in Cells : ~ FitsBalance(NewBalance(trade, cell))

SettlementPanics(trade) ==
  \/ ~ IdsAreValid(trade)
  \/ ~ CellsAreDisjoint(trade)
  \/ OverflowChecks /\ SettlementOverflows(trade)

\* modify_order's `order.volume - order.remaining_volume`.
VolumeFilled(order) == WrapVolume(order.volume - order.remaining)

AfterModification(order, newVolume) ==
  IF VolumeFilled(order) > newVolume
    THEN [order EXCEPT !.volume = VolumeFilled(order), !.status = "Filled"]
    ELSE [order EXCEPT !.volume = newVolume]

\* get_l1 and get_l2 sum the volumes of a level.
LevelOverflows ==
  \E s \in DOMAIN book : s.pair \in markets /\ QueueVolume(book[s]) >= VolumeMod

\* Mutation of PlacedFromTaker: the session records what the book could not
\* match, so that settlement subtracts it a second time.
PlacedFromRemaining ==
  [account |-> taker.account, pair |-> taker.pair, side |-> taker.side,
   price |-> taker.price, volume |-> taker.volume, remaining |-> remaining,
   status |-> "AwaitingFill"]

PlacedFromTaker ==
  [account |-> taker.account, pair |-> taker.pair, side |-> taker.side,
   price |-> taker.price, volume |-> taker.volume, remaining |-> taker.volume,
   status |-> "AwaitingFill"]
-----------------------------------------------------------------------------
ExchangeInit ==
  /\ Init
  /\ sessionOrders = <<>>
  /\ balances = [cell \in Cells |-> 0]
  /\ alive = TRUE

CreateMarket(pair) ==
  /\ alive
  /\ AddMarketResult(pair) = "Ok"
  /\ AddMarket(pair)
  /\ UNCHANGED <<sessionOrders, balances, alive>>

InsertOrder(request) ==
  /\ alive
  /\ InsertIsAccepted(request)
  /\ ~ (OverflowChecks /\ ScanOverflows(request))
  /\ BeginInsert(request)
  /\ UNCHANGED <<sessionOrders, balances, alive>>

\* The loop of Orderbook::insert_order; a self-trade ends the insertion here.
MatchOrder ==
  /\ alive
  /\ \/ \E p \in Prices : Fill(p) \/ AbortSelfTrade(p) \/ PassLevel(p)
     \/ StopMatching
  /\ UNCHANGED <<sessionOrders, balances, alive>>

\* Mutation of PlaceOrder: only orders that rest are recorded.
PlaceOrderThatRests ==
  /\ alive
  /\ EnterOrder
  /\ sessionOrders' =
       IF remaining > 0 THEN Append(sessionOrders, PlacedFromTaker) ELSE sessionOrders
  /\ UNCHANGED <<balances, alive>>

PlaceOrder ==
  /\ alive
  /\ EnterOrder
  /\ sessionOrders' = Append(sessionOrders, PlacedFromTaker)
  /\ UNCHANGED <<balances, alive>>

\* One round of process_transactions.
SettleTransaction ==
  /\ alive
  /\ PopTransaction
  /\ ~ SettlementPanics(Trade)
  /\ sessionOrders' =
       [sessionOrders EXCEPT
          ![Trade.maker + 1] = AfterTrade(@, Trade.volume),
          ![Trade.taker + 1] = AfterTrade(@, Trade.volume)]
  /\ balances' = [cell \in Cells |-> WrapBalance(NewBalance(Trade, cell))]
  /\ UNCHANGED alive

\* Mutation of CompleteInsert: `if let` for `while let` in process_transactions.
CompleteInsertEarly ==
  /\ alive
  /\ step = "settle"
  /\ step' = "idle"
  /\ ForgetInsertion
  /\ UNCHANGED <<markets, book, nextId, transactionBuf, sessionOrders, balances, alive>>

CompleteInsert ==
  /\ alive
  /\ FinishInsert
  /\ UNCHANGED <<sessionOrders, balances, alive>>

\* Mutation of CancelPlaced: the status is set, the book keeps the order.
CancelStatusOnly(account, id) ==
  /\ alive
  /\ step = "idle"
  /\ CancelResult(account, id) = "Ok"
  /\ sessionOrders' = [sessionOrders EXCEPT ![id + 1].status = "Cancelled"]
  /\ UNCHANGED <<vars, balances, alive>>

CancelPlaced(account, id) ==
  /\ alive
  /\ CancelResult(account, id) = "Ok"
  /\ CancelOrder(SlotOf(OrderOf(id)), id)
  /\ sessionOrders' = [sessionOrders EXCEPT ![id + 1].status = "Cancelled"]
  /\ UNCHANGED <<balances, alive>>

ModifyPlaced(account, id, newVolume) ==
  /\ alive
  /\ ModifyResult(account, id, newVolume) = "Ok"
  /\ ~ (OverflowChecks /\ OrderOf(id).volume < OrderOf(id).remaining)
  /\ ModifyOrder(SlotOf(OrderOf(id)), id, OrderOf(id).volume - newVolume)
  /\ sessionOrders' =
       [sessionOrders EXCEPT ![id + 1] = AfterModification(@, newVolume)]
  /\ UNCHANGED <<balances, alive>>

\* A command that is answered with an error changes nothing.
Refuse ==
  /\ alive
  /\ step = "idle"
  /\ \/ \E pair \in Pairs : AddMarketResult(pair) # "Ok"
     \/ \E request \in Insertions :
          \/ ~ InsertIsAccepted(request)
          \/ Killed(request) /\ ~ (OverflowChecks /\ ScanOverflows(request))
     \/ \E account \in AccountIds, id \in 0 .. MaxOrders :
          \/ CancelResult(account, id) # "Ok"
          \/ \E newVolume \in NewVolumes : ModifyResult(account, id, newVolume) # "Ok"
  /\ UNCHANGED exchangeVars

\* The places where the thread panics.
PanicOnInsert(request) ==
  /\ step = "idle"
  /\ InsertIsAccepted(request)
  /\ OverflowChecks
  /\ ScanOverflows(request)

PanicOnSettle ==
  /\ step = "settle"
  /\ transactionBuf # <<>>
  /\ SettlementPanics(Trade)

PanicOnModify(account, id, newVolume) ==
  /\ step = "idle"
  /\ ModifyResult(account, id, newVolume) = "Ok"
  /\ OverflowChecks
  /\ OrderOf(id).volume < OrderOf(id).remaining

PanicOnRead == step = "idle" /\ OverflowChecks /\ LevelOverflows

Panic ==
  /\ alive
  /\ \/ \E request \in Insertions : PanicOnInsert(request)
     \/ PanicOnSettle
     \/ \E account \in AccountIds, id \in 0 .. MaxOrders - 1, newVolume \in NewVolumes :
          PanicOnModify(account, id, newVolume)
     \/ PanicOnRead
  /\ alive' = FALSE
  /\ UNCHANGED <<vars, sessionOrders, balances>>

\* After a panic no command is handled.
Dead == ~ alive /\ UNCHANGED exchangeVars

ExchangeNext ==
  \/ \E pair \in Pairs : CreateMarket(pair)
  \/ \E request \in Insertions : InsertOrder(request)
  \/ MatchOrder
  \/ PlaceOrder
  \/ SettleTransaction
  \/ CompleteInsert
  \/ \E account \in AccountIds, id \in 0 .. MaxOrders - 1 :
       \/ CancelPlaced(account, id)
       \/ \E newVolume \in NewVolumes : ModifyPlaced(account, id, newVolume)
  \/ Refuse
  \/ Panic
  \/ Dead

ExchangeSpec == ExchangeInit /\ [][ExchangeNext]_exchangeVars
-----------------------------------------------------------------------------
\* The variables keep their types; balances and volumes stay in their widths.
ExchangeTypeOK ==
  /\ TypeOK
  /\ nextId = Len(sessionOrders)
  /\ sessionOrders \in Seq(PlacedOrder)
  /\ balances \in [Cells -> -BalanceHalf .. BalanceHalf - 1]
  /\ alive \in BOOLEAN

(***************************************************************************)
(* Every step of the thread is a step of the order books or leaves them    *)
(* alone: what Orderbook promises holds under the exchange's commands.     *)
(***************************************************************************)
ImplementsOrderbook == Spec

(***************************************************************************)
(* What rests in a book is an order of the session, at the level of its    *)
(* own pair, side and price, under its own account, and not a cancelled    *)
(* one: cancel_order and modify_order find the order they are asked for    *)
(* and nobody trades with an order that was cancelled.                     *)
(***************************************************************************)
BookMatchesSession ==
  \A s \in DOMAIN book :
    \A i \in 1 .. Len(book[s]) :
      LET id == book[s][i].id
      IN  /\ IsPlaced(id)
          /\ SlotOf(OrderOf(id)) = s
          /\ OrderOf(id).account = book[s][i].account
          /\ OrderOf(id).status # "Cancelled"

(***************************************************************************)
(* The order ids in the buffer name two different orders of the session    *)
(* whenever it is settled, also those an aborted insertion left behind:    *)
(* the `expect` of process_transactions on session_orders never fires.     *)
(***************************************************************************)
SettledOrdersExist ==
  step = "settle" =>
    \A i \in 1 .. Len(transactionBuf) : IdsAreValid(transactionBuf[i])

(***************************************************************************)
(* Settlement only moves balances between accounts: per asset they sum to  *)
(* zero, in a release build up to the wrap-around of the balance type.     *)
(***************************************************************************)
BalancesConserved ==
  \A asset \in Assets :
    LET sum == SumFunction([account \in Accounts |-> balances[<<asset, account>>]])
    IN  IF OverflowChecks THEN sum = 0 ELSE sum % (2 * BalanceHalf) = 0

(***************************************************************************)
(* A cancelled order is never touched again and a filled order stays       *)
(* filled, whatever transactions are settled late.                         *)
(***************************************************************************)
FinalStatusIsFinal ==
  [][\A i \in DOMAIN sessionOrders :
       /\ sessionOrders[i].status = "Cancelled" => sessionOrders'[i] = sessionOrders[i]
       /\ sessionOrders[i].status = "Filled" => sessionOrders'[i].status = "Filled"
    ]_exchangeVars

(***************************************************************************)
(* Between commands an order rests in the book exactly if the session has  *)
(* it awaiting a fill with volume left, and with that volume.  True where  *)
(* no insertion is aborted by a self-trade and no order is modified.       *)
(***************************************************************************)
RestingMatchesSession ==
  step = "idle" /\ alive =>
    \A id \in 0 .. Len(sessionOrders) - 1 :
      LET order == OrderOf(id)
          s == SlotOf(order)
      IN  IF order.status = "AwaitingFill" /\ order.remaining > 0
            THEN \E i \in 1 .. Len(IF s \in DOMAIN book THEN book[s] ELSE <<>>) :
                   book[s][i].id = id /\ book[s][i].volume = order.remaining
            ELSE ~ Rests(id)

(***************************************************************************)
(* Between commands the primary balance of an account is what its orders   *)
(* have bought less what they have sold, and the secondary balance is no   *)
(* lower than its limit prices allow.  True in the same setting, for       *)
(* limit and FillOrKill orders and one market per asset.                   *)
(***************************************************************************)
PositionsMatchFills ==
  step = "idle" /\ alive =>
    \A account \in Accounts, pair \in markets :
      LET Own == {i \in DOMAIN sessionOrders :
                    sessionOrders[i].account = account /\ sessionOrders[i].pair = pair}
          Bought(i) == (sessionOrders[i].volume - sessionOrders[i].remaining)
                         * (IF sessionOrders[i].side = "Bid" THEN 1 ELSE -1)
          Cost(i) == Bought(i) * sessionOrders[i].price
      IN  /\ balances[<<pair.primary, account>>] = SumFunction([i \in Own |-> Bought(i)])
          /\ balances[<<pair.secondary, account>>] >= - SumFunction([i \in Own |-> Cost(i)])

\* No sequence of commands makes the thread panic.  True in the same setting.
NeverPanics == alive

(***************************************************************************)
(* "Index overlap is impossible because self-trade returns error in        *)
(* `insert_order`.": the two parties of a settled transaction differ, and  *)
(* so do the two assets.                                                   *)
(***************************************************************************)
NoIndexOverlap ==
  step = "settle" /\ transactionBuf # <<>> => CellsAreDisjoint(Trade)

(***************************************************************************)
(* modify_order: "If the new volume is lower than the amount that was      *)
(* already filled, the order is marked as Filled".  It is then no longer   *)
(* open, so an order marked as Filled does not rest in a book.             *)
(***************************************************************************)
FilledOrdersDoNotRest ==
  step = "idle" =>
    \A s \in DOMAIN book :
      \A i \in 1 .. Len(book[s]) : OrderOf(book[s][i].id).status # "Filled"
=============================================================================
