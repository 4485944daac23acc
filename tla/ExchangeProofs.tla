--------------------------- MODULE ExchangeProofs ---------------------------
(***************************************************************************)
(* Safety of Exchange for every set of accounts, assets, pairs, prices and *)
(* requests, every width of volumes and balances, and both build profiles. *)
(***************************************************************************)
EXTENDS Exchange, OrderbookProofs

(***************************************************************************)
(* The session's orders.  A step may add an order, lower what an order has *)
(* left and change its volume and status, but never its terms.             *)
(***************************************************************************)
SameTerms(o, p) ==
  o.account = p.account /\ o.pair = p.pair /\ o.side = p.side /\ o.price = p.price

LEMMA WrapVolumeType == \A v \in Int : WrapVolume(v) \in Volume
  BY OrderbookAssumption DEF Volume, WrapVolume

LEMMA WrapBalanceType ==
  \A b \in Int : WrapBalance(b) \in -BalanceHalf .. BalanceHalf - 1
<1> SUFFICES ASSUME NEW b \in Int
             PROVE  WrapBalance(b) \in -BalanceHalf .. BalanceHalf - 1
  OBVIOUS
<1>1. BalanceHalf \in Nat \ {0}
  BY ExchangeAssumption
<1>2. (b + BalanceHalf) % (2 * BalanceHalf) \in 0 .. 2 * BalanceHalf - 1
  BY <1>1
<1> QED
  BY <1>1, <1>2 DEF WrapBalance

\* What settlement and modification do to an order of the session.
LEMMA AfterTradeType ==
  ASSUME NEW o \in PlacedOrder, NEW v \in Volume
  PROVE  /\ AfterTrade(o, v) \in PlacedOrder
         /\ SameTerms(AfterTrade(o, v), o)
         /\ AfterTrade(o, v).status \in {"Filled", o.status}
<1> DEFINE left == WrapVolume(o.remaining - v)
           new == IF left = 0 THEN "Filled" ELSE o.status
<1>1. left \in Volume
  BY VolumesAreNaturals, WrapVolumeType DEF PlacedOrder
<1>2. new \in Status /\ new \in {"Filled", o.status}
  BY DEF PlacedOrder, Status
<1>3. AfterTrade(o, v) = [o EXCEPT !.remaining = left, !.status = new]
  BY DEF AfterTrade, PlacedOrder
<1> HIDE DEF left, new
<1> QED
  BY <1>1, <1>2, <1>3 DEF PlacedOrder, SameTerms

LEMMA AfterModificationType ==
  ASSUME NEW o \in PlacedOrder, NEW v \in Volume
  PROVE  /\ AfterModification(o, v) \in PlacedOrder
         /\ SameTerms(AfterModification(o, v), o)
         /\ AfterModification(o, v).status \in {"Filled", o.status}
<1>1. VolumeFilled(o) \in Volume
  BY VolumesAreNaturals, WrapVolumeType DEF PlacedOrder, VolumeFilled
<1>2. CASE VolumeFilled(o) > v
  <2>1. AfterModification(o, v) =
          [o EXCEPT !.volume = VolumeFilled(o), !.status = "Filled"]
    BY <1>2 DEF AfterModification
  <2> QED
    BY <1>1, <2>1 DEF PlacedOrder, SameTerms, Status
<1>3. CASE ~ (VolumeFilled(o) > v)
  <2>1. AfterModification(o, v) = [o EXCEPT !.volume = v]
    BY <1>3 DEF AfterModification
  <2> QED
    BY <2>1 DEF PlacedOrder, SameTerms
<1> QED
  BY <1>2, <1>3

\* An id that is placed has an order, and is one of the ids given out.
LEMMA PlacedType ==
  ASSUME ExchangeTypeOK, NEW id \in Nat
  PROVE  /\ IsPlaced(id) <=> id < nextId
         /\ IsPlaced(id) => /\ id + 1 \in 1 .. Len(sessionOrders)
                            /\ OrderOf(id) \in PlacedOrder
                            /\ SlotOf(OrderOf(id)) \in Slots
<1>1. /\ Len(sessionOrders) \in Nat
      /\ DOMAIN sessionOrders = 1 .. Len(sessionOrders)
      /\ nextId = Len(sessionOrders)
  BY LenProperties DEF ExchangeTypeOK
<1>2. \A k \in 1 .. Len(sessionOrders) : sessionOrders[k] \in PlacedOrder
  BY ElementOfSeq DEF ExchangeTypeOK
<1>3. \A o \in PlacedOrder : SlotOf(o) \in Slots
  BY DEF PlacedOrder, SlotOf, Slot, Slots
<1> QED
  BY <1>1, <1>2, <1>3 DEF IsPlaced, OrderOf

LEMMA UpdateOrder ==
  ASSUME ExchangeTypeOK, NEW id \in Nat, IsPlaced(id), NEW o \in PlacedOrder
  PROVE  LET so == [sessionOrders EXCEPT ![id + 1] = o]
         IN  /\ so \in Seq(PlacedOrder)
             /\ Len(so) = Len(sessionOrders)
             /\ \A k \in 1 .. Len(sessionOrders) :
                  so[k] = IF k = id + 1 THEN o ELSE sessionOrders[k]
  BY PlacedType, ExceptSeq DEF ExchangeTypeOK

(***************************************************************************)
(* What each action does to the session's orders.                          *)
(***************************************************************************)
LEMMA PlaceSession ==
  ASSUME ExchangeTypeOK, PlaceOrder
  PROVE  /\ sessionOrders' \in Seq(PlacedOrder)
         /\ Len(sessionOrders') = Len(sessionOrders) + 1
         /\ \A k \in 1 .. Len(sessionOrders) : sessionOrders'[k] = sessionOrders[k]
         /\ sessionOrders'[Len(sessionOrders) + 1] = PlacedFromTaker
<1>1. PlacedFromTaker \in PlacedOrder
  <2>1. TypeOK /\ step # "idle"
    BY DEF ExchangeTypeOK, PlaceOrder, EnterOrder
  <2>2. /\ taker.account \in AccountIds
        /\ taker.pair \in Pairs
        /\ taker.side \in Side
        /\ taker.volume \in Volume
        /\ taker.price \in Prices
    BY <2>1, TakerType
  <2> QED
    BY <2>2 DEF PlacedFromTaker, PlacedOrder, Status
<1>2. sessionOrders' = Append(sessionOrders, PlacedFromTaker)
  BY DEF PlaceOrder
<1> QED
  BY <1>1, <1>2, AppendProperties DEF ExchangeTypeOK

LEMMA TradeType ==
  ASSUME ExchangeTypeOK, transactionBuf # <<>>
  PROVE  /\ Len(transactionBuf) \in Nat \ {0}
         /\ Trade = transactionBuf[Len(transactionBuf)]
         /\ Trade \in ObTransaction
<1>1. transactionBuf \in Seq(ObTransaction)
  BY DEF ExchangeTypeOK, TypeOK
<1>2. Len(transactionBuf) \in Nat \ {0}
  BY <1>1, EmptySeq
<1>3. transactionBuf[Len(transactionBuf)] \in ObTransaction
  BY <1>1, <1>2, ElementOfSeq
<1> QED
  BY <1>2, <1>3 DEF Trade, Last

LEMMA SettleSession ==
  ASSUME ExchangeTypeOK, SettleTransaction
  PROVE  /\ IdsAreValid(Trade)
         /\ Trade \in ObTransaction
         /\ sessionOrders' \in Seq(PlacedOrder)
         /\ Len(sessionOrders') = Len(sessionOrders)
         /\ \A k \in 1 .. Len(sessionOrders) :
              sessionOrders'[k] =
                IF k \in {Trade.maker + 1, Trade.taker + 1}
                  THEN AfterTrade(sessionOrders[k], Trade.volume)
                  ELSE sessionOrders[k]
<1> DEFINE m == Trade.maker + 1
           k == Trade.taker + 1
           one == [sessionOrders EXCEPT ![m] = AfterTrade(sessionOrders[m], Trade.volume)]
           two == [one EXCEPT ![k] = AfterTrade(sessionOrders[k], Trade.volume)]
<1>1. IdsAreValid(Trade) /\ transactionBuf # <<>>
  BY DEF SettleTransaction, PopTransaction, SettlementPanics
<1>2. Trade \in ObTransaction
  BY <1>1, TradeType
<1>3. Trade.maker \in Nat /\ Trade.taker \in Nat /\ Trade.volume \in Volume
  BY <1>2 DEF ObTransaction
<1>4. /\ m \in 1 .. Len(sessionOrders) /\ sessionOrders[m] \in PlacedOrder
      /\ k \in 1 .. Len(sessionOrders) /\ sessionOrders[k] \in PlacedOrder
      /\ m # k
  BY <1>1, <1>3, PlacedType DEF IdsAreValid, OrderOf
<1>5. /\ one \in Seq(PlacedOrder)
      /\ Len(one) = Len(sessionOrders)
      /\ \A j \in 1 .. Len(sessionOrders) :
           one[j] = IF j = m THEN AfterTrade(sessionOrders[m], Trade.volume)
                             ELSE sessionOrders[j]
  <2>1. AfterTrade(sessionOrders[m], Trade.volume) \in PlacedOrder
    BY <1>3, <1>4, AfterTradeType
  <2> QED
    BY <1>4, <2>1, ExceptSeq DEF ExchangeTypeOK
<1>6. sessionOrders' = two
  BY DEF SettleTransaction
<1> HIDE DEF one, m, k
<1>7. /\ two \in Seq(PlacedOrder)
      /\ Len(two) = Len(sessionOrders)
      /\ \A j \in 1 .. Len(sessionOrders) :
           two[j] = IF j = k THEN AfterTrade(sessionOrders[k], Trade.volume) ELSE one[j]
  <2>1. AfterTrade(sessionOrders[k], Trade.volume) \in PlacedOrder
    BY <1>3, <1>4, AfterTradeType
  <2>2. k \in 1 .. Len(one)
    BY <1>4, <1>5
  <2> QED
    BY <1>5, <2>1, <2>2, ExceptSeq
<1>8. \A j \in 1 .. Len(sessionOrders) :
        two[j] = IF j \in {m, k} THEN AfterTrade(sessionOrders[j], Trade.volume)
                                 ELSE sessionOrders[j]
  BY <1>4, <1>5, <1>7
<1> QED
  BY <1>1, <1>2, <1>6, <1>7, <1>8 DEF m, k

\* The checks of cancel_order.
LEMMA CancelSession ==
  ASSUME ExchangeTypeOK, NEW account, NEW id \in 0 .. MaxOrders - 1,
         CancelPlaced(account, id)
  PROVE  /\ id \in Nat /\ IsPlaced(id)
         /\ OrderOf(id).status = "AwaitingFill"
         /\ sessionOrders' =
              [sessionOrders EXCEPT ![id + 1] = [OrderOf(id) EXCEPT !.status = "Cancelled"]]
         /\ sessionOrders' \in Seq(PlacedOrder)
         /\ Len(sessionOrders') = Len(sessionOrders)
         /\ \A k \in 1 .. Len(sessionOrders) :
              /\ SameTerms(sessionOrders'[k], sessionOrders[k])
              /\ k # id + 1 => sessionOrders'[k] = sessionOrders[k]
<1> DEFINE o == [OrderOf(id) EXCEPT !.status = "Cancelled"]
<1>1. id \in Nat
  BY OrderbookAssumption
<1>2. CancelResult(account, id) = "Ok"
  BY DEF CancelPlaced
<1>3. IsPlaced(id)
  BY <1>2 DEF CancelResult
<1>4. OrderOf(id) \in PlacedOrder
  BY <1>1, <1>3, PlacedType
<1>5. OrderOf(id).status = "AwaitingFill"
  BY <1>2, <1>3, <1>4 DEF CancelResult, PlacedOrder, Status
<1>6. o \in PlacedOrder /\ SameTerms(o, OrderOf(id))
  BY <1>4 DEF PlacedOrder, Status, SameTerms
<1>7. sessionOrders' = [sessionOrders EXCEPT ![id + 1] = o]
  BY DEF CancelPlaced, OrderOf
<1> HIDE DEF o
<1>8. /\ sessionOrders' \in Seq(PlacedOrder)
      /\ Len(sessionOrders') = Len(sessionOrders)
      /\ \A k \in 1 .. Len(sessionOrders) :
           sessionOrders'[k] = IF k = id + 1 THEN o ELSE sessionOrders[k]
  BY <1>1, <1>3, <1>6, <1>7, UpdateOrder
<1> QED
  BY <1>1, <1>3, <1>5, <1>6, <1>7, <1>8 DEF o, SameTerms, OrderOf

\* The checks of modify_order.
LEMMA ModifySession ==
  ASSUME ExchangeTypeOK, NEW account, NEW id \in 0 .. MaxOrders - 1,
         NEW newVolume \in NewVolumes, ModifyPlaced(account, id, newVolume)
  PROVE  /\ id \in Nat /\ IsPlaced(id)
         /\ OrderOf(id).status # "Filled"
         /\ OrderOf(id).volume - newVolume \in Volume
         /\ sessionOrders' \in Seq(PlacedOrder)
         /\ Len(sessionOrders') = Len(sessionOrders)
         /\ \A k \in 1 .. Len(sessionOrders) :
              sessionOrders'[k] =
                IF k = id + 1 THEN AfterModification(sessionOrders[k], newVolume)
                              ELSE sessionOrders[k]
<1>1. id \in Nat /\ newVolume \in Volume /\ newVolume \in Nat
  BY OrderbookAssumption, ExchangeAssumption, VolumesAreNaturals
<1>2. ModifyResult(account, id, newVolume) = "Ok"
  BY DEF ModifyPlaced
<1>3. IsPlaced(id)
  BY <1>2 DEF ModifyResult
<1>4. OrderOf(id) \in PlacedOrder /\ OrderOf(id).volume \in Volume
  BY <1>1, <1>3, PlacedType DEF PlacedOrder
<1>5. OrderOf(id).status # "Filled" /\ ~ (newVolume > OrderOf(id).volume)
  BY <1>2, <1>3 DEF ModifyResult
<1>6. OrderOf(id).volume - newVolume \in Volume
  BY <1>1, <1>4, <1>5, OrderbookAssumption DEF Volume
<1>7. AfterModification(OrderOf(id), newVolume) \in PlacedOrder
  BY <1>1, <1>4, AfterModificationType
<1>8. sessionOrders' =
        [sessionOrders EXCEPT ![id + 1] = AfterModification(OrderOf(id), newVolume)]
  BY DEF ModifyPlaced, OrderOf
<1>9. /\ sessionOrders' \in Seq(PlacedOrder)
      /\ Len(sessionOrders') = Len(sessionOrders)
      /\ \A k \in 1 .. Len(sessionOrders) :
           sessionOrders'[k] =
             IF k = id + 1 THEN AfterModification(OrderOf(id), newVolume)
                           ELSE sessionOrders[k]
  BY <1>1, <1>3, <1>7, <1>8, UpdateOrder
<1> QED
  BY <1>1, <1>3, <1>5, <1>6, <1>9 DEF OrderOf

(***************************************************************************)
(* Every step of the exchange is a step of the order books.                *)
(***************************************************************************)
LEMMA CancelIsOrderbookStep ==
  ASSUME ExchangeTypeOK, NEW account, NEW id \in 0 .. MaxOrders - 1,
         CancelPlaced(account, id)
  PROVE  /\ SlotOf(OrderOf(id)) \in Slots
         /\ CancelOrder(SlotOf(OrderOf(id)), id)
<1>1. id \in Nat /\ IsPlaced(id)
  BY CancelSession
<1>2. SlotOf(OrderOf(id)) \in Slots
  BY <1>1, PlacedType
<1> QED
  BY <1>2 DEF CancelPlaced

LEMMA ModifyIsOrderbookStep ==
  ASSUME ExchangeTypeOK, NEW account, NEW id \in 0 .. MaxOrders - 1,
         NEW newVolume \in NewVolumes, ModifyPlaced(account, id, newVolume)
  PROVE  /\ SlotOf(OrderOf(id)) \in Slots
         /\ \E reduction \in Volume : ModifyOrder(SlotOf(OrderOf(id)), id, reduction)
<1>1. id \in Nat /\ IsPlaced(id) /\ OrderOf(id).volume - newVolume \in Volume
  BY ModifySession
<1>2. SlotOf(OrderOf(id)) \in Slots
  BY <1>1, PlacedType
<1> QED
  BY <1>1, <1>2 DEF ModifyPlaced

LEMMA OrderbookStep ==
  ASSUME ExchangeTypeOK, [ExchangeNext]_exchangeVars
  PROVE  [Next]_vars
<1>1. ASSUME NEW pair \in Pairs, CreateMarket(pair) PROVE Next
  BY <1>1 DEF CreateMarket, Next
<1>2. ASSUME NEW request \in Insertions, InsertOrder(request) PROVE Next
  BY <1>2 DEF InsertOrder, Next
<1>3. CASE MatchOrder
  BY <1>3 DEF MatchOrder, Next, Advance
<1>4. CASE PlaceOrder
  BY <1>4 DEF PlaceOrder, Next, Advance
<1>5. CASE SettleTransaction
  BY <1>5 DEF SettleTransaction, Next, Advance
<1>6. CASE CompleteInsert
  BY <1>6 DEF CompleteInsert, Next, Advance
<1>7. ASSUME NEW account \in AccountIds, NEW id \in 0 .. MaxOrders - 1,
             CancelPlaced(account, id)
      PROVE  Next
  BY <1>7, CancelIsOrderbookStep DEF Next
<1>8. ASSUME NEW account \in AccountIds, NEW id \in 0 .. MaxOrders - 1,
             NEW newVolume \in NewVolumes, ModifyPlaced(account, id, newVolume)
      PROVE  Next
  <2>1. PICK reduction \in Volume : ModifyOrder(SlotOf(OrderOf(id)), id, reduction)
    BY <1>8, ModifyIsOrderbookStep
  <2> QED
    BY <1>8, <2>1, ModifyIsOrderbookStep DEF Next
<1>9. CASE Refuse \/ Panic \/ Dead \/ UNCHANGED exchangeVars
  BY <1>9 DEF Refuse, Panic, Dead, exchangeVars
<1> QED
  BY <1>1, <1>2, <1>3, <1>4, <1>5, <1>6, <1>7, <1>8, <1>9 DEF ExchangeNext

(***************************************************************************)
(* Types: the session grows with nextId, and settlement wraps.             *)
(***************************************************************************)
LEMMA FlowType ==
  ASSUME NEW trade \in ObTransaction, NEW maker, NEW trader, NEW pair, NEW cell
  PROVE  Flow(trade, maker, trader, pair, cell) \in Int
<1> DEFINE bought == IF trade.takerSide = "Bid" THEN trade.volume ELSE - trade.volume
<1>0. trade.volume \in Volume /\ trade.price \in Prices
  BY DEF ObTransaction
<1>1. trade.volume \in Int /\ trade.price \in Int
  <2>1. trade.volume \in Nat
    BY <1>0, VolumesAreNaturals
  <2>2. trade.price \in Int
    BY <1>0, OrderbookAssumption
  <2> QED
    BY <2>1, <2>2
<1>2. bought \in Int
  BY <1>1
<1>3. bought * trade.price \in Int /\ - bought * trade.price \in Int /\ - bought \in Int
  BY <1>1, <1>2
<1> HIDE DEF bought
<1>4. Flow(trade, maker, trader, pair, cell) \in
        {bought, - bought, - bought * trade.price, bought * trade.price, 0}
  BY DEF Flow, bought
<1> QED
  BY <1>2, <1>3, <1>4

LEMMA SettledBalances ==
  ASSUME ExchangeTypeOK, SettleTransaction
  PROVE  balances' \in [Cells -> -BalanceHalf .. BalanceHalf - 1]
<1>1. Trade \in ObTransaction
  BY SettleSession
<1>2. ASSUME NEW cell \in Cells
      PROVE  WrapBalance(NewBalance(Trade, cell)) \in -BalanceHalf .. BalanceHalf - 1
  <2>1. balances[cell] \in Int
    BY ExchangeAssumption DEF ExchangeTypeOK
  <2>2. NewBalance(Trade, cell) \in Int
    BY <1>1, <2>1, FlowType DEF NewBalance
  <2> QED
    BY <2>2, WrapBalanceType
<1>3. balances' = [cell \in Cells |-> WrapBalance(NewBalance(Trade, cell))]
  BY DEF SettleTransaction
<1> QED
  BY <1>2, <1>3

LEMMA ExchangeTypeInit == ExchangeInit => ExchangeTypeOK
<1> SUFFICES ASSUME ExchangeInit PROVE ExchangeTypeOK
  OBVIOUS
<1>1. TypeOK
  BY TypeInit DEF ExchangeInit
<1>2. sessionOrders \in Seq(PlacedOrder) /\ nextId = Len(sessionOrders)
  BY DEF ExchangeInit, Init
<1>3. 0 \in -BalanceHalf .. BalanceHalf - 1
  BY ExchangeAssumption
<1>4. balances \in [Cells -> -BalanceHalf .. BalanceHalf - 1]
  BY <1>3 DEF ExchangeInit
<1> QED
  BY <1>1, <1>2, <1>4 DEF ExchangeInit, ExchangeTypeOK

LEMMA ExchangeTypeStep ==
  ExchangeTypeOK /\ [ExchangeNext]_exchangeVars => ExchangeTypeOK'
<1> SUFFICES ASSUME ExchangeTypeOK, [ExchangeNext]_exchangeVars PROVE ExchangeTypeOK'
  OBVIOUS
<1>0. TypeOK'
  BY OrderbookStep, TypeStep DEF ExchangeTypeOK
<1>1. ASSUME UNCHANGED <<nextId, sessionOrders, balances, alive>> PROVE ExchangeTypeOK'
  BY <1>0, <1>1 DEF ExchangeTypeOK
<1>2. ASSUME NEW pair \in Pairs, CreateMarket(pair) PROVE ExchangeTypeOK'
  BY <1>1, <1>2 DEF CreateMarket, AddMarket
<1>3. ASSUME NEW request \in Insertions, InsertOrder(request) PROVE ExchangeTypeOK'
  BY <1>1, <1>3 DEF InsertOrder, BeginInsert
<1>4. CASE MatchOrder
  BY <1>1, <1>4 DEF MatchOrder, Fill, AbortSelfTrade, PassLevel, StopMatching
<1>5. CASE PlaceOrder
  <2>1. sessionOrders' \in Seq(PlacedOrder) /\ Len(sessionOrders') = nextId'
    BY <1>5, PlaceSession DEF PlaceOrder, EnterOrder, ExchangeTypeOK
  <2>2. UNCHANGED <<balances, alive>>
    BY <1>5 DEF PlaceOrder
  <2> QED
    BY <1>0, <2>1, <2>2 DEF ExchangeTypeOK
<1>6. CASE SettleTransaction
  <2>1. sessionOrders' \in Seq(PlacedOrder) /\ Len(sessionOrders') = Len(sessionOrders)
    BY <1>6, SettleSession
  <2>2. UNCHANGED <<nextId, alive>>
    BY <1>6 DEF SettleTransaction, PopTransaction
  <2> QED
    BY <1>0, <1>6, <2>1, <2>2, SettledBalances DEF ExchangeTypeOK
<1>7. CASE CompleteInsert
  BY <1>1, <1>7 DEF CompleteInsert, FinishInsert
<1>8. ASSUME NEW account \in AccountIds, NEW id \in 0 .. MaxOrders - 1,
             CancelPlaced(account, id)
      PROVE  ExchangeTypeOK'
  <2>1. sessionOrders' \in Seq(PlacedOrder) /\ Len(sessionOrders') = Len(sessionOrders)
    BY <1>8, CancelSession
  <2>2. UNCHANGED <<nextId, balances, alive>>
    BY <1>8 DEF CancelPlaced, CancelOrder
  <2> QED
    BY <1>0, <2>1, <2>2 DEF ExchangeTypeOK
<1>9. ASSUME NEW account \in AccountIds, NEW id \in 0 .. MaxOrders - 1,
             NEW newVolume \in NewVolumes, ModifyPlaced(account, id, newVolume)
      PROVE  ExchangeTypeOK'
  <2>1. sessionOrders' \in Seq(PlacedOrder) /\ Len(sessionOrders') = Len(sessionOrders)
    BY <1>9, ModifySession
  <2>2. UNCHANGED <<nextId, balances, alive>>
    BY <1>9 DEF ModifyPlaced, ModifyOrder
  <2> QED
    BY <1>0, <2>1, <2>2 DEF ExchangeTypeOK
<1>10. CASE Panic
  BY <1>0, <1>10 DEF Panic, vars, ExchangeTypeOK
<1>11. CASE Refuse \/ Dead \/ UNCHANGED exchangeVars
  BY <1>1, <1>11 DEF Refuse, Dead, exchangeVars, vars
<1> QED
  BY <1>2, <1>3, <1>4, <1>5, <1>6, <1>7, <1>8, <1>9, <1>10, <1>11 DEF ExchangeNext

\* The types hold under the exchange, and every volume and balance keeps to
\* its width, also when orders are settled or modified past what they have.
THEOREM ExchangeTypeCorrect == ExchangeSpec => []ExchangeTypeOK
  BY ExchangeTypeInit, ExchangeTypeStep, PTL DEF ExchangeSpec

\* The exchange implements the order books: what is proved of Orderbook (the
\* books never cross, price-time priority) holds of the exchange.
THEOREM ExchangeImplementsOrderbook == ExchangeSpec => ImplementsOrderbook
<1>1. ExchangeInit => Init
  BY DEF ExchangeInit
<1>2. ExchangeTypeOK /\ [ExchangeNext]_exchangeVars => [Next]_vars
  BY OrderbookStep
<1> QED
  BY <1>1, <1>2, ExchangeTypeCorrect, PTL DEF ExchangeSpec, ImplementsOrderbook, Spec

(***************************************************************************)
(* The book and the session.  A book that matches the session goes on      *)
(* matching it when it is thinned, when orders keep their terms and the    *)
(* resting ones are not cancelled, and when the order just placed rests.   *)
(***************************************************************************)
Fits(entry, s, so) ==
  /\ entry.id + 1 \in DOMAIN so
  /\ SlotOf(so[entry.id + 1]) = s
  /\ so[entry.id + 1].account = entry.account
  /\ so[entry.id + 1].status # "Cancelled"

Matches(b, so) == \A s \in DOMAIN b : \A i \in 1 .. Len(b[s]) : Fits(b[s][i], s, so)

Absent(b, id) == \A s \in DOMAIN b : \A i \in 1 .. Len(b[s]) : b[s][i].id # id

LEMMA MatchesIs == Matches(book, sessionOrders) <=> BookMatchesSession
  BY DEF Matches, Fits, BookMatchesSession, IsPlaced, OrderOf

LEMMA ThinnedFrom ==
  ASSUME NEW b, NEW c, Thins(c, b), NEW s \in DOMAIN c, NEW i \in 1 .. Len(c[s])
  PROVE  s \in DOMAIN b /\ \E k \in 1 .. Len(b[s]) : SameOrder(c[s][i], b[s][k])
<1>1. s \in DOMAIN b /\ Embeds(c[s], b[s])
  BY DEF Thins
<1>2. PICK f \in [1 .. Len(c[s]) -> 1 .. Len(b[s])] :
        \A j \in 1 .. Len(c[s]) : SameOrder(c[s][j], b[s][f[j]])
  BY <1>1 DEF Embeds
<1>3. f[i] \in 1 .. Len(b[s]) /\ SameOrder(c[s][i], b[s][f[i]])
  BY <1>2
<1> QED
  BY <1>1, <1>3

LEMMA ThinningKeepsMatches ==
  ASSUME NEW b, NEW c, NEW so, Thins(c, b), Matches(b, so)
  PROVE  Matches(c, so)
<1> SUFFICES ASSUME NEW s \in DOMAIN c, NEW i \in 1 .. Len(c[s])
             PROVE  Fits(c[s][i], s, so)
  BY DEF Matches
<1>1. s \in DOMAIN b
  BY ThinnedFrom
<1>2. PICK k \in 1 .. Len(b[s]) : SameOrder(c[s][i], b[s][k])
  BY ThinnedFrom
<1>3. Fits(b[s][k], s, so)
  BY <1>1, <1>2 DEF Matches
<1> QED
  BY <1>2, <1>3 DEF Fits, SameOrder

LEMMA ThinningKeepsAbsent ==
  ASSUME NEW b, NEW c, NEW id, Thins(c, b), Absent(b, id)
  PROVE  Absent(c, id)
<1> SUFFICES ASSUME NEW s \in DOMAIN c, NEW i \in 1 .. Len(c[s]), c[s][i].id = id
             PROVE  FALSE
  BY DEF Absent
<1>1. s \in DOMAIN b
  BY ThinnedFrom
<1>2. PICK k \in 1 .. Len(b[s]) : SameOrder(c[s][i], b[s][k])
  BY ThinnedFrom
<1> QED
  BY <1>1, <1>2 DEF Absent, SameOrder

LEMMA SessionKeepsMatches ==
  ASSUME NEW b, NEW so, NEW new, Matches(b, so),
         \A k \in DOMAIN so : k \in DOMAIN new /\ SameTerms(new[k], so[k]),
         \A k \in DOMAIN so :
           so[k].status # "Cancelled" /\ new[k].status = "Cancelled" => Absent(b, k - 1),
         \A s \in DOMAIN b : \A i \in 1 .. Len(b[s]) : b[s][i].id \in Nat
  PROVE  Matches(b, new)
<1> SUFFICES ASSUME NEW s \in DOMAIN b, NEW i \in 1 .. Len(b[s])
             PROVE  Fits(b[s][i], s, new)
  BY DEF Matches
<1> DEFINE k == b[s][i].id + 1
<1>1. /\ k \in DOMAIN so
      /\ SlotOf(so[k]) = s
      /\ so[k].account = b[s][i].account
      /\ so[k].status # "Cancelled"
  BY DEF Matches, Fits
<1>2. k \in DOMAIN new /\ SameTerms(new[k], so[k])
  BY <1>1
<1>3. SlotOf(new[k]) = SlotOf(so[k]) /\ new[k].account = so[k].account
  BY <1>2 DEF SameTerms, SlotOf
<1>4. k - 1 = b[s][i].id
  OBVIOUS
<1>5. ~ Absent(b, k - 1)
  BY <1>4 DEF Absent
<1>6. new[k].status # "Cancelled"
  BY <1>1, <1>5
<1> QED
  BY <1>1, <1>2, <1>3, <1>6 DEF Fits

LEMMA RestingKeepsMatches ==
  ASSUME NEW b, IsBook(b), NEW so, Matches(b, so), NEW s \in Slots,
         NEW entry \in OrderbookEntry, Fits(entry, s, so)
  PROVE  Matches(Rest(b, s, entry), so)
<1> DEFINE c == Rest(b, s, entry)
           k == LevelLength(b, s)
<1>1. /\ IsBook(c)
      /\ DOMAIN c = DOMAIN b \cup {s}
      /\ \A t \in DOMAIN b \ {s} : c[t] = b[t]
      /\ k \in Nat
      /\ Len(c[s]) = k + 1
      /\ c[s][k + 1] = entry
      /\ \A i \in 1 .. k : c[s][i] = b[s][i]
  BY RestAppends
<1> HIDE DEF c, k
<1> SUFFICES ASSUME NEW t \in DOMAIN c, NEW i \in 1 .. Len(c[t])
             PROVE  Fits(c[t][i], t, so)
  BY DEF Matches, c
<1>2. CASE t # s
  <2>1. t \in DOMAIN b /\ c[t] = b[t]
    BY <1>1, <1>2
  <2> QED
    BY <2>1 DEF Matches
<1>3. CASE t = s /\ i = k + 1
  BY <1>1, <1>3
<1>4. CASE t = s /\ i # k + 1
  <2>1. i \in 1 .. k
    BY <1>1, <1>4
  <2>2. s \in DOMAIN b /\ k = Len(b[s])
    BY <2>1 DEF LevelLength, k
  <2>3. c[s][i] = b[s][i]
    BY <1>1, <2>1
  <2> QED
    BY <1>4, <2>1, <2>2, <2>3 DEF Matches
<1> QED
  BY <1>2, <1>3, <1>4

\* The order that is cancelled is gone from the whole book: it rested once.
LEMMA CancelledIsGone ==
  ASSUME TypeOK, TimePriority, RestsOnce, NEW s \in Slots,
         NEW id \in 0 .. MaxOrders - 1, CancelOrder(s, id)
  PROVE  Absent(book', id)
<1>1. PICK i \in Positions(s, id) : book' = RemoveEntry(s, i)
  BY DEF CancelOrder
<1>2. s \in DOMAIN book /\ i \in 1 .. Len(book[s]) /\ book[s][i].id = id
  BY DEF CancelOrder, Positions
<1>3. book[s] \in Queue
  BY <1>2, BookType DEF IsBook
<1> SUFFICES ASSUME NEW t \in DOMAIN book', NEW j \in 1 .. Len(book'[t]),
                    book'[t][j].id = id
             PROVE  FALSE
  BY DEF Absent
<1>4. CASE t # s
  <2>1. t \in DOMAIN book /\ book'[t] = book[t]
    BY <1>1, <1>2, <1>4 DEF RemoveEntry
  <2> QED
    BY <1>2, <1>4, <2>1 DEF RestsOnce
<1>5. CASE t = s
  <2>1. book'[s] = RemoveAt(book[s], i)
    BY <1>1, <1>2, <1>5 DEF RemoveEntry
  <2>2. PICK k \in 1 .. Len(book[s]) \ {i} : book'[s][j] = book[s][k]
    BY <1>2, <1>3, <1>5, <2>1, RemoveAtThins
  <2>3. book[s][k].id = book[s][i].id
    BY <1>2, <1>5, <2>2
  <2>4. i < k \/ k < i
    BY <1>2, <1>3, <2>2, LenProperties DEF Queue
  <2>5. book[s][i].id \in Nat
    BY <1>2, <1>3, ElementOfSeq DEF Queue, OrderbookEntry
  <2> QED
    BY <1>2, <2>2, <2>3, <2>4, <2>5 DEF TimePriority
<1> QED
  BY <1>4, <1>5

(***************************************************************************)
(* The makers of the transactions that wait in the buffer.  Between the    *)
(* steps of the loop and between commands each of them has been filled and *)
(* removed from its level, so that it cannot be cancelled before it is     *)
(* settled; this is what makes it safe that an aborted insertion leaves    *)
(* its transactions in the buffer.  They name the next order as the taker. *)
(***************************************************************************)
MakersDone ==
  /\ \A i \in 1 .. Len(transactionBuf) :
       LET trade == transactionBuf[i]
       IN  /\ trade.taker = IF step = "settle" THEN nextId - 1 ELSE nextId
           /\ trade.maker < trade.taker
           /\ OrderOf(trade.maker).status # "Cancelled"
           /\ step \in {"idle", "match"} => Absent(book, trade.maker)
  /\ step = "settle" => nextId > 0 /\ OrderOf(nextId - 1).status # "Cancelled"

SessionInv ==
  ExchangeTypeOK /\ TimePriority /\ RestsOnce /\ BookMatchesSession /\ MakersDone

LEMMA BufferType ==
  ASSUME ExchangeTypeOK
  PROVE  /\ Len(transactionBuf) \in Nat
         /\ \A i \in 1 .. Len(transactionBuf) :
              /\ transactionBuf[i] \in ObTransaction
              /\ transactionBuf[i].maker \in Nat
              /\ transactionBuf[i].taker \in Nat
<1>1. transactionBuf \in Seq(ObTransaction)
  BY DEF ExchangeTypeOK, TypeOK
<1>2. /\ Len(transactionBuf) \in Nat
      /\ \A i \in 1 .. Len(transactionBuf) : transactionBuf[i] \in ObTransaction
  BY <1>1, LenProperties, ElementOfSeq
<1> QED
  BY <1>2 DEF ObTransaction

LEMMA MakerIsPlaced ==
  ASSUME ExchangeTypeOK, NEW i \in 1 .. Len(transactionBuf),
         transactionBuf[i].maker < nextId
  PROVE  transactionBuf[i].maker + 1 \in 1 .. Len(sessionOrders)
<1>1. transactionBuf[i].maker \in Nat
  BY BufferType
<1> QED
  BY <1>1, PlacedType

LEMMA RestingIdsType ==
  ASSUME TypeOK
  PROVE  \A s \in DOMAIN book : \A i \in 1 .. Len(book[s]) :
           book[s][i] \in OrderbookEntry /\ book[s][i].id \in Nat
<1> SUFFICES ASSUME NEW s \in DOMAIN book, NEW i \in 1 .. Len(book[s])
             PROVE  book[s][i] \in OrderbookEntry /\ book[s][i].id \in Nat
  OBVIOUS
<1>1. book[s] \in Seq(OrderbookEntry)
  BY DEF TypeOK
<1>2. book[s][i] \in OrderbookEntry
  BY <1>1, ElementOfSeq
<1> QED
  BY <1>2 DEF OrderbookEntry

\* Steps that leave the session alone and only thin the book.
LEMMA ThinningKeepsBookMatch ==
  ASSUME BookMatchesSession, Thins(book', book), sessionOrders' = sessionOrders
  PROVE  BookMatchesSession'
<1>1. Matches(book', sessionOrders)
  BY MatchesIs, ThinningKeepsMatches
<1> QED
  BY <1>1 DEF Matches, Fits, BookMatchesSession, IsPlaced, OrderOf

LEMMA UnchangedIsThin == TypeOK /\ book' = book => Thins(book', book)
<1> SUFFICES ASSUME TypeOK, book' = book PROVE Thins(book', book)
  OBVIOUS
<1>1. ASSUME NEW s \in DOMAIN book PROVE Embeds(book[s], book[s])
  <2>1. book[s] \in Queue
    BY BookType DEF IsBook
  <2> QED
    BY <2>1, SameOrdersEmbed DEF SameOrder
<1> QED
  BY <1>1 DEF Thins

\* Steps that leave the buffer, nextId and step alone, or only start or stop
\* the loop, and cancel no maker.
LEMMA BufferKeepsMakersDone ==
  ASSUME ExchangeTypeOK, MakersDone, Thins(book', book),
         UNCHANGED <<nextId, transactionBuf>>,
         step \in {"idle", "match"}, step' \in {"idle", "match", "enter"},
         \A i \in 1 .. Len(transactionBuf) :
           OrderOf(transactionBuf[i].maker).status # "Cancelled" =>
             OrderOf(transactionBuf[i].maker)'.status # "Cancelled"
  PROVE  MakersDone'
<1>1. ASSUME NEW i \in 1 .. Len(transactionBuf)
      PROVE  /\ transactionBuf[i].taker = nextId
             /\ transactionBuf[i].maker < transactionBuf[i].taker
             /\ OrderOf(transactionBuf[i].maker)'.status # "Cancelled"
             /\ Absent(book, transactionBuf[i].maker)
  BY <1>1 DEF MakersDone
<1>2. \A i \in 1 .. Len(transactionBuf) : Absent(book', transactionBuf[i].maker)
  BY <1>1, ThinningKeepsAbsent
<1> QED
  BY <1>1, <1>2 DEF MakersDone, Absent, OrderOf

(***************************************************************************)
(* SessionInv is inductive: one lemma per action that disturbs it.         *)
(***************************************************************************)
LEMMA FillSession ==
  ASSUME SessionInv, NEW p \in Prices, Fill(p), sessionOrders' = sessionOrders
  PROVE  MakersDone'
<1> DEFINE s == Opposing(p)
           queue == book[s]
           v == Lesser(remaining, queue[1].volume)
           left == IF v = queue[1].volume THEN Tail(queue) ELSE Decrement(queue, v)
           n == Len(transactionBuf)
           trade == [price |-> p, volume |-> v, takerSide |-> taker.side,
                     maker |-> queue[1].id, taker |-> nextId]
<1>0. TypeOK /\ ExchangeTypeOK /\ nextId \in Nat
  BY DEF SessionInv, ExchangeTypeOK, TypeOK
<1>1. /\ step = "match" /\ s \in DOMAIN book /\ queue # <<>>
      /\ book' = [book EXCEPT ![s] = left]
      /\ transactionBuf' = Append(transactionBuf, trade)
      /\ step' = IF remaining' = 0 /\ left # <<>> THEN "enter" ELSE "match"
      /\ remaining' = remaining - v
      /\ nextId' = nextId
  BY <1>0, NextLevelSlot DEF Fill
<1>2. /\ queue \in Queue /\ Len(queue) \in Nat \ {0}
      /\ queue[1] \in OrderbookEntry /\ queue[1].id \in Nat
      /\ v \in Volume /\ v \in Nat
  BY <1>0, <1>1, MakerType, VolumesAreNaturals DEF OrderbookEntry
<1>3. n \in Nat /\ Len(transactionBuf') = n + 1 /\ transactionBuf'[n + 1] = trade
      /\ \A i \in 1 .. n : transactionBuf'[i] = transactionBuf[i]
  <2>1. trade \in ObTransaction
    BY <1>0, <1>1, <1>2, TakerType DEF ObTransaction
  <2>2. transactionBuf \in Seq(ObTransaction)
    BY <1>0 DEF TypeOK
  <2> QED
    BY <1>1, <2>1, <2>2, AppendProperties, LenProperties
<1>4. ASSUME NEW i \in 1 .. n
      PROVE  /\ transactionBuf[i].taker = nextId
             /\ transactionBuf[i].maker < transactionBuf[i].taker
             /\ OrderOf(transactionBuf[i].maker).status # "Cancelled"
             /\ Absent(book, transactionBuf[i].maker)
  BY <1>1, <1>4 DEF SessionInv, MakersDone
<1>5. ASSUME NEW i \in 1 .. n PROVE Absent(book', transactionBuf[i].maker)
  BY <1>0, <1>4, <1>5, FillThins, ThinningKeepsAbsent
<1>6. queue[1].id < nextId /\ OrderOf(queue[1].id).status # "Cancelled"
  BY <1>1, <1>2 DEF SessionInv, TimePriority, BookMatchesSession
<1>7. ASSUME step' = "match" PROVE Absent(book', queue[1].id)
  <2>1. v = queue[1].volume
    <3>1. CASE left # <<>>
      BY <1>0, <1>1, <1>2, <1>7, <3>1, VolumesAreNaturals DEF Lesser, OrderbookEntry, TypeOK
    <3>2. CASE left = <<>> /\ v # queue[1].volume
      <4>1. Len(Decrement(queue, v)) = Len(queue)
        BY <1>2, EmptySeq DEF Decrement, Queue
      <4> QED
        BY <1>2, <3>2, <4>1
    <3> QED
      BY <3>1, <3>2
  <2>2. left = Tail(queue)
    BY <2>1
  <2> SUFFICES ASSUME NEW t \in DOMAIN book', NEW j \in 1 .. Len(book'[t]),
                      book'[t][j].id = queue[1].id
               PROVE  FALSE
    BY DEF Absent
  <2>3. CASE t # s
    <3>1. t \in DOMAIN book /\ book'[t] = book[t]
      BY <1>1, <2>3
    <3> QED
      BY <1>1, <1>2, <2>3, <3>1 DEF SessionInv, RestsOnce
  <2>4. CASE t = s
    <3>1. book'[s] = Tail(queue)
      BY <1>1, <2>2
    <3>2. j + 1 \in 1 .. Len(queue) /\ Tail(queue)[j] = queue[j + 1] /\ 1 < j + 1
      BY <1>2, <2>4, <3>1, HeadTailProperties DEF Queue
    <3>3. queue[1].id < queue[j + 1].id
      BY <1>1, <1>2, <3>2 DEF SessionInv, TimePriority
    <3> QED
      BY <1>2, <2>4, <3>1, <3>2, <3>3
  <2> QED
    BY <2>3, <2>4
<1>8. \A id : OrderOf(id)' = sessionOrders[id + 1]
  BY DEF OrderOf
<1>9. step' \in {"enter", "match"}
  BY <1>1
<1>10. ASSUME NEW i \in 1 .. n + 1
       PROVE  /\ transactionBuf'[i].taker = nextId
              /\ transactionBuf'[i].maker < nextId
              /\ sessionOrders[transactionBuf'[i].maker + 1].status # "Cancelled"
              /\ step' = "match" => Absent(book', transactionBuf'[i].maker)
  <2>1. CASE i = n + 1
    BY <1>3, <1>6, <1>7, <2>1 DEF OrderOf
  <2>2. CASE i # n + 1
    <3>1. i \in 1 .. n /\ transactionBuf'[i] = transactionBuf[i]
      BY <1>3, <2>2
    <3> QED
      BY <1>4, <1>5, <3>1 DEF OrderOf
  <2> QED
    BY <2>1, <2>2
<1> HIDE DEF n, left, trade, v, queue, s
<1> QED
  BY <1>1, <1>3, <1>8, <1>9, <1>10 DEF MakersDone, Absent

LEMMA PlaceKeepsSession ==
  ASSUME SessionInv, PlaceOrder
  PROVE  BookMatchesSession' /\ MakersDone'
<1> DEFINE own == Slot(taker.pair, taker.side, taker.price)
<1>0. TypeOK /\ ExchangeTypeOK /\ EnterOrder /\ nextId \in Nat
  BY DEF SessionInv, ExchangeTypeOK, TypeOK, PlaceOrder
<1>1. /\ step = "enter" /\ step' = "settle"
      /\ nextId' = nextId + 1
      /\ transactionBuf' = transactionBuf
      /\ nextId = Len(sessionOrders)
  BY <1>0 DEF EnterOrder, ExchangeTypeOK
<1>2. /\ sessionOrders' \in Seq(PlacedOrder)
      /\ DOMAIN sessionOrders = 1 .. nextId
      /\ DOMAIN sessionOrders' = 1 .. nextId + 1
      /\ \A k \in 1 .. nextId : sessionOrders'[k] = sessionOrders[k]
      /\ sessionOrders'[nextId + 1] = PlacedFromTaker
  BY <1>0, <1>1, PlaceSession, LenProperties DEF ExchangeTypeOK
<1>3. BookMatchesSession'
  <2>1. /\ IsBook(CleanedBook) /\ Thins(CleanedBook, book)
        /\ own \in Slots /\ RestingEntry \in OrderbookEntry
    BY <1>0, EnterType
  <2>2. Matches(CleanedBook, sessionOrders)
    BY <2>1, MatchesIs, ThinningKeepsMatches DEF SessionInv
  <2>3. \A s \in DOMAIN CleanedBook : \A i \in 1 .. Len(CleanedBook[s]) :
          CleanedBook[s][i].id \in Nat
    <3> SUFFICES ASSUME NEW s \in DOMAIN CleanedBook, NEW i \in 1 .. Len(CleanedBook[s])
                 PROVE  CleanedBook[s][i].id \in Nat
      OBVIOUS
    <3>1. CleanedBook[s] \in Seq(OrderbookEntry)
      BY <2>1 DEF IsBook, Queue
    <3>2. CleanedBook[s][i] \in OrderbookEntry
      BY <3>1, ElementOfSeq
    <3> QED
      BY <3>2 DEF OrderbookEntry
  <2>4. Matches(CleanedBook, sessionOrders')
    <3>1. \A k \in DOMAIN sessionOrders :
            k \in DOMAIN sessionOrders' /\ sessionOrders'[k] = sessionOrders[k]
      BY <1>0, <1>2
    <3>2. \A k \in DOMAIN sessionOrders :
            /\ k \in DOMAIN sessionOrders'
            /\ SameTerms(sessionOrders'[k], sessionOrders[k])
      BY <3>1 DEF SameTerms
    <3>3. \A k \in DOMAIN sessionOrders :
            sessionOrders[k].status # "Cancelled" /\ sessionOrders'[k].status = "Cancelled"
              => Absent(CleanedBook, k - 1)
      BY <3>1
    <3> QED
      BY <2>2, <2>3, <3>2, <3>3, SessionKeepsMatches
  <2>5. Fits(RestingEntry, own, sessionOrders')
    BY <1>0, <1>2 DEF Fits, RestingEntry, SlotOf, PlacedFromTaker
  <2>6. Matches(book', sessionOrders')
    <3>1. CASE remaining > 0
      <4>1. book' = Rest(CleanedBook, own, RestingEntry)
        BY <1>0, <3>1 DEF EnterOrder
      <4> QED
        BY <2>1, <2>4, <2>5, <4>1, RestingKeepsMatches
    <3>2. CASE ~ (remaining > 0)
      <4>1. book' = CleanedBook
        BY <1>0, <3>2 DEF EnterOrder
      <4> QED
        BY <2>4, <4>1
    <3> QED
      BY <3>1, <3>2
  <2> QED
    BY <2>6 DEF Matches, Fits, BookMatchesSession, IsPlaced, OrderOf
<1>4. MakersDone'
  <2>1. ASSUME NEW i \in 1 .. Len(transactionBuf)
        PROVE  /\ transactionBuf[i].taker = nextId
               /\ transactionBuf[i].maker < transactionBuf[i].taker
               /\ sessionOrders'[transactionBuf[i].maker + 1].status # "Cancelled"
    <3>1. /\ transactionBuf[i].taker = nextId
          /\ transactionBuf[i].maker < transactionBuf[i].taker
          /\ sessionOrders[transactionBuf[i].maker + 1].status # "Cancelled"
      BY <1>1, <2>1 DEF SessionInv, MakersDone, OrderOf
    <3>2. transactionBuf[i].maker + 1 \in 1 .. nextId
      BY <1>0, <3>1, BufferType
    <3> QED
      BY <1>2, <3>1, <3>2
  <2>2. sessionOrders'[nextId + 1].status # "Cancelled"
    BY <1>2 DEF PlacedFromTaker
  <2>3. nextId' - 1 = nextId /\ nextId' > 0
    BY <1>0, <1>1
  <2> QED
    BY <1>1, <2>1, <2>2, <2>3 DEF MakersDone, OrderOf
<1> QED
  BY <1>3, <1>4

LEMMA FrontOf ==
  ASSUME NEW S, NEW q \in Seq(S), q # <<>>
  PROVE  /\ Len(Front(q)) = Len(q) - 1
         /\ \A i \in 1 .. Len(q) - 1 : Front(q)[i] = q[i]
<1>1. Len(q) \in Nat \ {0}
  BY EmptySeq
<1> DEFINE n == Len(q) - 1
<1>2. n \in Nat /\ \A i \in 1 .. n : q[i] \in S
  BY <1>1, ElementOfSeq
<1> HIDE DEF n
<1>3. /\ Len(SubSeq(q, 1, n)) = IF 1 <= n THEN n - 1 + 1 ELSE 0
      /\ \A i \in 1 .. n - 1 + 1 : SubSeq(q, 1, n)[i] = q[1 + i - 1]
  BY <1>2, SubSeqProperties
<1>4. Len(SubSeq(q, 1, n)) = n /\ \A i \in 1 .. n : SubSeq(q, 1, n)[i] = q[i]
  BY <1>2, <1>3
<1> QED
  BY <1>4 DEF Front, n

\* Settlement changes neither the book nor the terms of an order, and cancels
\* nothing; it takes the last transaction out of the buffer.
LEMMA SettleKeepsSession ==
  ASSUME SessionInv, SettleTransaction
  PROVE  BookMatchesSession' /\ MakersDone'
<1>0. TypeOK /\ ExchangeTypeOK
  BY DEF SessionInv, ExchangeTypeOK
<1>1. /\ step = "settle" /\ step' = "settle" /\ transactionBuf # <<>>
      /\ transactionBuf' = Front(transactionBuf)
      /\ UNCHANGED <<book, nextId>>
  BY DEF SettleTransaction, PopTransaction
<1>2. /\ Len(sessionOrders') = Len(sessionOrders)
      /\ DOMAIN sessionOrders = 1 .. Len(sessionOrders)
      /\ DOMAIN sessionOrders' = 1 .. Len(sessionOrders)
      /\ nextId = Len(sessionOrders) /\ nextId \in Nat
  BY <1>0, SettleSession, LenProperties DEF ExchangeTypeOK, TypeOK
<1>3. ASSUME NEW k \in 1 .. Len(sessionOrders)
      PROVE  /\ SameTerms(sessionOrders'[k], sessionOrders[k])
             /\ sessionOrders[k].status # "Cancelled"
                  => sessionOrders'[k].status # "Cancelled"
  <2>1. sessionOrders[k] \in PlacedOrder /\ Trade.volume \in Volume
    <3>1. sessionOrders \in Seq(PlacedOrder)
      BY <1>0 DEF ExchangeTypeOK
    <3>2. Trade \in ObTransaction
      BY <1>0, SettleSession
    <3>3. sessionOrders[k] \in PlacedOrder
      BY <3>1, ElementOfSeq
    <3> QED
      BY <3>2, <3>3 DEF ObTransaction
  <2>2. sessionOrders'[k] \in
          {sessionOrders[k], AfterTrade(sessionOrders[k], Trade.volume)}
    BY <1>0, SettleSession
  <2>3. /\ SameTerms(AfterTrade(sessionOrders[k], Trade.volume), sessionOrders[k])
        /\ AfterTrade(sessionOrders[k], Trade.volume).status
             \in {"Filled", sessionOrders[k].status}
    BY <2>1, AfterTradeType
  <2>4. SameTerms(sessionOrders[k], sessionOrders[k])
    BY DEF SameTerms
  <2> QED
    BY <2>2, <2>3, <2>4
<1>4. BookMatchesSession'
  <2>1. Matches(book, sessionOrders)
    BY MatchesIs DEF SessionInv
  <2>2. Matches(book, sessionOrders')
    BY <1>0, <1>2, <1>3, <2>1, RestingIdsType, SessionKeepsMatches
  <2> QED
    BY <1>1, <2>2 DEF Matches, Fits, BookMatchesSession, IsPlaced, OrderOf
<1>5. MakersDone'
  <2>1. /\ Len(transactionBuf) \in Nat \ {0}
        /\ Len(transactionBuf') = Len(transactionBuf) - 1
        /\ \A i \in 1 .. Len(transactionBuf') : transactionBuf'[i] = transactionBuf[i]
    <3>1. transactionBuf \in Seq(ObTransaction) /\ Len(transactionBuf) \in Nat \ {0}
      BY <1>0, <1>1, TradeType DEF TypeOK
    <3> QED
      BY <1>1, <3>1, FrontOf
  <2>2. ASSUME NEW i \in 1 .. Len(transactionBuf')
        PROVE  /\ transactionBuf'[i].taker = nextId - 1
               /\ transactionBuf'[i].maker < transactionBuf'[i].taker
               /\ sessionOrders'[transactionBuf'[i].maker + 1].status # "Cancelled"
    <3>1. i \in 1 .. Len(transactionBuf) /\ transactionBuf'[i] = transactionBuf[i]
      BY <2>1, <2>2
    <3>2. /\ transactionBuf[i].taker = nextId - 1
          /\ transactionBuf[i].maker < transactionBuf[i].taker
          /\ sessionOrders[transactionBuf[i].maker + 1].status # "Cancelled"
      BY <1>1, <3>1 DEF SessionInv, MakersDone, OrderOf
    <3>3. transactionBuf[i].maker + 1 \in 1 .. Len(sessionOrders)
      BY <1>0, <1>2, <3>1, <3>2, BufferType
    <3> QED
      BY <1>3, <3>1, <3>2, <3>3
  <2>3. nextId > 0 /\ sessionOrders'[nextId - 1 + 1].status # "Cancelled"
    <3>1. nextId > 0 /\ sessionOrders[nextId - 1 + 1].status # "Cancelled"
      BY <1>1 DEF SessionInv, MakersDone, OrderOf
    <3>2. nextId - 1 + 1 \in 1 .. Len(sessionOrders)
      BY <1>2, <3>1
    <3> QED
      BY <1>3, <3>1, <3>2
  <2> QED
    BY <1>1, <2>2, <2>3 DEF MakersDone, OrderOf
<1> QED
  BY <1>4, <1>5

\* Only the cancelled order changes its status, and it is gone from the book;
\* it rested, so it is not a maker that waits for its settlement.
LEMMA CancelKeepsSession ==
  ASSUME SessionInv, NEW account, NEW id \in 0 .. MaxOrders - 1,
         CancelPlaced(account, id)
  PROVE  BookMatchesSession' /\ MakersDone'
<1> DEFINE s == SlotOf(OrderOf(id))
<1>0. TypeOK /\ ExchangeTypeOK /\ TimePriority /\ RestsOnce
  BY DEF SessionInv, ExchangeTypeOK
<1>1. s \in Slots /\ CancelOrder(s, id) /\ id \in Nat
  BY <1>0, CancelIsOrderbookStep, CancelSession
<1>2. step = "idle" /\ step' = "idle" /\ UNCHANGED <<nextId, transactionBuf>>
  BY <1>1 DEF CancelOrder
<1>3. Thins(book', book) /\ IsBook(book') /\ Absent(book', id)
  BY <1>0, <1>1, CancelThins, CancelledIsGone
<1>4. ~ Absent(book, id)
  BY <1>1 DEF CancelOrder, Positions, Absent
<1>5. /\ DOMAIN sessionOrders = 1 .. Len(sessionOrders)
      /\ DOMAIN sessionOrders' = 1 .. Len(sessionOrders)
      /\ \A k \in 1 .. Len(sessionOrders) :
           /\ SameTerms(sessionOrders'[k], sessionOrders[k])
           /\ k # id + 1 => sessionOrders'[k] = sessionOrders[k]
  BY <1>0, CancelSession, LenProperties DEF ExchangeTypeOK
<1>6. BookMatchesSession'
  <2>1. Matches(book', sessionOrders)
    BY <1>3, MatchesIs, ThinningKeepsMatches DEF SessionInv
  <2>2. \A t \in DOMAIN book' : \A i \in 1 .. Len(book'[t]) : book'[t][i].id \in Nat
    <3> SUFFICES ASSUME NEW t \in DOMAIN book', NEW i \in 1 .. Len(book'[t])
                 PROVE  book'[t][i].id \in Nat
      OBVIOUS
    <3>1. book'[t] \in Seq(OrderbookEntry)
      BY <1>3 DEF IsBook, Queue
    <3>2. book'[t][i] \in OrderbookEntry
      BY <3>1, ElementOfSeq
    <3> QED
      BY <3>2 DEF OrderbookEntry
  <2>3. \A k \in DOMAIN sessionOrders :
          sessionOrders[k].status # "Cancelled" /\ sessionOrders'[k].status = "Cancelled"
            => Absent(book', k - 1)
    BY <1>1, <1>3, <1>5
  <2>4. Matches(book', sessionOrders')
    BY <1>5, <2>1, <2>2, <2>3, SessionKeepsMatches
  <2> QED
    BY <2>4 DEF Matches, Fits, BookMatchesSession, IsPlaced, OrderOf
<1>7. MakersDone'
  <2>1. ASSUME NEW i \in 1 .. Len(transactionBuf)
        PROVE  OrderOf(transactionBuf[i].maker)' = OrderOf(transactionBuf[i].maker)
    <3>1. /\ transactionBuf[i].taker = nextId
          /\ transactionBuf[i].maker < transactionBuf[i].taker
          /\ Absent(book, transactionBuf[i].maker)
      BY <1>2, <2>1 DEF SessionInv, MakersDone
    <3>2. transactionBuf[i].maker # id /\ transactionBuf[i].maker \in Nat
      BY <1>0, <1>4, <3>1, BufferType
    <3>3. transactionBuf[i].maker + 1 \in 1 .. Len(sessionOrders)
      BY <1>0, <3>1, MakerIsPlaced
    <3> QED
      BY <1>1, <1>2, <1>5, <3>2, <3>3 DEF OrderOf
  <2> QED
    BY <1>0, <1>2, <1>3, <2>1, BufferKeepsMakersDone DEF SessionInv
<1> QED
  BY <1>6, <1>7

\* An order that may be modified rests in the book, so it is not cancelled.
LEMMA ModifiedIsOpen ==
  ASSUME SessionInv, NEW account, NEW id \in 0 .. MaxOrders - 1,
         NEW newVolume \in NewVolumes, ModifyPlaced(account, id, newVolume)
  PROVE  OrderOf(id).status = "AwaitingFill"
<1>0. ExchangeTypeOK
  BY DEF SessionInv
<1>1. id \in Nat /\ IsPlaced(id) /\ OrderOf(id).status # "Filled"
  BY <1>0, ModifySession
<1>2. OrderOf(id).status \in Status
  BY <1>0, <1>1, PlacedType DEF PlacedOrder
<1>3. OrderOf(id).status # "Cancelled"
  <2> DEFINE s == SlotOf(OrderOf(id))
  <2>1. s \in DOMAIN book /\ Positions(s, id) # {}
    BY DEF ModifyPlaced, ModifyOrder
  <2>2. PICK i \in 1 .. Len(book[s]) : book[s][i].id = id
    BY <2>1 DEF Positions
  <2> QED
    BY <2>1, <2>2 DEF SessionInv, BookMatchesSession
<1> QED
  BY <1>1, <1>2, <1>3 DEF Status

LEMMA ModifyKeepsSession ==
  ASSUME SessionInv, NEW account, NEW id \in 0 .. MaxOrders - 1,
         NEW newVolume \in NewVolumes, ModifyPlaced(account, id, newVolume)
  PROVE  BookMatchesSession' /\ MakersDone'
<1>0. TypeOK /\ ExchangeTypeOK
  BY DEF SessionInv, ExchangeTypeOK
<1>1. PICK reduction \in Volume : ModifyOrder(SlotOf(OrderOf(id)), id, reduction)
  BY <1>0, ModifyIsOrderbookStep
<1>2. SlotOf(OrderOf(id)) \in Slots
  BY <1>0, ModifyIsOrderbookStep
<1>3. step = "idle" /\ step' = "idle" /\ UNCHANGED <<nextId, transactionBuf>>
  BY <1>1 DEF ModifyOrder
<1>4. Thins(book', book) /\ IsBook(book')
  BY <1>0, <1>1, <1>2, ModifyThins
<1>5. /\ DOMAIN sessionOrders = 1 .. Len(sessionOrders)
      /\ DOMAIN sessionOrders' = 1 .. Len(sessionOrders)
  BY <1>0, ModifySession, LenProperties DEF ExchangeTypeOK
<1>6. ASSUME NEW k \in 1 .. Len(sessionOrders)
      PROVE  /\ SameTerms(sessionOrders'[k], sessionOrders[k])
             /\ sessionOrders[k].status # "Cancelled"
                  => sessionOrders'[k].status # "Cancelled"
  <2>1. sessionOrders[k] \in PlacedOrder
    <3>1. sessionOrders \in Seq(PlacedOrder)
      BY <1>0 DEF ExchangeTypeOK
    <3> QED
      BY <3>1, ElementOfSeq
  <2>2. newVolume \in Volume
    BY ExchangeAssumption
  <2>3. sessionOrders'[k] \in
          {sessionOrders[k], AfterModification(sessionOrders[k], newVolume)}
    BY <1>0, ModifySession
  <2>4. /\ SameTerms(AfterModification(sessionOrders[k], newVolume), sessionOrders[k])
        /\ AfterModification(sessionOrders[k], newVolume).status
             \in {"Filled", sessionOrders[k].status}
    BY <2>1, <2>2, AfterModificationType
  <2>5. SameTerms(sessionOrders[k], sessionOrders[k])
    BY DEF SameTerms
  <2> QED
    BY <2>3, <2>4, <2>5
<1>7. BookMatchesSession'
  <2>1. Matches(book', sessionOrders)
    BY <1>4, MatchesIs, ThinningKeepsMatches DEF SessionInv
  <2>2. \A t \in DOMAIN book' : \A i \in 1 .. Len(book'[t]) : book'[t][i].id \in Nat
    <3> SUFFICES ASSUME NEW t \in DOMAIN book', NEW i \in 1 .. Len(book'[t])
                 PROVE  book'[t][i].id \in Nat
      OBVIOUS
    <3>1. book'[t] \in Seq(OrderbookEntry)
      BY <1>4 DEF IsBook, Queue
    <3>2. book'[t][i] \in OrderbookEntry
      BY <3>1, ElementOfSeq
    <3> QED
      BY <3>2 DEF OrderbookEntry
  <2>3. Matches(book', sessionOrders')
    BY <1>5, <1>6, <2>1, <2>2, SessionKeepsMatches
  <2> QED
    BY <2>3 DEF Matches, Fits, BookMatchesSession, IsPlaced, OrderOf
<1>8. MakersDone'
  <2>1. ASSUME NEW i \in 1 .. Len(transactionBuf)
        PROVE  OrderOf(transactionBuf[i].maker).status # "Cancelled" =>
                 OrderOf(transactionBuf[i].maker)'.status # "Cancelled"
    <3>1. /\ transactionBuf[i].taker = nextId
          /\ transactionBuf[i].maker < transactionBuf[i].taker
      BY <1>3, <2>1 DEF SessionInv, MakersDone
    <3>2. transactionBuf[i].maker + 1 \in 1 .. Len(sessionOrders)
      BY <1>0, <3>1, MakerIsPlaced
    <3> QED
      BY <1>3, <1>6, <3>2 DEF OrderOf
  <2> QED
    BY <1>0, <1>3, <1>4, <2>1, BufferKeepsMakersDone DEF SessionInv
<1> QED
  BY <1>7, <1>8

\* A step of the loop leaves the session alone and thins the book.
LEMMA MatchKeepsSession ==
  ASSUME SessionInv, MatchOrder
  PROVE  BookMatchesSession' /\ MakersDone'
<1>0. TypeOK /\ ExchangeTypeOK /\ sessionOrders' = sessionOrders
  BY DEF SessionInv, ExchangeTypeOK, MatchOrder
<1>1. ASSUME Thins(book', book), step = "match", step' \in {"idle", "match", "enter"},
             UNCHANGED <<nextId, transactionBuf>>
      PROVE  BookMatchesSession' /\ MakersDone'
  <2>1. \A i \in 1 .. Len(transactionBuf) :
          OrderOf(transactionBuf[i].maker)' = OrderOf(transactionBuf[i].maker)
    BY <1>0, <1>1 DEF OrderOf
  <2>2. \A i \in 1 .. Len(transactionBuf) :
          OrderOf(transactionBuf[i].maker).status # "Cancelled" =>
            OrderOf(transactionBuf[i].maker)'.status # "Cancelled"
    BY <2>1
  <2> QED
    BY <1>0, <1>1, <2>2, ThinningKeepsBookMatch, BufferKeepsMakersDone DEF SessionInv
<1>2. ASSUME NEW p \in Prices, Fill(p) PROVE BookMatchesSession' /\ MakersDone'
  <2>1. Thins(book', book)
    BY <1>0, <1>2, FillThins
  <2> QED
    BY <1>0, <1>2, <2>1, FillSession, ThinningKeepsBookMatch DEF SessionInv
<1>3. ASSUME NEW p \in Prices, AbortSelfTrade(p) PROVE BookMatchesSession' /\ MakersDone'
  <2>1. Thins(book', book)
    BY <1>0, <1>3, AbortThins
  <2> QED
    BY <1>1, <1>3, <2>1 DEF AbortSelfTrade
<1>4. ASSUME NEW p \in Prices, PassLevel(p) PROVE BookMatchesSession' /\ MakersDone'
  <2>1. Thins(book', book)
    BY <1>0, <1>4, UnchangedIsThin DEF PassLevel
  <2> QED
    BY <1>1, <1>4, <2>1 DEF PassLevel
<1>5. CASE StopMatching
  <2>1. Thins(book', book)
    BY <1>0, <1>5, UnchangedIsThin DEF StopMatching
  <2> QED
    BY <1>1, <1>5, <2>1 DEF StopMatching
<1> QED
  BY <1>2, <1>3, <1>4, <1>5 DEF MatchOrder

LEMMA SessionInit == ExchangeInit => SessionInv
<1> SUFFICES ASSUME ExchangeInit PROVE SessionInv
  OBVIOUS
<1>1. Init /\ DOMAIN book = {} /\ Len(transactionBuf) = 0 /\ step = "idle"
  BY DEF ExchangeInit, Init
<1> QED
  BY <1>1, ExchangeTypeInit, OrderInit DEF SessionInv, BookMatchesSession, MakersDone

LEMMA SessionStep == SessionInv /\ [ExchangeNext]_exchangeVars => SessionInv'
<1> SUFFICES ASSUME SessionInv, [ExchangeNext]_exchangeVars PROVE SessionInv'
  OBVIOUS
<1>0. TypeOK /\ ExchangeTypeOK /\ TimePriority /\ RestsOnce
  BY DEF SessionInv, ExchangeTypeOK
<1>1. ExchangeTypeOK' /\ (TimePriority /\ RestsOnce)'
  BY <1>0, ExchangeTypeStep, OrderbookStep, OrderStep
<1>2. ASSUME BookMatchesSession' /\ MakersDone' PROVE SessionInv'
  BY <1>1, <1>2 DEF SessionInv
<1>3. ASSUME UNCHANGED <<book, nextId, transactionBuf, sessionOrders, step>>
      PROVE  SessionInv'
  <2>1. BookMatchesSession'
    BY <1>3 DEF SessionInv, BookMatchesSession, IsPlaced, OrderOf, SlotOf
  <2>2. MakersDone'
    BY <1>3 DEF SessionInv, MakersDone, OrderOf, Absent
  <2> QED
    BY <1>2, <2>1, <2>2
<1>4. ASSUME NEW pair \in Pairs, CreateMarket(pair) PROVE SessionInv'
  BY <1>3, <1>4 DEF CreateMarket, AddMarket
<1>5. ASSUME NEW request \in Insertions, InsertOrder(request) PROVE SessionInv'
  <2>1. /\ step = "idle" /\ step' = "match"
        /\ UNCHANGED <<book, nextId, transactionBuf, sessionOrders>>
    BY <1>5 DEF InsertOrder, BeginInsert
  <2>2. BookMatchesSession'
    BY <2>1 DEF SessionInv, BookMatchesSession, IsPlaced, OrderOf, SlotOf
  <2>3. MakersDone'
    BY <2>1 DEF SessionInv, MakersDone, OrderOf, Absent
  <2> QED
    BY <1>2, <2>2, <2>3
<1>6. CASE MatchOrder
  BY <1>2, <1>6, MatchKeepsSession
<1>7. CASE PlaceOrder
  BY <1>2, <1>7, PlaceKeepsSession
<1>8. CASE SettleTransaction
  BY <1>2, <1>8, SettleKeepsSession
<1>9. CASE CompleteInsert
  <2>1. /\ step' = "idle" /\ transactionBuf' = <<>>
        /\ UNCHANGED <<book, nextId, sessionOrders>>
    BY <1>9 DEF CompleteInsert, FinishInsert
  <2>2. BookMatchesSession'
    BY <2>1 DEF SessionInv, BookMatchesSession, IsPlaced, OrderOf, SlotOf
  <2>3. MakersDone'
    BY <2>1 DEF MakersDone
  <2> QED
    BY <1>2, <2>2, <2>3
<1>10. ASSUME NEW account \in AccountIds, NEW id \in 0 .. MaxOrders - 1,
              CancelPlaced(account, id)
       PROVE  SessionInv'
  BY <1>2, <1>10, CancelKeepsSession
<1>11. ASSUME NEW account \in AccountIds, NEW id \in 0 .. MaxOrders - 1,
              NEW newVolume \in NewVolumes, ModifyPlaced(account, id, newVolume)
       PROVE  SessionInv'
  BY <1>2, <1>11, ModifyKeepsSession
<1>12. CASE Refuse \/ Panic \/ Dead \/ UNCHANGED exchangeVars
  BY <1>3, <1>12 DEF Refuse, Panic, Dead, exchangeVars, vars
<1> QED
  BY <1>4, <1>5, <1>6, <1>7, <1>8, <1>9, <1>10, <1>11, <1>12 DEF ExchangeNext

LEMMA SessionInvariant == ExchangeSpec => []SessionInv
  BY SessionInit, SessionStep, PTL DEF ExchangeSpec

\* What rests in a book is an open order of the session, at its own level:
\* nobody ever trades with an order that was cancelled.
THEOREM BookMatchesSessionHolds == ExchangeSpec => []BookMatchesSession
<1>1. SessionInv => BookMatchesSession
  BY DEF SessionInv
<1> QED
  BY <1>1, SessionInvariant, PTL

\* Whenever transactions are settled, also those of an insertion that was
\* aborted earlier, they name two different orders of the session.
THEOREM SettledOrdersExistHolds == ExchangeSpec => []SettledOrdersExist
<1>1. SessionInv => SettledOrdersExist
  <2> SUFFICES ASSUME SessionInv, step = "settle", NEW i \in 1 .. Len(transactionBuf)
               PROVE  IdsAreValid(transactionBuf[i])
    BY DEF SettledOrdersExist
  <2> DEFINE trade == transactionBuf[i]
  <2>1. trade.taker = nextId - 1 /\ trade.maker < trade.taker
    BY DEF SessionInv, MakersDone
  <2>2. ExchangeTypeOK /\ nextId \in Nat
    BY DEF SessionInv, ExchangeTypeOK, TypeOK
  <2>3. trade.maker \in Nat /\ trade.taker \in Nat
    BY <2>2, BufferType
  <2>4. trade.maker < nextId /\ trade.taker < nextId /\ trade.maker # trade.taker
    BY <2>1, <2>2, <2>3
  <2> HIDE DEF trade
  <2>5. IdsAreValid(trade)
    BY <2>2, <2>3, <2>4, PlacedType DEF IdsAreValid
  <2> QED
    BY <2>5 DEF trade
<1> QED
  BY <1>1, SessionInvariant, PTL

\* A cancelled order is never touched again and a filled order stays filled,
\* although transactions of aborted insertions are settled late.
THEOREM FinalStatusHolds == ExchangeSpec => FinalStatusIsFinal
<1> DEFINE Final(i) ==
      /\ sessionOrders[i].status = "Cancelled" => sessionOrders'[i] = sessionOrders[i]
      /\ sessionOrders[i].status = "Filled" => sessionOrders'[i].status = "Filled"
<1>1. SessionInv /\ [ExchangeNext]_exchangeVars
        => [\A i \in DOMAIN sessionOrders : Final(i)]_exchangeVars
  <2> SUFFICES ASSUME SessionInv, ExchangeNext, NEW i \in DOMAIN sessionOrders
               PROVE  Final(i)
    OBVIOUS
  <2>0. /\ ExchangeTypeOK
        /\ i \in 1 .. Len(sessionOrders)
        /\ sessionOrders[i] \in PlacedOrder
    <3>1. ExchangeTypeOK /\ sessionOrders \in Seq(PlacedOrder)
      BY DEF SessionInv, ExchangeTypeOK
    <3>2. i \in 1 .. Len(sessionOrders)
      BY <3>1, LenProperties
    <3> QED
      BY <3>1, <3>2, ElementOfSeq
  <2>1. ASSUME sessionOrders' = sessionOrders PROVE Final(i)
    BY <2>1
  <2>2. CASE PlaceOrder
    BY <2>0, <2>2, PlaceSession
  <2>3. CASE SettleTransaction
    <3>1. ASSUME i \in {Trade.maker + 1, Trade.taker + 1}
          PROVE  sessionOrders[i].status # "Cancelled"
      <4>1. /\ Len(transactionBuf) \in Nat \ {0}
            /\ Trade = transactionBuf[Len(transactionBuf)]
            /\ step = "settle"
        BY <2>0, <2>3, TradeType DEF SettleTransaction, PopTransaction
      <4>2. /\ Trade.taker = nextId - 1
            /\ sessionOrders[Trade.maker + 1].status # "Cancelled"
            /\ sessionOrders[nextId - 1 + 1].status # "Cancelled"
        BY <4>1 DEF SessionInv, MakersDone, OrderOf
      <4> QED
        BY <3>1, <4>2
    <3>2. /\ Trade.volume \in Volume
          /\ sessionOrders'[i] =
               IF i \in {Trade.maker + 1, Trade.taker + 1}
                 THEN AfterTrade(sessionOrders[i], Trade.volume)
                 ELSE sessionOrders[i]
      BY <2>0, <2>3, SettleSession DEF ObTransaction
    <3>3. AfterTrade(sessionOrders[i], Trade.volume).status
            \in {"Filled", sessionOrders[i].status}
      BY <2>0, <3>2, AfterTradeType
    <3> QED
      BY <3>1, <3>2, <3>3
  <2>4. ASSUME NEW account \in AccountIds, NEW id \in 0 .. MaxOrders - 1,
               CancelPlaced(account, id)
        PROVE  Final(i)
    <3>1. /\ OrderOf(id).status = "AwaitingFill"
          /\ i # id + 1 => sessionOrders'[i] = sessionOrders[i]
      BY <2>0, <2>4, CancelSession
    <3> QED
      BY <3>1 DEF OrderOf
  <2>5. ASSUME NEW account \in AccountIds, NEW id \in 0 .. MaxOrders - 1,
               NEW newVolume \in NewVolumes, ModifyPlaced(account, id, newVolume)
        PROVE  Final(i)
    <3>1. OrderOf(id).status = "AwaitingFill"
      BY <2>5, ModifiedIsOpen
    <3>2. i # id + 1 => sessionOrders'[i] = sessionOrders[i]
      BY <2>0, <2>5, ModifySession
    <3> QED
      BY <3>1, <3>2 DEF OrderOf
  <2>6. ASSUME NEW pair \in Pairs, CreateMarket(pair) PROVE Final(i)
    BY <2>1, <2>6 DEF CreateMarket
  <2>7. ASSUME NEW request \in Insertions, InsertOrder(request) PROVE Final(i)
    BY <2>1, <2>7 DEF InsertOrder
  <2>8. CASE MatchOrder \/ CompleteInsert \/ Refuse \/ Panic \/ Dead
    BY <2>1, <2>8 DEF MatchOrder, CompleteInsert, Refuse, Panic, Dead, exchangeVars
  <2> HIDE DEF Final
  <2> QED
    BY <2>2, <2>3, <2>4, <2>5, <2>6, <2>7, <2>8 DEF ExchangeNext
<1> QED
  BY <1>1, SessionInvariant, PTL DEF ExchangeSpec, FinalStatusIsFinal

(***************************************************************************)
(* Conservation of the balances.  Only settlement changes a balance, and   *)
(* per asset it changes two of them, by opposite amounts; a release build  *)
(* adds a multiple of the range of the balance type to each.  That both    *)
(* balances exist rests on insert_order checking the account.              *)
(***************************************************************************)
AccountsExist ==
  /\ \A k \in 1 .. Len(sessionOrders) : sessionOrders[k].account \in Accounts
  /\ step # "idle" => taker.account \in Accounts

BalanceOf(asset) == [account \in Accounts |-> balances[<<asset, account>>]]

Conserved ==
  \A asset \in Assets :
    IF OverflowChecks THEN SumFunction(BalanceOf(asset)) = 0
    ELSE \E k \in Int : SumFunction(BalanceOf(asset)) = 2 * BalanceHalf * k

ConservationInv == ExchangeTypeOK /\ AccountsExist /\ Conserved

LEMMA MultipleIsZero ==
  ASSUME NEW n \in Nat \ {0}, NEW k \in Int
  PROVE  (n * k) % n = 0
<1> DEFINE q == (n * k) \div n
           r == (n * k) % n
<1>1. n * k \in Int /\ q \in Int /\ r \in 0 .. n - 1 /\ n * k = n * q + r
  OBVIOUS
<1> HIDE DEF q, r
<1>2. n * (k - q) = r /\ k - q \in Int
  BY <1>1
<1>3. ASSUME k - q >= 1 PROVE FALSE
  <2>1. n * (k - q - 1) >= 0
    BY <1>1, <1>3
  <2>2. n * (k - q) = n * (k - q - 1) + n
    BY <1>1
  <2> QED
    BY <1>1, <1>2, <2>1, <2>2
<1>4. ASSUME k - q <= -1 PROVE FALSE
  <2>1. n * (q - k - 1) >= 0
    BY <1>1, <1>4
  <2>2. n * (k - q) = - (n * (q - k - 1)) - n
    BY <1>1
  <2> QED
    BY <1>1, <1>2, <2>1, <2>2
<1>5. k - q = 0
  BY <1>2, <1>3, <1>4
<1> QED
  BY <1>1, <1>2, <1>5 DEF r

\* The wrap-around adds a multiple of the range, and nothing within it.
LEMMA WrapBalanceAdds ==
  ASSUME NEW b \in Int
  PROVE  \E k \in Int : WrapBalance(b) = b + 2 * BalanceHalf * k
<1>1. BalanceHalf \in Nat \ {0} /\ 2 * BalanceHalf \in Nat \ {0}
  BY ExchangeAssumption
<1> DEFINE n == 2 * BalanceHalf
           c == b + BalanceHalf
           q == c \div n
<1>2. c \in Int /\ n \in Nat \ {0}
  BY <1>1
<1>3. WrapBalance(b) = (c % n) - BalanceHalf
  BY DEF WrapBalance
<1> HIDE DEF n, c
<1>4. q \in Int /\ c % n \in 0 .. n - 1 /\ c = n * q + (c % n)
  BY <1>2
<1>5. \E k \in Int : WrapBalance(b) = b + n * k
  <2>1. n * (- q) = - (n * q) /\ - q \in Int
    BY <1>2, <1>4
  <2>2. c = b + BalanceHalf
    BY DEF c
  <2>3. n * q \in Int /\ n * (- q) \in Int /\ c % n \in Int
    BY <1>2, <1>4
  <2> HIDE DEF q
  <2>4. WrapBalance(b) = b + n * (- q)
    BY <1>1, <1>3, <1>4, <2>1, <2>2, <2>3
  <2> QED
    BY <2>1, <2>4
<1> QED
  BY <1>5 DEF n

LEMMA WrapBalanceFits ==
  ASSUME NEW b \in Int, FitsBalance(b)
  PROVE  WrapBalance(b) = b
<1> DEFINE n == 2 * BalanceHalf
           c == b + BalanceHalf
<1>1. BalanceHalf \in Nat \ {0} /\ n \in Nat \ {0}
  BY ExchangeAssumption
<1>2. c \in 0 .. n - 1
  BY <1>1 DEF FitsBalance
<1>3. WrapBalance(b) = (c % n) - BalanceHalf
  BY DEF WrapBalance
<1> HIDE DEF n, c
<1>4. c % n = c
  BY <1>1, <1>2
<1> QED
  BY <1>1, <1>3, <1>4 DEF c

\* One asset sees opposite flows at two accounts and none elsewhere.
LEMMA FlowIsBalanced ==
  ASSUME NEW trade \in ObTransaction, NEW maker, NEW trader, maker # trader,
         NEW pair, pair.primary # pair.secondary, NEW asset
  PROVE  \E amount \in Int : \A account :
           Flow(trade, maker, trader, pair, <<asset, account>>) =
             IF account = trader THEN amount
             ELSE IF account = maker THEN - amount ELSE 0
<1> DEFINE bought == IF trade.takerSide = "Bid" THEN trade.volume ELSE - trade.volume
           cost == bought * trade.price
           flow(account) == Flow(trade, maker, trader, pair, <<asset, account>>)
<1>1. bought \in Int /\ cost \in Int /\ - bought * trade.price = - cost
  <2>1. trade.volume \in Int /\ trade.price \in Int
    BY VolumesAreNaturals, OrderbookAssumption DEF ObTransaction
  <2>2. bought \in Int
    BY <2>1
  <2> HIDE DEF bought
  <2> QED
    BY <2>1, <2>2
<1>2. \A account :
        flow(account) =
          CASE <<asset, account>> = <<pair.primary, trader>>   -> bought
            [] <<asset, account>> = <<pair.primary, maker>>    -> - bought
            [] <<asset, account>> = <<pair.secondary, trader>> -> - bought * trade.price
            [] <<asset, account>> = <<pair.secondary, maker>>  -> bought * trade.price
            [] OTHER -> 0
  BY DEF Flow
<1> HIDE DEF bought, flow
<1>3. CASE asset = pair.primary
  <2>1. \A account : flow(account) = IF account = trader THEN bought
                     ELSE IF account = maker THEN - bought ELSE 0
    BY <1>2, <1>3
  <2> QED
    BY <1>1, <2>1 DEF flow
<1>4. CASE asset = pair.secondary
  <2>1. \A account : flow(account) = IF account = trader THEN - cost
                     ELSE IF account = maker THEN cost ELSE 0
    BY <1>1, <1>2, <1>4
  <2>2. - cost \in Int /\ - (- cost) = cost
    BY <1>1
  <2> HIDE DEF cost
  <2> QED
    BY <2>1, <2>2 DEF flow
<1>5. CASE asset \notin {pair.primary, pair.secondary}
  <2>1. \A account : flow(account) = 0
    BY <1>2, <1>5
  <2> DEFINE zero == bought - bought
  <2>2. zero \in Int /\ zero = 0 /\ - zero = 0
    BY <1>1
  <2> HIDE DEF zero
  <2> QED
    BY <2>1, <2>2 DEF flow
<1> QED
  BY <1>3, <1>4, <1>5

\* The two sums that settlement compares, over the accounts.
LEMMA SettlementConserves ==
  ASSUME ConservationInv, SettleTransaction, NEW asset \in Assets
  PROVE  IF OverflowChecks
           THEN SumFunction(BalanceOf(asset)') = SumFunction(BalanceOf(asset))
           ELSE \E k \in Int :
                  SumFunction(BalanceOf(asset)')
                    = SumFunction(BalanceOf(asset)) + 2 * BalanceHalf * k
<1> DEFINE maker == OrderOf(Trade.maker).account
           trader == OrderOf(Trade.taker).account
           flow(account) == Flow(Trade, maker, trader, taker.pair, <<asset, account>>)
           f == BalanceOf(asset)
           h == BalanceOf(asset)'
           n == 2 * BalanceHalf
<1>1. ExchangeTypeOK /\ AccountsExist
  BY DEF ConservationInv
<1>2. /\ Trade \in ObTransaction /\ IdsAreValid(Trade)
      /\ CellsAreDisjoint(Trade)
      /\ OverflowChecks => ~ SettlementOverflows(Trade)
  BY <1>1, SettleSession DEF SettleTransaction, SettlementPanics
<1>3. maker \in Accounts /\ trader \in Accounts /\ maker # trader
  <2>1. Trade.maker \in Nat /\ Trade.taker \in Nat
    BY <1>2 DEF ObTransaction
  <2>2. /\ Trade.maker + 1 \in 1 .. Len(sessionOrders)
        /\ Trade.taker + 1 \in 1 .. Len(sessionOrders)
    BY <1>1, <1>2, <2>1, PlacedType DEF IdsAreValid
  <2> QED
    BY <1>1, <1>2, <2>2 DEF AccountsExist, OrderOf, CellsAreDisjoint
<1>4. PICK amount \in Int :
        \A account : flow(account) = IF account = trader THEN amount
                                     ELSE IF account = maker THEN - amount ELSE 0
  <2>1. taker.pair.primary # taker.pair.secondary
    BY <1>2 DEF CellsAreDisjoint
  <2> QED
    BY <1>2, <1>3, <2>1, FlowIsBalanced
<1>5. ASSUME NEW account \in Accounts
      PROVE  /\ <<asset, account>> \in Cells
             /\ f[account] = balances[<<asset, account>>]
             /\ f[account] \in Int /\ FitsBalance(f[account])
             /\ h[account] = WrapBalance(f[account] + flow(account))
             /\ h[account] \in Int
             /\ OverflowChecks => FitsBalance(f[account] + flow(account))
  <2>1. <<asset, account>> \in Cells
    BY DEF Cells
  <2>2. /\ f[account] = balances[<<asset, account>>]
        /\ h[account] = balances'[<<asset, account>>]
    BY DEF BalanceOf
  <2>3. /\ balances[<<asset, account>>] \in -BalanceHalf .. BalanceHalf - 1
        /\ balances'[<<asset, account>>] \in -BalanceHalf .. BalanceHalf - 1
    BY <1>1, <2>1, SettledBalances DEF ExchangeTypeOK
  <2>4. NewBalance(Trade, <<asset, account>>) = f[account] + flow(account)
    BY <2>2 DEF NewBalance
  <2>5. balances'[<<asset, account>>] = WrapBalance(NewBalance(Trade, <<asset, account>>))
    BY <2>1 DEF SettleTransaction
  <2>6. OverflowChecks => FitsBalance(NewBalance(Trade, <<asset, account>>))
    BY <1>2, <2>1 DEF SettlementOverflows
  <2> HIDE DEF f, h, flow
  <2> QED
    BY <2>1, <2>2, <2>3, <2>4, <2>5, <2>6, ExchangeAssumption DEF FitsBalance
<1>6. /\ DOMAIN f = Accounts /\ DOMAIN h = Accounts
      /\ IsFiniteSet(Accounts)
      /\ n \in Int /\ - amount \in Int
  BY <1>4, ExchangeAssumption DEF BalanceOf
<1> HIDE DEF f, h, flow, maker, trader, n
<1>7. \A account \in Accounts : f[account] \in Int /\ h[account] \in Int
  BY <1>5
<1>8. ASSUME NEW account \in Accounts, NEW change \in Int, flow(account) = change
      PROVE  /\ f[account] + change \in Int
             /\ h[account] = WrapBalance(f[account] + change)
             /\ OverflowChecks => FitsBalance(f[account] + change)
  <2>1. /\ h[account] = WrapBalance(f[account] + flow(account))
        /\ OverflowChecks => FitsBalance(f[account] + flow(account))
    BY <1>5
  <2>2. f[account] + change \in Int
    BY <1>7
  <2> QED
    BY <1>8, <2>1, <2>2
<1>9. ASSUME NEW account \in Accounts, account \notin {trader, maker}
      PROVE  h[account] = f[account]
  <2>1. flow(account) = 0 /\ 0 \in Int
    BY <1>4, <1>9
  <2>2. h[account] = WrapBalance(f[account] + 0)
    BY <1>8, <2>1
  <2>3. f[account] + 0 = f[account]
    BY <1>7
  <2>4. FitsBalance(f[account])
    BY <1>5
  <2> QED
    BY <1>7, <2>2, <2>3, <2>4, WrapBalanceFits
<1>10. SumFunction(f) \in Int
  <2>1. SumFunctionOnSet(f, Accounts) \in Int
    BY <1>6, <1>7, SumType
  <2> QED
    BY <1>6, <2>1 DEF SumFunction
<1>11. SumFunction(h)
        = SumFunction(f) + (h[trader] - f[trader]) + (h[maker] - f[maker])
  <2>1. \A account \in Accounts \ {trader, maker} : h[account] = f[account]
    BY <1>9
  <2>2. SumFunctionOnSet(h, Accounts)
          = SumFunctionOnSet(f, Accounts) + (h[trader] - f[trader]) + (h[maker] - f[maker])
    BY <1>3, <1>6, <1>7, <2>1, SumUpdateTwo
  <2> QED
    BY <1>6, <2>2 DEF SumFunction
<1>12. flow(trader) = amount /\ flow(maker) = - amount
  BY <1>3, <1>4
<1>13. /\ f[trader] \in Int /\ h[trader] \in Int
       /\ f[maker] \in Int /\ h[maker] \in Int
  BY <1>3, <1>7
<1>14. CASE OverflowChecks
  <2>1. h[trader] = f[trader] + amount
    BY <1>3, <1>8, <1>12, <1>14, WrapBalanceFits
  <2>2. h[maker] = f[maker] + (- amount)
    BY <1>3, <1>6, <1>8, <1>12, <1>14, WrapBalanceFits
  <2>3. SumFunction(h) = SumFunction(f)
    BY <1>6, <1>10, <1>11, <1>13, <2>1, <2>2
  <2> QED
    BY <1>14, <2>3 DEF f, h
<1>15. CASE ~ OverflowChecks
  <2>1. PICK i \in Int : h[trader] = f[trader] + amount + n * i
    BY <1>3, <1>8, <1>12, WrapBalanceAdds DEF n
  <2>2. PICK j \in Int : h[maker] = f[maker] + (- amount) + n * j
    BY <1>3, <1>6, <1>8, <1>12, WrapBalanceAdds DEF n
  <2>3. /\ n * i \in Int /\ n * j \in Int /\ i + j \in Int
        /\ n * (i + j) = n * i + n * j
    BY <1>6
  <2>4. SumFunction(h) = SumFunction(f) + n * (i + j)
    BY <1>6, <1>10, <1>11, <1>13, <2>1, <2>2, <2>3
  <2> QED
    BY <1>15, <2>3, <2>4 DEF f, h, n
<1> QED
  BY <1>14, <1>15

LEMMA ConservationInit == ExchangeInit => ConservationInv
<1> SUFFICES ASSUME ExchangeInit PROVE ConservationInv
  OBVIOUS
<1>1. ExchangeTypeOK
  BY ExchangeTypeInit
<1>2. AccountsExist
  BY DEF ExchangeInit, Init, AccountsExist
<1>3. Conserved
  <2> SUFFICES ASSUME NEW asset \in Assets
               PROVE  /\ SumFunction(BalanceOf(asset)) = 0
                      /\ \E k \in Int : 0 = 2 * BalanceHalf * k
    BY DEF Conserved
  <2>1. /\ DOMAIN BalanceOf(asset) = Accounts
        /\ \A account \in Accounts : BalanceOf(asset)[account] = 0
    BY DEF ExchangeInit, BalanceOf, Cells
  <2>2. SumFunction(BalanceOf(asset)) = 0
    BY <2>1, SumZero, ExchangeAssumption DEF SumFunction
  <2>3. 0 \in Int /\ 0 = 2 * BalanceHalf * 0
    BY ExchangeAssumption
  <2> QED
    BY <2>2, <2>3
<1> QED
  BY <1>1, <1>2, <1>3 DEF ConservationInv

LEMMA ConservationStep ==
  ConservationInv /\ [ExchangeNext]_exchangeVars => ConservationInv'
<1> SUFFICES ASSUME ConservationInv, [ExchangeNext]_exchangeVars PROVE ConservationInv'
  OBVIOUS
<1>0. ExchangeTypeOK /\ ExchangeTypeOK'
  BY ExchangeTypeStep DEF ConservationInv
<1>1. ASSUME balances' = balances, AccountsExist' PROVE ConservationInv'
  BY <1>0, <1>1 DEF ConservationInv, Conserved, BalanceOf
<1>2. ASSUME UNCHANGED <<sessionOrders, balances>>, step' # "idle" => step # "idle" /\ taker' = taker
      PROVE  ConservationInv'
  BY <1>1, <1>2 DEF ConservationInv, AccountsExist
<1>3. ASSUME NEW pair \in Pairs, CreateMarket(pair) PROVE ConservationInv'
  BY <1>2, <1>3 DEF CreateMarket, AddMarket, insertionVars
<1>4. ASSUME NEW request \in Insertions, InsertOrder(request) PROVE ConservationInv'
  <2>1. request.account \in Accounts /\ taker' = request
        /\ UNCHANGED <<sessionOrders, balances>>
    BY <1>4 DEF InsertOrder, InsertIsAccepted, BeginInsert
  <2> QED
    BY <1>1, <2>1 DEF ConservationInv, AccountsExist
<1>5. CASE MatchOrder
  <2>1. ASSUME NEW p \in Prices, Fill(p)
        PROVE  step # "idle" /\ taker' = taker
    BY <2>1 DEF Fill
  <2>2. ASSUME NEW p \in Prices, AbortSelfTrade(p)
        PROVE  step' = "idle"
    BY <2>2 DEF AbortSelfTrade
  <2>3. ASSUME NEW p \in Prices, PassLevel(p)
        PROVE  step # "idle" /\ taker' = taker
    BY <2>3 DEF PassLevel
  <2>4. CASE StopMatching
    BY <1>2, <1>5, <2>4 DEF MatchOrder, StopMatching, insertionVars
  <2> QED
    BY <1>2, <1>5, <2>1, <2>2, <2>3, <2>4 DEF MatchOrder
<1>6. CASE PlaceOrder
  <2>1. /\ balances' = balances
        /\ taker' = taker /\ step # "idle"
    BY <1>6 DEF PlaceOrder, EnterOrder, insertionVars
  <2>2. /\ Len(sessionOrders) \in Nat
        /\ Len(sessionOrders') = Len(sessionOrders) + 1
        /\ \A k \in 1 .. Len(sessionOrders) : sessionOrders'[k] = sessionOrders[k]
        /\ sessionOrders'[Len(sessionOrders) + 1].account = taker.account
    BY <1>0, <1>6, PlaceSession, LenProperties DEF ExchangeTypeOK, PlacedFromTaker
  <2>3. AccountsExist'
    BY <2>1, <2>2 DEF ConservationInv, AccountsExist
  <2> QED
    BY <1>1, <2>1, <2>3
<1>7. CASE SettleTransaction
  <2>1. AccountsExist'
    <3>1. taker' = taker /\ step # "idle"
      BY <1>7 DEF SettleTransaction, PopTransaction, insertionVars
    <3>2. /\ Trade.volume \in Volume
          /\ Len(sessionOrders') = Len(sessionOrders)
          /\ \A k \in 1 .. Len(sessionOrders) :
               sessionOrders'[k] \in
                 {AfterTrade(sessionOrders[k], Trade.volume), sessionOrders[k]}
      BY <1>0, <1>7, SettleSession DEF ObTransaction
    <3>3. \A k \in 1 .. Len(sessionOrders) : sessionOrders[k] \in PlacedOrder
      BY <1>0, ElementOfSeq DEF ExchangeTypeOK
    <3>4. \A k \in 1 .. Len(sessionOrders) :
            AfterTrade(sessionOrders[k], Trade.volume).account = sessionOrders[k].account
      BY <3>2, <3>3, AfterTradeType DEF SameTerms
    <3> QED
      BY <3>1, <3>2, <3>4 DEF ConservationInv, AccountsExist
  <2>2. Conserved'
    <3> SUFFICES ASSUME NEW asset \in Assets
                 PROVE  IF OverflowChecks THEN SumFunction(BalanceOf(asset)') = 0
                        ELSE \E k \in Int :
                               SumFunction(BalanceOf(asset)') = 2 * BalanceHalf * k
      BY DEF Conserved
    <3>1. CASE OverflowChecks
      BY <1>7, <3>1, SettlementConserves DEF ConservationInv, Conserved
    <3>2. CASE ~ OverflowChecks
      <4>1. PICK i \in Int : SumFunction(BalanceOf(asset)) = 2 * BalanceHalf * i
        BY <3>2 DEF ConservationInv, Conserved
      <4>2. PICK j \in Int :
              SumFunction(BalanceOf(asset)')
                = SumFunction(BalanceOf(asset)) + 2 * BalanceHalf * j
        BY <1>7, <3>2, SettlementConserves
      <4>3. /\ i + j \in Int
            /\ 2 * BalanceHalf * i + 2 * BalanceHalf * j = 2 * BalanceHalf * (i + j)
        BY ExchangeAssumption
      <4> QED
        BY <3>2, <4>1, <4>2, <4>3
    <3> QED
      BY <3>1, <3>2
  <2> QED
    BY <1>0, <2>1, <2>2 DEF ConservationInv
<1>8. CASE CompleteInsert
  BY <1>2, <1>8 DEF CompleteInsert, FinishInsert
<1>9. ASSUME NEW account \in AccountIds, NEW id \in 0 .. MaxOrders - 1,
             CancelPlaced(account, id)
      PROVE  ConservationInv'
  <2>1. balances' = balances /\ step' = "idle"
    BY <1>9 DEF CancelPlaced, CancelOrder
  <2>2. /\ Len(sessionOrders') = Len(sessionOrders)
        /\ \A k \in 1 .. Len(sessionOrders) :
             SameTerms(sessionOrders'[k], sessionOrders[k])
    BY <1>0, <1>9, CancelSession
  <2>3. AccountsExist'
    BY <2>1, <2>2 DEF ConservationInv, AccountsExist, SameTerms
  <2> QED
    BY <1>1, <2>1, <2>3
<1>10. ASSUME NEW account \in AccountIds, NEW id \in 0 .. MaxOrders - 1,
              NEW newVolume \in NewVolumes, ModifyPlaced(account, id, newVolume)
       PROVE  ConservationInv'
  <2>1. balances' = balances /\ step' = "idle"
    BY <1>10 DEF ModifyPlaced, ModifyOrder
  <2>2. /\ Len(sessionOrders') = Len(sessionOrders)
        /\ \A k \in 1 .. Len(sessionOrders) :
             sessionOrders'[k] \in
               {AfterModification(sessionOrders[k], newVolume), sessionOrders[k]}
    BY <1>0, <1>10, ModifySession
  <2>3. \A k \in 1 .. Len(sessionOrders) :
          AfterModification(sessionOrders[k], newVolume).account = sessionOrders[k].account
    <3>1. \A k \in 1 .. Len(sessionOrders) : sessionOrders[k] \in PlacedOrder
      BY <1>0, ElementOfSeq DEF ExchangeTypeOK
    <3>2. newVolume \in Volume
      BY ExchangeAssumption
    <3> QED
      BY <3>1, <3>2, AfterModificationType DEF SameTerms
  <2>4. AccountsExist'
    BY <2>1, <2>2, <2>3 DEF ConservationInv, AccountsExist
  <2> QED
    BY <1>1, <2>1, <2>4
<1>11. CASE Refuse \/ Panic \/ Dead \/ UNCHANGED exchangeVars
  BY <1>2, <1>11 DEF Refuse, Panic, Dead, exchangeVars, vars, insertionVars
<1> QED
  BY <1>3, <1>4, <1>5, <1>6, <1>7, <1>8, <1>9, <1>10, <1>11 DEF ExchangeNext

\* Settlement creates and destroys nothing: per asset the balances of all
\* accounts sum to zero, in a release build up to the range of the type.
THEOREM BalancesConservedHolds == ExchangeSpec => []BalancesConserved
<1>1. ConservationInv => BalancesConserved
  <2> SUFFICES ASSUME ConservationInv, NEW asset \in Assets
               PROVE  LET sum == SumFunction(BalanceOf(asset))
                      IN  IF OverflowChecks THEN sum = 0 ELSE sum % (2 * BalanceHalf) = 0
    BY DEF BalancesConserved, BalanceOf
  <2>1. CASE OverflowChecks
    BY <2>1 DEF ConservationInv, Conserved
  <2>2. CASE ~ OverflowChecks
    <3>1. PICK k \in Int : SumFunction(BalanceOf(asset)) = 2 * BalanceHalf * k
      BY <2>2 DEF ConservationInv, Conserved
    <3>2. 2 * BalanceHalf \in Nat \ {0}
      BY ExchangeAssumption
    <3> QED
      BY <2>2, <3>1, <3>2, MultipleIsZero
  <2> QED
    BY <2>1, <2>2
<1> QED
  BY <1>1, ConservationInit, ConservationStep, PTL DEF ExchangeSpec

(***************************************************************************)
(* The open orders of a book, wherever they rest.                          *)
(***************************************************************************)
Elements(queue) == {queue[i] : i \in 1 .. Len(queue)}

Open(b) == UNION {Elements(b[s]) : s \in DOMAIN b}

LEMMA OpenIs ==
  ASSUME NEW b
  PROVE  \A e : e \in Open(b) <=>
           \E s \in DOMAIN b : \E i \in 1 .. Len(b[s]) : e = b[s][i]
  BY DEF Open, Elements

LEMMA AbsentIs ==
  ASSUME NEW b, NEW id
  PROVE  Absent(b, id) <=> \A e \in Open(b) : e.id # id
  BY OpenIs DEF Absent

LEMMA OpenType ==
  ASSUME TypeOK
  PROVE  Open(book) \subseteq OrderbookEntry
  BY OpenIs, RestingIdsType

\* An order rests once.
LEMMA OpenOnce ==
  ASSUME TypeOK, TimePriority, RestsOnce,
         NEW s \in DOMAIN book, NEW i \in 1 .. Len(book[s]),
         NEW t \in DOMAIN book, NEW j \in 1 .. Len(book[t]), book[s][i].id = book[t][j].id
  PROVE  s = t /\ i = j
<1>1. s = t
  BY DEF RestsOnce
<1>2. i = j
  <2>1. Len(book[s]) \in Nat
    BY BookType, LenProperties DEF IsBook, Queue
  <2>2. book[s][i].id \in Nat
    BY RestingIdsType
  <2>3. ~ (i < j) /\ ~ (j < i)
    BY <1>1, <2>2 DEF TimePriority
  <2> QED
    BY <1>1, <2>1, <2>3
<1> QED
  BY <1>1, <1>2

\* When one order at a level is replaced, and only there, the same holds of
\* the open orders.
LEMMA OpenReplaced ==
  ASSUME TypeOK, TimePriority, RestsOnce,
         NEW s \in DOMAIN book, NEW k \in 1 .. Len(book[s]), NEW c, NEW new,
         \A t \in DOMAIN book \ {s} : t \in DOMAIN c /\ c[t] = book[t],
         \A t \in DOMAIN c \ {s} : t \in DOMAIN book,
         \A e : (s \in DOMAIN c /\ e \in Elements(c[s])) <=>
                (e \in Elements(book[s]) /\ e # book[s][k]) \/ e \in new
  PROVE  /\ \A e : e \in Open(c) <=> (e \in Open(book) /\ e # book[s][k]) \/ e \in new
         /\ book[s][k] \in Open(book)
         /\ \A e \in Open(book) : e.id = book[s][k].id => e = book[s][k]
<1>1. ASSUME NEW t \in DOMAIN book \ {s} PROVE book[s][k] \notin Elements(book[t])
  BY <1>1, OpenOnce DEF Elements
<1>2. ASSUME NEW e PROVE e \in Open(c) <=> (e \in Open(book) /\ e # book[s][k]) \/ e \in new
  <2>1. e \in Open(c) <=> \/ s \in DOMAIN c /\ e \in Elements(c[s])
                          \/ \E t \in DOMAIN book \ {s} : e \in Elements(book[t])
    BY DEF Open
  <2>2. e \in Open(book) <=> \/ e \in Elements(book[s])
                             \/ \E t \in DOMAIN book \ {s} : e \in Elements(book[t])
    BY DEF Open
  <2> QED
    BY <1>1, <2>1, <2>2
<1>3. book[s][k] \in Open(book)
  BY OpenIs
<1>4. ASSUME NEW e \in Open(book), e.id = book[s][k].id PROVE e = book[s][k]
  <2>1. PICK t \in DOMAIN book : \E j \in 1 .. Len(book[t]) : e = book[t][j]
    BY OpenIs
  <2>2. PICK j \in 1 .. Len(book[t]) : e = book[t][j]
    BY <2>1
  <2> QED
    BY <1>4, <2>2, OpenOnce
<1> QED
  BY <1>2, <1>3, <1>4

\* What popping, reducing and removing do to the orders of a queue.
LEMMA TailElements ==
  ASSUME NEW q \in Queue, q # <<>>, \A i, j \in 1 .. Len(q) : q[i] = q[j] => i = j
  PROVE  \A e : e \in Elements(Tail(q)) <=> e \in Elements(q) /\ e # q[1]
<1>1. /\ Len(q) \in Nat \ {0}
      /\ Len(Tail(q)) = Len(q) - 1
      /\ \A j \in 1 .. Len(Tail(q)) : Tail(q)[j] = q[j + 1]
  BY EmptySeq, HeadTailProperties DEF Queue
<1>2. ASSUME NEW j \in 1 .. Len(Tail(q)) PROVE Tail(q)[j] \in Elements(q) /\ Tail(q)[j] # q[1]
  <2>1. j + 1 \in 1 .. Len(q) /\ 1 \in 1 .. Len(q) /\ j + 1 # 1
    BY <1>1
  <2>2. Tail(q)[j] = q[j + 1]
    BY <1>1
  <2> QED
    BY <2>1, <2>2 DEF Elements
<1>3. ASSUME NEW i \in 1 .. Len(q), q[i] # q[1] PROVE q[i] \in Elements(Tail(q))
  <2>1. i - 1 \in 1 .. Len(Tail(q)) /\ i - 1 + 1 = i
    BY <1>1, <1>3
  <2>2. Tail(q)[i - 1] = q[i]
    BY <1>1, <2>1
  <2> QED
    BY <2>1, <2>2 DEF Elements
<1> QED
  BY <1>2, <1>3 DEF Elements

LEMMA ReplacedElements ==
  ASSUME NEW q \in Queue, NEW k \in 1 .. Len(q), NEW d \in OrderbookEntry,
         \A i, j \in 1 .. Len(q) : q[i] = q[j] => i = j
  PROVE  \A e : e \in Elements([q EXCEPT ![k] = d]) <=>
                (e \in Elements(q) /\ e # q[k]) \/ e = d
<1> DEFINE c == [q EXCEPT ![k] = d]
<1>1. Len(c) = Len(q) /\ \A j \in 1 .. Len(q) : c[j] = IF j = k THEN d ELSE q[j]
  BY ExceptSeq DEF Queue
<1> HIDE DEF c
<1>2. ASSUME NEW j \in 1 .. Len(q) PROVE (c[j] \in Elements(q) /\ c[j] # q[k]) \/ c[j] = d
  BY <1>1 DEF Elements
<1>3. d \in Elements(c)
  BY <1>1 DEF Elements
<1>4. ASSUME NEW i \in 1 .. Len(q), q[i] # q[k] PROVE q[i] \in Elements(c)
  <2>1. c[i] = q[i]
    BY <1>1, <1>4
  <2> QED
    BY <1>1, <2>1 DEF Elements
<1>5. \A e : e \in Elements(c) <=> \E j \in 1 .. Len(q) : e = c[j]
  BY <1>1 DEF Elements
<1>6. \A e : e \in Elements(q) <=> \E j \in 1 .. Len(q) : e = q[j]
  BY DEF Elements
<1>7. \A e : e \in Elements(c) <=> (e \in Elements(q) /\ e # q[k]) \/ e = d
  BY <1>2, <1>3, <1>4, <1>5, <1>6
<1> QED
  BY <1>7 DEF c

LEMMA RemovedElements ==
  ASSUME NEW q \in Queue, NEW i \in 1 .. Len(q),
         \A j, k \in 1 .. Len(q) : q[j] = q[k] => j = k
  PROVE  \A e : e \in Elements(RemoveAt(q, i)) <=> e \in Elements(q) /\ e # q[i]
<1> DEFINE a == SubSeq(q, 1, i - 1)
           b == SubSeq(q, i + 1, Len(q))
           c == RemoveAt(q, i)
<1>1. Len(q) \in Nat /\ \A j \in 1 .. Len(q) : q[j] \in OrderbookEntry
  BY LenProperties, ElementOfSeq DEF Queue
<1>2. /\ a \in Queue
      /\ Len(a) = i - 1
      /\ \A j \in 1 .. i - 1 : a[j] = q[j]
  <2>1. \A j \in 1 .. i - 1 : q[j] \in OrderbookEntry
    BY <1>1
  <2> QED
    BY <1>1, <2>1, SubSeqProperties DEF Queue
<1>3. /\ b \in Queue
      /\ Len(b) = Len(q) - i
      /\ \A j \in 1 .. Len(q) - i : b[j] = q[i + j]
  <2>1. \A j \in i + 1 .. Len(q) : q[j] \in OrderbookEntry
    BY <1>1
  <2> QED
    BY <1>1, <2>1, SubSeqProperties DEF Queue
<1>4. c = a \o b
  BY DEF RemoveAt
<1> HIDE DEF a, b, c
<1>5. /\ Len(c) = Len(q) - 1
      /\ \A j \in 1 .. Len(q) - 1 :
           c[j] = IF j <= i - 1 THEN a[j] ELSE b[j - (i - 1)]
  <2>1. /\ a \o b \in Queue
        /\ Len(a \o b) = Len(a) + Len(b)
        /\ \A j \in 1 .. Len(a) + Len(b) :
             (a \o b)[j] = IF j <= Len(a) THEN a[j] ELSE b[j - Len(a)]
    <3>1. a \in Seq(OrderbookEntry) /\ b \in Seq(OrderbookEntry)
      BY <1>2, <1>3 DEF Queue
    <3> QED
      BY ONLY <3>1, ConcatProperties DEF Queue
  <2>2. Len(a) + Len(b) = Len(q) - 1
    BY <1>1, <1>2, <1>3
  <2> QED
    BY <1>2, <1>4, <2>1, <2>2
<1>6. ASSUME NEW k \in 1 .. Len(q), k # i PROVE q[k] \in Elements(c)
  <2>1. CASE k < i
    <3>1. k \in 1 .. Len(c) /\ c[k] = q[k]
      BY <1>1, <1>2, <1>5, <2>1
    <3> QED
      BY <3>1 DEF Elements
  <2>2. CASE i < k
    <3>1. k - 1 \in 1 .. Len(q) - 1 /\ ~ (k - 1 <= i - 1) /\ k - 1 - (i - 1) = k - i
      BY <1>1, <2>2
    <3>2. k - i \in 1 .. Len(q) - i /\ i + (k - i) = k
      BY <1>1, <2>2
    <3>3. c[k - 1] = b[k - i]
      BY <1>5, <3>1
    <3>4. b[k - i] = q[i + (k - i)]
      BY <1>3, <3>2
    <3>5. c[k - 1] = q[k]
      BY <3>2, <3>3, <3>4
    <3> QED
      BY <1>5, <3>1, <3>5 DEF Elements
  <2> QED
    BY <1>1, <1>6, <2>1, <2>2
<1>7. ASSUME NEW j \in 1 .. Len(c) PROVE c[j] \in Elements(q) /\ c[j] # q[i]
  <2>1. PICK k \in 1 .. Len(q) \ {i} : c[j] = q[k]
    BY <1>7, RemoveAtThins DEF c
  <2> QED
    BY <2>1 DEF Elements
<1>8. \A e : e \in Elements(c) <=> e \in Elements(q) /\ e # q[i]
  BY <1>6, <1>7 DEF Elements
<1> QED
  BY <1>8 DEF c

\* The orders at a level are different.
LEMMA LevelIsInjective ==
  ASSUME TypeOK, TimePriority, RestsOnce, NEW s \in DOMAIN book
  PROVE  book[s] \in Queue /\ \A i, j \in 1 .. Len(book[s]) : book[s][i] = book[s][j] => i = j
  BY OpenOnce, BookType DEF IsBook

\* A match replaces the oldest order at its level by what is left of it.
LEMMA FillOpen ==
  ASSUME TypeOK, TimePriority, RestsOnce, NEW p \in Prices, Fill(p)
  PROVE  LET m == book[Opposing(p)][1]
             v == Lesser(remaining, m.volume)
             new == IF v = m.volume THEN {} ELSE {[m EXCEPT !.volume = m.volume - v]}
         IN  /\ \A e : e \in Open(book') <=> (e \in Open(book) /\ e # m) \/ e \in new
             /\ m \in Open(book)
             /\ \A e \in Open(book) : e.id = m.id => e = m
<1> DEFINE s == Opposing(p)
           queue == book[s]
           m == queue[1]
           v == Lesser(remaining, m.volume)
           d == [m EXCEPT !.volume = m.volume - v]
           new == IF v = m.volume THEN {} ELSE {d}
           left == IF v = m.volume THEN Tail(queue) ELSE Decrement(queue, v)
<1>1. /\ s \in DOMAIN book /\ queue # <<>> /\ book' = [book EXCEPT ![s] = left]
      /\ m \in OrderbookEntry /\ Len(queue) \in Nat \ {0}
      /\ v \in Volume /\ v <= m.volume
  BY NextLevelSlot, MakerType DEF Fill
<1>2. queue \in Queue /\ \A i, j \in 1 .. Len(queue) : queue[i] = queue[j] => i = j
  BY <1>1, LevelIsInjective
<1>3. d \in OrderbookEntry
  <2>1. m.volume - v \in Volume
    BY <1>1, OrderbookAssumption DEF OrderbookEntry, Volume
  <2> QED
    BY <1>1, <2>1 DEF OrderbookEntry
<1>4. \A e : e \in Elements(left) <=> (e \in Elements(queue) /\ e # m) \/ e \in new
  <2>1. CASE v = m.volume
    <3>1. left = Tail(queue) /\ new = {}
      BY <2>1
    <3> HIDE DEF queue, new, left
    <3>2. \A e : e \in Elements(Tail(queue)) <=> e \in Elements(queue) /\ e # m
      BY <1>1, <1>2, TailElements
    <3> QED
      BY <3>1, <3>2
  <2>2. CASE v # m.volume
    <3>1. left = [queue EXCEPT ![1] = d] /\ new = {d}
      BY <2>2 DEF Decrement
    <3>2. 1 \in 1 .. Len(queue)
      BY <1>1
    <3> HIDE DEF queue, new, left, d
    <3>3. \A e : e \in Elements([queue EXCEPT ![1] = d]) <=>
                   (e \in Elements(queue) /\ e # m) \/ e = d
      BY <1>2, <1>3, <3>2, ReplacedElements
    <3> QED
      BY <3>1, <3>3
  <2> QED
    BY <2>1, <2>2
<1> HIDE DEF left, new, s
<1>5. /\ DOMAIN book' = DOMAIN book
      /\ book'[s] = left
      /\ \A t \in DOMAIN book \ {s} : book'[t] = book[t]
  BY <1>1
<1>6. /\ s \in DOMAIN book /\ 1 \in 1 .. Len(book[s])
      /\ \A t \in DOMAIN book \ {s} : t \in DOMAIN book' /\ book'[t] = book[t]
      /\ \A t \in DOMAIN book' \ {s} : t \in DOMAIN book
      /\ \A e : (s \in DOMAIN book' /\ e \in Elements(book'[s])) <=>
                   (e \in Elements(book[s]) /\ e # book[s][1]) \/ e \in new
  BY <1>1, <1>4, <1>5
<1>7. /\ \A e : e \in Open(book') <=> (e \in Open(book) /\ e # book[s][1]) \/ e \in new
      /\ book[s][1] \in Open(book)
      /\ \A e \in Open(book) : e.id = book[s][1].id => e = book[s][1]
  BY ONLY TypeOK, TimePriority, RestsOnce, <1>6, OpenReplaced
<1> QED
  BY <1>7 DEF new, s

\* A cancellation takes one order out.
LEMMA CancelOpen ==
  ASSUME TypeOK, TimePriority, RestsOnce, NEW s, NEW id, CancelOrder(s, id)
  PROVE  \E m \in Open(book) :
           m.id = id /\ \A e : e \in Open(book') <=> e \in Open(book) /\ e # m
<1>1. PICK i \in Positions(s, id) : book' = RemoveEntry(s, i)
  BY DEF CancelOrder
<1>2. s \in DOMAIN book /\ i \in 1 .. Len(book[s]) /\ book[s][i].id = id
  BY DEF CancelOrder, Positions
<1> DEFINE queue == book[s]
<1>3. queue \in Queue /\ \A j, k \in 1 .. Len(queue) : queue[j] = queue[k] => j = k
  BY <1>2, LevelIsInjective
<1>4. /\ \A t \in DOMAIN book \ {s} : t \in DOMAIN book' /\ book'[t] = book[t]
      /\ \A t \in DOMAIN book' \ {s} : t \in DOMAIN book
  BY <1>1, <1>2 DEF RemoveEntry
<1>5. \A e : (s \in DOMAIN book' /\ e \in Elements(book'[s])) <=>
               (e \in Elements(queue) /\ e # queue[i]) \/ e \in {}
  <2>1. CASE Len(queue) = 1
    <3>1. s \notin DOMAIN book'
      BY <1>1, <2>1 DEF RemoveEntry
    <3>2. \A e \in Elements(queue) : e = queue[i]
      BY <1>2, <2>1 DEF Elements
    <3> QED
      BY <3>1, <3>2
  <2>2. CASE Len(queue) # 1
    <3>1. s \in DOMAIN book' /\ book'[s] = RemoveAt(queue, i)
      BY <1>1, <1>2, <2>2 DEF RemoveEntry
    <3> HIDE DEF queue
    <3>2. i \in 1 .. Len(queue)
      BY <1>2 DEF queue
    <3>3. \A e : e \in Elements(RemoveAt(queue, i)) <=> e \in Elements(queue) /\ e # queue[i]
      BY <1>3, <3>2, RemovedElements
    <3> QED
      BY <3>1, <3>3
  <2> QED
    BY <2>1, <2>2
<1> DEFINE new == {}
<1>6. \A e : (s \in DOMAIN book' /\ e \in Elements(book'[s])) <=>
               (e \in Elements(book[s]) /\ e # book[s][i]) \/ e \in new
  BY <1>5
<1> HIDE DEF queue, new
<1>7. /\ \A e : e \in Open(book') <=> (e \in Open(book) /\ e # book[s][i]) \/ e \in new
      /\ book[s][i] \in Open(book)
  BY ONLY TypeOK, TimePriority, RestsOnce, <1>2, <1>4, <1>6, OpenReplaced
<1> QED
  BY <1>2, <1>7 DEF new

\* The clean-up takes no order out, and resting adds one.
LEMMA EnterOpen ==
  ASSUME TypeOK, CrossInv, EnterOrder
  PROVE  \A e : e \in Open(book') <=>
           e \in Open(book) \/ (remaining > 0 /\ e = RestingEntry)
<1> DEFINE own == Slot(taker.pair, taker.side, taker.price)
           c == Rest(CleanedBook, own, RestingEntry)
           n == LevelLength(CleanedBook, own)
<1>1. /\ IsBook(CleanedBook) /\ own \in Slots /\ RestingEntry \in OrderbookEntry
      /\ step = "enter"
  BY EnterType DEF EnterOrder
<1>2. /\ DOMAIN CleanedBook = DOMAIN book \ {Opposing(p) : p \in visited}
      /\ \A s \in DOMAIN CleanedBook : CleanedBook[s] = book[s]
  BY <1>1, CleanedIsVisited DEF CleanedBook, CrossInv
<1>3. \A e : e \in Open(CleanedBook) <=> e \in Open(book)
  <2>1. ASSUME NEW s \in DOMAIN book, s \notin DOMAIN CleanedBook PROVE Elements(book[s]) = {}
    <3>1. PICK p \in visited : s = Opposing(p)
      BY <1>2, <2>1
    <3>2. book[s] = <<>>
      BY <1>1, <3>1 DEF CrossInv, IteratorInv
    <3> QED
      BY <3>2 DEF Elements
  <2> QED
    BY <1>2, <2>1 DEF Open
<1>4. CASE ~ (remaining > 0)
  <2>1. book' = CleanedBook
    BY <1>4 DEF EnterOrder
  <2> QED
    BY <1>3, <1>4, <2>1
<1>5. CASE remaining > 0
  <2>1. book' = c
    BY <1>5 DEF EnterOrder
  <2>2. /\ DOMAIN c = DOMAIN CleanedBook \cup {own}
        /\ \A t \in DOMAIN CleanedBook \ {own} : c[t] = CleanedBook[t]
        /\ n \in Nat
        /\ Len(c[own]) = n + 1
        /\ c[own][n + 1] = RestingEntry
        /\ \A i \in 1 .. n : c[own][i] = CleanedBook[own][i]
    BY <1>1, RestAppends, ZenonT(60)
  <2>3. own \notin DOMAIN CleanedBook => n = 0
    BY DEF LevelLength
  <2>4. own \in DOMAIN CleanedBook => n = Len(CleanedBook[own])
    BY DEF LevelLength
  <2> HIDE DEF own, c, n
  <2>5. ASSUME NEW e
        PROVE  e \in Elements(c[own]) <=>
                 e = RestingEntry \/ (own \in DOMAIN CleanedBook /\ e \in Elements(CleanedBook[own]))
    <3>1. e \in Elements(c[own]) <=> \E i \in 1 .. n + 1 : e = c[own][i]
      BY <2>2 DEF Elements
    <3>2. (own \in DOMAIN CleanedBook /\ e \in Elements(CleanedBook[own])) <=>
            \E i \in 1 .. n : e = CleanedBook[own][i]
      BY <2>3, <2>4 DEF Elements
    <3>3. \A i \in 1 .. n + 1 : i \in 1 .. n \/ i = n + 1
      BY <2>2
    <3>4. \A i \in 1 .. n : i \in 1 .. n + 1
      BY <2>2
    <3>5. n + 1 \in 1 .. n + 1
      BY <2>2
    <3> QED
      BY <2>2, <3>1, <3>2, <3>3, <3>4, <3>5
  <2>6. ASSUME NEW e
        PROVE  e \in Open(c) <=> e = RestingEntry \/ e \in Open(CleanedBook)
    <3>1. e \in Open(c) <=> \/ e \in Elements(c[own])
                            \/ \E t \in DOMAIN CleanedBook \ {own} : e \in Elements(CleanedBook[t])
      BY <2>2 DEF Open
    <3>2. e \in Open(CleanedBook) <=>
            \/ own \in DOMAIN CleanedBook /\ e \in Elements(CleanedBook[own])
            \/ \E t \in DOMAIN CleanedBook \ {own} : e \in Elements(CleanedBook[t])
      BY DEF Open
    <3> QED
      BY <2>5, <3>1, <3>2
  <2> QED
    BY <1>3, <1>5, <2>1, <2>6
<1> QED
  BY <1>4, <1>5

(***************************************************************************)
(* What the transactions that wait for their settlement will take from an  *)
(* order.                                                                  *)
(***************************************************************************)
Share(trade, id) == IF id \in {trade.maker, trade.taker} THEN trade.volume ELSE 0

Shares(buf, id) == [i \in DOMAIN buf |-> Share(buf[i], id)]

Pending(buf, id) == SumFunction(Shares(buf, id))

LEMMA PendingEmpty == \A id : Pending(<<>>, id) = 0
  BY SumOfEmpty DEF Pending, Shares

LEMMA PendingType ==
  ASSUME NEW q \in Seq(ObTransaction), NEW id
  PROVE  /\ Pending(q, id) \in Nat
         /\ DOMAIN Shares(q, id) = 1 .. Len(q)
         /\ Len(q) \in Nat
         /\ \A i \in 1 .. Len(q) : Shares(q, id)[i] = Share(q[i], id)
         /\ \A i \in 1 .. Len(q) : Shares(q, id)[i] \in Nat
<1> DEFINE f == Shares(q, id)
<1>1. Len(q) \in Nat /\ DOMAIN q = 1 .. Len(q) /\ \A i \in 1 .. Len(q) : q[i] \in ObTransaction
  BY LenProperties, ElementOfSeq
<1>2. DOMAIN f = 1 .. Len(q) /\ \A i \in 1 .. Len(q) : f[i] = Share(q[i], id)
  BY <1>1 DEF Shares
<1>3. \A i \in 1 .. Len(q) : Share(q[i], id) \in Nat
  BY <1>1, VolumesAreNaturals DEF Share, ObTransaction
<1> HIDE DEF f
<1>4. SumFunction(f) \in Nat
  <2>1. SumFunction(f) = SumFunctionOnSet(f, DOMAIN f)
    BY DEF SumFunction
  <2>2. IsFiniteSet(1 .. Len(q)) /\ {} \in SUBSET (1 .. Len(q))
    BY <1>1, FS_Interval
  <2>3. \A i \in 1 .. Len(q) : f[i] \in Nat /\ f[i] \in Int
    BY <1>2, <1>3
  <2>4. SumFunctionOnSet(f, 1 .. Len(q)) \in Int
    BY <2>2, <2>3, SumType
  <2>5. SumFunctionOnSet(f, {}) = 0
    BY SumEmpty
  <2>6. SumFunctionOnSet(f, {}) <= SumFunctionOnSet(f, 1 .. Len(q))
    BY <2>2, <2>3, SumMonotone
  <2> QED
    BY <1>2, <2>1, <2>4, <2>5, <2>6
<1> QED
  BY <1>1, <1>2, <1>3, <1>4 DEF Pending, f

\* The last transaction of a buffer counts on top of the others.
LEMMA PendingLast ==
  ASSUME NEW q \in Seq(ObTransaction), NEW c \in Seq(ObTransaction), NEW id,
         Len(c) = Len(q) + 1, \A i \in 1 .. Len(q) : c[i] = q[i]
  PROVE  Pending(c, id) = Pending(q, id) + Share(c[Len(q) + 1], id)
<1> DEFINE f == Shares(q, id)
           h == Shares(c, id)
           n == Len(q)
<1>1. /\ n \in Nat /\ DOMAIN f = 1 .. n
      /\ \A i \in 1 .. n : f[i] = Share(q[i], id)
  BY PendingType
<1>2. /\ DOMAIN h = 1 .. n + 1
      /\ \A i \in 1 .. n + 1 : h[i] = Share(c[i], id)
      /\ \A i \in 1 .. n + 1 : h[i] \in Nat
  BY PendingType
<1>3. /\ \A i \in 1 .. n : h[i] = f[i]
      /\ \A i \in 1 .. n + 1 : h[i] \in Int
      /\ h[n + 1] = Share(c[n + 1], id)
  BY <1>1, <1>2
<1> HIDE DEF f, h, n
<1>4. SumFunction(h) = SumFunction(f) + h[n + 1]
  BY <1>1, <1>2, <1>3, SumOfAppended
<1> QED
  BY <1>3, <1>4 DEF Pending, f, h, n

LEMMA PendingAppended ==
  ASSUME TypeOK, NEW trade \in ObTransaction, NEW id
  PROVE  Pending(Append(transactionBuf, trade), id)
           = Pending(transactionBuf, id) + Share(trade, id)
<1> DEFINE c == Append(transactionBuf, trade)
           n == Len(transactionBuf)
<1>1. transactionBuf \in Seq(ObTransaction)
  BY DEF TypeOK
<1>2. /\ c \in Seq(ObTransaction) /\ Len(c) = n + 1
      /\ c[n + 1] = trade
      /\ \A i \in 1 .. n : c[i] = transactionBuf[i]
  BY <1>1, AppendProperties
<1> HIDE DEF c
<1>3. Pending(c, id) = Pending(transactionBuf, id) + Share(c[n + 1], id)
  BY <1>1, <1>2, PendingLast
<1> QED
  BY <1>2, <1>3 DEF c

LEMMA PendingFront ==
  ASSUME TypeOK, transactionBuf # <<>>, NEW id
  PROVE  /\ Pending(transactionBuf, id) = Pending(Front(transactionBuf), id) + Share(Trade, id)
         /\ Pending(Front(transactionBuf), id) \in Nat
<1> DEFINE q == Front(transactionBuf)
           n == Len(transactionBuf)
<1>1. transactionBuf \in Seq(ObTransaction) /\ n \in Nat \ {0}
  BY EmptySeq DEF TypeOK
<1>2. Len(q) = n - 1 /\ \A i \in 1 .. n - 1 : q[i] = transactionBuf[i]
  BY <1>1, FrontOf
<1>3. q \in Seq(ObTransaction)
  <2>1. \A i \in 1 .. n - 1 : transactionBuf[i] \in ObTransaction
    BY <1>1, ElementOfSeq
  <2> QED
    BY <1>1, <2>1, SubSeqProperties DEF Front
<1> HIDE DEF q
<1>4. Pending(transactionBuf, id) = Pending(q, id) + Share(transactionBuf[Len(q) + 1], id)
  BY <1>1, <1>2, <1>3, PendingLast
<1>5. transactionBuf[Len(q) + 1] = Trade
  BY <1>1, <1>2 DEF Trade, Last
<1> QED
  BY <1>3, <1>4, <1>5, PendingType DEF q

(***************************************************************************)
(* The tally: what the session has left of an order is what rests of it in *)
(* the book and what the buffer will still take from it.                   *)
(***************************************************************************)
NoModification ==
  \A account \in AccountIds, id \in 0 .. MaxOrders - 1, newVolume \in NewVolumes :
    ~ ModifyPlaced(account, id, newVolume)

Tally ==
  /\ \A e \in Open(book) :
       OrderOf(e.id).remaining = e.volume + Pending(transactionBuf, e.id)
  /\ \A id \in 0 .. nextId - 1 :
       Absent(book, id) /\ OrderOf(id).status # "Cancelled" =>
         OrderOf(id).remaining = Pending(transactionBuf, id)
  /\ step \in {"match", "enter"} =>
       remaining + Pending(transactionBuf, nextId) = taker.volume

Remains ==
  \A id \in 0 .. nextId - 1 :
    /\ OrderOf(id).status = "Filled" => OrderOf(id).remaining = 0
    /\ OrderOf(id).remaining <= OrderOf(id).volume

LEMMA TallyNext ==
  ASSUME \A e \in Open(book') :
           sessionOrders'[e.id + 1].remaining = e.volume + Pending(transactionBuf', e.id),
         \A id \in 0 .. nextId' - 1 :
           Absent(book', id) /\ sessionOrders'[id + 1].status # "Cancelled" =>
             sessionOrders'[id + 1].remaining = Pending(transactionBuf', id),
         step' \in {"match", "enter"} =>
           remaining' + Pending(transactionBuf', nextId') = taker'.volume
  PROVE  Tally'
  BY DEF Tally, OrderOf, Open, Elements, Absent, Pending, Shares, Share

LEMMA OrderPlaced ==
  ASSUME ExchangeTypeOK
  PROVE  \A id \in 0 .. nextId - 1 :
           /\ id \in Nat /\ id < nextId /\ id + 1 \in 1 .. Len(sessionOrders)
           /\ OrderOf(id) \in PlacedOrder
           /\ OrderOf(id).remaining \in Nat
           /\ OrderOf(id).volume \in Nat
<1> SUFFICES ASSUME NEW id \in 0 .. nextId - 1
             PROVE  /\ id \in Nat /\ id < nextId /\ id + 1 \in 1 .. Len(sessionOrders)
                    /\ OrderOf(id) \in PlacedOrder
                    /\ OrderOf(id).remaining \in Nat
                    /\ OrderOf(id).volume \in Nat
  OBVIOUS
<1>1. /\ id \in Nat /\ id < nextId /\ id + 1 \in 1 .. Len(sessionOrders)
      /\ sessionOrders \in Seq(PlacedOrder)
  BY DEF ExchangeTypeOK, TypeOK
<1>2. OrderOf(id) \in PlacedOrder
  BY <1>1, ElementOfSeq DEF OrderOf
<1> QED
  BY <1>1, <1>2, VolumesAreNaturals DEF PlacedOrder

LEMMA OpenIsPlaced ==
  ASSUME SessionInv
  PROVE  \A e \in Open(book) :
           /\ e \in OrderbookEntry /\ e.volume \in Nat
           /\ e.id \in 0 .. nextId - 1
           /\ OrderOf(e.id).status # "Cancelled"
<1> SUFFICES ASSUME NEW e \in Open(book)
             PROVE  /\ e \in OrderbookEntry /\ e.volume \in Nat
                    /\ e.id \in 0 .. nextId - 1
                    /\ OrderOf(e.id).status # "Cancelled"
  OBVIOUS
<1>0. TypeOK /\ nextId \in Nat
  BY DEF SessionInv, ExchangeTypeOK, TypeOK
<1>1. e \in OrderbookEntry /\ e.volume \in Nat /\ e.id \in Nat
  BY <1>0, OpenType, VolumesAreNaturals DEF OrderbookEntry
<1>2. PICK s \in DOMAIN book : \E i \in 1 .. Len(book[s]) : e = book[s][i]
  BY OpenIs
<1>3. e.id < nextId /\ OrderOf(e.id).status # "Cancelled"
  BY <1>2 DEF SessionInv, TimePriority, BookMatchesSession
<1> QED
  BY <1>0, <1>1, <1>3

\* Whatever waits in the buffer is left in the order.
LEMMA PendingIsLeft ==
  ASSUME SessionInv, Tally, NEW id \in 0 .. nextId - 1, OrderOf(id).status # "Cancelled"
  PROVE  Pending(transactionBuf, id) <= OrderOf(id).remaining
<1>0. transactionBuf \in Seq(ObTransaction)
  BY DEF SessionInv, ExchangeTypeOK, TypeOK
<1>1. Pending(transactionBuf, id) \in Nat
  BY <1>0, PendingType
<1>2. CASE Absent(book, id)
  BY <1>1, <1>2 DEF Tally
<1>3. CASE ~ Absent(book, id)
  <2>1. PICK e \in Open(book) : e.id = id
    BY <1>3, AbsentIs
  <2>2. OrderOf(id).remaining = e.volume + Pending(transactionBuf, id)
    BY <2>1 DEF Tally
  <2> QED
    BY <1>1, <2>1, <2>2, OpenIsPlaced
<1> QED
  BY <1>2, <1>3

\* A match takes from the maker's rest and from the taker what it buffers.
LEMMA FillKeepsTally ==
  ASSUME SessionInv, Tally, NEW p \in Prices, Fill(p), sessionOrders' = sessionOrders
  PROVE  Tally'
<1> DEFINE m == book[Opposing(p)][1]
           v == Lesser(remaining, m.volume)
           new == IF v = m.volume THEN {} ELSE {[m EXCEPT !.volume = m.volume - v]}
           trade == [price |-> p, volume |-> v, takerSide |-> taker.side,
                     maker |-> m.id, taker |-> nextId]
<1>0. TypeOK /\ TimePriority /\ RestsOnce /\ nextId \in Nat
  BY DEF SessionInv, ExchangeTypeOK, TypeOK
<1>1. /\ \A e : e \in Open(book') <=> (e \in Open(book) /\ e # m) \/ e \in new
      /\ m \in Open(book)
      /\ \A e \in Open(book) : e.id = m.id => e = m
  BY <1>0, FillOpen
<1>2. /\ transactionBuf' = Append(transactionBuf, trade)
      /\ remaining' = remaining - v
      /\ UNCHANGED <<taker, nextId>>
      /\ step = "match"
      /\ Opposing(p) \in DOMAIN book /\ book[Opposing(p)] # <<>>
  BY <1>0, NextLevelSlot DEF Fill
<1>3. /\ v \in Volume /\ v \in Nat /\ remaining \in Nat
      /\ m \in OrderbookEntry /\ m.volume \in Nat /\ m.id \in 0 .. nextId - 1 /\ m.id # nextId
  BY <1>0, <1>1, <1>2, MakerType, OpenIsPlaced, VolumesAreNaturals DEF TypeOK
<1>4. trade \in ObTransaction
  BY <1>0, <1>2, <1>3, TakerType DEF ObTransaction
<1>5. ASSUME NEW id
      PROVE  /\ Pending(transactionBuf, id) \in Nat
             /\ Pending(transactionBuf', id) = Pending(transactionBuf, id)
                  + (IF id \in {m.id, nextId} THEN v ELSE 0)
  <2>1. Share(trade, id) = IF id \in {m.id, nextId} THEN v ELSE 0
    BY DEF Share
  <2> HIDE DEF trade
  <2>2. Pending(Append(transactionBuf, trade), id)
          = Pending(transactionBuf, id) + Share(trade, id)
    BY <1>0, <1>4, PendingAppended
  <2>3. transactionBuf \in Seq(ObTransaction)
    BY <1>0 DEF TypeOK
  <2> QED
    BY <1>2, <2>1, <2>2, <2>3, PendingType
<1>6. \A e \in new : /\ v # m.volume /\ e.id = m.id /\ e.volume = m.volume - v
  BY <1>3 DEF OrderbookEntry
<1>7. v # m.volume => \E e \in new : e.id = m.id
  BY <1>3 DEF OrderbookEntry
<1>8. v = m.volume => new = {}
  OBVIOUS
<1> HIDE DEF m, v, new, trade
<1>9. ASSUME NEW e \in Open(book')
      PROVE  sessionOrders'[e.id + 1].remaining = e.volume + Pending(transactionBuf', e.id)
  <2>1. CASE e \in new
    <3>1. sessionOrders[m.id + 1].remaining = m.volume + Pending(transactionBuf, m.id)
      BY <1>1 DEF Tally, OrderOf
    <3>2. Pending(transactionBuf', m.id) = Pending(transactionBuf, m.id) + v
      BY <1>5
    <3>3. Pending(transactionBuf, m.id) \in Nat
      BY <1>5
    <3> QED
      BY <1>3, <1>6, <2>1, <3>1, <3>2, <3>3
  <2>2. CASE e \notin new
    <3>1. e \in Open(book) /\ e.id # m.id
      BY <1>1, <1>9, <2>2
    <3>2. e.id # nextId
      BY <1>0, <3>1, OpenIsPlaced
    <3>3. Pending(transactionBuf', e.id) = Pending(transactionBuf, e.id)
      BY <1>5, <3>1, <3>2
    <3>4. OrderOf(e.id).remaining = e.volume + Pending(transactionBuf, e.id)
      BY <3>1 DEF Tally
    <3> QED
      BY <3>3, <3>4 DEF OrderOf
  <2> QED
    BY <2>1, <2>2
<1>10. ASSUME NEW id \in 0 .. nextId' - 1, Absent(book', id),
              sessionOrders'[id + 1].status # "Cancelled"
       PROVE  sessionOrders'[id + 1].remaining = Pending(transactionBuf', id)
  <2>1. id \in 0 .. nextId - 1 /\ id # nextId
    BY <1>0, <1>2
  <2>2. \A e \in Open(book') : e.id # id
    BY <1>10, AbsentIs
  <2>3. CASE id = m.id
    <3>1. v = m.volume
      BY <1>1, <1>7, <2>2, <2>3
    <3>2. OrderOf(m.id).remaining = m.volume + Pending(transactionBuf, m.id)
      BY <1>1 DEF Tally
    <3>3. /\ Pending(transactionBuf', m.id) = Pending(transactionBuf, m.id) + v
          /\ Pending(transactionBuf, m.id) \in Nat
      BY <1>5
    <3> QED
      BY <1>3, <2>3, <3>1, <3>2, <3>3 DEF OrderOf
  <2>4. CASE id # m.id
    <3>1. \A e \in Open(book) : e.id # id
      BY <1>1, <2>2, <2>4
    <3>2. Absent(book, id)
      BY <3>1, AbsentIs
    <3>3. OrderOf(id).remaining = Pending(transactionBuf, id)
      BY <1>10, <2>1, <3>2 DEF Tally, OrderOf
    <3>4. Pending(transactionBuf', id) = Pending(transactionBuf, id)
      BY <1>5, <2>1, <2>4
    <3> QED
      BY <3>3, <3>4 DEF OrderOf
  <2> QED
    BY <2>3, <2>4
<1>11. remaining' + Pending(transactionBuf', nextId') = taker'.volume
  <2>1. remaining + Pending(transactionBuf, nextId) = taker.volume
    BY <1>2 DEF Tally
  <2>2. /\ Pending(transactionBuf', nextId) = Pending(transactionBuf, nextId) + v
        /\ Pending(transactionBuf, nextId) \in Nat
    BY <1>5
  <2> QED
    BY <1>2, <1>3, <2>1, <2>2
<1> QED
  BY <1>9, <1>10, <1>11, TallyNext

\* The order that is placed has its whole volume left; what of it was matched
\* waits in the buffer, and the rest of it rests.
LEMMA PlaceKeepsTally ==
  ASSUME SessionInv, CrossInv, Tally, Remains, PlaceOrder
  PROVE  Tally' /\ Remains'
<1>0. /\ TypeOK /\ ExchangeTypeOK /\ EnterOrder /\ nextId \in Nat
      /\ nextId = Len(sessionOrders)
  BY DEF SessionInv, ExchangeTypeOK, TypeOK, PlaceOrder
<1>1. /\ nextId' = nextId + 1 /\ transactionBuf' = transactionBuf
      /\ step = "enter" /\ step' = "settle"
  BY <1>0 DEF EnterOrder
<1>2. /\ \A k \in 1 .. nextId : sessionOrders'[k] = sessionOrders[k]
      /\ sessionOrders'[nextId + 1].remaining = taker.volume
      /\ sessionOrders'[nextId + 1].volume = taker.volume
      /\ sessionOrders'[nextId + 1].status = "AwaitingFill"
  BY <1>0, PlaceSession DEF PlacedFromTaker
<1>3. \A e : e \in Open(book') <=> e \in Open(book) \/ (remaining > 0 /\ e = RestingEntry)
  BY <1>0, EnterOpen
<1>4. /\ remaining + Pending(transactionBuf, nextId) = taker.volume
      /\ remaining \in Nat /\ Pending(transactionBuf, nextId) \in Nat
  <2>1. transactionBuf \in Seq(ObTransaction) /\ remaining \in Volume
    BY <1>0 DEF TypeOK
  <2> QED
    BY <1>1, <2>1, PendingType, VolumesAreNaturals DEF Tally
<1>5. RestingEntry.id = nextId /\ RestingEntry.volume = remaining
  BY DEF RestingEntry
<1>6. ASSUME NEW id \in 0 .. nextId - 1 PROVE sessionOrders'[id + 1] = OrderOf(id)
  BY <1>0, <1>2 DEF OrderOf
<1>7. ASSUME NEW e \in Open(book')
      PROVE  sessionOrders'[e.id + 1].remaining = e.volume + Pending(transactionBuf', e.id)
  <2>1. CASE e \in Open(book)
    BY <1>0, <1>1, <1>6, <2>1, OpenIsPlaced DEF Tally
  <2>2. CASE e = RestingEntry
    BY <1>1, <1>2, <1>4, <1>5, <2>2
  <2> QED
    BY <1>3, <2>1, <2>2
<1>8. ASSUME NEW id \in 0 .. nextId' - 1, Absent(book', id),
             sessionOrders'[id + 1].status # "Cancelled"
      PROVE  sessionOrders'[id + 1].remaining = Pending(transactionBuf', id)
  <2>1. \A e \in Open(book') : e.id # id
    BY <1>8, AbsentIs
  <2>2. CASE id = nextId
    <3>1. ~ (remaining > 0)
      BY <1>3, <1>5, <2>1, <2>2
    <3> QED
      BY <1>1, <1>2, <1>4, <2>2, <3>1
  <2>3. CASE id # nextId
    <3>1. id \in 0 .. nextId - 1
      BY <1>0, <1>1, <2>3
    <3>2. \A e \in Open(book) : e.id # id
      BY <1>3, <2>1
    <3>3. Absent(book, id)
      BY <3>2, AbsentIs
    <3> QED
      BY <1>1, <1>6, <1>8, <3>1, <3>3 DEF Tally
  <2> QED
    BY <2>2, <2>3
<1>9. Tally'
  BY <1>1, <1>7, <1>8, TallyNext
<1>10. ASSUME NEW id \in 0 .. nextId' - 1
       PROVE  /\ sessionOrders'[id + 1].status = "Filled" => sessionOrders'[id + 1].remaining = 0
              /\ sessionOrders'[id + 1].remaining <= sessionOrders'[id + 1].volume
  <2>1. CASE id = nextId
    BY <1>2, <1>4, <2>1
  <2>2. CASE id # nextId
    <3>1. id \in 0 .. nextId - 1
      BY <1>0, <1>1, <2>2
    <3> QED
      BY <1>6, <3>1 DEF Remains
  <2> QED
    BY <2>1, <2>2
<1> QED
  BY <1>9, <1>10 DEF Remains, OrderOf

\* Settlement takes the share of the transaction, without wrapping around.
LEMMA SettledOrder ==
  ASSUME SessionInv, Tally, SettleTransaction, NEW id \in 0 .. nextId - 1
  PROVE  /\ Share(Trade, id) \in Nat
         /\ Share(Trade, id) <= OrderOf(id).remaining
         /\ sessionOrders'[id + 1].remaining = OrderOf(id).remaining - Share(Trade, id)
         /\ SameTerms(sessionOrders'[id + 1], OrderOf(id))
         /\ sessionOrders'[id + 1].volume = OrderOf(id).volume
         /\ \/ sessionOrders'[id + 1].status = OrderOf(id).status
            \/ /\ sessionOrders'[id + 1].status = "Filled"
               /\ sessionOrders'[id + 1].remaining = 0
               /\ OrderOf(id).status # "Cancelled"
<1> DEFINE o == OrderOf(id)
           w == sessionOrders'[id + 1]
<1>0. /\ TypeOK /\ ExchangeTypeOK /\ transactionBuf # <<>> /\ step = "settle"
      /\ transactionBuf \in Seq(ObTransaction)
  BY DEF SessionInv, ExchangeTypeOK, TypeOK, SettleTransaction, PopTransaction
<1>1. /\ id \in Nat /\ id + 1 \in 1 .. Len(sessionOrders)
      /\ o \in PlacedOrder /\ o.remaining \in Nat /\ o.volume \in Nat
  BY <1>0, OrderPlaced
<1>2. /\ Trade \in ObTransaction
      /\ Trade.volume \in Volume /\ Trade.volume \in Nat
      /\ Trade.maker \in Nat /\ Trade.taker \in Nat
  BY <1>0, TradeType, VolumesAreNaturals DEF ObTransaction
<1>3. w = IF id + 1 \in {Trade.maker + 1, Trade.taker + 1}
            THEN AfterTrade(o, Trade.volume) ELSE o
  BY <1>0, <1>1, SettleSession DEF OrderOf
<1>4. id + 1 \in {Trade.maker + 1, Trade.taker + 1} <=> id \in {Trade.maker, Trade.taker}
  BY <1>1, <1>2
<1>5. CASE id \notin {Trade.maker, Trade.taker}
  <2>1. w = o /\ Share(Trade, id) = 0
    BY <1>3, <1>4, <1>5 DEF Share
  <2> QED
    BY <1>1, <2>1 DEF SameTerms
<1>6. CASE id \in {Trade.maker, Trade.taker}
  <2>1. o.status # "Cancelled"
    <3>1. Len(transactionBuf) \in 1 .. Len(transactionBuf) /\ Trade = transactionBuf[Len(transactionBuf)]
      BY <1>0, TradeType
    <3>2. /\ OrderOf(Trade.maker).status # "Cancelled"
          /\ Trade.taker = nextId - 1
          /\ OrderOf(nextId - 1).status # "Cancelled"
      BY <1>0, <3>1 DEF SessionInv, MakersDone
    <3> QED
      BY <1>6, <3>2
  <2>2. Pending(transactionBuf, id) <= o.remaining
    BY <2>1, PendingIsLeft
  <2>3. Share(Trade, id) = Trade.volume
    BY <1>6 DEF Share
  <2>4. Trade.volume <= o.remaining
    <3>1. /\ Pending(transactionBuf, id) = Pending(Front(transactionBuf), id) + Trade.volume
          /\ Pending(Front(transactionBuf), id) \in Nat
      BY <1>0, <2>3, PendingFront
    <3> QED
      BY <1>1, <1>2, <2>2, <3>1
  <2>5. w = AfterTrade(o, Trade.volume)
    BY <1>3, <1>4, <1>6
  <2>6. WrapVolume(o.remaining - Trade.volume) = o.remaining - Trade.volume
    <3>1. o.remaining \in 0 .. VolumeMod - 1 /\ VolumeMod \in Nat \ {0}
      BY <1>1, OrderbookAssumption DEF PlacedOrder, Volume
    <3>2. o.remaining - Trade.volume \in 0 .. VolumeMod - 1
      BY <1>1, <1>2, <2>4, <3>1
    <3> QED
      BY <3>1, <3>2 DEF WrapVolume
  <2> HIDE DEF o, w
  <2>7. /\ w.remaining = o.remaining - Trade.volume
        /\ w.volume = o.volume
        /\ w.status = IF o.remaining - Trade.volume = 0 THEN "Filled" ELSE o.status
        /\ SameTerms(w, o)
    BY <1>1, <2>5, <2>6 DEF AfterTrade, PlacedOrder, SameTerms
  <2> QED
    BY <1>2, <2>1, <2>3, <2>4, <2>7 DEF o, w
<1> QED
  BY <1>5, <1>6

LEMMA SettleKeepsTally ==
  ASSUME SessionInv, Tally, Remains, SettleTransaction
  PROVE  Tally' /\ Remains'
<1>0. /\ TypeOK /\ ExchangeTypeOK /\ step = "settle" /\ step' = "settle"
      /\ transactionBuf # <<>> /\ transactionBuf' = Front(transactionBuf)
      /\ UNCHANGED <<book, nextId>>
  BY DEF SessionInv, ExchangeTypeOK, SettleTransaction, PopTransaction
<1>1. ASSUME NEW id
      PROVE  /\ Pending(transactionBuf, id) = Pending(transactionBuf', id) + Share(Trade, id)
             /\ Pending(transactionBuf', id) \in Nat
  BY <1>0, PendingFront
<1>2. ASSUME NEW e \in Open(book')
      PROVE  sessionOrders'[e.id + 1].remaining = e.volume + Pending(transactionBuf', e.id)
  <2>1. e \in Open(book) /\ e.id \in 0 .. nextId - 1 /\ e.volume \in Nat
    BY <1>0, <1>2, OpenIsPlaced
  <2>2. OrderOf(e.id).remaining = e.volume + Pending(transactionBuf, e.id)
    BY <2>1 DEF Tally
  <2>3. /\ sessionOrders'[e.id + 1].remaining = OrderOf(e.id).remaining - Share(Trade, e.id)
        /\ Share(Trade, e.id) \in Nat
    BY <2>1, SettledOrder
  <2>4. /\ Pending(transactionBuf, e.id) = Pending(transactionBuf', e.id) + Share(Trade, e.id)
        /\ Pending(transactionBuf', e.id) \in Nat
    BY <1>1
  <2> QED
    BY <2>1, <2>2, <2>3, <2>4
<1>3. ASSUME NEW id \in 0 .. nextId' - 1, Absent(book', id),
             sessionOrders'[id + 1].status # "Cancelled"
      PROVE  sessionOrders'[id + 1].remaining = Pending(transactionBuf', id)
  <2>1. id \in 0 .. nextId - 1 /\ Absent(book, id)
    BY <1>0, <1>3
  <2>2. /\ sessionOrders'[id + 1].remaining = OrderOf(id).remaining - Share(Trade, id)
        /\ Share(Trade, id) \in Nat
        /\ OrderOf(id).status # "Cancelled"
    BY <1>3, <2>1, SettledOrder
  <2>3. OrderOf(id).remaining = Pending(transactionBuf, id)
    BY <2>1, <2>2 DEF Tally
  <2>4. /\ Pending(transactionBuf, id) = Pending(transactionBuf', id) + Share(Trade, id)
        /\ Pending(transactionBuf', id) \in Nat
    BY <1>1
  <2> QED
    BY <2>2, <2>3, <2>4
<1>4. Tally'
  BY <1>0, <1>2, <1>3, TallyNext
<1>5. ASSUME NEW id \in 0 .. nextId' - 1
      PROVE  /\ sessionOrders'[id + 1].status = "Filled" => sessionOrders'[id + 1].remaining = 0
             /\ sessionOrders'[id + 1].remaining <= sessionOrders'[id + 1].volume
  <2>1. id \in 0 .. nextId - 1
    BY <1>0
  <2>2. /\ OrderOf(id).status = "Filled" => OrderOf(id).remaining = 0
        /\ OrderOf(id).remaining <= OrderOf(id).volume
    BY <2>1 DEF Remains
  <2>3. OrderOf(id).remaining \in Nat /\ OrderOf(id).volume \in Nat
    BY <1>0, <2>1, OrderPlaced
  <2> QED
    BY <2>1, <2>2, <2>3, SettledOrder
<1> QED
  BY <1>4, <1>5 DEF Remains, OrderOf

\* A cancellation ends the tally of its order and leaves the others alone.
LEMMA CancelKeepsTally ==
  ASSUME SessionInv, Tally, Remains, NEW account, NEW id \in 0 .. MaxOrders - 1,
         CancelPlaced(account, id)
  PROVE  Tally' /\ Remains'
<1>0. TypeOK /\ ExchangeTypeOK /\ TimePriority /\ RestsOnce /\ id \in Nat
  BY CancelSession DEF SessionInv, ExchangeTypeOK
<1>1. CancelOrder(SlotOf(OrderOf(id)), id)
  BY <1>0, CancelIsOrderbookStep
<1>2. step = "idle" /\ step' = "idle" /\ UNCHANGED <<nextId, transactionBuf>>
  BY <1>1 DEF CancelOrder
<1>3. PICK m \in Open(book) : m.id = id /\ \A e : e \in Open(book') <=> e \in Open(book) /\ e # m
  BY <1>0, <1>1, CancelOpen
<1>4. /\ \A k \in 1 .. Len(sessionOrders) : k # id + 1 => sessionOrders'[k] = sessionOrders[k]
      /\ IsPlaced(id) /\ OrderOf(id).status = "AwaitingFill"
      /\ sessionOrders' =
           [sessionOrders EXCEPT ![id + 1] = [OrderOf(id) EXCEPT !.status = "Cancelled"]]
  BY <1>0, CancelSession
<1>5. \A k \in 0 .. nextId - 1 : k # id => sessionOrders'[k + 1] = OrderOf(k)
  <2> SUFFICES ASSUME NEW k \in 0 .. nextId - 1, k # id PROVE sessionOrders'[k + 1] = OrderOf(k)
    OBVIOUS
  <2>1. k + 1 \in 1 .. Len(sessionOrders) /\ k + 1 # id + 1
    BY <1>0, OrderPlaced
  <2> QED
    BY <1>4, <2>1 DEF OrderOf
<1>6. /\ sessionOrders'[id + 1].status = "Cancelled"
      /\ sessionOrders'[id + 1].remaining = OrderOf(id).remaining
      /\ sessionOrders'[id + 1].volume = OrderOf(id).volume
  <2>1. OrderOf(id) \in PlacedOrder
    BY <1>0, <1>4, PlacedType
  <2>2. sessionOrders'[id + 1] = [OrderOf(id) EXCEPT !.status = "Cancelled"]
    BY <1>4 DEF IsPlaced
  <2> QED
    BY <2>1, <2>2 DEF PlacedOrder
<1>7. Absent(book', id)
  <2>1. SlotOf(OrderOf(id)) \in Slots
    BY <1>0, CancelIsOrderbookStep
  <2> QED
    BY <1>0, <1>1, <2>1, CancelledIsGone
<1>8. \A e \in Open(book') : e \in Open(book) /\ e.id \in 0 .. nextId - 1 /\ e.id # id
  BY <1>3, <1>7, AbsentIs, OpenIsPlaced
<1>9. \A e \in Open(book') :
        sessionOrders'[e.id + 1].remaining = e.volume + Pending(transactionBuf', e.id)
  BY <1>2, <1>5, <1>8 DEF Tally
<1>10. ASSUME NEW k \in 0 .. nextId' - 1, Absent(book', k),
              sessionOrders'[k + 1].status # "Cancelled"
       PROVE  sessionOrders'[k + 1].remaining = Pending(transactionBuf', k)
  <2>1. k \in 0 .. nextId - 1 /\ k # id
    BY <1>2, <1>6, <1>10
  <2>2. \A e \in Open(book) : e.id # k
    BY <1>3, <1>10, <2>1, AbsentIs
  <2>3. Absent(book, k)
    BY <2>2, AbsentIs
  <2> QED
    BY <1>2, <1>5, <1>10, <2>1, <2>3 DEF Tally
<1>11. Tally'
  BY <1>2, <1>9, <1>10, TallyNext
<1>12. ASSUME NEW k \in 0 .. nextId' - 1
       PROVE  /\ sessionOrders'[k + 1].status = "Filled" => sessionOrders'[k + 1].remaining = 0
              /\ sessionOrders'[k + 1].remaining <= sessionOrders'[k + 1].volume
  <2>1. k \in 0 .. nextId - 1
    BY <1>2
  <2>2. /\ OrderOf(k).status = "Filled" => OrderOf(k).remaining = 0
        /\ OrderOf(k).remaining <= OrderOf(k).volume
    BY <2>1 DEF Remains
  <2> QED
    BY <1>5, <1>6, <2>1, <2>2
<1> QED
  BY <1>11, <1>12 DEF Remains, OrderOf

LEMMA TallyInit == ExchangeInit => Tally /\ Remains
  BY DEF ExchangeInit, Init, Tally, Remains, Open

LEMMA TallyStep ==
  ASSUME SessionInv, CrossInv, FillsInv, Tally, Remains, [ExchangeNext]_exchangeVars,
         [NoSelfTrade]_vars, [NoModification]_exchangeVars
  PROVE  Tally' /\ Remains'
<1>0. TypeOK /\ ExchangeTypeOK /\ nextId \in Nat
  BY DEF SessionInv, ExchangeTypeOK, TypeOK
<1>1. ASSUME UNCHANGED <<nextId, sessionOrders>> PROVE Remains'
  BY <1>1 DEF Remains, OrderOf
<1>2. ASSUME UNCHANGED <<book, nextId, transactionBuf, sessionOrders>>,
             step' \in {"match", "enter"} =>
               step \in {"match", "enter"} /\ UNCHANGED <<taker, remaining>>
      PROVE  Tally' /\ Remains'
  <2>1. Tally'
    BY <1>2, TallyNext DEF Tally, OrderOf
  <2> QED
    BY <1>1, <1>2, <2>1
<1>3. ASSUME NEW pair \in Pairs, CreateMarket(pair) PROVE Tally' /\ Remains'
  BY <1>2, <1>3 DEF CreateMarket, AddMarket, insertionVars
<1>4. ASSUME NEW request \in Insertions, InsertOrder(request) PROVE Tally' /\ Remains'
  <2>1. /\ step = "idle" /\ transactionBuf = <<>> /\ remaining' = taker'.volume
        /\ UNCHANGED <<book, nextId, transactionBuf, sessionOrders>>
        /\ remaining' = request.volume
    BY <1>4 DEF InsertOrder, BeginInsert, FillsInv, BufferInv
  <2>2. request.volume \in Nat
    BY OrderbookAssumption, VolumesAreNaturals DEF OrderInsertionRequest
  <2>3. remaining' + Pending(transactionBuf', nextId') = taker'.volume
    BY <2>1, <2>2, PendingEmpty
  <2>4. Tally'
    BY <2>1, <2>3, TallyNext DEF Tally, OrderOf
  <2> QED
    BY <1>1, <2>1, <2>4
<1>5. CASE MatchOrder
  <2>1. sessionOrders' = sessionOrders
    BY <1>5 DEF MatchOrder
  <2>2. ASSUME NEW p \in Prices, Fill(p) PROVE Tally' /\ Remains'
    <3>1. UNCHANGED <<nextId, sessionOrders>>
      BY <2>1, <2>2 DEF Fill
    <3>2. Tally'
      BY <2>1, <2>2, FillKeepsTally
    <3> QED
      BY <1>1, <3>1, <3>2
  <2>3. ASSUME NEW p \in Prices, AbortSelfTrade(p) PROVE Tally' /\ Remains'
    <3>1. vars' = vars
      BY <2>3 DEF NoSelfTrade
    <3> QED
      BY <1>2, <2>1, <3>1 DEF vars, insertionVars
  <2>4. ASSUME NEW p \in Prices, PassLevel(p) PROVE Tally' /\ Remains'
    BY <1>2, <2>1, <2>4 DEF PassLevel
  <2>5. CASE StopMatching
    BY <1>2, <2>1, <2>5 DEF StopMatching, insertionVars
  <2> QED
    BY <1>5, <2>2, <2>3, <2>4, <2>5 DEF MatchOrder
<1>6. CASE PlaceOrder
  BY <1>6, PlaceKeepsTally
<1>7. CASE SettleTransaction
  BY <1>7, SettleKeepsTally
<1>8. CASE CompleteInsert
  BY <1>2, <1>8 DEF CompleteInsert, FinishInsert
<1>9. ASSUME NEW account \in AccountIds, NEW id \in 0 .. MaxOrders - 1,
             CancelPlaced(account, id)
      PROVE  Tally' /\ Remains'
  BY <1>9, CancelKeepsTally
<1>10. ASSUME NEW account \in AccountIds, NEW id \in 0 .. MaxOrders - 1,
              NEW newVolume \in NewVolumes, ModifyPlaced(account, id, newVolume)
       PROVE  Tally' /\ Remains'
  <2>1. exchangeVars' = exchangeVars
    BY <1>10 DEF NoModification
  <2> QED
    BY <1>2, <2>1 DEF exchangeVars, vars, insertionVars
<1>11. CASE Refuse \/ Panic \/ Dead \/ UNCHANGED exchangeVars
  BY <1>2, <1>11 DEF Refuse, Panic, Dead, exchangeVars, vars, insertionVars
<1> QED
  BY <1>3, <1>4, <1>5, <1>6, <1>7, <1>8, <1>9, <1>10, <1>11 DEF ExchangeNext

\* Between commands nothing is pending, so the tally relates book and session.
LEMMA TallyRests ==
  ASSUME SessionInv, FillsInv, LiveInv, Tally, Remains
  PROVE  RestingMatchesSession
<1> SUFFICES ASSUME step = "idle", NEW id \in 0 .. Len(sessionOrders) - 1
             PROVE  LET order == OrderOf(id)
                        s == SlotOf(order)
                    IN  IF order.status = "AwaitingFill" /\ order.remaining > 0
                          THEN \E i \in 1 .. Len(IF s \in DOMAIN book THEN book[s] ELSE <<>>) :
                                 book[s][i].id = id /\ book[s][i].volume = order.remaining
                          ELSE ~ Rests(id)
  BY DEF RestingMatchesSession
<1> DEFINE o == OrderOf(id)
           s == SlotOf(o)
<1>0. /\ ExchangeTypeOK /\ TypeOK /\ transactionBuf = <<>> /\ id \in 0 .. nextId - 1
      /\ Pending(transactionBuf, id) = 0
  BY PendingEmpty DEF SessionInv, ExchangeTypeOK, FillsInv, BufferInv
<1>1. o.remaining \in Nat /\ o.status \in Status
  BY <1>0, OrderPlaced DEF PlacedOrder
<1>2. ASSUME NEW t \in DOMAIN book, NEW i \in 1 .. Len(book[t]), book[t][i].id = id
      PROVE  /\ t = s /\ o.status # "Cancelled"
             /\ o.remaining = book[t][i].volume
             /\ o.remaining > 0
  <2>1. t = s /\ o.status # "Cancelled"
    BY <1>2 DEF SessionInv, BookMatchesSession
  <2>2. book[t][i] \in Open(book)
    BY OpenIs
  <2>3. book[t][i].volume \in Nat /\ book[t][i].volume > 0
    BY <2>2, OpenIsPlaced DEF LiveInv, Positive
  <2>4. o.remaining = book[t][i].volume + Pending(transactionBuf, id)
    BY <1>2, <2>2 DEF Tally
  <2> QED
    BY <1>0, <2>1, <2>3, <2>4
<1>3. CASE o.status = "AwaitingFill" /\ o.remaining > 0
  <2>1. ~ Absent(book, id)
    BY <1>0, <1>3 DEF Tally
  <2>2. PICK t \in DOMAIN book : \E i \in 1 .. Len(book[t]) : book[t][i].id = id
    BY <2>1 DEF Absent
  <2>3. PICK i \in 1 .. Len(book[t]) : book[t][i].id = id
    BY <2>2
  <2>4. t = s /\ book[s][i].id = id /\ book[s][i].volume = o.remaining /\ s \in DOMAIN book
    BY <1>2, <2>3
  <2> HIDE DEF o, s
  <2>5. \E j \in 1 .. Len(IF s \in DOMAIN book THEN book[s] ELSE <<>>) :
          book[s][j].id = id /\ book[s][j].volume = o.remaining
    BY <2>3, <2>4
  <2> QED
    BY <1>3, <2>5 DEF o, s
<1>4. CASE ~ (o.status = "AwaitingFill" /\ o.remaining > 0)
  <2>1. ~ Rests(id)
    <3> SUFFICES ASSUME Rests(id) PROVE FALSE
      OBVIOUS
    <3>1. PICK i \in 1 .. Len(book[s]) : s \in DOMAIN book /\ book[s][i].id = id
      BY DEF Rests, Positions
    <3>2. o.status # "Cancelled" /\ o.remaining > 0
      BY <1>2, <3>1
    <3>3. o.status = "Filled" => o.remaining = 0
      BY <1>0 DEF Remains
    <3> QED
      BY <1>1, <1>4, <3>2, <3>3 DEF Status
  <2> QED
    BY <1>4, <2>1
<1> QED
  BY <1>3, <1>4

(***************************************************************************)
(* Unless an insertion is aborted by a self-trade or an order is modified, *)
(* the book holds between commands exactly the orders of the session that  *)
(* await a fill with volume left, each with that volume.                   *)
(***************************************************************************)
THEOREM RestingMatchesSessionHolds ==
  ExchangeSpec /\ [][NoSelfTrade]_vars /\ [][NoModification]_exchangeVars
    => []RestingMatchesSession
<1>1. ExchangeInit => Init
  BY DEF ExchangeInit
<1>2. ExchangeTypeOK /\ [ExchangeNext]_exchangeVars => TypeOK /\ [Next]_vars
  BY OrderbookStep DEF ExchangeTypeOK
<1>3. SessionInv => ExchangeTypeOK /\ TypeOK
  BY DEF SessionInv, ExchangeTypeOK
<1>4. /\ TypeOK /\ CrossInv /\ LiveInv /\ [Next]_vars /\ [NoSelfTrade]_vars => LiveInv'
      /\ TypeOK /\ CrossInv /\ [Next]_vars => CrossInv'
      /\ TypeOK /\ FillsInv /\ [Next]_vars /\ [NoSelfTrade]_vars => FillsInv'
  BY LiveStep, CrossStep, FillsStep
<1>5. SessionInv /\ CrossInv /\ FillsInv /\ Tally /\ Remains /\ [ExchangeNext]_exchangeVars
        /\ [NoSelfTrade]_vars /\ [NoModification]_exchangeVars => Tally' /\ Remains'
  BY TallyStep
<1>6. SessionInv /\ FillsInv /\ LiveInv /\ Tally /\ Remains => RestingMatchesSession
  BY TallyRests
<1>7. Init => CrossInv /\ FillsInv /\ LiveInv
  BY CrossInit, FillsInit, LiveInit
<1> QED
  BY <1>1, <1>2, <1>3, <1>4, <1>5, <1>6, <1>7, SessionInvariant, TallyInit, PTL
  DEF ExchangeSpec

\* In particular when every account keeps to one side of a pair, as the
\* accounts of market_enforcers.py do, which modify no orders either.
THEOREM RestingMatchesSessionOneSided ==
  ASSUME OneSidePerAccount, NewVolumes = {}
  PROVE  ExchangeSpec => []RestingMatchesSession
<1>1. NoModification
  BY DEF NoModification
<1>2. [NoModification]_exchangeVars
  BY <1>1
<1>3. ExchangeSpec => Spec
  BY ExchangeImplementsOrderbook DEF ImplementsOrderbook
<1> QED
  BY <1>2, <1>3, OneSidedNeverSelfTrades, RestingMatchesSessionHolds, PTL

(***************************************************************************)
(* The parties of the transactions in the buffer: where no insertion is    *)
(* aborted by a self-trade, they are those of the insertion in progress,   *)
(* and each was made with another account's order on the other side of the *)
(* same pair, at that order's price, within the taker's limit.             *)
(***************************************************************************)
Deals(trade, maker, order) ==
  /\ maker.account # order.account
  /\ maker.pair = order.pair
  /\ maker.side = Other(order.side)
  /\ maker.price = trade.price
  /\ trade.takerSide = order.side
  /\ WithinLimit(order, trade.price)

PartiesInv ==
  step # "idle" =>
    /\ \A i \in 1 .. Len(transactionBuf) :
         Deals(transactionBuf[i], OrderOf(transactionBuf[i].maker), taker)
    /\ step = "settle" => SameTerms(OrderOf(nextId - 1), taker)

LEMMA PartiesNext ==
  ASSUME step' # "idle" =>
           /\ \A i \in 1 .. Len(transactionBuf') :
                Deals(transactionBuf'[i], sessionOrders'[transactionBuf'[i].maker + 1], taker')
           /\ step' = "settle" => SameTerms(sessionOrders'[nextId' - 1 + 1], taker')
  PROVE  PartiesInv'
  BY DEF PartiesInv, OrderOf, Deals, SameTerms, WithinLimit

\* The orders of the transactions that wait.
LEMMA MakersPlaced ==
  ASSUME SessionInv
  PROVE  /\ Len(transactionBuf) \in Nat
         /\ \A i \in 1 .. Len(transactionBuf) :
              /\ transactionBuf[i].maker + 1 \in 1 .. Len(sessionOrders)
              /\ transactionBuf[i].maker \in 0 .. nextId - 1
<1>1. ExchangeTypeOK /\ nextId \in Nat
  BY DEF SessionInv, ExchangeTypeOK, TypeOK
<1>2. ASSUME NEW i \in 1 .. Len(transactionBuf)
      PROVE  /\ transactionBuf[i].maker + 1 \in 1 .. Len(sessionOrders)
             /\ transactionBuf[i].maker \in 0 .. nextId - 1
  <2>1. transactionBuf[i].maker \in Nat /\ transactionBuf[i].taker \in Nat
    BY <1>1, BufferType
  <2>2. /\ transactionBuf[i].maker < transactionBuf[i].taker
        /\ transactionBuf[i].taker \in {nextId, nextId - 1}
    BY DEF SessionInv, MakersDone
  <2>3. transactionBuf[i].maker < nextId
    BY <1>1, <2>1, <2>2
  <2> QED
    BY <1>1, <2>1, <2>3, MakerIsPlaced
<1> QED
  BY <1>1, <1>2, BufferType

\* Steps that add no transaction and keep the terms of the orders.
LEMMA PartiesKept ==
  ASSUME SessionInv, PartiesInv, nextId' = nextId,
         step' # "idle" => step # "idle" /\ taker' = taker,
         step' = "settle" => step = "settle",
         Len(transactionBuf') \in Nat, Len(transactionBuf') <= Len(transactionBuf),
         \A i \in 1 .. Len(transactionBuf') : transactionBuf'[i] = transactionBuf[i],
         \A k \in 1 .. Len(sessionOrders) : SameTerms(sessionOrders'[k], sessionOrders[k])
  PROVE  PartiesInv'
<1> SUFFICES ASSUME step' # "idle"
             PROVE  /\ \A i \in 1 .. Len(transactionBuf') :
                         Deals(transactionBuf'[i], sessionOrders'[transactionBuf'[i].maker + 1],
                               taker')
                    /\ step' = "settle" => SameTerms(sessionOrders'[nextId' - 1 + 1], taker')
  BY PartiesNext
<1>1. ASSUME NEW i \in 1 .. Len(transactionBuf')
      PROVE  Deals(transactionBuf'[i], sessionOrders'[transactionBuf'[i].maker + 1], taker')
  <2>1. i \in 1 .. Len(transactionBuf) /\ Len(transactionBuf) \in Nat
    BY MakersPlaced
  <2>2. transactionBuf[i].maker + 1 \in 1 .. Len(sessionOrders)
    BY <2>1, MakersPlaced
  <2>3. Deals(transactionBuf[i], sessionOrders[transactionBuf[i].maker + 1], taker)
    BY <2>1 DEF PartiesInv, OrderOf
  <2>4. /\ transactionBuf'[i] = transactionBuf[i] /\ taker' = taker
        /\ SameTerms(sessionOrders'[transactionBuf[i].maker + 1],
                     sessionOrders[transactionBuf[i].maker + 1])
    BY <1>1, <2>2
  <2> QED
    BY <2>3, <2>4 DEF Deals, SameTerms
<1>2. ASSUME step' = "settle" PROVE SameTerms(sessionOrders'[nextId' - 1 + 1], taker')
  <2>1. nextId \in Nat /\ nextId > 0 /\ nextId = Len(sessionOrders)
    BY <1>2 DEF SessionInv, ExchangeTypeOK, TypeOK, MakersDone
  <2>2. nextId - 1 + 1 \in 1 .. Len(sessionOrders)
    BY <2>1
  <2>3. SameTerms(sessionOrders[nextId - 1 + 1], taker) /\ taker' = taker
    BY <1>2 DEF PartiesInv, OrderOf
  <2>4. SameTerms(sessionOrders'[nextId - 1 + 1], sessionOrders[nextId - 1 + 1])
    BY <2>2
  <2> QED
    BY <2>3, <2>4 DEF SameTerms
<1> QED
  BY <1>1, <1>2

\* What a match appends.
LEMMA FillParties ==
  ASSUME SessionInv, PartiesInv, NEW p \in Prices, Fill(p), sessionOrders' = sessionOrders
  PROVE  PartiesInv'
<1> DEFINE m == book[Opposing(p)][1]
           v == Lesser(remaining, m.volume)
           trade == [price |-> p, volume |-> v, takerSide |-> taker.side,
                     maker |-> m.id, taker |-> nextId]
           n == Len(transactionBuf)
<1>0. TypeOK
  BY DEF SessionInv, ExchangeTypeOK
<1>1. /\ transactionBuf' = Append(transactionBuf, trade)
      /\ taker' = taker /\ step = "match" /\ step' \in {"match", "enter"}
      /\ Opposing(p) \in DOMAIN book /\ book[Opposing(p)] # <<>>
      /\ m.account # taker.account /\ IsNext(p)
  BY <1>0, NextLevelSlot DEF Fill
<1>2. /\ n \in Nat /\ Len(transactionBuf') = n + 1
      /\ transactionBuf'[n + 1] = trade
      /\ \A i \in 1 .. n : transactionBuf'[i] = transactionBuf[i]
  BY <1>0, <1>1, AppendProperties, LenProperties DEF TypeOK
<1>3. 1 \in 1 .. Len(book[Opposing(p)])
  BY <1>0, <1>1, MakerType
<1>4. SlotOf(OrderOf(m.id)) = Opposing(p) /\ OrderOf(m.id).account = m.account
  BY <1>1, <1>3 DEF SessionInv, BookMatchesSession
<1>5. /\ OrderOf(m.id).pair = taker.pair
      /\ OrderOf(m.id).side = Other(taker.side)
      /\ OrderOf(m.id).price = p
  BY <1>4 DEF SlotOf, Opposing, Slot
<1>6. WithinLimit(taker, p)
  BY <1>1 DEF IsNext, Ahead
<1>7. /\ trade.maker = m.id /\ trade.price = p /\ trade.takerSide = taker.side
  OBVIOUS
<1> HIDE DEF m, trade, v
<1>8. Deals(trade, OrderOf(trade.maker), taker)
  BY <1>1, <1>4, <1>5, <1>6, <1>7 DEF Deals
<1>9. \A i \in 1 .. n : Deals(transactionBuf[i], OrderOf(transactionBuf[i].maker), taker)
  BY <1>1 DEF PartiesInv
<1>10. ASSUME NEW i \in 1 .. Len(transactionBuf')
       PROVE  Deals(transactionBuf'[i], sessionOrders'[transactionBuf'[i].maker + 1], taker')
  <2>1. i \in 1 .. n \/ i = n + 1
    BY <1>2
  <2> QED
    BY <1>1, <1>2, <1>8, <1>9, <2>1 DEF OrderOf
<1> QED
  BY <1>1, <1>10, PartiesNext

\* The order that is placed is the taker's.
LEMMA PlaceParties ==
  ASSUME SessionInv, PartiesInv, PlaceOrder
  PROVE  PartiesInv'
<1>0. /\ ExchangeTypeOK /\ nextId = Len(sessionOrders) /\ nextId \in Nat
  BY DEF SessionInv, ExchangeTypeOK, TypeOK
<1>1. /\ nextId' = nextId + 1 /\ transactionBuf' = transactionBuf /\ taker' = taker
      /\ step = "enter"
  BY DEF PlaceOrder, EnterOrder, insertionVars
<1>2. /\ \A k \in 1 .. nextId : sessionOrders'[k] = sessionOrders[k]
      /\ sessionOrders'[nextId + 1] = PlacedFromTaker
  BY <1>0, PlaceSession
<1>3. \A i \in 1 .. Len(transactionBuf) :
        Deals(transactionBuf[i], OrderOf(transactionBuf[i].maker), taker)
  BY <1>1 DEF PartiesInv
<1>4. ASSUME NEW i \in 1 .. Len(transactionBuf')
      PROVE  Deals(transactionBuf'[i], sessionOrders'[transactionBuf'[i].maker + 1], taker')
  <2>1. i \in 1 .. Len(transactionBuf)
    BY <1>1
  <2>2. transactionBuf[i].maker + 1 \in 1 .. nextId
    BY <1>0, <2>1, MakersPlaced
  <2> QED
    BY <1>1, <1>2, <1>3, <2>1, <2>2 DEF OrderOf
<1>5. SameTerms(sessionOrders'[nextId' - 1 + 1], taker')
  <2>1. nextId' - 1 + 1 = nextId + 1
    BY <1>0, <1>1
  <2> QED
    BY <1>1, <1>2, <2>1 DEF SameTerms, PlacedFromTaker
<1> QED
  BY <1>4, <1>5, PartiesNext

LEMMA SettleParties ==
  ASSUME SessionInv, PartiesInv, SettleTransaction
  PROVE  PartiesInv'
<1>0. ExchangeTypeOK /\ transactionBuf \in Seq(ObTransaction)
  BY DEF SessionInv, ExchangeTypeOK, TypeOK
<1>1. /\ transactionBuf # <<>> /\ transactionBuf' = Front(transactionBuf)
      /\ UNCHANGED <<nextId, taker, step>>
  BY DEF SettleTransaction, PopTransaction, insertionVars
<1>2. /\ Len(transactionBuf) \in Nat \ {0}
      /\ Len(transactionBuf') = Len(transactionBuf) - 1
      /\ \A i \in 1 .. Len(transactionBuf) - 1 : transactionBuf'[i] = transactionBuf[i]
  BY <1>0, <1>1, FrontOf, EmptySeq
<1>3. ASSUME NEW k \in 1 .. Len(sessionOrders)
      PROVE  SameTerms(sessionOrders'[k], sessionOrders[k])
  <2>1. /\ Trade.volume \in Volume
        /\ sessionOrders'[k] \in {AfterTrade(sessionOrders[k], Trade.volume), sessionOrders[k]}
    BY <1>0, <1>3, SettleSession DEF ObTransaction
  <2>2. sessionOrders[k] \in PlacedOrder
    BY <1>0, ElementOfSeq DEF ExchangeTypeOK
  <2>3. SameTerms(AfterTrade(sessionOrders[k], Trade.volume), sessionOrders[k])
    BY <2>1, <2>2, AfterTradeType
  <2> QED
    BY <2>1, <2>3 DEF SameTerms
<1>4. Len(transactionBuf') \in Nat /\ Len(transactionBuf') <= Len(transactionBuf)
  BY <1>2
<1> QED
  BY <1>1, <1>2, <1>3, <1>4, PartiesKept

LEMMA PartiesStep ==
  ASSUME SessionInv, BufferInv, PartiesInv, [ExchangeNext]_exchangeVars, [NoSelfTrade]_vars
  PROVE  PartiesInv'
<1>0. /\ ExchangeTypeOK /\ Len(transactionBuf) \in Nat
      /\ \A k \in 1 .. Len(sessionOrders) : SameTerms(sessionOrders[k], sessionOrders[k])
  BY MakersPlaced DEF SessionInv, SameTerms
<1>1. ASSUME step' = "idle" PROVE PartiesInv'
  BY <1>1 DEF PartiesInv
<1>2. ASSUME UNCHANGED <<nextId, transactionBuf, sessionOrders>>,
             step' # "idle" => step # "idle" /\ taker' = taker,
             step' = "settle" => step = "settle"
      PROVE  PartiesInv'
  BY <1>0, <1>2, PartiesKept
<1>3. ASSUME NEW pair \in Pairs, CreateMarket(pair) PROVE PartiesInv'
  BY <1>1, <1>3 DEF CreateMarket, AddMarket
<1>4. ASSUME NEW request \in Insertions, InsertOrder(request) PROVE PartiesInv'
  <2>1. transactionBuf' = <<>> /\ step' = "match"
    BY <1>4 DEF InsertOrder, BeginInsert, BufferInv
  <2> QED
    BY <2>1, PartiesNext
<1>5. CASE MatchOrder
  <2>1. sessionOrders' = sessionOrders
    BY <1>5 DEF MatchOrder
  <2>2. ASSUME NEW p \in Prices, Fill(p) PROVE PartiesInv'
    BY <2>1, <2>2, FillParties
  <2>3. ASSUME NEW p \in Prices, AbortSelfTrade(p) PROVE PartiesInv'
    BY <1>1, <2>3 DEF AbortSelfTrade
  <2>4. ASSUME NEW p \in Prices, PassLevel(p) PROVE PartiesInv'
    BY <1>2, <2>1, <2>4 DEF PassLevel
  <2>5. CASE StopMatching
    BY <1>2, <2>1, <2>5 DEF StopMatching, insertionVars
  <2> QED
    BY <1>5, <2>2, <2>3, <2>4, <2>5 DEF MatchOrder
<1>6. CASE PlaceOrder
  BY <1>6, PlaceParties
<1>7. CASE SettleTransaction
  BY <1>7, SettleParties
<1>8. CASE CompleteInsert
  BY <1>1, <1>8 DEF CompleteInsert, FinishInsert
<1>9. ASSUME NEW account \in AccountIds, NEW id \in 0 .. MaxOrders - 1,
             CancelPlaced(account, id)
      PROVE  PartiesInv'
  BY <1>1, <1>9 DEF CancelPlaced, CancelOrder
<1>10. ASSUME NEW account \in AccountIds, NEW id \in 0 .. MaxOrders - 1,
              NEW newVolume \in NewVolumes, ModifyPlaced(account, id, newVolume)
       PROVE  PartiesInv'
  BY <1>1, <1>10 DEF ModifyPlaced, ModifyOrder
<1>11. CASE Refuse \/ Panic \/ Dead \/ UNCHANGED exchangeVars
  BY <1>2, <1>11 DEF Refuse, Panic, Dead, exchangeVars, vars, insertionVars
<1> QED
  BY <1>3, <1>4, <1>5, <1>6, <1>7, <1>8, <1>9, <1>10, <1>11 DEF ExchangeNext

(***************************************************************************)
(* The `expect`s of the settlement: both orders exist and the four         *)
(* balances are different ones.                                            *)
(***************************************************************************)
PairsDiffer == \A pair \in Pairs : pair.primary # pair.secondary

LEMMA SettlementFindsItsCells ==
  ASSUME PairsDiffer, SessionInv, PartiesInv, step = "settle", transactionBuf # <<>>
  PROVE  /\ IdsAreValid(Trade) /\ CellsAreDisjoint(Trade)
         /\ Trade.maker \in 0 .. nextId - 1 /\ Trade.taker = nextId - 1
         /\ Trade.taker \in 0 .. nextId - 1
<1> DEFINE n == Len(transactionBuf)
<1>0. ExchangeTypeOK /\ nextId \in Nat
  BY DEF SessionInv, ExchangeTypeOK, TypeOK
<1>1. n \in 1 .. n /\ Trade = transactionBuf[n]
  BY <1>0, TradeType
<1>2. /\ Trade.taker = nextId - 1 /\ Trade.maker < Trade.taker /\ nextId > 0
      /\ Trade.maker \in 0 .. nextId - 1
  BY <1>1, MakersPlaced DEF SessionInv, MakersDone
<1>3. Trade.taker \in 0 .. nextId - 1 /\ Trade.maker # Trade.taker
  BY <1>0, <1>2
<1>4. IdsAreValid(Trade)
  BY <1>0, <1>2, <1>3, PlacedType DEF IdsAreValid
<1>5. OrderOf(Trade.maker).account # OrderOf(Trade.taker).account
  BY <1>1, <1>2 DEF PartiesInv, Deals, SameTerms
<1>6. taker.pair \in Pairs
  BY <1>0, TakerType DEF ExchangeTypeOK
<1> QED
  BY <1>2, <1>3, <1>4, <1>5, <1>6 DEF CellsAreDisjoint, PairsDiffer

\* In a release build nothing else panics.
LEMMA ReleaseKeepsAlive ==
  ASSUME PairsDiffer, ~ OverflowChecks, SessionInv, PartiesInv, alive,
         [ExchangeNext]_exchangeVars
  PROVE  alive'
<1>1. ~ PanicOnSettle
  BY SettlementFindsItsCells DEF PanicOnSettle, SettlementPanics
<1>2. ~ Panic
  BY <1>1 DEF Panic, PanicOnInsert, PanicOnModify, PanicOnRead
<1> QED
  BY <1>2 DEF ExchangeNext, CreateMarket, InsertOrder, MatchOrder, PlaceOrder,
     SettleTransaction, CompleteInsert, CancelPlaced, ModifyPlaced, Refuse, Dead, exchangeVars

(***************************************************************************)
(* A release build panics only after an insertion was aborted by a         *)
(* self-trade or in a market of an asset against itself, whatever the      *)
(* widths are and whatever is modified.                                    *)
(***************************************************************************)
THEOREM ReleaseNeverPanics ==
  ASSUME PairsDiffer, ~ OverflowChecks
  PROVE  ExchangeSpec /\ [][NoSelfTrade]_vars => []NeverPanics
<1>1. ExchangeInit => Init /\ PartiesInv /\ alive
  BY DEF ExchangeInit, Init, PartiesInv
<1>2. SessionInv /\ [ExchangeNext]_exchangeVars => TypeOK /\ [Next]_vars
  BY OrderbookStep DEF SessionInv, ExchangeTypeOK
<1>3. TypeOK /\ FillsInv /\ [Next]_vars /\ [NoSelfTrade]_vars => FillsInv'
  BY FillsStep
<1>4. SessionInv /\ FillsInv /\ PartiesInv /\ [ExchangeNext]_exchangeVars /\ [NoSelfTrade]_vars
        => PartiesInv'
  BY PartiesStep DEF FillsInv
<1>5. SessionInv /\ PartiesInv /\ alive /\ [ExchangeNext]_exchangeVars => alive'
  BY ReleaseKeepsAlive
<1> QED
  BY <1>1, <1>2, <1>3, <1>4, <1>5, FillsInit, SessionInvariant, PTL DEF ExchangeSpec, NeverPanics

(***************************************************************************)
(* A debug build also panics on overflow.  How far a balance can be from   *)
(* zero is bounded by what was traded: a transaction moves a balance by    *)
(* its volume times the largest price at most, and takes twice its volume  *)
(* from what the orders have left.                                         *)
(***************************************************************************)
AmountsUpTo(V, P) ==
  /\ VolumesUpTo(V)
  /\ P \in Nat \ {0}
  /\ \A p \in Prices : - P <= p /\ p <= P
  /\ MaxOrders * V < VolumeMod
  /\ P * (MaxOrders * V) < BalanceHalf

\* The volumes and amounts of a whole session stay within their types.
AmountsFit == \E V : \E P : AmountsUpTo(V, P)

Filled(orders) == [k \in DOMAIN orders |-> orders[k].volume - orders[k].remaining]

Traded(orders) == SumFunction(Filled(orders))

TradedInv(V, P) ==
  /\ \A k \in 1 .. Len(sessionOrders) : sessionOrders[k].volume <= V
  /\ \A cell \in Cells :
       /\ - (P * Traded(sessionOrders)) <= balances[cell]
       /\ balances[cell] <= P * Traded(sessionOrders)

LEMMA ProductBound ==
  ASSUME NEW v \in Nat, NEW P \in Nat, NEW p \in Int, - P <= p, p <= P
  PROVE  - (P * v) <= v * p /\ v * p <= P * v
<1>1. PICK c \in Nat : P = p + c
  <2>1. P - p \in Nat /\ P = p + (P - p)
    OBVIOUS
  <2> QED
    BY <2>1
<1>2. PICK d \in Nat : P = d - p
  <2>1. P + p \in Nat /\ P = (P + p) - p
    OBVIOUS
  <2> QED
    BY <2>1
<1>3. P * v = v * p + c * v
  BY <1>1
<1>4. P * v = d * v - v * p
  BY <1>2
<1>5. c * v \in Nat /\ d * v \in Nat /\ v * p \in Int /\ P * v \in Int
  OBVIOUS
<1> QED
  BY <1>3, <1>4, <1>5

LEMMA ProductMonotone ==
  ASSUME NEW P \in Nat, NEW a \in Int, NEW b \in Int, a <= b
  PROVE  P * a <= P * b /\ P * a \in Int /\ P * b \in Int
<1>1. PICK c \in Nat : b = a + c
  <2>1. b - a \in Nat /\ b = a + (b - a)
    OBVIOUS
  <2> QED
    BY <2>1
<1>2. P * b = P * a + P * c
  BY <1>1
<1>3. P * c \in Nat /\ P * a \in Int /\ P * b \in Int
  OBVIOUS
<1> QED
  BY <1>2, <1>3

\* What a transaction moves.
LEMMA FlowIsBounded ==
  ASSUME NEW V, NEW P, AmountsUpTo(V, P), NEW trade \in ObTransaction
  PROVE  /\ trade.volume \in Nat /\ trade.price \in Int /\ P * trade.volume \in Nat
         /\ - (P * trade.volume) <= trade.volume * trade.price
         /\ trade.volume * trade.price <= P * trade.volume
         /\ \A maker, trader, pair, cell :
              /\ Flow(trade, maker, trader, pair, cell) \in Int
              /\ - (P * trade.volume) <= Flow(trade, maker, trader, pair, cell)
              /\ Flow(trade, maker, trader, pair, cell) <= P * trade.volume
<1> DEFINE v == trade.volume
           c == trade.price
           bought == IF trade.takerSide = "Bid" THEN v ELSE - v
<1>1. v \in Nat /\ c \in Int /\ - P <= c /\ c <= P /\ P \in Nat \ {0}
  BY VolumesAreNaturals, OrderbookAssumption DEF ObTransaction, AmountsUpTo
<1>2. bought \in Int /\ bought \in {v, - v}
  BY <1>1
<1> HIDE DEF v, c, bought
<1>3. - (P * v) <= v * c /\ v * c <= P * v /\ v * c \in Int /\ P * v \in Nat
  <2>1. - (P * v) <= v * c /\ v * c <= P * v
    BY <1>1, ProductBound
  <2> QED
    BY <1>1, <2>1
<1>4. v <= P * v
  <2>1. - P <= 1 /\ 1 <= P /\ P \in Nat
    BY <1>1
  <2>2. v * 1 <= P * v
    BY <1>1, <2>1, ProductBound
  <2> QED
    BY <1>1, <2>2
<1>5. bought * c \in {v * c, - (v * c)} /\ - bought * c \in {v * c, - (v * c)}
  <2>1. (- v) * c = - (v * c) /\ - (- v) * c = v * c /\ - v * c = - (v * c)
    BY <1>1
  <2> QED
    BY <1>2, <2>1
<1>6. \A w \in {bought, - bought, - bought * c, bought * c, 0} :
        w \in Int /\ - (P * v) <= w /\ w <= P * v
  <2>1. bought * c \in Int /\ - bought * c \in Int
    BY <1>3, <1>5
  <2>2. - (P * v) <= bought * c /\ bought * c <= P * v
    BY <1>3, <1>5
  <2>3. - (P * v) <= - bought * c /\ - bought * c <= P * v
    BY <1>3, <1>5
  <2>4. /\ - (P * v) <= bought /\ bought <= P * v
        /\ - (P * v) <= - bought /\ - bought <= P * v /\ - bought \in Int
    BY <1>1, <1>2, <1>3, <1>4
  <2> QED
    BY <1>2, <1>3, <2>1, <2>2, <2>3, <2>4
<1>7. \A maker, trader, pair, cell :
        Flow(trade, maker, trader, pair, cell) \in {bought, - bought, - bought * c, bought * c, 0}
  BY DEF Flow, bought, v, c
<1> QED
  BY <1>1, <1>3, <1>6, <1>7 DEF v, c

LEMMA FirstIds ==
  ASSUME NEW n \in Nat
  PROVE  IsFiniteSet(1 .. n) /\ Cardinality(1 .. n) = n
<1>1. 1 \in Int /\ n \in Int
  OBVIOUS
<1>2. IsFiniteSet(1 .. n) /\ Cardinality(1 .. n) = IF 1 > n THEN 0 ELSE n - 1 + 1
  BY ONLY <1>1, FS_Interval
<1>3. n - 1 + 1 = n /\ (1 > n => n = 0)
  OBVIOUS
<1> QED
  BY <1>2, <1>3

\* What has been traded fits into the session, also with v more of one order.
LEMMA TradedRoom ==
  ASSUME ExchangeTypeOK, Remains, NEW V \in Nat,
         \A k \in 1 .. Len(sessionOrders) : sessionOrders[k].volume <= V
  PROVE  /\ Traded(sessionOrders) \in Nat
         /\ \A id \in 0 .. nextId - 1 : \A v \in Nat :
              v <= OrderOf(id).remaining => Traded(sessionOrders) + v <= nextId * V
<1> DEFINE f == Filled(sessionOrders)
           S == 1 .. nextId
<1>1. /\ nextId = Len(sessionOrders) /\ nextId \in Nat
      /\ DOMAIN f = S
      /\ \A k \in S : f[k] = sessionOrders[k].volume - sessionOrders[k].remaining
      /\ IsFiniteSet(S) /\ Cardinality(S) = nextId
  <2>1. nextId = Len(sessionOrders) /\ nextId \in Nat /\ DOMAIN sessionOrders = S
    BY LenProperties DEF ExchangeTypeOK, TypeOK
  <2>2. IsFiniteSet(S) /\ Cardinality(S) = nextId
    BY <2>1, FirstIds
  <2> QED
    BY <2>1, <2>2 DEF Filled
<1>2. \A k \in S : /\ sessionOrders[k].remaining \in Nat /\ sessionOrders[k].volume \in Nat
                   /\ sessionOrders[k].remaining <= sessionOrders[k].volume
                   /\ sessionOrders[k].volume <= V
  <2> SUFFICES ASSUME NEW k \in S
               PROVE  /\ sessionOrders[k].remaining \in Nat /\ sessionOrders[k].volume \in Nat
                      /\ sessionOrders[k].remaining <= sessionOrders[k].volume
                      /\ sessionOrders[k].volume <= V
    OBVIOUS
  <2>1. k - 1 \in 0 .. nextId - 1 /\ k - 1 + 1 = k
    BY <1>1
  <2>2. OrderOf(k - 1) = sessionOrders[k]
    BY <2>1 DEF OrderOf
  <2> QED
    BY <1>1, <2>1, <2>2, OrderPlaced DEF Remains
<1> HIDE DEF f
<1>3. \A k \in S : f[k] \in Nat /\ f[k] \in Int /\ f[k] + sessionOrders[k].remaining <= V
  BY <1>1, <1>2
<1>4. Traded(sessionOrders) = SumFunctionOnSet(f, S)
  BY <1>1 DEF Traded, f, SumFunction
<1>5. SumFunctionOnSet(f, S) \in Nat
  <2>1. SumFunctionOnSet(f, S) \in Int
    BY <1>1, <1>3, SumType
  <2>2. 0 <= SumFunctionOnSet(f, S)
    BY <1>1, <1>3, SumMonotone
  <2> QED
    BY <2>1, <2>2
<1>6. ASSUME NEW id \in 0 .. nextId - 1, NEW v \in Nat, v <= OrderOf(id).remaining
      PROVE  Traded(sessionOrders) + v <= nextId * V
  <2> DEFINE y == id + 1
             h == [k \in S |-> IF k = y THEN f[k] + v ELSE f[k]]
  <2>1. y \in S /\ OrderOf(id) = sessionOrders[y]
    BY <1>1 DEF OrderOf
  <2> HIDE DEF y
  <2>2. ASSUME NEW k \in S PROVE h[k] \in Int /\ h[k] <= V
    <3>1. f[k] \in Int /\ sessionOrders[k].remaining \in Nat
      BY <1>2, <1>3
    <3>2. f[k] + sessionOrders[k].remaining <= V /\ V \in Int
      BY <1>1, <1>3
    <3>3. CASE k = y
      <4>1. h[k] = f[k] + v
        BY <3>3
      <4>2. v \in Nat /\ v <= sessionOrders[k].remaining
        BY <1>6, <2>1, <3>3
      <4> HIDE DEF h, S
      <4> QED
        BY ONLY <3>1, <3>2, <4>1, <4>2
    <3>4. CASE k # y
      <4>1. h[k] = f[k]
        BY <3>4
      <4> HIDE DEF h, S
      <4> QED
        BY ONLY <3>1, <3>2, <4>1
    <3> QED
      BY <3>3, <3>4
  <2>3. h[y] = f[y] + v /\ \A k \in S \ {y} : h[k] = f[k]
    BY <2>1
  <2> HIDE DEF h
  <2>4. SumFunctionOnSet(h, S) = SumFunctionOnSet(f, S) + (h[y] - f[y])
    <3>1. \A k \in S : f[k] \in Int /\ h[k] \in Int
      BY <1>3, <2>2
    <3>2. IsFiniteSet(S) /\ y \in S /\ \A k \in S \ {y} : h[k] = f[k]
      BY <1>1, <2>1, <2>3
    <3> HIDE DEF S
    <3> QED
      BY ONLY <3>1, <3>2, SumUpdate
  <2>5. SumFunctionOnSet(h, S) <= Cardinality(S) * V
    <3>1. V \in Int /\ IsFiniteSet(S)
      BY <1>1
    <3> HIDE DEF S
    <3> QED
      BY ONLY <2>2, <3>1, SumBounded
  <2>6. f[y] \in Int
    BY <1>3, <2>1
  <2>7. SumFunctionOnSet(h, S) = SumFunctionOnSet(f, S) + v
    BY <1>5, <2>3, <2>4, <2>6
  <2> QED
    BY <1>1, <1>4, <2>5, <2>7
<1> QED
  BY <1>4, <1>5, <1>6

\* A transaction that waits is covered by what both of its orders have left.
LEMMA TradeIsLeft ==
  ASSUME SessionInv, Tally, step = "settle", transactionBuf # <<>>
  PROVE  \A id \in {Trade.maker, Trade.taker} :
           /\ id \in 0 .. nextId - 1
           /\ Trade.volume <= OrderOf(id).remaining
           /\ OrderOf(id).remaining \in Nat
<1> SUFFICES ASSUME NEW id \in {Trade.maker, Trade.taker}
             PROVE  /\ id \in 0 .. nextId - 1
                    /\ Trade.volume <= OrderOf(id).remaining
                    /\ OrderOf(id).remaining \in Nat
  OBVIOUS
<1> DEFINE n == Len(transactionBuf)
<1>0. /\ ExchangeTypeOK /\ TypeOK /\ nextId \in Nat
      /\ transactionBuf \in Seq(ObTransaction)
  BY DEF SessionInv, ExchangeTypeOK, TypeOK
<1>1. n \in 1 .. n /\ Trade = transactionBuf[n] /\ Trade.volume \in Nat
  BY <1>0, TradeType, VolumesAreNaturals DEF ObTransaction
<1>2. /\ Trade.taker = nextId - 1 /\ nextId > 0
      /\ Trade.maker \in 0 .. nextId - 1
      /\ OrderOf(Trade.maker).status # "Cancelled"
      /\ OrderOf(nextId - 1).status # "Cancelled"
  BY <1>1, MakersPlaced DEF SessionInv, MakersDone
<1>3. id \in 0 .. nextId - 1 /\ OrderOf(id).status # "Cancelled"
  BY <1>0, <1>2
<1>4. Pending(transactionBuf, id) <= OrderOf(id).remaining /\ OrderOf(id).remaining \in Nat
  BY <1>0, <1>3, PendingIsLeft, OrderPlaced
<1>5. Share(Trade, id) = Trade.volume
  BY DEF Share
<1>6. /\ Pending(transactionBuf, id) = Pending(Front(transactionBuf), id) + Trade.volume
      /\ Pending(Front(transactionBuf), id) \in Nat
  BY <1>0, <1>5, PendingFront
<1> QED
  BY <1>1, <1>3, <1>4, <1>6

LEMMA BoundKept ==
  ASSUME NEW P \in Nat, NEW T \in Nat, NEW v \in Nat, NEW b \in Int, NEW w \in Int,
         - (P * T) <= b, b <= P * T, - (P * v) <= w, w <= P * v
  PROVE  - (P * (T + v)) <= b + w /\ b + w <= P * (T + v)
<1>1. P * (T + v) = P * T + P * v /\ P * T \in Nat /\ P * v \in Nat
  OBVIOUS
<1> QED
  BY <1>1

\* Its settlement stays within the widths.
LEMMA SettlementFits ==
  ASSUME NEW V, NEW P, AmountsUpTo(V, P), SessionInv, Tally, Remains,
         TradedInv(V, P), nextId <= MaxOrders, step = "settle", transactionBuf # <<>>
  PROVE  /\ ~ SettlementOverflows(Trade)
         /\ \A cell \in Cells :
              LET bound == P * (Traded(sessionOrders) + Trade.volume)
              IN  /\ NewBalance(Trade, cell) \in Int /\ FitsBalance(NewBalance(Trade, cell))
                  /\ - bound <= NewBalance(Trade, cell)
                  /\ NewBalance(Trade, cell) <= bound
<1> DEFINE T == Traded(sessionOrders)
           v == Trade.volume
           bound == P * (T + v)
<1>0. /\ ExchangeTypeOK /\ nextId \in Nat /\ Trade \in ObTransaction
      /\ V \in Nat /\ P \in Nat /\ MaxOrders \in Nat /\ BalanceHalf \in Nat
      /\ P * (MaxOrders * V) < BalanceHalf
  BY TradeType, OrderbookAssumption, ExchangeAssumption
  DEF SessionInv, ExchangeTypeOK, TypeOK, AmountsUpTo, VolumesUpTo
<1>1. /\ v \in Nat /\ Trade.price \in Int
      /\ - (P * v) <= v * Trade.price /\ v * Trade.price <= P * v
      /\ \A maker, trader, pair, cell :
           /\ Flow(Trade, maker, trader, pair, cell) \in Int
           /\ - (P * v) <= Flow(Trade, maker, trader, pair, cell)
           /\ Flow(Trade, maker, trader, pair, cell) <= P * v
  BY <1>0, FlowIsBounded
<1>2. T \in Nat /\ T + v <= nextId * V
  <2>1. /\ Trade.maker \in 0 .. nextId - 1
        /\ v <= OrderOf(Trade.maker).remaining
    BY TradeIsLeft
  <2>2. \A k \in 1 .. Len(sessionOrders) : sessionOrders[k].volume <= V
    BY DEF TradedInv
  <2> HIDE DEF v, T
  <2>3. /\ Traded(sessionOrders) \in Nat
        /\ \A id \in 0 .. nextId - 1 : \A u \in Nat :
             u <= OrderOf(id).remaining => Traded(sessionOrders) + u <= nextId * V
    BY <1>0, <2>2, TradedRoom
  <2> QED
    BY <1>1, <2>1, <2>3 DEF T
<1> HIDE DEF v, T
<1>3. bound \in Nat /\ bound < BalanceHalf
  <2>1. nextId * V <= MaxOrders * V /\ nextId * V \in Int /\ MaxOrders * V \in Int
    <3>1. /\ V * nextId <= V * MaxOrders
      BY <1>0, ProductMonotone
    <3>2. V * nextId = nextId * V /\ V * MaxOrders = MaxOrders * V
      BY <1>0
    <3> QED
      BY <1>0, <3>1, <3>2
  <2>2. T + v <= MaxOrders * V /\ T + v \in Nat
    BY <1>1, <1>2, <2>1
  <2>3. P * (T + v) <= P * (MaxOrders * V) /\ P * (MaxOrders * V) \in Int
    <3>1. T + v \in Int
      BY <2>2
    <3> QED
      BY <1>0, <2>1, <2>2, <3>1, ProductMonotone
  <2>4. P * (T + v) \in Nat
    BY <1>0, <2>2
  <2> QED
    BY <1>0, <2>3, <2>4
<1>4. ASSUME NEW cell \in Cells
      PROVE  /\ NewBalance(Trade, cell) \in Int
             /\ - bound <= NewBalance(Trade, cell) /\ NewBalance(Trade, cell) <= bound
  <2> DEFINE w == Flow(Trade, OrderOf(Trade.maker).account, OrderOf(Trade.taker).account,
                       taker.pair, cell)
  <2>1. w \in Int /\ - (P * v) <= w /\ w <= P * v
    BY <1>1
  <2>2. /\ balances[cell] \in Int
        /\ - (P * T) <= balances[cell] /\ balances[cell] <= P * T
    BY <1>0 DEF TradedInv, T, ExchangeTypeOK
  <2>3. NewBalance(Trade, cell) = balances[cell] + w
    BY DEF NewBalance
  <2> HIDE DEF w
  <2>4. - (P * (T + v)) <= balances[cell] + w /\ balances[cell] + w <= P * (T + v)
    BY <1>0, <1>1, <1>2, <2>1, <2>2, BoundKept
  <2> QED
    BY <2>1, <2>2, <2>3, <2>4
<1>5. \A b \in Int : - bound <= b /\ b <= bound => FitsBalance(b)
  BY <1>0, <1>3 DEF FitsBalance
<1>6. FitsBalance(v * Trade.price)
  <2>1. P * v <= bound /\ P * v \in Nat
    <3>1. v <= T + v /\ v \in Int /\ T + v \in Int
      BY <1>1, <1>2
    <3>2. P * v <= P * (T + v)
      BY <1>0, <3>1, ProductMonotone
    <3> QED
      BY <1>0, <1>1, <3>2
  <2>2. v * Trade.price \in Int
    BY <1>1
  <2> HIDE DEF bound
  <2>3. - bound <= v * Trade.price /\ v * Trade.price <= bound
    BY <1>1, <1>3, <2>1, <2>2
  <2> QED
    BY <1>5, <2>2, <2>3
<1> HIDE DEF bound
<1>7. ~ SettlementOverflows(Trade)
  <2>1. /\ ~ (OrderOf(Trade.maker).remaining < v)
        /\ ~ (OrderOf(Trade.taker).remaining < v)
    BY <1>1, TradeIsLeft DEF v
  <2>2. \A cell \in Cells : FitsBalance(NewBalance(Trade, cell))
    BY <1>4, <1>5
  <2> QED
    BY <1>6, <2>1, <2>2 DEF SettlementOverflows, v
<1> QED
  BY <1>4, <1>5, <1>7 DEF bound, T, v

\* Traded changes with settlements only.
LEMMA TradedSame ==
  ASSUME ExchangeTypeOK, Len(sessionOrders') = Len(sessionOrders),
         sessionOrders' \in Seq(PlacedOrder),
         \A k \in 1 .. Len(sessionOrders) :
           /\ sessionOrders'[k].volume = sessionOrders[k].volume
           /\ sessionOrders'[k].remaining = sessionOrders[k].remaining
  PROVE  Traded(sessionOrders') = Traded(sessionOrders)
<1>1. /\ DOMAIN sessionOrders = 1 .. Len(sessionOrders)
      /\ DOMAIN sessionOrders' = 1 .. Len(sessionOrders)
  BY LenProperties DEF ExchangeTypeOK
<1>2. Filled(sessionOrders') = Filled(sessionOrders)
  BY <1>1 DEF Filled
<1> QED
  BY <1>2 DEF Traded

\* The volumes of session orders, as functions to sum.
LEMMA FilledType ==
  ASSUME NEW so \in Seq(PlacedOrder)
  PROVE  /\ Len(so) \in Nat
         /\ DOMAIN Filled(so) = 1 .. Len(so)
         /\ \A k \in 1 .. Len(so) :
              /\ Filled(so)[k] = so[k].volume - so[k].remaining
              /\ so[k].volume \in Nat /\ so[k].remaining \in Nat
              /\ Filled(so)[k] \in Int
         /\ Traded(so) = SumFunctionOnSet(Filled(so), 1 .. Len(so))
         /\ Traded(so) \in Int
<1> DEFINE f == Filled(so)
<1>1. /\ Len(so) \in Nat /\ DOMAIN so = 1 .. Len(so)
      /\ \A k \in 1 .. Len(so) : so[k] \in PlacedOrder
  BY LenProperties, ElementOfSeq
<1>2. \A k \in 1 .. Len(so) : so[k].volume \in Nat /\ so[k].remaining \in Nat
  BY <1>1, VolumesAreNaturals DEF PlacedOrder
<1>3. /\ DOMAIN f = 1 .. Len(so)
      /\ \A k \in 1 .. Len(so) : f[k] = so[k].volume - so[k].remaining
  BY <1>1 DEF Filled
<1> HIDE DEF f
<1>4. \A k \in 1 .. Len(so) : f[k] \in Int
  BY <1>2, <1>3
<1>5. SumFunction(f) = SumFunctionOnSet(f, 1 .. Len(so))
  BY <1>3 DEF SumFunction
<1>6. SumFunctionOnSet(f, 1 .. Len(so)) \in Int
  BY <1>1, <1>4, FirstIds, SumType
<1> QED
  BY <1>1, <1>2, <1>3, <1>4, <1>5, <1>6 DEF Traded, f

LEMMA PlacedTraded ==
  ASSUME ExchangeTypeOK, PlaceOrder
  PROVE  Traded(sessionOrders') = Traded(sessionOrders)
<1> DEFINE so == sessionOrders
           to == sessionOrders'
           f == Filled(so)
           h == Filled(to)
           n == Len(so)
<1>1. /\ so \in Seq(PlacedOrder) /\ to \in Seq(PlacedOrder)
      /\ Len(to) = n + 1
      /\ \A k \in 1 .. n : to[k] = so[k]
      /\ to[n + 1] = PlacedFromTaker
  BY PlaceSession DEF ExchangeTypeOK
<1> HIDE DEF so, to
<1>2. /\ n \in Nat /\ DOMAIN f = 1 .. n
      /\ \A k \in 1 .. n : f[k] = so[k].volume - so[k].remaining
  BY <1>1, FilledType
<1>3. /\ DOMAIN h = 1 .. n + 1
      /\ \A k \in 1 .. n + 1 : h[k] = to[k].volume - to[k].remaining
      /\ \A k \in 1 .. n + 1 : to[k].volume \in Nat /\ to[k].remaining \in Nat
      /\ \A k \in 1 .. n + 1 : h[k] \in Int
  BY <1>1, FilledType
<1>4. to[n + 1].volume = to[n + 1].remaining
  BY <1>1 DEF PlacedFromTaker
<1>5. h[n + 1] = 0
  BY <1>2, <1>3, <1>4
<1>6. \A k \in 1 .. n : h[k] = f[k]
  BY <1>1, <1>2, <1>3
<1> HIDE DEF f, h, n
<1>7. SumFunction(f) \in Int /\ SumFunction(h) = SumFunction(f) + h[n + 1]
  BY <1>2, <1>3, <1>6, SumOfAppended
<1>8. SumFunction(h) = SumFunction(f)
  BY <1>5, <1>7
<1> QED
  BY <1>8 DEF Traded, f, h, so, to

LEMMA SettledTraded ==
  ASSUME SessionInv, Tally, SettleTransaction
  PROVE  Traded(sessionOrders') = Traded(sessionOrders) + Trade.volume + Trade.volume
<1> DEFINE so == sessionOrders
           to == sessionOrders'
           f == Filled(so)
           h == Filled(to)
           v == Trade.volume
           y == Trade.maker + 1
           z == Trade.taker + 1
           S == 1 .. nextId
<1>0. /\ ExchangeTypeOK /\ nextId \in Nat /\ nextId = Len(so)
      /\ step = "settle" /\ transactionBuf # <<>>
  BY DEF SessionInv, ExchangeTypeOK, TypeOK, SettleTransaction, PopTransaction
<1>1. /\ so \in Seq(PlacedOrder) /\ to \in Seq(PlacedOrder) /\ Len(to) = nextId
      /\ Trade \in ObTransaction /\ IdsAreValid(Trade)
  BY <1>0, SettleSession DEF ExchangeTypeOK
<1>2. /\ Trade.maker \in 0 .. nextId - 1 /\ Trade.taker \in 0 .. nextId - 1
      /\ Trade.maker # Trade.taker
      /\ v \in Nat
  BY <1>0, <1>1, TradeIsLeft, VolumesAreNaturals DEF IdsAreValid, ObTransaction
<1>3. y \in S /\ z \in S /\ y # z
  BY <1>0, <1>2
<1>4. \A k \in S : /\ to[k].volume = so[k].volume
                   /\ to[k].remaining = so[k].remaining - (IF k \in {y, z} THEN v ELSE 0)
  <2> SUFFICES ASSUME NEW k \in S
               PROVE  /\ to[k].volume = so[k].volume
                      /\ to[k].remaining = so[k].remaining - (IF k \in {y, z} THEN v ELSE 0)
    OBVIOUS
  <2>1. k - 1 \in 0 .. nextId - 1 /\ k - 1 + 1 = k
    BY <1>0
  <2>2. OrderOf(k - 1) = so[k]
    BY <2>1 DEF OrderOf
  <2>3. Share(Trade, k - 1) = IF k \in {y, z} THEN v ELSE 0
    BY <1>2, <2>1 DEF Share
  <2>4. /\ sessionOrders'[k - 1 + 1].remaining = OrderOf(k - 1).remaining - Share(Trade, k - 1)
        /\ sessionOrders'[k - 1 + 1].volume = OrderOf(k - 1).volume
    BY <2>1, SettledOrder
  <2> QED
    BY <2>1, <2>2, <2>3, <2>4
<1> HIDE DEF so, to, v, y, z
<1>5. /\ \A k \in S : /\ f[k] = so[k].volume - so[k].remaining
                      /\ so[k].volume \in Nat /\ so[k].remaining \in Nat /\ f[k] \in Int
      /\ Traded(so) = SumFunctionOnSet(f, S) /\ Traded(so) \in Int
  BY <1>0, <1>1, FilledType
<1>6. /\ \A k \in S : h[k] = to[k].volume - to[k].remaining /\ h[k] \in Int
      /\ Traded(to) = SumFunctionOnSet(h, S)
  BY <1>0, <1>1, FilledType
<1>7. ASSUME NEW k \in S PROVE h[k] = IF k \in {y, z} THEN f[k] + v ELSE f[k]
  <2>1. /\ f[k] = so[k].volume - so[k].remaining
        /\ so[k].volume \in Nat /\ so[k].remaining \in Nat
        /\ h[k] = to[k].volume - to[k].remaining
    BY <1>5, <1>6
  <2>2. /\ to[k].volume = so[k].volume
        /\ k \in {y, z} => to[k].remaining = so[k].remaining - v
        /\ k \notin {y, z} => to[k].remaining = so[k].remaining - 0
    BY <1>4
  <2> QED
    BY <1>2, <2>1, <2>2
<1>8. IsFiniteSet(S)
  BY <1>0, FirstIds
<1> HIDE DEF f, h, S
<1>9. SumFunctionOnSet(h, S) = SumFunctionOnSet(f, S) + (h[y] - f[y]) + (h[z] - f[z])
  <2>1. /\ \A k \in S : f[k] \in Int /\ h[k] \in Int
        /\ \A k \in S \ {y, z} : h[k] = f[k]
    BY <1>5, <1>6, <1>7
  <2> QED
    BY ONLY <1>3, <1>8, <2>1, SumUpdateTwo
<1>10. h[y] - f[y] = v /\ h[z] - f[z] = v
  <2>1. f[y] \in Int /\ f[z] \in Int /\ h[y] = f[y] + v /\ h[z] = f[z] + v
    BY <1>3, <1>5, <1>7
  <2> QED
    BY <1>2, <2>1
<1>11. Traded(to) = Traded(so) + v + v
  BY <1>5, <1>6, <1>9, <1>10
<1> QED
  BY <1>11 DEF so, to, v

LEMMA TradedInit ==
  ASSUME NEW V, NEW P, AmountsUpTo(V, P)
  PROVE  ExchangeInit => TradedInv(V, P)
<1> SUFFICES ASSUME ExchangeInit PROVE TradedInv(V, P)
  OBVIOUS
<1>1. sessionOrders = <<>> /\ \A cell \in Cells : balances[cell] = 0
  BY DEF ExchangeInit
<1>2. Len(sessionOrders) = 0
  BY <1>1
<1>3. Traded(sessionOrders) = 0
  <2>1. DOMAIN Filled(sessionOrders) = {}
    BY <1>1 DEF Filled
  <2> QED
    BY <2>1, SumOfEmpty DEF Traded
<1>4. P * 0 = 0 /\ - (P * 0) <= 0
  BY DEF AmountsUpTo
<1> QED
  BY <1>1, <1>2, <1>3, <1>4 DEF TradedInv

LEMMA SettleKeepsTraded ==
  ASSUME NEW V, NEW P, AmountsUpTo(V, P), SessionInv, Tally, Remains,
         TradedInv(V, P), nextId <= MaxOrders, SettleTransaction
  PROVE  TradedInv(V, P)'
<1> DEFINE T == Traded(sessionOrders)
           v == Trade.volume
           bound == P * (T + v)
           after == P * (T + v + v)
<1>0. /\ ExchangeTypeOK /\ step = "settle" /\ transactionBuf # <<>> /\ P \in Nat
  BY DEF SessionInv, SettleTransaction, PopTransaction, AmountsUpTo
<1>1. \A cell \in Cells :
        /\ NewBalance(Trade, cell) \in Int /\ FitsBalance(NewBalance(Trade, cell))
        /\ - bound <= NewBalance(Trade, cell) /\ NewBalance(Trade, cell) <= bound
  BY <1>0, SettlementFits
<1>2. T \in Int /\ v \in Nat
  BY <1>0, FilledType, TradeType, VolumesAreNaturals DEF ExchangeTypeOK, ObTransaction
<1>3. bound <= after /\ bound \in Int /\ after \in Int
  <2>1. T + v \in Int /\ T + v + v \in Int /\ T + v <= T + v + v
    BY <1>2
  <2> HIDE DEF T, v
  <2> QED
    BY <1>0, <2>1, ProductMonotone
<1>4. Traded(sessionOrders') = T + v + v
  BY SettledTraded
<1> HIDE DEF bound, after, T, v
<1>5. \A cell \in Cells : balances'[cell] = NewBalance(Trade, cell)
  <2>1. balances' = [cell \in Cells |-> WrapBalance(NewBalance(Trade, cell))]
    BY DEF SettleTransaction
  <2> QED
    BY <1>1, <2>1, WrapBalanceFits
<1>6. \A cell \in Cells : - after <= balances'[cell] /\ balances'[cell] <= after
  BY <1>1, <1>3, <1>5
<1>7. ASSUME NEW k \in 1 .. Len(sessionOrders') PROVE sessionOrders'[k].volume <= V
  <2>1. /\ k \in 1 .. Len(sessionOrders) /\ k - 1 \in 0 .. nextId - 1 /\ k - 1 + 1 = k
    BY <1>0, SettleSession, LenProperties DEF ExchangeTypeOK
  <2>2. sessionOrders'[k].volume = OrderOf(k - 1).volume
    BY <2>1, SettledOrder
  <2>3. OrderOf(k - 1).volume = sessionOrders[k].volume
    BY <2>1 DEF OrderOf
  <2> QED
    BY <2>1, <2>2, <2>3 DEF TradedInv
<1> QED
  BY <1>4, <1>6, <1>7 DEF TradedInv, after

LEMMA TradedStep ==
  ASSUME NEW V, NEW P, AmountsUpTo(V, P), SessionInv, Tally, Remains, nextId <= MaxOrders,
         TradedInv(V, P), [ExchangeNext]_exchangeVars, [NoModification]_exchangeVars
  PROVE  TradedInv(V, P)'
<1>0. ExchangeTypeOK /\ TypeOK
  BY DEF SessionInv, ExchangeTypeOK
<1>1. ASSUME UNCHANGED <<sessionOrders, balances>> PROVE TradedInv(V, P)'
  BY <1>1 DEF TradedInv
<1>2. ASSUME balances' = balances, Traded(sessionOrders') = Traded(sessionOrders),
             \A k \in 1 .. Len(sessionOrders') : sessionOrders'[k].volume <= V
      PROVE  TradedInv(V, P)'
  BY <1>2 DEF TradedInv
<1>3. CASE PlaceOrder
  <2>1. balances' = balances /\ Traded(sessionOrders') = Traded(sessionOrders)
    BY <1>0, <1>3, PlacedTraded DEF PlaceOrder
  <2>2. taker.volume <= V
    BY <1>0, <1>3 DEF PlaceOrder, EnterOrder, TypeOK, AmountsUpTo, VolumesUpTo
  <2>3. ASSUME NEW k \in 1 .. Len(sessionOrders') PROVE sessionOrders'[k].volume <= V
    <3>1. /\ Len(sessionOrders) \in Nat
          /\ Len(sessionOrders') = Len(sessionOrders) + 1
          /\ \A j \in 1 .. Len(sessionOrders) : sessionOrders'[j] = sessionOrders[j]
          /\ sessionOrders'[Len(sessionOrders) + 1].volume = taker.volume
      BY <1>0, <1>3, PlaceSession, LenProperties DEF ExchangeTypeOK, PlacedFromTaker
    <3>2. k \in 1 .. Len(sessionOrders) \/ k = Len(sessionOrders) + 1
      BY <3>1
    <3> QED
      BY <2>2, <3>1, <3>2 DEF TradedInv
  <2> QED
    BY <1>2, <2>1, <2>3
<1>4. CASE SettleTransaction
  BY <1>4, SettleKeepsTraded
<1>5. ASSUME NEW account \in AccountIds, NEW id \in 0 .. MaxOrders - 1,
             CancelPlaced(account, id)
      PROVE  TradedInv(V, P)'
  <2>1. balances' = balances
    BY <1>5 DEF CancelPlaced
  <2>2. /\ id \in Nat /\ IsPlaced(id)
        /\ Len(sessionOrders') = Len(sessionOrders)
        /\ sessionOrders' \in Seq(PlacedOrder)
        /\ \A k \in 1 .. Len(sessionOrders) :
             k # id + 1 => sessionOrders'[k] = sessionOrders[k]
        /\ sessionOrders' =
             [sessionOrders EXCEPT ![id + 1] = [OrderOf(id) EXCEPT !.status = "Cancelled"]]
    BY <1>0, <1>5, CancelSession
  <2>3. /\ sessionOrders'[id + 1].volume = sessionOrders[id + 1].volume
        /\ sessionOrders'[id + 1].remaining = sessionOrders[id + 1].remaining
    <3>1. OrderOf(id) \in PlacedOrder /\ OrderOf(id) = sessionOrders[id + 1]
      BY <1>0, <2>2, PlacedType DEF OrderOf
    <3>2. sessionOrders'[id + 1] = [OrderOf(id) EXCEPT !.status = "Cancelled"]
      BY <2>2 DEF IsPlaced
    <3> QED
      BY <3>1, <3>2 DEF PlacedOrder
  <2>4. \A k \in 1 .. Len(sessionOrders) :
          /\ sessionOrders'[k].volume = sessionOrders[k].volume
          /\ sessionOrders'[k].remaining = sessionOrders[k].remaining
    BY <2>2, <2>3
  <2>5. Traded(sessionOrders') = Traded(sessionOrders)
    BY <1>0, <2>2, <2>4, TradedSame
  <2> QED
    BY <1>2, <2>1, <2>2, <2>4, <2>5 DEF TradedInv
<1>6. ASSUME NEW account \in AccountIds, NEW id \in 0 .. MaxOrders - 1,
             NEW newVolume \in NewVolumes, ModifyPlaced(account, id, newVolume)
      PROVE  TradedInv(V, P)'
  BY <1>1, <1>6 DEF NoModification, exchangeVars
<1>7. CASE \/ \E pair \in Pairs : CreateMarket(pair)
           \/ \E request \in Insertions : InsertOrder(request)
           \/ MatchOrder \/ CompleteInsert \/ Refuse \/ Panic \/ Dead
           \/ UNCHANGED exchangeVars
  BY <1>1, <1>7 DEF CreateMarket, InsertOrder, MatchOrder, CompleteInsert, Refuse, Panic,
     Dead, exchangeVars
<1> QED
  BY <1>3, <1>4, <1>5, <1>6, <1>7 DEF ExchangeNext

\* The reads of a level and the scan of FillOrKill and Market orders add up
\* what rests in the book, which is less than all orders ask for.
LEMMA DebugKeepsAlive ==
  ASSUME NEW V, NEW P, AmountsUpTo(V, P), PairsDiffer, SessionInv, PartiesInv, Tally,
         Remains, TradedInv(V, P), BoundedInv(V), alive, [ExchangeNext]_exchangeVars
  PROVE  alive'
<1>0. /\ ExchangeTypeOK /\ TypeOK /\ VolumeMod \in Nat
      /\ VolumesUpTo(V) /\ MaxOrders * V < VolumeMod
      /\ IsFiniteSet(DOMAIN book) /\ nextId <= MaxOrders
  BY OrderbookAssumption DEF SessionInv, ExchangeTypeOK, AmountsUpTo, BoundedInv
<1>1. /\ BookVolume(book) \in Nat /\ BookVolume(book) < VolumeMod /\ LevelsFit
      /\ \A s \in DOMAIN book : QueueVolume(book[s]) \in Nat
  BY <1>0, BoundedFits, BookType, BookVolumeType, LevelVolumes
<1>2. ASSUME NEW request \in Insertions PROVE ~ ScanOverflows(request)
  <2>1. ASSUME NEW p \in Scanned(request),
               NEW i \in 1 .. Len(book[Slot(request.pair, Other(request.side), p)])
        PROVE  ~ VolumeUpTo(request, p, i) >= VolumeMod
    <3>1. VolumeUpTo(request, p, i) <= BookVolume(book)
      BY <1>0, <2>1, ScanFits
    <3>2. VolumeUpTo(request, p, i) \in Nat
      BY <1>0, <2>1, ScanIsWithin
    <3> QED
      BY <1>0, <1>1, <3>1, <3>2
  <2>2. ASSUME NEW x \in Prices \X (1 .. MaxOrders),
               x[1] \in Scanned(request),
               x[2] <= Len(book[Slot(request.pair, Other(request.side), x[1])])
        PROVE  ~ VolumeUpTo(request, x[1], x[2]) >= VolumeMod
    <3> DEFINE queue == book[Slot(request.pair, Other(request.side), x[1])]
    <3>1. Len(queue) \in Nat
      <4>1. Slot(request.pair, Other(request.side), x[1]) \in DOMAIN book
        BY <2>2 DEF Scanned, LevelPrices
      <4> QED
        BY <1>0, <4>1, BookType, LenProperties DEF IsBook
    <3>2. x[2] \in 1 .. Len(queue)
      BY <1>0, <2>2, <3>1, OrderbookAssumption
    <3> QED
      BY <2>1, <2>2, <3>2
  <2> QED
    BY <2>2 DEF ScanOverflows
<1>3. ~ LevelOverflows
  <2>1. ASSUME NEW s \in DOMAIN book PROVE ~ QueueVolume(book[s]) >= VolumeMod
    BY <1>0, <1>1, <2>1 DEF LevelsFit
  <2> QED
    BY <2>1 DEF LevelOverflows
<1>4. ~ PanicOnSettle
  BY <1>0, SettlementFindsItsCells, SettlementFits DEF PanicOnSettle, SettlementPanics
<1>5. ASSUME NEW account \in AccountIds, NEW id \in 0 .. MaxOrders - 1,
             NEW newVolume \in NewVolumes
      PROVE  ~ PanicOnModify(account, id, newVolume)
  <2> SUFFICES ASSUME ModifyResult(account, id, newVolume) = "Ok"
               PROVE  ~ OrderOf(id).volume < OrderOf(id).remaining
    BY DEF PanicOnModify
  <2>1. IsPlaced(id)
    BY DEF ModifyResult
  <2>2. id \in Nat /\ nextId \in Nat
    BY <1>0 DEF TypeOK
  <2>3. id \in 0 .. nextId - 1
    BY <1>0, <2>1, <2>2, PlacedType
  <2> QED
    BY <1>0, <2>3, OrderPlaced DEF Remains
<1>6. ~ Panic
  BY <1>2, <1>3, <1>4, <1>5 DEF Panic, PanicOnInsert, PanicOnRead
<1> QED
  BY <1>6 DEF ExchangeNext, CreateMarket, InsertOrder, MatchOrder, PlaceOrder,
     SettleTransaction, CompleteInsert, CancelPlaced, ModifyPlaced, Refuse, Dead, exchangeVars

(***************************************************************************)
(* Whatever the build, the thread does not panic as long as no insertion   *)
(* is aborted by a self-trade, no order is modified, no market trades an   *)
(* asset against itself and the amounts of a session fit their types.      *)
(***************************************************************************)
THEOREM NeverPanicsHolds ==
  ASSUME PairsDiffer, AmountsFit
  PROVE  ExchangeSpec /\ [][NoSelfTrade]_vars /\ [][NoModification]_exchangeVars
           => []NeverPanics
<1>1. PICK V : \E P : AmountsUpTo(V, P)
  BY DEF AmountsFit
<1>2. PICK P : AmountsUpTo(V, P)
  BY <1>1
<1>3. VolumesUpTo(V)
  BY <1>2 DEF AmountsUpTo
<1>4. ExchangeInit => Init /\ PartiesInv /\ alive
  BY DEF ExchangeInit, Init, PartiesInv
<1>5. ExchangeInit => TradedInv(V, P)
  BY <1>2, TradedInit
<1>6. Init => BoundedInv(V)
  BY <1>3, BoundedInit
<1>7. SessionInv => TypeOK /\ ExchangeTypeOK
  BY DEF SessionInv, ExchangeTypeOK
<1>8. ExchangeTypeOK /\ [ExchangeNext]_exchangeVars => [Next]_vars
  BY OrderbookStep DEF ExchangeTypeOK
<1>9. /\ TypeOK /\ CrossInv /\ [Next]_vars => CrossInv'
      /\ TypeOK /\ FillsInv /\ [Next]_vars /\ [NoSelfTrade]_vars => FillsInv'
  BY CrossStep, FillsStep
<1>10. TypeOK /\ BoundedInv(V) /\ [Next]_vars => BoundedInv(V)'
  BY <1>3, BoundedStep
<1>11. SessionInv /\ FillsInv /\ PartiesInv /\ [ExchangeNext]_exchangeVars /\ [NoSelfTrade]_vars
         => PartiesInv'
  BY PartiesStep DEF FillsInv
<1>12. SessionInv /\ CrossInv /\ FillsInv /\ Tally /\ Remains /\ [ExchangeNext]_exchangeVars
         /\ [NoSelfTrade]_vars /\ [NoModification]_exchangeVars => Tally' /\ Remains'
  BY TallyStep
<1>13. SessionInv /\ Tally /\ Remains /\ BoundedInv(V) /\ TradedInv(V, P)
         /\ [ExchangeNext]_exchangeVars /\ [NoModification]_exchangeVars => TradedInv(V, P)'
  BY <1>2, TradedStep DEF BoundedInv
<1>14. SessionInv /\ PartiesInv /\ Tally /\ Remains /\ TradedInv(V, P) /\ BoundedInv(V)
         /\ alive /\ [ExchangeNext]_exchangeVars => alive'
  BY <1>2, DebugKeepsAlive
<1>15. Init => CrossInv /\ FillsInv
  BY CrossInit, FillsInit
<1> QED
  BY <1>4, <1>5, <1>6, <1>7, <1>8, <1>9, <1>10, <1>11, <1>12, <1>13, <1>14, <1>15,
     SessionInvariant, TallyInit, PTL
  DEF ExchangeSpec, NeverPanics

\* In particular when every account keeps to one side of a pair and modifies
\* no orders.
THEOREM NeverPanicsOneSided ==
  ASSUME OneSidePerAccount, NewVolumes = {}, PairsDiffer, AmountsFit
  PROVE  ExchangeSpec => []NeverPanics
<1>1. NoModification
  BY DEF NoModification
<1>2. [NoModification]_exchangeVars
  BY <1>1
<1>3. ExchangeSpec => Spec
  BY ExchangeImplementsOrderbook DEF ImplementsOrderbook
<1> QED
  BY <1>2, <1>3, OneSidedNeverSelfTrades, NeverPanicsHolds, PTL

(***************************************************************************)
(* What the orders of an account have bought of a pair, less what they     *)
(* have sold, and what that would have cost at their limit prices.         *)
(***************************************************************************)
Sign(order) == IF order.side = "Bid" THEN 1 ELSE -1

Bought(order) == (order.volume - order.remaining) * Sign(order)

Own(orders, account, pair) ==
  {i \in DOMAIN orders : orders[i].account = account /\ orders[i].pair = pair}

Buys(orders, own) == [i \in own |-> Bought(orders[i])]

Costs(orders, own) == [i \in own |-> Bought(orders[i]) * orders[i].price]

Position(orders, account, pair) == SumFunction(Buys(orders, Own(orders, account, pair)))

Spent(orders, account, pair) == SumFunction(Costs(orders, Own(orders, account, pair)))

LEMMA BoughtType ==
  ASSUME NEW order \in PlacedOrder
  PROVE  /\ Sign(order) \in Int /\ Bought(order) \in Int /\ order.price \in Int
         /\ Bought(order) * order.price \in Int
<1>1. order.volume \in Nat /\ order.remaining \in Nat /\ order.price \in Int
  BY VolumesAreNaturals, OrderbookAssumption DEF PlacedOrder
<1>2. Sign(order) \in Int
  BY DEF Sign
<1>3. Bought(order) \in Int
  BY <1>1, <1>2 DEF Bought
<1> QED
  BY <1>1, <1>2, <1>3

LEMMA OwnType ==
  ASSUME NEW so \in Seq(PlacedOrder), NEW account, NEW pair
  PROVE  LET own == Own(so, account, pair)
         IN  /\ IsFiniteSet(own) /\ own \subseteq 1 .. Len(so) /\ Len(so) \in Nat
             /\ \A i \in own : so[i] \in PlacedOrder
             /\ \A i \in own : Buys(so, own)[i] = Bought(so[i]) /\ Buys(so, own)[i] \in Int
             /\ \A i \in own : /\ Costs(so, own)[i] = Bought(so[i]) * so[i].price
                               /\ Costs(so, own)[i] \in Int
             /\ Position(so, account, pair) = SumFunctionOnSet(Buys(so, own), own)
             /\ Spent(so, account, pair) = SumFunctionOnSet(Costs(so, own), own)
             /\ Position(so, account, pair) \in Int /\ Spent(so, account, pair) \in Int
<1> DEFINE own == Own(so, account, pair)
           f == Buys(so, own)
           c == Costs(so, own)
<1>1. Len(so) \in Nat /\ DOMAIN so = 1 .. Len(so) /\ \A i \in 1 .. Len(so) : so[i] \in PlacedOrder
  BY LenProperties, ElementOfSeq
<1>2. own \subseteq 1 .. Len(so) /\ \A i \in own : so[i] \in PlacedOrder
  BY <1>1 DEF Own
<1>3. IsFiniteSet(own)
  BY <1>1, <1>2, FirstIds, FS_Subset
<1> HIDE DEF own
<1>4. /\ DOMAIN f = own /\ DOMAIN c = own
      /\ \A i \in own : f[i] = Bought(so[i]) /\ c[i] = Bought(so[i]) * so[i].price
  BY DEF Buys, Costs
<1>5. \A i \in own : f[i] \in Int /\ c[i] \in Int
  BY <1>2, <1>4, BoughtType
<1> HIDE DEF f, c
<1>6. SumFunctionOnSet(f, own) \in Int /\ SumFunctionOnSet(c, own) \in Int
  BY <1>3, <1>5, SumType
<1>7. SumFunction(f) = SumFunctionOnSet(f, own) /\ SumFunction(c) = SumFunctionOnSet(c, own)
  BY <1>4 DEF SumFunction
<1>8. Position(so, account, pair) = SumFunction(f) /\ Spent(so, account, pair) = SumFunction(c)
  BY DEF Position, Spent, f, c, own
<1> QED
  BY <1>1, <1>2, <1>3, <1>4, <1>5, <1>6, <1>7, <1>8 DEF f, c, own

\* Orders keep their accounts and pairs.
LEMMA OwnSame ==
  ASSUME NEW so \in Seq(PlacedOrder), NEW to \in Seq(PlacedOrder), Len(to) = Len(so),
         \A k \in 1 .. Len(so) : SameTerms(to[k], so[k]),
         NEW account, NEW pair
  PROVE  /\ Own(to, account, pair) = Own(so, account, pair)
         /\ \A i \in Own(so, account, pair) : to[i].price = so[i].price
<1>1. DOMAIN so = 1 .. Len(so) /\ DOMAIN to = 1 .. Len(so)
  BY LenProperties
<1> QED
  BY <1>1 DEF Own, SameTerms

LEMMA PositionStays ==
  ASSUME NEW so \in Seq(PlacedOrder), NEW to \in Seq(PlacedOrder), Len(to) = Len(so),
         \A k \in 1 .. Len(so) : SameTerms(to[k], so[k]),
         NEW account, NEW pair,
         \A i \in Own(so, account, pair) : Bought(to[i]) = Bought(so[i])
  PROVE  /\ Position(to, account, pair) = Position(so, account, pair)
         /\ Spent(to, account, pair) = Spent(so, account, pair)
<1> DEFINE own == Own(so, account, pair)
<1>1. Own(to, account, pair) = own /\ \A i \in own : to[i].price = so[i].price
  BY OwnSame
<1>2. Buys(to, own) = Buys(so, own)
  BY DEF Buys
<1>3. Costs(to, own) = Costs(so, own)
  BY <1>1 DEF Costs
<1> QED
  BY <1>1, <1>2, <1>3 DEF Position, Spent

\* One order buys d more.
LEMMA PositionMoves ==
  ASSUME NEW so \in Seq(PlacedOrder), NEW to \in Seq(PlacedOrder), Len(to) = Len(so),
         \A k \in 1 .. Len(so) : SameTerms(to[k], so[k]),
         NEW account, NEW pair, NEW y \in Own(so, account, pair), NEW d \in Int,
         Bought(to[y]) = Bought(so[y]) + d,
         \A i \in Own(so, account, pair) \ {y} : Bought(to[i]) = Bought(so[i])
  PROVE  /\ Position(to, account, pair) = Position(so, account, pair) + d
         /\ Spent(to, account, pair) = Spent(so, account, pair) + d * so[y].price
<1> DEFINE own == Own(so, account, pair)
           f == Buys(so, own)
           h == Buys(to, own)
           c == Costs(so, own)
           e == Costs(to, own)
<1>1. Own(to, account, pair) = own /\ \A i \in own : to[i].price = so[i].price
  BY OwnSame
<1>2. /\ IsFiniteSet(own)
      /\ \A i \in own : so[i] \in PlacedOrder
      /\ \A i \in own : f[i] = Bought(so[i]) /\ f[i] \in Int
      /\ \A i \in own : c[i] = Bought(so[i]) * so[i].price /\ c[i] \in Int
      /\ Position(so, account, pair) = SumFunctionOnSet(f, own)
      /\ Spent(so, account, pair) = SumFunctionOnSet(c, own)
      /\ Position(so, account, pair) \in Int /\ Spent(so, account, pair) \in Int
  BY OwnType
<1>3. LET ow == Own(to, account, pair)
      IN  /\ \A i \in ow : Buys(to, ow)[i] = Bought(to[i]) /\ Buys(to, ow)[i] \in Int
          /\ \A i \in ow : /\ Costs(to, ow)[i] = Bought(to[i]) * to[i].price
                           /\ Costs(to, ow)[i] \in Int
          /\ Position(to, account, pair) = SumFunctionOnSet(Buys(to, ow), ow)
          /\ Spent(to, account, pair) = SumFunctionOnSet(Costs(to, ow), ow)
  BY OwnType
<1>4. /\ \A i \in own : h[i] = Bought(to[i]) /\ h[i] \in Int
      /\ \A i \in own : e[i] = Bought(to[i]) * so[i].price /\ e[i] \in Int
      /\ Position(to, account, pair) = SumFunctionOnSet(h, own)
      /\ Spent(to, account, pair) = SumFunctionOnSet(e, own)
  BY <1>1, <1>3
<1>5. y \in own /\ h[y] = f[y] + d /\ \A i \in own \ {y} : h[i] = f[i]
  BY <1>2, <1>4
<1>6. \A i \in own \ {y} : e[i] = c[i]
  BY <1>2, <1>4
<1>7. e[y] = c[y] + d * so[y].price
  <2>1. Bought(so[y]) \in Int /\ so[y].price \in Int
    BY <1>2, BoughtType
  <2>2. (Bought(so[y]) + d) * so[y].price = Bought(so[y]) * so[y].price + d * so[y].price
    BY <2>1
  <2> QED
    BY <1>2, <1>4, <2>2
<1>8. f[y] \in Int /\ c[y] \in Int /\ d * so[y].price \in Int
  <2>1. f[y] \in Int /\ c[y] \in Int /\ so[y].price \in Int
    BY <1>2, <1>5, BoughtType
  <2> QED
    BY <2>1
<1> HIDE DEF own, f, h, c, e
<1>9. \A i \in own : f[i] \in Int /\ h[i] \in Int
  BY <1>2, <1>4
<1>10. \A i \in own : c[i] \in Int /\ e[i] \in Int
  BY <1>2, <1>4
<1>11. SumFunctionOnSet(h, own) = SumFunctionOnSet(f, own) + (h[y] - f[y])
  BY ONLY <1>2, <1>5, <1>9, SumUpdate
<1>12. SumFunctionOnSet(e, own) = SumFunctionOnSet(c, own) + (e[y] - c[y])
  BY ONLY <1>2, <1>5, <1>6, <1>10, SumUpdate
<1>13. h[y] - f[y] = d /\ e[y] - c[y] = d * so[y].price
  BY <1>5, <1>7, <1>8
<1> QED
  BY <1>2, <1>4, <1>11, <1>12, <1>13

\* A new order has bought nothing yet.
LEMMA PositionPlaced ==
  ASSUME ExchangeTypeOK, PlaceOrder, NEW account, NEW pair
  PROVE  /\ Position(sessionOrders', account, pair) = Position(sessionOrders, account, pair)
         /\ Spent(sessionOrders', account, pair) = Spent(sessionOrders, account, pair)
<1> DEFINE so == sessionOrders
           to == sessionOrders'
           z == Len(so) + 1
           own == Own(so, account, pair)
           ow == Own(to, account, pair)
           f == Buys(so, own)
           h == Buys(to, ow)
           c == Costs(so, own)
           e == Costs(to, ow)
<1>1. /\ so \in Seq(PlacedOrder) /\ to \in Seq(PlacedOrder)
      /\ Len(to) = Len(so) + 1
      /\ \A k \in 1 .. Len(so) : to[k] = so[k]
      /\ to[z].volume = to[z].remaining
  BY PlaceSession DEF ExchangeTypeOK, PlacedFromTaker
<1> HIDE DEF so, to
<1>2. /\ IsFiniteSet(own) /\ own \subseteq 1 .. Len(so) /\ Len(so) \in Nat
      /\ \A i \in own : f[i] = Bought(so[i]) /\ f[i] \in Int
      /\ \A i \in own : c[i] = Bought(so[i]) * so[i].price /\ c[i] \in Int
      /\ Position(so, account, pair) = SumFunctionOnSet(f, own)
      /\ Spent(so, account, pair) = SumFunctionOnSet(c, own)
      /\ Position(so, account, pair) \in Int /\ Spent(so, account, pair) \in Int
  BY <1>1, OwnType
<1>3. /\ IsFiniteSet(ow)
      /\ \A i \in ow : to[i] \in PlacedOrder
      /\ \A i \in ow : h[i] = Bought(to[i]) /\ h[i] \in Int
      /\ \A i \in ow : e[i] = Bought(to[i]) * to[i].price /\ e[i] \in Int
      /\ Position(to, account, pair) = SumFunctionOnSet(h, ow)
      /\ Spent(to, account, pair) = SumFunctionOnSet(e, ow)
  BY <1>1, OwnType
<1>4. own \subseteq ow /\ ow \subseteq own \cup {z} /\ z \notin own
  <2>1. DOMAIN so = 1 .. Len(so) /\ DOMAIN to = 1 .. Len(so) + 1
    BY <1>1, LenProperties
  <2> QED
    BY <1>1, <1>2, <2>1 DEF Own
<1>5. \A i \in own : to[i] = so[i]
  BY <1>1, <1>2
<1>6. \A i \in own : /\ f[i] \in Int /\ h[i] = f[i]
                     /\ c[i] \in Int /\ e[i] = c[i]
  BY <1>2, <1>3, <1>4, <1>5
<1>7. ASSUME z \in ow PROVE h[z] = 0 /\ e[z] = 0
  <2>1. to[z] \in PlacedOrder /\ h[z] = Bought(to[z]) /\ e[z] = Bought(to[z]) * to[z].price
    BY <1>3, <1>7
  <2>2. to[z].volume \in Nat /\ to[z].price \in Int /\ Sign(to[z]) \in Int
    BY <2>1, VolumesAreNaturals, BoughtType DEF PlacedOrder
  <2>3. Bought(to[z]) = 0
    <3>1. to[z].volume - to[z].remaining = 0
      BY <1>1, <2>2
    <3>2. 0 * Sign(to[z]) = 0
      BY <2>2
    <3> QED
      BY <3>1, <3>2 DEF Bought
  <2>4. 0 * to[z].price = 0
    BY <2>2
  <2> QED
    BY <2>1, <2>3, <2>4
<1> HIDE DEF z, own, ow, f, h, c, e
<1>8. \A i \in own : f[i] \in Int /\ h[i] = f[i]
  BY <1>6
<1>9. \A i \in own : c[i] \in Int /\ e[i] = c[i]
  BY <1>6
<1>10. SumFunctionOnSet(h, own) = SumFunctionOnSet(f, own)
  BY ONLY <1>2, <1>8, SumCongruence
<1>11. SumFunctionOnSet(e, own) = SumFunctionOnSet(c, own)
  BY ONLY <1>2, <1>9, SumCongruence
<1>12. ASSUME z \notin ow
       PROVE  /\ SumFunctionOnSet(h, ow) = SumFunctionOnSet(f, own)
              /\ SumFunctionOnSet(e, ow) = SumFunctionOnSet(c, own)
  <2>1. ow = own
    BY <1>4, <1>12
  <2> QED
    BY <1>10, <1>11, <2>1
<1>13. ASSUME z \in ow
       PROVE  /\ SumFunctionOnSet(h, ow) = SumFunctionOnSet(f, own)
              /\ SumFunctionOnSet(e, ow) = SumFunctionOnSet(c, own)
  <2>1. ow \ {z} = own
    BY <1>4, <1>13
  <2>2. \A i \in ow : h[i] \in Int
    BY <1>3
  <2>3. \A i \in ow : e[i] \in Int
    BY <1>3
  <2>4. SumFunctionOnSet(h, ow) = h[z] + SumFunctionOnSet(h, ow \ {z})
    BY ONLY <1>3, <1>13, <2>2, SumSplit
  <2>5. SumFunctionOnSet(e, ow) = e[z] + SumFunctionOnSet(e, ow \ {z})
    BY ONLY <1>3, <1>13, <2>3, SumSplit
  <2>6. h[z] = 0 /\ e[z] = 0
    BY <1>7, <1>13
  <2>7. SumFunctionOnSet(f, own) \in Int /\ SumFunctionOnSet(c, own) \in Int
    BY <1>2
  <2> QED
    BY ONLY <1>10, <1>11, <2>1, <2>4, <2>5, <2>6, <2>7
<1>14. /\ Position(to, account, pair) = Position(so, account, pair)
       /\ Spent(to, account, pair) = Spent(so, account, pair)
  BY <1>2, <1>3, <1>12, <1>13
<1> QED
  BY <1>14 DEF so, to

(***************************************************************************)
(* A settlement: what the taker buys the maker sells.                      *)
(***************************************************************************)
LEMMA SettledBought ==
  ASSUME SessionInv, Tally, SettleTransaction
  PROVE  /\ sessionOrders \in Seq(PlacedOrder) /\ sessionOrders' \in Seq(PlacedOrder)
         /\ Len(sessionOrders') = Len(sessionOrders)
         /\ \A k \in 1 .. Len(sessionOrders) :
              /\ SameTerms(sessionOrders'[k], sessionOrders[k])
              /\ Bought(sessionOrders'[k]) =
                   IF k \in {Trade.maker + 1, Trade.taker + 1}
                     THEN Bought(sessionOrders[k]) + Trade.volume * Sign(sessionOrders[k])
                     ELSE Bought(sessionOrders[k])
<1> DEFINE so == sessionOrders
           to == sessionOrders'
           v == Trade.volume
<1>0. /\ ExchangeTypeOK /\ nextId \in Nat /\ nextId = Len(so)
      /\ step = "settle" /\ transactionBuf # <<>>
  BY DEF SessionInv, ExchangeTypeOK, TypeOK, SettleTransaction, PopTransaction
<1>1. /\ so \in Seq(PlacedOrder) /\ to \in Seq(PlacedOrder) /\ Len(to) = nextId
      /\ Trade \in ObTransaction
  BY <1>0, SettleSession DEF ExchangeTypeOK
<1>2. Trade.maker \in 0 .. nextId - 1 /\ Trade.taker \in 0 .. nextId - 1 /\ v \in Nat
  BY <1>0, <1>1, TradeIsLeft, VolumesAreNaturals DEF ObTransaction
<1>3. ASSUME NEW k \in 1 .. nextId
      PROVE  /\ SameTerms(to[k], so[k])
             /\ Bought(to[k]) = IF k \in {Trade.maker + 1, Trade.taker + 1}
                                  THEN Bought(so[k]) + v * Sign(so[k])
                                  ELSE Bought(so[k])
  <2>1. k - 1 \in 0 .. nextId - 1 /\ k - 1 + 1 = k
    BY <1>0
  <2>2. OrderOf(k - 1) = so[k]
    BY <2>1 DEF OrderOf
  <2>3. Share(Trade, k - 1) = IF k \in {Trade.maker + 1, Trade.taker + 1} THEN v ELSE 0
    BY <1>2, <2>1 DEF Share
  <2>4. /\ sessionOrders'[k - 1 + 1].remaining = OrderOf(k - 1).remaining - Share(Trade, k - 1)
        /\ sessionOrders'[k - 1 + 1].volume = OrderOf(k - 1).volume
        /\ SameTerms(sessionOrders'[k - 1 + 1], OrderOf(k - 1))
    BY <2>1, SettledOrder
  <2>5. /\ to[k].remaining = so[k].remaining - Share(Trade, k - 1)
        /\ to[k].volume = so[k].volume /\ SameTerms(to[k], so[k])
    BY <2>1, <2>2, <2>4
  <2>6. Sign(to[k]) = Sign(so[k])
    BY <2>5 DEF Sign, SameTerms
  <2>7. /\ so[k].volume \in Nat /\ so[k].remaining \in Nat /\ Sign(so[k]) \in Int
    BY <1>0, <1>1, FilledType DEF Sign
  <2>8. ASSUME NEW u \in Nat
        PROVE  (so[k].volume - (so[k].remaining - u)) * Sign(so[k])
                 = (so[k].volume - so[k].remaining) * Sign(so[k]) + u * Sign(so[k])
    <3>1. so[k].volume - (so[k].remaining - u) = (so[k].volume - so[k].remaining) + u
      BY <2>7
    <3>2. \A x, y, s \in Int : (x + y) * s = x * s + y * s
      OBVIOUS
    <3> QED
      BY <2>7, <3>1, <3>2
  <2> HIDE DEF v
  <2>9. CASE k \in {Trade.maker + 1, Trade.taker + 1}
    BY <1>2, <2>3, <2>5, <2>6, <2>8, <2>9 DEF Bought
  <2>10. CASE k \notin {Trade.maker + 1, Trade.taker + 1}
    <3>1. to[k].remaining = so[k].remaining
      BY <2>3, <2>5, <2>7, <2>10
    <3> QED
      BY <2>5, <2>6, <2>10, <3>1 DEF Bought
  <2> QED
    BY <2>5, <2>9, <2>10
<1> QED
  BY <1>0, <1>1, <1>3

\* The two conditions under which an asset tells the pair: it belongs to one
\* pair only, and an order has a price that is meant.
AssetsApart ==
  \A p, q \in Pairs :
    p # q => {p.primary, p.secondary} \cap {q.primary, q.secondary} = {}

PricesMeant == \A request \in Insertions : request.type # "Market"

Listed(pair) == {pair.primary, pair.secondary} \subseteq Assets

PositionsInv ==
  /\ \A pair \in markets : pair \in Pairs /\ Listed(pair)
  /\ \A account \in Accounts, pair \in Pairs :
       Listed(pair) =>
         /\ balances[<<pair.primary, account>>] = Position(sessionOrders, account, pair)
         /\ balances[<<pair.secondary, account>>] >= - Spent(sessionOrders, account, pair)

\* A trade within the limit costs a buyer no more and brings a seller no less.
LEMMA WithinCost ==
  ASSUME NEW v \in Nat, NEW p \in Int, NEW limit \in Int, NEW s \in {-1, 1},
         s = 1 => p <= limit, s = -1 => limit <= p
  PROVE  (v * s) * p \in Int /\ (v * s) * limit \in Int /\ (v * s) * p <= (v * s) * limit
<1>1. CASE s = 1
  <2>1. v * p <= v * limit
    BY <1>1, ProductMonotone
  <2>2. v * s = v /\ v * p \in Int /\ v * limit \in Int
    BY <1>1
  <2> QED
    BY <2>1, <2>2
<1>2. CASE s = -1
  <2>1. v * limit <= v * p
    BY <1>2, ProductMonotone
  <2>2. (v * s) * p = - (v * p) /\ (v * s) * limit = - (v * limit)
    BY <1>2
  <2>3. v * p \in Int /\ v * limit \in Int
    OBVIOUS
  <2> QED
    BY <2>1, <2>2, <2>3
<1> QED
  BY <1>1, <1>2

\* The cells that a transaction changes.
LEMMA FlowByAsset ==
  ASSUME NEW trade \in ObTransaction, NEW maker, NEW trader, maker # trader,
         NEW pair, pair.primary # pair.secondary, NEW d \in Int,
         d = IF trade.takerSide = "Bid" THEN trade.volume ELSE - trade.volume
  PROVE  /\ \A account :
              Flow(trade, maker, trader, pair, <<pair.primary, account>>) =
                IF account = trader THEN d ELSE IF account = maker THEN - d ELSE 0
         /\ \A account :
              Flow(trade, maker, trader, pair, <<pair.secondary, account>>) =
                IF account = trader THEN - (d * trade.price)
                ELSE IF account = maker THEN d * trade.price ELSE 0
         /\ \A account : \A asset :
              asset \notin {pair.primary, pair.secondary} =>
                Flow(trade, maker, trader, pair, <<asset, account>>) = 0
<1> DEFINE flow(asset, account) == Flow(trade, maker, trader, pair, <<asset, account>>)
<1>1. trade.price \in Int /\ d * trade.price \in Int /\ - d * trade.price = - (d * trade.price)
  <2>1. trade.price \in Int
    BY OrderbookAssumption DEF ObTransaction
  <2> QED
    BY <2>1
<1>2. \A account : \A asset :
        flow(asset, account) =
          CASE <<asset, account>> = <<pair.primary, trader>>   -> d
            [] <<asset, account>> = <<pair.primary, maker>>    -> - d
            [] <<asset, account>> = <<pair.secondary, trader>> -> - d * trade.price
            [] <<asset, account>> = <<pair.secondary, maker>>  -> d * trade.price
            [] OTHER -> 0
  BY DEF Flow
<1> HIDE DEF flow
<1>3. \A account : flow(pair.primary, account) =
                     IF account = trader THEN d ELSE IF account = maker THEN - d ELSE 0
  BY <1>2
<1>4. \A account : flow(pair.secondary, account) =
                     IF account = trader THEN - d * trade.price
                     ELSE IF account = maker THEN d * trade.price ELSE 0
  BY <1>2
<1>5. \A account : \A asset :
        asset \notin {pair.primary, pair.secondary} => flow(asset, account) = 0
  BY <1>2
<1> QED
  BY <1>1, <1>3, <1>4, <1>5 DEF flow

\* The flows of a settlement, pair by pair.
LEMMA FlowsOfTrade ==
  ASSUME PairsDiffer, AssetsApart, PricesMeant, SessionInv, PartiesInv,
         step = "settle", transactionBuf # <<>>,
         NEW account \in Accounts, NEW pair \in Pairs
  PROVE  LET maker == OrderOf(Trade.maker)
             order == OrderOf(Trade.taker)
             flow(asset) == Flow(Trade, maker.account, order.account, taker.pair,
                                 <<asset, account>>)
             d == Trade.volume * Sign(order)
         IN  /\ d \in Int /\ d * Trade.price \in Int
             /\ pair # taker.pair \/ account \notin {maker.account, order.account} =>
                  flow(pair.primary) = 0 /\ flow(pair.secondary) = 0
             /\ pair = taker.pair /\ account = order.account =>
                  flow(pair.primary) = d /\ flow(pair.secondary) = - (d * Trade.price)
             /\ pair = taker.pair /\ account = maker.account =>
                  flow(pair.primary) = - d /\ flow(pair.secondary) = d * Trade.price
             /\ maker.account # order.account
             /\ maker.pair = taker.pair /\ order.pair = taker.pair
             /\ maker.price = Trade.price
             /\ Trade.volume * Sign(maker) = - d
             /\ d * order.price \in Int /\ d * Trade.price <= d * order.price
<1> DEFINE maker == OrderOf(Trade.maker)
           order == OrderOf(Trade.taker)
           v == Trade.volume
           d == v * Sign(order)
           flow(asset, a) == Flow(Trade, maker.account, order.account, taker.pair, <<asset, a>>)
<1>0. /\ ExchangeTypeOK /\ TypeOK
      /\ taker \in Insertions /\ taker.pair \in Pairs /\ taker.side \in Side
      /\ taker.price \in Int
      /\ Trade \in ObTransaction /\ v \in Nat /\ Trade.price \in Int
  BY TakerType, TradeType, VolumesAreNaturals, OrderbookAssumption
  DEF SessionInv, ExchangeTypeOK, ObTransaction, TypeOK
<1>1. Trade.taker = nextId - 1 /\ CellsAreDisjoint(Trade)
  BY SettlementFindsItsCells
<1>2. Deals(Trade, maker, taker) /\ SameTerms(order, taker)
  <2>1. /\ Len(transactionBuf) \in 1 .. Len(transactionBuf)
        /\ Trade = transactionBuf[Len(transactionBuf)]
    BY <1>0, TradeType
  <2> QED
    BY <1>1, <2>1 DEF PartiesInv
<1>3. /\ maker.account # order.account /\ maker.pair = taker.pair /\ order.pair = taker.pair
      /\ maker.price = Trade.price /\ order.price = taker.price
      /\ order.side = taker.side /\ maker.side = Other(taker.side)
      /\ Trade.takerSide = taker.side
  BY <1>2 DEF Deals, SameTerms
<1>4. /\ Sign(order) \in {-1, 1} /\ Sign(order) \in Int
      /\ Sign(order) = 1 <=> taker.side = "Bid"
      /\ Sign(maker) = - Sign(order)
  BY <1>0, <1>3 DEF Sign, Other, Side
<1>5. d \in Int /\ d = IF Trade.takerSide = "Bid" THEN v ELSE - v
  BY <1>0, <1>3, <1>4
<1>6. v * Sign(maker) = - d
  BY <1>0, <1>4
<1>7. d * Trade.price \in Int /\ d * order.price \in Int /\ d * Trade.price <= d * order.price
  <2>1. taker.type # "Market"
    BY <1>0 DEF PricesMeant
  <2>2. /\ Sign(order) = 1 => Trade.price <= taker.price
        /\ Sign(order) = -1 => taker.price <= Trade.price
    BY <1>0, <1>2, <1>3, <1>4, <2>1 DEF Deals, WithinLimit, Side, Sign
  <2> QED
    BY <1>0, <1>3, <1>4, <2>2, WithinCost
<1>8. taker.pair.primary # taker.pair.secondary
  BY <1>0 DEF PairsDiffer
<1> HIDE DEF d, maker, order, v
<1>9. /\ \A a : flow(taker.pair.primary, a) =
                  IF a = order.account THEN d ELSE IF a = maker.account THEN - d ELSE 0
      /\ \A a : flow(taker.pair.secondary, a) =
                  IF a = order.account THEN - (d * Trade.price)
                  ELSE IF a = maker.account THEN d * Trade.price ELSE 0
      /\ \A a : \A asset :
           asset \notin {taker.pair.primary, taker.pair.secondary} => flow(asset, a) = 0
  <2>1. /\ Trade \in ObTransaction /\ maker.account # order.account
        /\ taker.pair.primary # taker.pair.secondary
        /\ d \in Int /\ d = IF Trade.takerSide = "Bid" THEN Trade.volume ELSE - Trade.volume
    BY <1>0, <1>3, <1>5, <1>8 DEF v
  <2> QED
    BY ONLY <2>1, FlowByAsset
<1> HIDE DEF flow
<1>10. /\ pair # taker.pair \/ account \notin {maker.account, order.account} =>
            flow(pair.primary, account) = 0 /\ flow(pair.secondary, account) = 0
       /\ pair = taker.pair /\ account = order.account =>
            /\ flow(pair.primary, account) = d
            /\ flow(pair.secondary, account) = - (d * Trade.price)
       /\ pair = taker.pair /\ account = maker.account =>
            /\ flow(pair.primary, account) = - d
            /\ flow(pair.secondary, account) = d * Trade.price
  <2>1. ASSUME pair # taker.pair
        PROVE  flow(pair.primary, account) = 0 /\ flow(pair.secondary, account) = 0
    <3>1. {pair.primary, pair.secondary} \cap {taker.pair.primary, taker.pair.secondary} = {}
      BY <1>0, <2>1 DEF AssetsApart
    <3> QED
      BY <1>9, <3>1
  <2> QED
    BY <1>3, <1>9, <2>1
<1> QED
  BY <1>3, <1>5, <1>6, <1>7, <1>10 DEF d, maker, order, v, flow

\* The sums of the taker's and of the maker's orders, and of all others.
LEMMA SettledPositions ==
  ASSUME PairsDiffer, AssetsApart, PricesMeant, SessionInv, PartiesInv, Tally,
         SettleTransaction, NEW account \in Accounts, NEW pair \in Pairs
  PROVE  LET flow(asset) == Flow(Trade, OrderOf(Trade.maker).account,
                                 OrderOf(Trade.taker).account, taker.pair,
                                 <<asset, account>>)
         IN  /\ flow(pair.primary) \in Int /\ flow(pair.secondary) \in Int
             /\ Position(sessionOrders', account, pair)
                  = Position(sessionOrders, account, pair) + flow(pair.primary)
             /\ Spent(sessionOrders, account, pair) \in Int
             /\ Position(sessionOrders, account, pair) \in Int
             /\ Spent(sessionOrders', account, pair) \in Int
             /\ Spent(sessionOrders', account, pair)
                  >= Spent(sessionOrders, account, pair) - flow(pair.secondary)
<1> DEFINE so == sessionOrders
           to == sessionOrders'
           y == Trade.maker + 1
           z == Trade.taker + 1
           v == Trade.volume
           maker == OrderOf(Trade.maker)
           order == OrderOf(Trade.taker)
           d == v * Sign(order)
           flow(asset) == Flow(Trade, maker.account, order.account, taker.pair,
                               <<asset, account>>)
           own == Own(so, account, pair)
<1>0. /\ ExchangeTypeOK /\ nextId \in Nat /\ nextId = Len(so)
      /\ step = "settle" /\ transactionBuf # <<>>
  BY DEF SessionInv, ExchangeTypeOK, TypeOK, SettleTransaction, PopTransaction
<1>1. /\ so \in Seq(PlacedOrder) /\ to \in Seq(PlacedOrder) /\ Len(to) = Len(so)
      /\ \A k \in 1 .. Len(so) :
           /\ SameTerms(to[k], so[k])
           /\ Bought(to[k]) = IF k \in {y, z} THEN Bought(so[k]) + v * Sign(so[k])
                                              ELSE Bought(so[k])
  BY SettledBought
<1>2. /\ y \in 1 .. Len(so) /\ z \in 1 .. Len(so) /\ so[y] = maker /\ so[z] = order
      /\ DOMAIN so = 1 .. Len(so)
  <2>1. Trade.maker \in 0 .. nextId - 1 /\ Trade.taker \in 0 .. nextId - 1
    BY <1>0, SettlementFindsItsCells
  <2> QED
    BY <1>0, <1>1, <2>1, LenProperties DEF OrderOf
<1>3. /\ d \in Int /\ d * Trade.price \in Int
      /\ pair # taker.pair \/ account \notin {maker.account, order.account} =>
           flow(pair.primary) = 0 /\ flow(pair.secondary) = 0
      /\ pair = taker.pair /\ account = order.account =>
           flow(pair.primary) = d /\ flow(pair.secondary) = - (d * Trade.price)
      /\ pair = taker.pair /\ account = maker.account =>
           flow(pair.primary) = - d /\ flow(pair.secondary) = d * Trade.price
      /\ maker.account # order.account
      /\ maker.pair = taker.pair /\ order.pair = taker.pair
      /\ maker.price = Trade.price
      /\ v * Sign(maker) = - d
      /\ d * order.price \in Int /\ d * Trade.price <= d * order.price
  BY <1>0, FlowsOfTrade
<1> HIDE DEF d, maker, order, v, flow, so, to, y, z
<1>4. /\ own \subseteq 1 .. Len(so)
      /\ \A k \in 1 .. Len(so) :
           k \in own <=> so[k].account = account /\ so[k].pair = pair
      /\ Position(so, account, pair) \in Int /\ Spent(so, account, pair) \in Int
  BY <1>1, <1>2, OwnType DEF Own
<1> HIDE DEF own
<1>5. CASE pair # taker.pair \/ account \notin {maker.account, order.account}
  <2>1. y \notin own /\ z \notin own
    BY <1>2, <1>3, <1>4, <1>5
  <2>2. \A k \in own : Bought(to[k]) = Bought(so[k])
    BY <1>1, <1>4, <2>1
  <2>3. /\ Position(to, account, pair) = Position(so, account, pair)
        /\ Spent(to, account, pair) = Spent(so, account, pair)
    BY <1>1, <2>2, PositionStays DEF own
  <2>4. flow(pair.primary) = 0 /\ flow(pair.secondary) = 0
    BY <1>3, <1>5
  <2> QED
    BY <1>4, <2>3, <2>4 DEF so, to, flow, maker, order
<1>6. CASE pair = taker.pair /\ account = order.account
  <2>1. y \notin own /\ z \in own
    BY <1>2, <1>3, <1>4, <1>6
  <2>2. /\ Bought(to[z]) = Bought(so[z]) + d
        /\ \A k \in own \ {z} : Bought(to[k]) = Bought(so[k])
    BY <1>1, <1>2, <1>4, <2>1 DEF d
  <2>3. /\ Position(to, account, pair) = Position(so, account, pair) + d
        /\ Spent(to, account, pair) = Spent(so, account, pair) + d * so[z].price
    <3>1. /\ Len(to) = Len(so) /\ d \in Int
          /\ \A k \in 1 .. Len(so) : SameTerms(to[k], so[k])
      BY <1>1, <1>3
    <3>2. /\ z \in Own(so, account, pair)
          /\ \A k \in Own(so, account, pair) \ {z} : Bought(to[k]) = Bought(so[k])
      BY <2>1, <2>2 DEF own
    <3>3. so \in Seq(PlacedOrder) /\ to \in Seq(PlacedOrder)
      BY <1>1
    <3>4. Bought(to[z]) = Bought(so[z]) + d
      BY <2>2
    <3> QED
      BY ONLY <3>1, <3>2, <3>3, <3>4, PositionMoves
  <2>4. flow(pair.primary) = d /\ flow(pair.secondary) = - (d * Trade.price)
    BY <1>3, <1>6
  <2>5. /\ Spent(to, account, pair) \in Int
        /\ Spent(to, account, pair) >= Spent(so, account, pair) - flow(pair.secondary)
        /\ flow(pair.secondary) \in Int
    BY <1>2, <1>3, <1>4, <2>3, <2>4, SMTT(40)
  <2> QED
    BY <1>3, <1>4, <2>3, <2>4, <2>5 DEF so, to, flow, maker, order
<1>7. CASE pair = taker.pair /\ account = maker.account
  <2>1. y \in own /\ z \notin own
    BY <1>2, <1>3, <1>4, <1>7
  <2>2. /\ Bought(to[y]) = Bought(so[y]) + (- d) /\ - d \in Int
        /\ \A k \in own \ {y} : Bought(to[k]) = Bought(so[k])
    BY <1>1, <1>2, <1>3, <1>4, <2>1
  <2>3. /\ Position(to, account, pair) = Position(so, account, pair) + (- d)
        /\ Spent(to, account, pair) = Spent(so, account, pair) + (- d) * so[y].price
    <3>1. /\ Len(to) = Len(so) /\ - d \in Int
          /\ \A k \in 1 .. Len(so) : SameTerms(to[k], so[k])
      BY <1>1, <2>2
    <3>2. /\ y \in Own(so, account, pair)
          /\ \A k \in Own(so, account, pair) \ {y} : Bought(to[k]) = Bought(so[k])
      BY <2>1, <2>2 DEF own
    <3>3. so \in Seq(PlacedOrder) /\ to \in Seq(PlacedOrder)
      BY <1>1
    <3>4. Bought(to[y]) = Bought(so[y]) + (- d)
      BY <2>2
    <3> QED
      BY ONLY <3>1, <3>2, <3>3, <3>4, PositionMoves
  <2>4. flow(pair.primary) = - d /\ flow(pair.secondary) = d * Trade.price
    BY <1>3, <1>7
  <2>5. (- d) * so[y].price = - (d * Trade.price)
    <3>1. so[y].price = Trade.price /\ Trade.price \in Int
      <4>1. so[y] \in PlacedOrder
        BY <1>1, <1>2, ElementOfSeq
      <4> QED
        BY <1>2, <1>3, <4>1, BoughtType
    <3> QED
      BY <1>3, <3>1
  <2>6. /\ Spent(to, account, pair) \in Int
        /\ Spent(to, account, pair) >= Spent(so, account, pair) - flow(pair.secondary)
        /\ flow(pair.secondary) \in Int
    BY <1>3, <1>4, <2>3, <2>4, <2>5
  <2> QED
    BY <1>3, <1>4, <2>2, <2>3, <2>4, <2>6 DEF so, to, flow, maker, order
<1> QED
  BY <1>5, <1>6, <1>7

LEMMA SettleKeepsPositions ==
  ASSUME NEW V, NEW P, AmountsUpTo(V, P), PairsDiffer, AssetsApart, PricesMeant,
         SessionInv, PartiesInv, Tally, Remains, TradedInv(V, P), nextId <= MaxOrders,
         PositionsInv, SettleTransaction
  PROVE  PositionsInv'
<1>0. /\ ExchangeTypeOK /\ step = "settle" /\ transactionBuf # <<>>
      /\ markets' = markets
  BY DEF SessionInv, SettleTransaction, PopTransaction
<1>1. \A cell \in Cells : balances'[cell] = NewBalance(Trade, cell)
  <2>1. \A cell \in Cells :
          NewBalance(Trade, cell) \in Int /\ FitsBalance(NewBalance(Trade, cell))
    BY <1>0, SettlementFits
  <2>2. balances' = [cell \in Cells |-> WrapBalance(NewBalance(Trade, cell))]
    BY DEF SettleTransaction
  <2> QED
    BY <2>1, <2>2, WrapBalanceFits
<1>2. ASSUME NEW account \in Accounts, NEW pair \in Pairs, Listed(pair)
      PROVE  /\ balances'[<<pair.primary, account>>] = Position(sessionOrders', account, pair)
             /\ balances'[<<pair.secondary, account>>] >= - Spent(sessionOrders', account, pair)
  <2> DEFINE flow(asset) == Flow(Trade, OrderOf(Trade.maker).account,
                                 OrderOf(Trade.taker).account, taker.pair,
                                 <<asset, account>>)
  <2>1. <<pair.primary, account>> \in Cells /\ <<pair.secondary, account>> \in Cells
    BY <1>2 DEF Listed, Cells
  <2>2. /\ balances'[<<pair.primary, account>>]
             = balances[<<pair.primary, account>>] + flow(pair.primary)
        /\ balances'[<<pair.secondary, account>>]
             = balances[<<pair.secondary, account>>] + flow(pair.secondary)
    BY <1>1, <2>1 DEF NewBalance
  <2>3. /\ flow(pair.primary) \in Int /\ flow(pair.secondary) \in Int
        /\ Position(sessionOrders', account, pair)
             = Position(sessionOrders, account, pair) + flow(pair.primary)
        /\ Position(sessionOrders, account, pair) \in Int
        /\ Spent(sessionOrders, account, pair) \in Int
        /\ Spent(sessionOrders', account, pair) \in Int
        /\ Spent(sessionOrders', account, pair)
             >= Spent(sessionOrders, account, pair) - flow(pair.secondary)
    BY <1>2, SettledPositions
  <2>4. /\ balances[<<pair.primary, account>>] = Position(sessionOrders, account, pair)
        /\ balances[<<pair.secondary, account>>] >= - Spent(sessionOrders, account, pair)
    BY <1>2 DEF PositionsInv
  <2>5. balances[<<pair.primary, account>>] \in Int /\ balances[<<pair.secondary, account>>] \in Int
    BY <1>0, <2>1, ExchangeAssumption DEF ExchangeTypeOK
  <2> HIDE DEF flow
  <2> QED
    BY <2>2, <2>3, <2>4, <2>5
<1> QED
  BY <1>0, <1>2 DEF PositionsInv

LEMMA PositionsInit == ExchangeInit => PositionsInv
<1> SUFFICES ASSUME ExchangeInit PROVE PositionsInv
  OBVIOUS
<1>1. sessionOrders = <<>> /\ markets = {} /\ \A cell \in Cells : balances[cell] = 0
  BY DEF ExchangeInit, Init
<1>2. ASSUME NEW account \in Accounts, NEW pair \in Pairs
      PROVE  Position(sessionOrders, account, pair) = 0 /\ Spent(sessionOrders, account, pair) = 0
  <2> DEFINE own == Own(sessionOrders, account, pair)
  <2>1. own = {}
    BY <1>1 DEF Own
  <2>2. DOMAIN Buys(sessionOrders, own) = {} /\ DOMAIN Costs(sessionOrders, own) = {}
    BY <2>1 DEF Buys, Costs
  <2> QED
    BY <2>2, SumOfEmpty DEF Position, Spent
<1> QED
  BY <1>1, <1>2 DEF PositionsInv, Listed, Cells

LEMMA PositionsStep ==
  ASSUME NEW V, NEW P, AmountsUpTo(V, P), PairsDiffer, AssetsApart, PricesMeant,
         SessionInv, PartiesInv, Tally, Remains, TradedInv(V, P), nextId <= MaxOrders,
         PositionsInv, [ExchangeNext]_exchangeVars, [NoModification]_exchangeVars
  PROVE  PositionsInv'
<1>0. ExchangeTypeOK /\ TypeOK
  BY DEF SessionInv, ExchangeTypeOK
<1>1. ASSUME balances' = balances,
             \A pair \in markets' : pair \in Pairs /\ Listed(pair),
             \A account \in Accounts, pair \in Pairs :
               /\ Position(sessionOrders', account, pair) = Position(sessionOrders, account, pair)
               /\ Spent(sessionOrders', account, pair) = Spent(sessionOrders, account, pair)
      PROVE  PositionsInv'
  BY <1>1 DEF PositionsInv
<1>2. ASSUME UNCHANGED <<markets, sessionOrders, balances>> PROVE PositionsInv'
  BY <1>2 DEF PositionsInv
<1>3. ASSUME NEW pair \in Pairs, CreateMarket(pair) PROVE PositionsInv'
  <2>1. markets' = markets \cup {pair} /\ Listed(pair)
    BY <1>3 DEF CreateMarket, AddMarket, AddMarketResult, Listed
  <2>2. sessionOrders' = sessionOrders /\ balances' = balances
    BY <1>3 DEF CreateMarket
  <2> QED
    BY <1>1, <2>1, <2>2 DEF PositionsInv
<1>4. CASE PlaceOrder
  <2>1. balances' = balances /\ markets' = markets
    BY <1>4 DEF PlaceOrder, EnterOrder
  <2> QED
    BY <1>0, <1>1, <1>4, <2>1, PositionPlaced DEF PositionsInv
<1>5. CASE SettleTransaction
  BY <1>5, SettleKeepsPositions
<1>6. ASSUME NEW account \in AccountIds, NEW id \in 0 .. MaxOrders - 1,
             CancelPlaced(account, id)
      PROVE  PositionsInv'
  <2>1. balances' = balances /\ markets' = markets
    BY <1>6 DEF CancelPlaced, CancelOrder
  <2>2. /\ id \in Nat /\ IsPlaced(id)
        /\ sessionOrders \in Seq(PlacedOrder) /\ sessionOrders' \in Seq(PlacedOrder)
        /\ Len(sessionOrders') = Len(sessionOrders)
        /\ \A k \in 1 .. Len(sessionOrders) :
             /\ SameTerms(sessionOrders'[k], sessionOrders[k])
             /\ k # id + 1 => sessionOrders'[k] = sessionOrders[k]
        /\ sessionOrders' =
             [sessionOrders EXCEPT ![id + 1] = [OrderOf(id) EXCEPT !.status = "Cancelled"]]
    BY <1>0, <1>6, CancelSession DEF ExchangeTypeOK
  <2>3. Bought(sessionOrders'[id + 1]) = Bought(sessionOrders[id + 1])
    <3>1. OrderOf(id) \in PlacedOrder /\ OrderOf(id) = sessionOrders[id + 1]
      BY <1>0, <2>2, PlacedType DEF OrderOf
    <3>2. sessionOrders'[id + 1] = [OrderOf(id) EXCEPT !.status = "Cancelled"]
      BY <2>2 DEF IsPlaced
    <3> QED
      BY <3>1, <3>2 DEF PlacedOrder, Bought, Sign
  <2>4. ASSUME NEW a \in Accounts, NEW pair \in Pairs
        PROVE  /\ Position(sessionOrders', a, pair) = Position(sessionOrders, a, pair)
               /\ Spent(sessionOrders', a, pair) = Spent(sessionOrders, a, pair)
    <3>1. \A i \in Own(sessionOrders, a, pair) : i \in 1 .. Len(sessionOrders)
      BY <2>2, OwnType
    <3>2. \A i \in Own(sessionOrders, a, pair) :
            Bought(sessionOrders'[i]) = Bought(sessionOrders[i])
      BY <2>2, <2>3, <3>1
    <3>3. /\ sessionOrders \in Seq(PlacedOrder) /\ sessionOrders' \in Seq(PlacedOrder)
          /\ Len(sessionOrders') = Len(sessionOrders)
          /\ \A k \in 1 .. Len(sessionOrders) : SameTerms(sessionOrders'[k], sessionOrders[k])
      BY <2>2
    <3> QED
      BY ONLY <3>2, <3>3, PositionStays
  <2>5. \A pair \in markets' : pair \in Pairs /\ Listed(pair)
    BY <2>1 DEF PositionsInv
  <2> QED
    BY ONLY <1>1, <2>1, <2>4, <2>5
<1>7. ASSUME NEW account \in AccountIds, NEW id \in 0 .. MaxOrders - 1,
             NEW newVolume \in NewVolumes, ModifyPlaced(account, id, newVolume)
      PROVE  PositionsInv'
  <2>1. ~ NoModification
    BY <1>7 DEF NoModification
  <2>2. UNCHANGED exchangeVars
    BY <2>1
  <2> QED
    BY <1>2, <2>2 DEF exchangeVars, vars
<1>8. CASE \/ \E request \in Insertions : InsertOrder(request)
           \/ MatchOrder \/ CompleteInsert \/ Refuse \/ Panic \/ Dead
           \/ UNCHANGED exchangeVars
  <2>1. UNCHANGED <<sessionOrders, balances>>
    BY <1>8 DEF InsertOrder, MatchOrder, CompleteInsert, Refuse, Panic, Dead, exchangeVars
  <2>2. markets' = markets
    BY <1>8 DEF InsertOrder, BeginInsert, MatchOrder, Fill, AbortSelfTrade, PassLevel,
       StopMatching, CompleteInsert, FinishInsert, Refuse, Panic, Dead, exchangeVars, vars,
       insertionVars
  <2> QED
    BY <1>2, <2>1, <2>2
<1> QED
  BY <1>3, <1>4, <1>5, <1>6, <1>7, <1>8 DEF ExchangeNext

(***************************************************************************)
(* In a setting where assets tell pairs and prices are meant, and in which *)
(* nothing is aborted, modified or too large for its type, what an account *)
(* has of the primary asset of a market is what its orders there bought    *)
(* less what they sold, and it never paid beyond its limits.               *)
(***************************************************************************)
THEOREM PositionsMatchFillsHolds ==
  ASSUME PairsDiffer, AssetsApart, PricesMeant, AmountsFit
  PROVE  ExchangeSpec /\ [][NoSelfTrade]_vars /\ [][NoModification]_exchangeVars
           => []PositionsMatchFills
<1>1. PICK V : \E P : AmountsUpTo(V, P)
  BY DEF AmountsFit
<1>2. PICK P : AmountsUpTo(V, P)
  BY <1>1
<1>3. VolumesUpTo(V)
  BY <1>2 DEF AmountsUpTo
<1>4. ExchangeInit => Init /\ PartiesInv
  BY DEF ExchangeInit, Init, PartiesInv
<1>5. ExchangeInit => TradedInv(V, P)
  BY <1>2, TradedInit
<1>6. Init => BoundedInv(V)
  BY <1>3, BoundedInit
<1>7. SessionInv => TypeOK /\ ExchangeTypeOK
  BY DEF SessionInv, ExchangeTypeOK
<1>8. ExchangeTypeOK /\ [ExchangeNext]_exchangeVars => [Next]_vars
  BY OrderbookStep DEF ExchangeTypeOK
<1>9. /\ TypeOK /\ CrossInv /\ [Next]_vars => CrossInv'
      /\ TypeOK /\ FillsInv /\ [Next]_vars /\ [NoSelfTrade]_vars => FillsInv'
  BY CrossStep, FillsStep
<1>10. TypeOK /\ BoundedInv(V) /\ [Next]_vars => BoundedInv(V)'
  BY <1>3, BoundedStep
<1>11. SessionInv /\ FillsInv /\ PartiesInv /\ [ExchangeNext]_exchangeVars /\ [NoSelfTrade]_vars
         => PartiesInv'
  BY PartiesStep DEF FillsInv
<1>12. SessionInv /\ CrossInv /\ FillsInv /\ Tally /\ Remains /\ [ExchangeNext]_exchangeVars
         /\ [NoSelfTrade]_vars /\ [NoModification]_exchangeVars => Tally' /\ Remains'
  BY TallyStep
<1>13. SessionInv /\ Tally /\ Remains /\ BoundedInv(V) /\ TradedInv(V, P)
         /\ [ExchangeNext]_exchangeVars /\ [NoModification]_exchangeVars => TradedInv(V, P)'
  BY <1>2, TradedStep DEF BoundedInv
<1>14. SessionInv /\ PartiesInv /\ Tally /\ Remains /\ BoundedInv(V) /\ TradedInv(V, P)
         /\ PositionsInv /\ [ExchangeNext]_exchangeVars /\ [NoModification]_exchangeVars
         => PositionsInv'
  BY <1>2, PositionsStep DEF BoundedInv
<1>15. Init => CrossInv /\ FillsInv
  BY CrossInit, FillsInit
<1>16. PositionsInv => PositionsMatchFills
  BY DEF PositionsInv, PositionsMatchFills, Position, Spent, Buys, Costs, Own, Bought, Sign
<1> QED
  BY <1>4, <1>5, <1>6, <1>7, <1>8, <1>9, <1>10, <1>11, <1>12, <1>13, <1>14, <1>15, <1>16,
     SessionInvariant, TallyInit, PositionsInit, PTL
  DEF ExchangeSpec

\* In particular when every account keeps to one side of a pair and modifies
\* no orders.
THEOREM PositionsMatchFillsOneSided ==
  ASSUME OneSidePerAccount, NewVolumes = {}, PairsDiffer, AssetsApart, PricesMeant, AmountsFit
  PROVE  ExchangeSpec => []PositionsMatchFills
<1>1. NoModification
  BY DEF NoModification
<1>2. [NoModification]_exchangeVars
  BY <1>1
<1>3. ExchangeSpec => Spec
  BY ExchangeImplementsOrderbook DEF ImplementsOrderbook
<1> QED
  BY <1>2, <1>3, OneSidedNeverSelfTrades, PositionsMatchFillsHolds, PTL
=============================================================================
