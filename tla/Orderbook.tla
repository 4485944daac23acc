----------------------------- MODULE Orderbook -----------------------------
(***************************************************************************)
(* The order books of all markets (src/orderbook.rs) behind the thin       *)
(* Market and Markets wrappers of src/market.rs.                           *)
(*                                                                         *)
(* One thread owns the books, so at most one insertion is in progress.     *)
(* Orderbook::insert_order is a loop over the opposing price levels; here  *)
(* each iteration is a step, and the variable `step` is its program        *)
(* counter.  Nothing else is enabled while an insertion runs, so the steps *)
(* of one insertion are forced: they are the whole handler, in its order.  *)
(*                                                                         *)
(* A price level (a BTreeMap key) is in DOMAIN book; its VecDeque of open  *)
(* orders is the value, oldest first.  Prices are whole units, volumes are *)
(* u32 (0 .. VolumeMod-1).  Market::last_traded_price is written and never *)
(* read, so it is left out.                                                *)
(***************************************************************************)
EXTENDS Integers, FiniteSets, SequencesExt

CONSTANTS
  Pairs,         \* the asset pairs a market may be opened for
  AccountIds,    \* the accounts that place orders
  Prices,        \* the prices orders may carry
  VolumeMod,     \* Volume is u32: arithmetic modulo VolumeMod
  Insertions,    \* the insertion requests that may arrive
  MaxOrders,     \* bound on the orders of a session
  NoOrder        \* the taker when no insertion is in progress

Volume == 0 .. VolumeMod - 1
Side == {"Bid", "Ask"}
OrderType == {"Limit", "FillOrKill", "Market"}

OrderInsertionRequest ==
  [account : AccountIds, type : OrderType, pair : Pairs, side : Side,
   volume : Volume, price : Prices]

ASSUME OrderbookAssumption ==
  /\ Prices \subseteq Int
  /\ IsFiniteSet(Prices)
  /\ VolumeMod \in Nat \ {0}
  /\ MaxOrders \in Nat
  /\ Insertions \subseteq OrderInsertionRequest

Slots == [pair : Pairs, side : Side, price : Prices]
OrderbookEntry == [id : Nat, account : AccountIds, volume : Volume]
ObTransaction ==
  [price : Prices, volume : Volume, takerSide : Side, maker : Nat, taker : Nat]

VARIABLES
  markets,         \* pairs with an open market
  book,            \* price level -> its open orders, oldest first
  nextId,          \* id of the next order: session_orders.len()
  step,            \* where the insertion in progress stands
  taker,           \* the order being inserted
  remaining,       \* its volume not yet matched
  visited,         \* prices the level iterator has left behind
  deletions,       \* price_level_deletions
  transactionBuf   \* transactions not yet settled, oldest first

insertionVars == <<taker, remaining, visited, deletions>>
vars == <<markets, book, nextId, step, insertionVars, transactionBuf>>

(***************************************************************************)
(* Price levels as the taker sees them.                                    *)
(***************************************************************************)
Other(side) == IF side = "Bid" THEN "Ask" ELSE "Bid"

Slot(pair, side, price) == [pair |-> pair, side |-> side, price |-> price]

LevelPrices(pair, side) == {p \in Prices : Slot(pair, side, p) \in DOMAIN book}

\* p is iterated before q: lowest ask first, highest bid first.
Before(side, p, q) == IF side = "Ask" THEN p < q ELSE p > q

\* Mutation of WithinLimit: an order does not trade at its very limit.
StrictlyWithinLimit(order, p) ==
  \/ order.type = "Market"
  \/ order.side = "Bid" /\ p < order.price
  \/ order.side = "Ask" /\ p > order.price

WithinLimit(order, p) ==
  \/ order.type = "Market"
  \/ order.side = "Bid" /\ p <= order.price
  \/ order.side = "Ask" /\ p >= order.price

Opposing(p) == Slot(taker.pair, Other(taker.side), p)

OpposingPrices == LevelPrices(taker.pair, Other(taker.side))

Ahead == {p \in OpposingPrices \ visited : WithinLimit(taker, p)}

\* Mutation of IsNext: BTreeMap::iter_mut without next_back.
IsNextAscending(p) == p \in Ahead /\ \A q \in Ahead \ {p} : p < q

IsNext(p) ==
  p \in Ahead /\ \A q \in Ahead \ {p} : Before(Other(taker.side), p, q)

\* The place of p among `levels`, counted from the best one.
Rank(levels, side, p) ==
  Cardinality({q \in levels : q = p \/ Before(side, q, p)})

\* Mutations of Cleaned: pop_first and pop_last are swapped; one pop too few.
CleanedFromOtherEnd ==
  {p \in OpposingPrices : Rank(OpposingPrices, taker.side, p) <= deletions}

CleanedOneLess ==
  {p \in OpposingPrices : Rank(OpposingPrices, Other(taker.side), p) < deletions}

\* The levels that pop_first/pop_last, called `deletions` times, removes.
Cleaned ==
  {p \in OpposingPrices : Rank(OpposingPrices, Other(taker.side), p) <= deletions}

\* Mutation of Lesser: max for min.
Greater(a, b) == IF a <= b THEN b ELSE a

Lesser(a, b) == IF a <= b THEN a ELSE b

(***************************************************************************)
(* The volume checks of FillOrKill and Market orders.  Both walk the       *)
(* levels in ascending price order, whatever the side; the FillOrKill walk *)
(* ends at the first level beyond the limit.                               *)
(***************************************************************************)
\* Mutation of Scanned: the limit is not looked at.
ScannedEverything(order) == LevelPrices(order.pair, Other(order.side))

Scanned(order) ==
  LET levels == LevelPrices(order.pair, Other(order.side))
  IN  {p \in levels : \A q \in levels : q <= p => WithinLimit(order, q)}

QueueVolume(queue) == SumFunction([i \in DOMAIN queue |-> queue[i].volume])

\* Volume of the scanned levels below p and of the first i orders at p.
VolumeUpTo(order, p, i) ==
  LET Queue(q) == book[Slot(order.pair, Other(order.side), q)]
  IN  SumFunction([q \in {r \in Scanned(order) : r < p} |-> QueueVolume(Queue(q))])
        + QueueVolume(SubSeq(Queue(p), 1, i))

EnoughVolume(order) ==
  \E p \in Scanned(order) :
    \E i \in 1 .. Len(book[Slot(order.pair, Other(order.side), p)]) :
      VolumeUpTo(order, p, i) % VolumeMod >= order.volume

\* The aggregates get_l2 reports for a side; get_l1 reports the best of them.
L2(pair, side) ==
  {[price |-> p, volume |-> QueueVolume(book[Slot(pair, side, p)]) % VolumeMod] :
     p \in LevelPrices(pair, side)}

\* The sum that a debug build would see overflow before it is large enough.
ScanOverflows(order) ==
  LET Sums == {VolumeUpTo(order, x[1], x[2]) :
                 x \in {y \in Prices \X (1 .. MaxOrders) :
                          /\ y[1] \in Scanned(order)
                          /\ y[2] <= Len(book[Slot(order.pair, Other(order.side), y[1])])}}
  IN  /\ order.type \in {"FillOrKill", "Market"}
      /\ \E sum \in Sums : sum >= VolumeMod
      /\ \A sum \in Sums : sum >= order.volume => sum >= VolumeMod

Killed(order) ==
  order.type \in {"FillOrKill", "Market"} /\ ~ EnoughVolume(order)

(***************************************************************************)
(* Changes to a book.                                                      *)
(***************************************************************************)
\* `queue` with v taken from its oldest order.
Decrement(queue, v) == [queue EXCEPT ![1].volume = @ - v]

RemoveEntry(s, i) ==
  IF Len(book[s]) = 1
    THEN [t \in DOMAIN book \ {s} |-> book[t]]
    ELSE [book EXCEPT ![s] = RemoveAt(@, i)]

\* Mutation of Rest: push_front for push_back.
RestInFront(b, s, entry) ==
  [t \in DOMAIN b \cup {s} |->
     IF t # s THEN b[t]
     ELSE IF s \in DOMAIN b THEN <<entry>> \o b[s] ELSE <<entry>>]

\* insert_limit_order_no_matching on a book b.
Rest(b, s, entry) ==
  [t \in DOMAIN b \cup {s} |->
     IF t # s THEN b[t]
     ELSE IF s \in DOMAIN b THEN Append(b[s], entry) ELSE <<entry>>]

CleanedBook == [s \in DOMAIN book \ {Opposing(p) : p \in Cleaned} |-> book[s]]

RestingEntry == [id |-> nextId, account |-> taker.account, volume |-> remaining]

Positions(s, id) == {i \in 1 .. Len(book[s]) : book[s][i].id = id}

ForgetInsertion ==
  /\ taker' = NoOrder
  /\ remaining' = 0
  /\ visited' = {}
  /\ deletions' = 0
-----------------------------------------------------------------------------
Init ==
  /\ markets = {}
  /\ book = [s \in {} |-> <<>>]
  /\ nextId = 0
  /\ step = "idle"
  /\ taker = NoOrder
  /\ remaining = 0
  /\ visited = {}
  /\ deletions = 0
  /\ transactionBuf = <<>>

AddMarket(pair) ==
  /\ step = "idle"
  /\ pair \notin markets
  /\ markets' = markets \cup {pair}
  /\ UNCHANGED <<book, nextId, step, insertionVars, transactionBuf>>

(***************************************************************************)
(* insert_order, up to the loop.  A FillOrKill or Market order without the *)
(* volume it asks for is refused and changes nothing.                      *)
(***************************************************************************)
BeginInsert(order) ==
  /\ step = "idle"
  /\ order.pair \in markets
  /\ nextId < MaxOrders
  /\ ~ Killed(order)
  /\ taker' = order
  /\ remaining' = order.volume
  /\ visited' = {}
  /\ deletions' = 0
  /\ step' = "match"
  /\ UNCHANGED <<markets, book, nextId, transactionBuf>>

RefuseKilled(order) ==
  /\ step = "idle"
  /\ order.pair \in markets
  /\ Killed(order)
  /\ UNCHANGED vars

\* The body of `while let Some(open_order)`, with a maker of another account.
Fill(p) ==
  /\ step = "match"
  /\ IsNext(p)
  /\ LET queue == book[Opposing(p)]
         maker == queue[1]
         v == Lesser(remaining, maker.volume)
         left == IF v = maker.volume THEN Tail(queue) ELSE Decrement(queue, v)
     IN  /\ queue # <<>>
         /\ maker.account # taker.account
         /\ book' = [book EXCEPT ![Opposing(p)] = left]
         /\ remaining' = remaining - v
         /\ transactionBuf' =
              Append(transactionBuf,
                     [price |-> p, volume |-> v, takerSide |-> taker.side,
                      maker |-> maker.id, taker |-> nextId])
         /\ step' = IF remaining' = 0 /\ left # <<>> THEN "enter" ELSE "match"
  /\ UNCHANGED <<markets, nextId, taker, visited, deletions>>

\* Mutation of AbortSelfTrade: the remainder rests before the error returns.
AbortSelfTradeRests(p) ==
  /\ step = "match"
  /\ IsNext(p)
  /\ book[Opposing(p)] # <<>>
  /\ book[Opposing(p)][1].account = taker.account
  /\ book' = Rest(book, Slot(taker.pair, taker.side, taker.price), RestingEntry)
  /\ step' = "idle"
  /\ ForgetInsertion
  /\ UNCHANGED <<markets, nextId, transactionBuf>>

\* The same body when the maker is the taker's own order: both volumes are
\* already decremented when the error returns, and what was matched before
\* stays matched, stays in transaction_buf, and leaves its levels behind.
AbortSelfTrade(p) ==
  /\ step = "match"
  /\ IsNext(p)
  /\ LET queue == book[Opposing(p)]
     IN  /\ queue # <<>>
         /\ queue[1].account = taker.account
         /\ book' = [book EXCEPT ![Opposing(p)] =
                       Decrement(@, Lesser(remaining, queue[1].volume))]
  /\ step' = "idle"
  /\ ForgetInsertion
  /\ UNCHANGED <<markets, nextId, transactionBuf>>

\* Mutation of PassLevel: the iterator is not moved on.
PassLevelStays(p) ==
  /\ step = "match"
  /\ IsNext(p)
  /\ book[Opposing(p)] = <<>>
  /\ step' = IF remaining = 0 THEN "enter" ELSE "match"
  /\ UNCHANGED <<markets, book, nextId, insertionVars, transactionBuf>>

\* A level without orders is counted for deletion and left behind.
PassLevel(p) ==
  /\ step = "match"
  /\ IsNext(p)
  /\ book[Opposing(p)] = <<>>
  /\ visited' = visited \cup {p}
  /\ deletions' = deletions + 1
  /\ step' = IF remaining = 0 THEN "enter" ELSE "match"
  /\ UNCHANGED <<markets, book, nextId, taker, remaining, transactionBuf>>

\* The levels are exhausted, or the next one is beyond the limit.
StopMatching ==
  /\ step = "match"
  /\ Ahead = {}
  /\ step' = "enter"
  /\ UNCHANGED <<markets, book, nextId, insertionVars, transactionBuf>>

\* Delete the emptied levels, rest what was not matched, record the order.
EnterOrder ==
  /\ step = "enter"
  /\ book' = IF remaining > 0
               THEN Rest(CleanedBook, Slot(taker.pair, taker.side, taker.price),
                         RestingEntry)
               ELSE CleanedBook
  /\ nextId' = nextId + 1
  /\ step' = "settle"
  /\ UNCHANGED <<markets, insertionVars, transactionBuf>>

\* The exchange settles the newest transaction first (Vec::pop).
PopTransaction ==
  /\ step = "settle"
  /\ transactionBuf # <<>>
  /\ transactionBuf' = Front(transactionBuf)
  /\ UNCHANGED <<markets, book, nextId, step, insertionVars>>

\* Mutation of FinishInsert: `if let` for `while let` around the settlement.
FinishInsertEarly ==
  /\ step = "settle"
  /\ step' = "idle"
  /\ ForgetInsertion
  /\ UNCHANGED <<markets, book, nextId, transactionBuf>>

FinishInsert ==
  /\ step = "settle"
  /\ transactionBuf = <<>>
  /\ step' = "idle"
  /\ ForgetInsertion
  /\ UNCHANGED <<markets, book, nextId, transactionBuf>>

CancelOrder(s, id) ==
  /\ step = "idle"
  /\ s \in DOMAIN book
  /\ \E i \in Positions(s, id) :
       /\ \A j \in Positions(s, id) : j <= i
       /\ book' = RemoveEntry(s, i)
  /\ UNCHANGED <<markets, nextId, step, insertionVars, transactionBuf>>

ModifyOrder(s, id, reduction) ==
  /\ step = "idle"
  /\ s \in DOMAIN book
  /\ \E i \in Positions(s, id) :
       /\ \A j \in Positions(s, id) : i <= j
       /\ book' = IF reduction >= book[s][i].volume
                    THEN RemoveEntry(s, i)
                    ELSE [book EXCEPT ![s][i].volume = @ - reduction]
  /\ UNCHANGED <<markets, nextId, step, insertionVars, transactionBuf>>

\* cancel_order answers AlreadyFilled, modify_order OrderNotFound.
RefuseNotResting(s, id) ==
  /\ step = "idle"
  /\ s \in DOMAIN book => Positions(s, id) = {}
  /\ UNCHANGED vars

\* The steps of an insertion once it has begun.
Advance ==
  \/ \E p \in Prices : Fill(p) \/ AbortSelfTrade(p) \/ PassLevel(p)
  \/ StopMatching
  \/ EnterOrder
  \/ PopTransaction
  \/ FinishInsert

Next ==
  \/ \E pair \in Pairs : AddMarket(pair)
  \/ \E order \in Insertions : BeginInsert(order) \/ RefuseKilled(order)
  \/ Advance
  \/ \E s \in Slots, id \in 0 .. MaxOrders - 1 :
       \/ CancelOrder(s, id)
       \/ RefuseNotResting(s, id)
       \/ \E reduction \in Volume : ModifyOrder(s, id, reduction)

Spec == Init /\ [][Next]_vars

\* The thread runs an insertion it has begun to its end.
FairSpec == Spec /\ WF_vars(Advance)
-----------------------------------------------------------------------------
\* The variables keep their types; in particular every volume fits in a u32.
TypeOK ==
  /\ markets \subseteq Pairs
  /\ DOMAIN book \subseteq Slots
  /\ book \in [DOMAIN book -> Seq(OrderbookEntry)]
  /\ nextId \in Nat
  /\ step \in {"idle", "match", "enter", "settle"}
  /\ step = "idle" \/ taker \in Insertions
  /\ remaining \in Volume
  /\ visited \subseteq Prices
  /\ deletions \in Nat
  /\ transactionBuf \in Seq(ObTransaction)

(***************************************************************************)
(* The book never crosses: in every market each bid level is below each    *)
(* ask level, even in the middle of an insertion and whatever empty levels *)
(* an aborted insertion left behind.  It rests on insert_order keeping an  *)
(* order only after every level it crosses was emptied and deleted.        *)
(***************************************************************************)
Uncrossed ==
  \A s, t \in DOMAIN book :
    s.pair = t.pair /\ s.side = "Bid" /\ t.side = "Ask" => s.price < t.price

(***************************************************************************)
(* Time priority: the orders of a level stand in the order in which they   *)
(* were placed, through fills, cancellations and modifications.            *)
(***************************************************************************)
TimePriority ==
  \A s \in DOMAIN book :
    /\ \A i \in 1 .. Len(book[s]) : book[s][i].id < nextId
    /\ \A i, j \in 1 .. Len(book[s]) : i < j => book[s][i].id < book[s][j].id

(***************************************************************************)
(* An order rests at one level only, so that the linear searches of        *)
(* cancel_order and modify_order at the order's own level find all of it.  *)
(***************************************************************************)
RestsOnce ==
  \A s, t \in DOMAIN book :
    \A i \in 1 .. Len(book[s]), j \in 1 .. Len(book[t]) :
      book[s][i].id = book[t][j].id => s = t

(***************************************************************************)
(* The clean-up after the loop pops price_level_deletions levels from the  *)
(* best end without looking at them: they are exactly the levels the loop  *)
(* left behind empty, so no resting order goes with them.                  *)
(***************************************************************************)
CleanupExact ==
  step \in {"match", "enter"} =>
    /\ Cleaned = visited
    /\ \A p \in Cleaned : book[Opposing(p)] = <<>>

(***************************************************************************)
(* A FillOrKill or Market order that passed its volume check never rests:  *)
(* when the matching loop has ended, nothing remains of it.  If the loop   *)
(* meets an order of its own account first, the insertion is aborted with  *)
(* what it has filled until then, and nothing of it rests either.          *)
(***************************************************************************)
FilledOrKilled ==
  step = "enter" /\ taker.type \in {"FillOrKill", "Market"} => remaining = 0

(***************************************************************************)
(* Price-time priority: an order is matched only when no order of the same *)
(* side has a better price or the same price and an older id, and a limit  *)
(* order never trades at a price worse than its own.                       *)
(***************************************************************************)
MatchesBestFirst ==
  [][Len(transactionBuf') > Len(transactionBuf) =>
       LET trade == Last(transactionBuf')
       IN  /\ WithinLimit(taker, trade.price)
           /\ \A p \in OpposingPrices :
                \A i \in 1 .. Len(book[Opposing(p)]) :
                  /\ ~ Before(Other(taker.side), p, trade.price)
                  /\ p = trade.price => trade.maker <= book[Opposing(p)][i].id
    ]_vars

(***************************************************************************)
(* What an insertion has matched so far and what it has left make up its   *)
(* volume: transaction_buf holds the transactions of this insertion only.  *)
(* True where no insertion is aborted by a self-trade.                     *)
(***************************************************************************)
FillsAddUp ==
  step \in {"match", "enter"} =>
    QueueVolume(transactionBuf) + remaining = taker.volume

(***************************************************************************)
(* Every level L1 and L2 show has volume to trade with.  True where no     *)
(* insertion is aborted by a self-trade.                                   *)
(***************************************************************************)
QuotesAreLive ==
  step = "idle" =>
    \A pair \in Pairs, side \in Side :
      \A level \in L2(pair, side) : level.volume > 0

(***************************************************************************)
(* Between two commands transaction_buf is empty.  The comment of its type *)
(* calls it "A buffer of transactions resulting from an order insertion",  *)
(* and an insertion refused with SelfTrade, which "would result in a       *)
(* self-trade", is none.                                                   *)
(***************************************************************************)
BufferEmptyBetweenCommands == step = "idle" => transactionBuf = <<>>

\* All the volume a limit order could trade with.
VolumeWithin(order) ==
  LET Level(p) == QueueVolume(book[Slot(order.pair, Other(order.side), p)])
      within == {p \in LevelPrices(order.pair, Other(order.side)) : WithinLimit(order, p)}
  IN  SumFunction([p \in within |-> Level(p)])

(***************************************************************************)
(* A FillOrKill order is killed only if there is not enough volume to fill *)
(* it: "if there's enough volume to fill a Fill-or-Kill order ... Returns  *)
(* Ok(()) if enough volume exists".  Enough is the volume at all prices    *)
(* within its limit.                                                       *)
(***************************************************************************)
FokKilledOnlyWhenShort ==
  step = "idle" =>
    \A order \in Insertions :
      order.type = "FillOrKill" /\ order.volume > 0 /\ ~ EnoughVolume(order) =>
        VolumeWithin(order) < order.volume

\* Every insertion ends: the loop over levels and orders makes progress.
InsertionTerminates == step # "idle" ~> step = "idle"
=============================================================================
