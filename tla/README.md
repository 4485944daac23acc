# A verification of market-sim-backend in TLA+

market-sim-backend is a simulated stock exchange: one thread owns all the state
(order books, orders of the session, balances) and executes commands that
clients send it over a channel; a server puts TCP and WebSocket connections in
front of that channel, and a Python client talks to the server. This directory
holds TLA+ modules of the parts whose logic is hard to test, TLC configurations
that check them on small instances, and TLAPS proofs for all instances.

Paths below are relative to the repository's root, so `src/orderbook.rs` is the
file the `PROJECT.json` calls `src/src/orderbook.rs`.

## 1. The system

| Component | State | Operations | What makes it correct |
|---|---|---|---|
| Order book matching (`src/orderbook.rs`, `src/market.rs`) | per market two `BTreeMap`s from price to a queue of open orders; the transaction buffer | insert (limit, FillOrKill, market), cancel, modify, L1/L2 | never crossed; price-time priority; an order rests once; the clean-up removes emptied levels only; a checked order never rests; the loops end |
| Session, settlement (`src/exchange.rs`, `src/order.rs`, `src/errors.rs`) | `session_orders`, `balance_book`, `transaction_buf`, `markets` | insert, cancel, modify, add market, reads; `process_transactions` | book and session agree; settlement finds its orders; balances are conserved; final states are final; no panic |
| Balance book (`src/balance_book.rs`) | a flat vector of balances | get, `get_disjoint_mut`, add asset, add account | one cell per asset and account, kept when the table grows |
| Recent transactions (`src/exchange.rs`) | ring of 100 | push, get | the last 100, oldest first |
| Command channel (`src/exchange.rs` `run_inner`, `src/exchange_client.rs`) | bounded mpsc, batch, results, oneshot channels | `get_client`, `send_commands`, the thread's loop, shutdown, panic | served once, in order, answered to the caller; calls end; shutdown drains |
| Server (`src/bin/exchange_server.rs`, `src/util/mp_command_codec.rs`) | two listeners, a task and a framed stream per connection | accept, read a frame, execute, answer, fail | a frame is executed once, in order; a task that ends closes its connection |
| WebSocket publisher, metrics (`src/bin/exchange_server.rs`) | a task per socket, a watch channel | a state every 100 to 500 ms | states advance, and their parts are of an order that is known |
| Python client (`python_client/`) | a socket | send commands, time out, send again, reconnect | retries do not reorder; it is known whose answer one gets; a call ends |
| Configurations (`src/util/exchange_configs.rs`) | the lists of `Config.toml` | build the initial exchange | the markets asked for; a balance for every account and asset |
| `autoreload.py`, `market_enforcers.py` | processes | restart the server or the client; one call after the other | survived by the clients |
| Benches, tests, formatting | – | – | no behaviour of the exchange of their own |

How they interact: `ExchangeHandle::get_client` clones the mpsc sender for each
connection task. `send_commands` sends a buffer with a oneshot sender and awaits
the reply. `run_inner` receives up to 32 buffers, drains them in order, executes
the commands of each with `handle_command`, and sends the results. Inside the
thread everything is a function call: `Exchange::insert_order` ->
`Markets::get_mut` -> `Orderbook::insert_order` -> `process_transactions`.

What is hard here:

- *Partial failure inside one command.* A self-trade is found in the middle of
  the matching loop; what was done until then stays (`src/orderbook.rs:237`).
- *Long sequences of legal commands.* The transactions an aborted insertion
  left behind are settled by a later insertion, perhaps of another account, in
  another market (`src/exchange.rs:329`).
- *Two copies of one truth.* Volume and status live in the session order and in
  the book, and FillOrKill is decided by other code than does the matching.
- *Blind clean-up.* Levels are popped by count, not by content.
- *Widths.* u32 volumes and fixed-point balances; a debug build panics where a
  release build wraps.
- *Index arithmetic* that no bound check guards: the balances are one flat vector
  that grows in two directions, the recent transactions a ring.
- *Concurrency* inside the exchange is confined to the channel: waiting senders,
  batches, clients that vanish, a thread that panics while calls are queued, and
  shutdown by dropping senders.
- *Retries.* The Python client sends a call again after a timeout, a reset or a
  restart of the server, on the same connection or on another, while the first
  try may still be executed and answered (`python_client/client.py:107`).
- Nothing is persisted, so there is no recovery: a panic of the thread is final
  for the process, and a restart begins with an empty exchange.

`PROJECT.json` lists each hazard at its line with the properties that watch it.

## 2. The modules

```
               Orderbook -------> Exchange
                   |                 |
SumProofs --> OrderbookProofs --> ExchangeProofs

BalanceTable <. BalanceBook ----> Ledger <---- RecentTransactions
                   |                 |
                BookProofs ----> LedgerProofs <---- SumProofs

CommandService <. CommandChannel ----> ChannelProofs
               <~ Connection ----> ConnectionProofs ----> ExecutionProofs
```
Arrows of dashes and bars read "is extended by", `A <. B` reads "B implements A",
and `A <~ B` "B runs on an instance of A". `MCOrderbook`, `MCExchange`,
`MCLedger`, `MCCommandChannel` and `MCConnection` hold the small instances.

### Orderbook

All books, behind the `Market(s)` wrappers. `book` maps a level (pair, side,
price) to its queue; a level in `DOMAIN book` is a key of the BTreeMap, possibly
with an empty queue. `insert_order` is cut into the iterations of its loops,
with `step` as the program counter:

| Code | Action |
|---|---|
| volume check and set-up, `orderbook.rs:182-220` | `BeginInsert`, `RefuseKilled` |
| one turn of `while let Some(open_order)`, :229-257 | `Fill` |
| the same turn with an own order, :232-238 | `AbortSelfTrade` |
| the level is empty, :259-267 | `PassLevel` |
| beyond the limit or out of levels, :220-228 | `StopMatching` |
| clean-up, rest, answer, :269-293 | `EnterOrder` |
| `transaction_buf.pop()` of `process_transactions` | `PopTransaction`, `FinishInsert` |
| `cancel_order`, `modify_order` | `CancelOrder`, `ModifyOrder`, `RefuseNotResting` |

While `step` is not "idle" only the next step of the same insertion is enabled,
because one thread owns the books. Cutting the loop open costs no faithfulness
and lets invariants speak about the middle of an insertion, where the aborted
ones stop. Market::last_traded_price is never read and left out. Prices are
integers; the code's fixed-point type with 31 fractional bits only scales them.

### Exchange

Extends `Orderbook` with the session and the balances. `InsertOrder`,
`MatchOrder`, `PlaceOrder`, `SettleTransaction` and `CompleteInsert` are
`Exchange::insert_order` around the book's steps; `CancelPlaced`, `ModifyPlaced`
and `CreateMarket` are the other commands that change state; `Refuse` stands for
every command answered with an error, decided by `AddMarketResult`,
`InsertIsAccepted`, `CancelResult` and `ModifyResult` in the code's order of
checks. `Panic` gathers the places that panic: the `expect`s of the settlement,
and, with `OverflowChecks` (a debug build), every overflow, including those of
the reads `get_l1` and `get_l2`. The thread owns its state, so after a panic
nothing of it is seen again, and a half-applied settlement need not be shown.
Accounts and assets are constants: the configurations create them before `run`,
which is the matter of `Ledger`.

### BalanceTable, BalanceBook, RecentTransactions and Ledger

`BalanceBook` is the flat vector. `add_account` inserts one cell per asset while
the earlier insertions have already shifted the vector, so it is cut into the
rounds of its loop: `BeginAddAccount`, `InsertCell`, `FinishAddAccount`, with
`widened` as the loop's variable. `AddAsset` is `add_asset`, `Get` is `get`,
`IsDisjoint(TradePositions(..))` says when `get_disjoint_mut` succeeds, and
`Transfer` is what `process_transactions` then does with the four cells.
`BalanceTable` is what all that is for: a table by asset and account that keeps
its balances when it grows. The refinement mapping (`TableOfVector`,
`CurrentPosition`) says where a balance stands also in the middle of
`add_account`.

`RecentTransactions` is the vector with its `write_idx`; `Push` and `GetRecent`
are `push` and `get`, and `pushed` is a history that no action reads.

`Ledger` composes the two as the exchange does. Set-up: `CreateAccount`,
`ListAsset`, `AddMarket`, and `SetupPanics` for the `expect`s and `unwrap`s of
`custom()`; `Run`. `custom()` creates the accounts first, but the methods are
public and `benches/.modify_order_manual.rs` creates them last, so `Ledger` lets
accounts and assets come in any order: otherwise the loop of `add_account` never
had a round. Then `SettleTrade` writes a trade to the book and the ring, or
`SettlementPanics`. `BalanceBook` is a public type as well: in the phase "alone" its
methods are called without an exchange, so that it grows with balances in it.
Which trades there are is left open here; `Exchange` decides that. Prices and
volumes have few values and no width here, as `Exchange` treats widths.

### CommandService and CommandChannel

`CommandChannel` has a task per client, the line of senders waiting for room
(tokio's semaphore is first come, first served), the mpsc channel, and the
thread with its batch and results.

| Code | Action |
|---|---|
| `send_commands`, :79-84 of `exchange_client.rs` | `SendCommands` |
| `send(..).await.unwrap()`, :85 | `Enter`, `SendFails` |
| `rx_reply.await.unwrap()`, :86 | `TakeReply`, `ReplyFails` |
| a connection task ends or is dropped at an await | `Leave` |
| `get_client`, drop of the handle | `GetClient`, `DropHandle` |
| `blocking_recv_many` | `Receive`, or `Stop` when it returns 0 |
| one turn of the loop over the commands | `HandleCommand`, or `Panic` |
| `tx_reply.send(response_buf)` | `SendReply` |

The tokio channels are external: they are modelled from how the code uses them.
`arrived` and `served` are histories that no action reads.

`CommandService` is what a caller of `send_commands` relies on: a call is served
at most once, as a whole, at one moment after its start and before its return,
and a call that fails may or may not have been served. `CommandChannel`
implements it with the mapping `Service` (pending calls are those in the line,
the channel and the batch).

### Connection

The Python client, the accept loop, the connection tasks, the WebSocket task and
the processes, around an instance of `CommandService`: what `CommandChannel` was
shown to implement is all they rely on. One client is instantiated: clients
share nothing but the acceptor and the service, and the WebSocket is a second
caller of the latter.

| Code | Action |
|---|---|
| `_connect_with_retry`, `client.py:47-55` | `Connect` |
| `send_commands`, its `sendall` | `SendCommands`, `Send`, `SendFails` |
| `_recv_frame` | `ReadAnswer`, `ReadEof`, `ReadReset`, `ShortRead`, `Timeout` |
| `sleep(5)`, `_reconnect` | `Resume`, with `SocketIsOpen` |
| `decode`, and the match on `framed_stream.next()` | `ReadFrame`, `RejectFrame`, `ReadEnd` |
| `send_commands(..).await`, `send(..).await.unwrap()` | `Answer`, `AnswerFails`, `CallFails` |
| the `select!` of `main` | `Accept`, `AcceptWs`, `HandshakeEnds`, `AcceptFails` |
| `handle_connection_ws` | `WsCall`, `WsReturn`, `WsCallFails` |
| the exchange thread | `Execute`, `ThreadPanics` |
| `autoreload.py` | `Quit` (the client program), `Die`, `Start` (the server) |

A call is a number and a kind: "plain", "undecodable" (the server drops the
connection) or "oversized" (its answer does not fit a frame, and the task panics
after the execution). TCP is external: frames stay in order, a connection closes
with the end of the stream or with a reset, the latter when data was left unread
or comes later, and what had arrived before a reset can still be read, as on
Linux. A client may find the end of the stream, or a part of a long answer:
unpacking that raises an error nobody catches, and the program ends. Frames that
arrive in parts are put together by `decode` and are not told apart here. Two
histories, the frames `sent` on a connection and those that its task decoded
(`frames`), say which call an executed buffer or an answer belongs to.

### Mutations

Next to some definitions stands one that begins "Mutation of": the same operator
with a bug that could plausibly be in the code (a swapped pop_first/pop_last, a
missing status check, `if let` for `while let`). `PROJECT.json` lists for every
checked property a mutation that makes TLC refute it, so no property holds only
because the model is blind to it. They are used nowhere else.

## 3. The runs

| Run | Instance | Shows |
|---|---|---|
| `book_trading` | two accounts, both sides, all order types, volumes 0, 2, 3 of a width of 4, two prices, four orders | uncrossed, time priority, rests once, clean-up exact, FillOrKill and market orders never rest, price-time priority, insertions end |
| `book_one_sided` | one account asks, the other bids (as `market_enforcers.py`), all types, four orders | transactions add up to the matched volume; every quoted level has volume |
| `exchange_release` | both sides, self-trades, an unknown account, an untraded pair, modifications, wrapping balances | types and widths, book agrees with session, settlement finds its orders, conservation modulo the width, final statuses |
| `exchange_debug` | volumes near the width, panics on overflow | conservation is exact; the exchange is a refinement of the books |
| `exchange_one_sided` | no self-trades, no modifications, four orders | session and book agree on every volume; balances equal fills; nothing panics |
| `command_channel` | three clients, capacity 2, buffers of 0 and 2 commands, three calls | order, replies, drained shutdown, calls end, thread ends, atomic service |
| `ledger` | six configurations: up to three accounts and three assets, symbols in two spellings and listed twice, a market twice, in both directions, of an unlisted asset, of twice the same asset; a ring of two, three trades; a book alone with accounts plus assets up to five | no cell is missing or shared, the vector is a table, the ring keeps order, markets are those asked for, balances are what the transactions moved |
| `connection` | one client with two calls of the three kinds, up to four connections, one restart, a WebSocket; three events in all | retries keep the order, answers lag by the number of timeouts, published states advance, calls end (see Fairness) |
| `book_self_trade_buffer` | violation | the buffer is not empty between commands after a self-trade |
| `book_fok_ask` | violation | a FillOrKill ask is killed though the bids suffice |
| `exchange_overlap` | violation | "Index overlap is impossible" is wrong; the thread panics |
| `exchange_modified_filled` | violation | a modified, unfilled order becomes Filled and still rests |

Deadlock is checked in all of them but `connection`: an exchange can always refuse
a command, a dead thread stutters (`Dead`, `Ended`). In `connection` the client may
be gone or have made its calls, and the system rests.

**Bounds.** Two prices give levels before, at and beyond a limit, and several
levels to pop; two traded accounts give both outcomes of the self-trade test,
and a third one exists only in requests. Three orders are enough for an aborted
insertion that matched one level before it met its own order, and for a later
one that settles what is left; four are used where the state space allows.
`VolumeMod` (4 to 16) and `BalanceHalf` (4 to 64) stand for the widths of u32
and of the balance type: small where wrapping shall happen, large where it shall
not. `MaxOrders` bounds the session, `MaxCalls` the calls, `NewVolumes` the
modification requests. The channel has room for two buffers and three callers,
so that one has to wait in line, and the thread can have a batch, a full channel
and a queue at once. A ring of two and three trades show it empty, partly filled,
full and overwritten. In `connection`, `MaxEvents` bounds together what nobody has
to do: timeouts, departures, short reads, failed accepts, panics, restarts,
WebSockets and the rounds of their task. Three of them give every pair of
failures and one more, for instance a timeout, a panic of the thread and a
restart in one call; two calls are needed to see an answer go to the wrong one.
Four connections suffice for the failures there are, so that
`client.connection < MaxConnections` keeps no client from reconnecting. The proofs
below hold for every value of the constants.

**Fairness.** `Orderbook!FairSpec` asks for weak fairness of `Advance` only: the
thread runs an insertion it has begun to its end, and nothing else may happen
meanwhile. `CommandChannel!FairSpec` asks for weak fairness of the thread
(an operating-system thread that is scheduled) and of each client's wake-ups
(the runtime polls a woken task: a sender with room that is first in line, a
receiver whose oneshot was answered or dropped). Nobody has to make a call, to
leave, to open a market or to drop the handle. `Connection!FairSpec` asks for weak
fairness of a client (its sleeps end), of each connection task and of the
thread's executions, and for strong fairness of `Accept`: `select!` polls its arms
in random order, so a client in the queue is not passed over for ever by
WebSockets. It asks for no handshake to end, no other WebSocket to come and no
server to be started again. `CallsEnd` therefore has two parts. On a connection that
a task serves, every call ends or the connection breaks, whatever the select loop is
waiting for: if a task could not read while a handshake is awaited, TLC would refute
it. Every other call ends under the premise that the server is up and accepting again
and again. The code does not promise that: a WebSocket that connects and does not
finish its handshake keeps the arm `exchange_server.rs:286-291` awaiting, and nobody
else is accepted; a failed accept of a client (`exchange_server.rs:273`) disables that
arm until a WebSocket is accepted. The premise excludes both, so no run would notice
them; they are listed as hazards with that note.

**Findings.** The four violation runs are real disagreements of code and
comments; `PROJECT.json` quotes both sides. The clean-up and the "uncrossed"
invariant survive even aborted insertions. Smaller observations without a run:
`modify_order` accepts an equal volume although `VolumeNotLower`
(`src/errors.rs:64`) reads otherwise; an order modified to exactly what was
filled stays AwaitingFill and no longer rests; `remaining_volume` is never
lowered by a modification (the root of `exchange_modified_filled`).
`get_index` answers a `GetBalance` of an account that does not exist with the
balance of another (`ReadsWrapAround` says which). After a timeout a Python client
gets the answer to an earlier try, until the connection breaks
(`AnswersLagBehind` says which). If the connection is reset with such an answer
unread, `socket_is_open` takes it for open and the call never ends: the exception
`LooksOpen` of `CallsEnd`, without which TLC refutes it. The L1s of a published state
may be older than its transactions, never newer (`SnapshotsAdvance`).

## 4. The proofs

Every safety invariant and every action property that a passing run checks is also
a theorem. `PROJECT.json` lists the theorems; this section says what they assume
and why they hold.

**Hypotheses.** Most theorems assume only what the ASSUMEs of the modules say. Some
properties are true of some workloads only, because an insertion that a self-trade
aborts leaves its transactions behind and a modification does not lower what an order
has left (section 3, findings). Their theorems say so, each in two forms: one that
constrains the *behaviour*, so that it speaks of any workload as long as the harmful
step does not occur,

- `[][NoSelfTrade]_vars`: no insertion is aborted (`AbortSelfTrade`);
- `[][NoModification]_exchangeVars`: no order is modified (`ModifyPlaced`);

and one, named `...OneSided`, that constrains the *constants* instead, so that no
behaviour of the instance is excluded: `OneSidePerAccount` (no two requests of one account
are on different sides of a pair, as in `market_enforcers.py`) and `NewVolumes = {}`.
`OneSidedNeverSelfTrades` and `ExchangeImplementsOrderbook` derive the first from the
second. Where widths matter, `SessionFits` and `AmountsFit` bound the constants:
`MaxOrders` times the largest volume is below `VolumeMod`, and that times the largest
price below `BalanceHalf`. The instances of `book_one_sided` and `exchange_one_sided`
meet these hypotheses, so none of the theorems is about nothing.

`SumProofs` has the facts about sums of a function over a finite set that the
community modules define (`SumFunctionOnSet`) but do not prove: a sum changes by the
difference when one or two values change (`SumUpdate`, `SumUpdateTwo`), splits, is
monotone, can be renamed by a bijection, and what it is for a sequence that grows,
loses its head or is cut (`SumOfAppended`, `SumOfTail`, `SumOfPrefix`). The community
operator is a recursion whose equation holds once a function satisfying it exists.
`SumExists` builds one by induction over the subsets of the set
(`SubsetInduction`: the strict-subset ordering of a finite set is well-founded), and
`SumIsUnique` shows that the operator returns it. The induction is over a *set* of good
subsets, so it needs no operator parameter. In the sums of these proofs the domain is
the positions of a queue, the levels of a book, the orders of a session, the accounts, or
the slots of the ring.

`OrderbookProofs` (assuming `OrderbookAssumption`: finitely many integer prices,
a positive width, requests of the right type):

- `TypeCorrect`, `TimePriorityHolds`, `RestsOnceHolds`, `CleanupIsExact`,
  `NeverCrossed`, `PriceTimePriority`.
- The invariant is `Uncrossed` and `CleanupExact` strengthened by what the loop
  has done so far: the visited levels are the best ones of the opposing side,
  all empty and as many as `deletions` (`IteratorInv`), and once the loop has
  ended with volume left no opposing level within the limit is unvisited
  (`ExhaustedInv`). This is why a blind pop
  is exact and why resting the remainder cannot cross. Ranks of levels need
  facts about cardinalities (`FiniteSetTheorems`).
- Time priority uses that fills, cancellations and modifications only *thin* a
  queue (`Thins`): they keep the order of what remains.
- `FilledOrKilledHolds`, for every workload. The volume check of a FillOrKill or Market
  order and its matching are different code, over different iterators. The
  invariant that joins them is `VolumeSuffices`: while the loop runs, the levels within
  the limit that are not yet visited hold at least `remaining`. It holds when the check
  has passed because each partial sum of the scan is of distinct levels within the limit
  (`ScanIsWithin`, `CheckSuffices`; a sum that wrapped cannot help, since the check then
  compares a smaller number). It is preserved because a match takes the same volume from
  both sides (`MatchTakes`), and it excludes ending with a remainder.
- `FillsAddUpHolds` and `FillsAddUpOneSided`: the buffer is empty when an insertion
  begins (`BufferInv`), which an aborted insertion before it would spoil.
- `QuotesAreLiveHolds`, `QuotesAreLiveOneSided`: every resting order has volume
  (`Positive`), and the levels that are empty are those that the loop has just emptied
  and will pop (`EmptyLevelsKnown`). That a level with volume also *shows* volume needs
  that its sum does not wrap, `LevelsFit`. `LevelsFitHolds` proves that from
  `SessionFits`: the volume of a level is at most that of the whole book, which is at most
  the number of orders times the largest request (`BoundedInv`).

`ExchangeProofs` (also `ExchangeAssumption`: finitely many accounts among the
identifiers, a positive width of balances):

- `ExchangeTypeCorrect`, `ExchangeImplementsOrderbook`, `BookMatchesSessionHolds`,
  `SettledOrdersExistHolds`, `FinalStatusHolds`.
- `SessionInv` joins the types, the book's invariants, `BookMatchesSession` and
  `MakersDone`: every buffered transaction names an older order as its maker,
  which is not cancelled and has left its level whenever a command could cancel
  it, and the next order as its taker. It survives aborted insertions, which is
  why late settlements find their orders and never touch a cancelled one.
- `BalancesConservedHolds`, for every workload and both builds. `ConservationInv` adds to
  the property that both parties of a settlement have balances (`AccountsExist`):
  `insert_order` checks the taker, and every maker was one before. The flow of a
  transaction is `d` for the one and `-d` for the other in each of the two assets
  (`FlowIsBalanced`); wrapping adds a multiple of the width (`WrapBalanceAdds`).
- `RestingMatchesSessionHolds`, `RestingMatchesSessionOneSided`. `Tally` is what the
  property becomes in the middle of a command: what the session has left of an order is
  what rests of it plus what the buffer will still take from it (`Pending`), and
  what the taker has left is `remaining` plus what the buffer will take.
  `Remains` adds that filled orders have nothing left.
- `ReleaseNeverPanics`: a release build panics in one place only, the `expect`s of a
  settlement, and those need a transaction of an account with itself or of an asset with
  itself. `PartiesInv` says that the transactions in the buffer are those of the
  insertion in progress, each between two accounts, of opposite sides, at the maker's
  price and within the taker's limit. It needs no bound on amounts and no ban on
  modifications; `PairsDiffer` excludes a market of an asset against itself, which
  `add_market` accepts.
- `NeverPanicsHolds`, `NeverPanicsOneSided`: in a debug build arithmetic panics as well.
  What a settlement subtracts is left in both orders (`TradeIsLeft`, from `Tally`);
  balances stay within the largest price times all that was traded (`TradedInv`),
  and every settlement takes twice its volume from what the orders asked for, so there
  is always room for one more (`TradedRoom`, `SettlementFits`); the scan of a checked
  order and the reads of a level add up no more than the book holds (`ScanFits`).
- `PositionsMatchFillsHolds`, `PositionsMatchFillsOneSided`: `PositionsInv` is the
  property in every state, also within a command, for every pair whose assets are traded.
  A settlement moves the sums over the orders of the taker and of the maker by exactly
  the flow (`SettledPositions`), for the cost by no less (`WithinCost`). Here assets have
  to tell the pair (`AssetsApart`), and Market orders, whose price is ignored, are
  excluded (`PricesMeant`).

`ChannelProofs` (`ChannelAssumption`: a positive capacity, sizes are naturals):

- `ChannelTypeCorrect`, `ServedInOrderHolds`, `StopsDrainedHolds`,
  `RepliesMatchHolds`, `ChannelImplementsService`.
- `OrderInv`: while the thread runs, arrived = served, batch, channel in a row;
  afterwards served is a prefix. `ResultsInv`: `response_buf` holds the results
  of the first commands of the first buffer. `HeldInv`: no call is held twice,
  the line consists of the calls of the clients that are sending, and a client
  that found a reply was served; the simulation needs it so that serving a call
  removes it from what is pending.

`BookProofs` (`BalanceAssumption`: amounts are integers):

- `BookTypeCorrect`, `BookImplementsTable`.
- The arithmetic is that of rows: `PositionIsInjective` (equal positions are equal
  cells) needs that a row never reaches into the next (`EarlierRow`), and the step
  of `InsertCell` that the insertion point is the end of a row that its earlier
  rounds have shifted by one each (`InsertionPoint`). `BookInv` adds to the type
  that the cells inserted so far hold zero (`NewCellsAreZero`), which is what
  `FinishAddAccount` needs to be the table's `AddAccount`.

`LedgerProofs` (also `RingAssumption`, a positive capacity, `ConfigAssumption`, that
configurations are lists of symbols, and `AmountAssumption`, that volumes and prices are
integers and the amounts include what a trade moves):

- `LedgerTypeCorrect`, `CellsForEveryoneHolds`, `OverlapHolds`,
  `ReadsWrapAroundHolds`, `RecentInOrderHolds`, `MarketsAsConfiguredHolds`,
  `LedgerImplementsTable`, `BalancesAuditableHolds`.
- Its first part is about the ring: `RingInv` says which transaction each slot holds,
  on both sides of the write slot; `PushKeepsRing` preserves it and `RecentLemma` reads
  `RecentInOrder` from it.
- `AuditInv` adds that each entry of the table is the sum of what all transactions moved to
  it, and zero before any; the refinement mapping reads the table from the vector, and
  the ring is all of `pushed` until it overwrites.
- `LedgerInv` joins the invariants of the book and the ring with `ExchangeKnows`
  (the exchange and the book count the same accounts and assets, up to the account
  that `add_account` is at), `MarketsListed` and `Phases`. `FoundAsset` is about the
  first listing of a symbol and uses that a set of naturals has a minimum
  (`WellFoundedInduction`).

`ConnectionProofs` (`ConnectionAssumption`: natural bounds, and the WebSocket's task is
none of the connections'):

- `ConnectionTypeCorrect`, `AnswersLag`.
- `ConnectionInv`: the connections a client has had are those that are not "none", the
  current one is the last, a task serves a connection exactly while it is open, and
  calls only for a frame it has decoded.
- `TransferInv` follows a frame through a connection: what the task decoded is a
  prefix of what was sent, and while the connection is open the unread requests are
  the rest of it; the unread answers are those to the frames behind the ones the
  client has had an answer for, which are all it sent but those that timed out.

`ExecutionProofs` rests on these and adds `ExecutionInv`:

- `ExecutionInOrder`, `SnapshotsNeverRegress`.
- `CallInv`: a call that may still be served is the latest one of a task or a
  WebSocket that waits for it, and was not served yet.
- `SentOK`: what a client sends is ordered by call, over all its connections.
  `OldLinksOK`: the connections that a client has left for a later one are closed at
  the server's end, so that no task reads from them. This is where `socket_is_open` matters:
  were a connection left while it is open, two tasks could execute calls of one
  client in either order.
- `ExecutedOK`: what was executed is in order and without gaps, and a task that is
  reading has had each frame executed that it decoded.
- `SnapshotsOK`: what the WebSocket has read and published is bounded by what its
  latest call sees or will at least see (`Visible`), which never shrinks; counting
  needs cardinalities (`FiniteSetTheorems`).

Only model-checked: the liveness properties (`InsertionTerminates`, the two
`CallsEnd`, `ShutsDown`), which rest on fairness and ENABLED and are out of the
provers' reach. The runs check the rest as well: a mutation there shows that each
property can fail, which a theorem does not.

## 5. Not modelled

- MessagePack and text formatting, the names of assets and accounts, timestamps:
  data layout.
- Metrics: a histogram thread, the recorders and the watch channel; nothing
  decides on them.
- `create_account_with_name`, which nothing calls and which gives its account no
  balances; it is the mutation that refutes `CellsForEveryone`.
- The length checks of the Python client before it sends, which raise to the
  caller without any effect, and `logger` calls.
- A timeout of the Python client between the two `recv` of an answer, or after a
  part of `sendall`: the next try would then read or send in the middle of a frame.
- Markets added by a command in `Ledger`, which has those of the set-up only; the
  command is an action of `Exchange` (`CreateMarket`).
- Half of a settlement that panics: `Panic` of `Exchange` leaves the balances alone,
  so `BalancesConserved` says nothing of them after it. They are never read again,
  since a thread that has panicked executes nothing (`ImplementsService`).
- Several WebSockets: each runs the same task and reads only.
- Widths in `Ledger` and the order of lines within a settlement, both treated by
  `Exchange`; the matching behind a call in `Connection`, treated by `Exchange` and
  `Orderbook`.
- Benches, the playground, the price processes of `market_enforcers.py` and
  `util/statics.rs` beyond the channel's capacity: drivers and tables.
