---------------------------- MODULE MCOrderbook ----------------------------
(***************************************************************************)
(* Small instances of Orderbook for TLC.                                   *)
(***************************************************************************)
EXTENDS Orderbook

CONSTANTS alice, bob, gold

Requests(accounts, types, sides, volumes) ==
  [account : accounts, type : types, pair : Pairs, side : sides,
   volume : volumes, price : Prices]

\* Limit orders of two accounts on both sides: they cross and self-trade.
BothSides == Requests({alice, bob}, {"Limit"}, Side, {1, 2})

\* Orders of every type, with the zero volume the enforcer scripts also send.
EveryType ==
  Requests({alice}, {"Limit"}, Side, {2})
    \cup Requests({bob}, OrderType, Side, {0, 3})

\* The use of market_enforcers.py: one account asks and another one bids, so
\* that no order ever meets one of its own account.
OneSided ==
  Requests({alice}, OrderType, {"Ask"}, {1, 2})
    \cup Requests({bob}, OrderType, {"Bid"}, {1, 3})
=============================================================================
