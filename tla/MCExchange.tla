----------------------------- MODULE MCExchange -----------------------------
(***************************************************************************)
(* Small instances of Exchange for TLC.                                    *)
(***************************************************************************)
EXTENDS Exchange

CONSTANTS alice, bob, mallory, eur, usd, gold

eurUsd == [primary |-> eur, secondary |-> usd]
eurGold == [primary |-> eur, secondary |-> gold]   \* gold is not traded

OnePair == {eurUsd}
WithUntraded == {eurUsd, eurGold}

Requests(accounts, types, sides, volumes) ==
  [account : accounts, type : types, pair : {eurUsd}, side : sides,
   volume : volumes, price : Prices]

\* Two accounts on both sides, so that insertions are aborted by self-trades,
\* and a third account that does not exist.
BothSides ==
  Requests({alice}, {"Limit"}, Side, {1, 2})
    \cup Requests({bob}, {"Limit"}, Side, {2})
    \cup Requests({mallory}, {"Limit"}, {"Bid"}, {1})

\* The use of market_enforcers.py: one account asks and another one bids.
OneSided ==
  Requests({alice}, {"Limit", "FillOrKill"}, {"Ask"}, {1, 2})
    \cup Requests({bob}, {"Limit", "FillOrKill"}, {"Bid"}, {1, 3})

\* Volumes near the width of a u32, and self-trades of alice.
Large ==
  Requests({alice}, {"Limit"}, {"Ask"}, {2, 3})
    \cup Requests({alice}, {"Limit"}, {"Bid"}, {3})
    \cup Requests({bob}, {"Limit", "FillOrKill"}, {"Bid"}, {3})
=============================================================================
