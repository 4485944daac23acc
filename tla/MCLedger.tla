------------------------------ MODULE MCLedger ------------------------------
(***************************************************************************)
(* Small instances of Ledger for TLC.                                      *)
(***************************************************************************)
EXTENDS Ledger

CONSTANTS EUR, eur, USD, CHF

Symbols == {EUR, eur, USD, CHF}

ToUpper == [s \in Symbols |-> IF s = eur THEN EUR ELSE s]

TradeAmounts == {-2, -1, 1, 2}

Pair(p, s) == [primary |-> p, secondary |-> s]

\* Two and three accounts, a symbol in either case and one listed twice, a
\* market in both directions, one that exists already, one of an unlisted asset.
SetUps ==
  { [accounts |-> 3, assets |-> <<eur, USD>>, markets |-> <<Pair(EUR, USD)>>],
    [accounts |-> 2, assets |-> <<USD, EUR, eur>>,
     markets |-> <<Pair(eur, USD), Pair(USD, EUR)>>],
    [accounts |-> 1, assets |-> <<eur, USD>>,
     markets |-> <<Pair(eur, USD), Pair(EUR, USD)>>],
    [accounts |-> 1, assets |-> <<EUR>>, markets |-> <<Pair(EUR, CHF)>>],
    [accounts |-> 0, assets |-> <<EUR, USD>>, markets |-> <<Pair(EUR, USD)>>],
    [accounts |-> 2, assets |-> <<EUR>>, markets |-> <<Pair(EUR, eur)>>] }
=============================================================================
