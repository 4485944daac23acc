---------------------------- MODULE BalanceTable ----------------------------
(***************************************************************************)
(* What the balance book promises the exchange: a balance for each asset   *)
(* and account, kept when assets and accounts are added, and trades that   *)
(* move amounts between two accounts.                                      *)
(***************************************************************************)
EXTENDS Integers

CONSTANTS Amounts   \* what a trade may add to a balance or take from it

VARIABLES
  accounts,   \* the accounts are 0 .. accounts - 1
  assets,     \* the assets are 0 .. assets - 1
  table       \* the balance of each <<asset, account>>

tableVars == <<accounts, assets, table>>

Cells(m, n) == (0 .. m - 1) \X (0 .. n - 1)

TableInit ==
  /\ accounts = 0
  /\ assets = 0
  /\ table = [cell \in Cells(0, 0) |-> 0]

\* The table with m assets and n accounts; new cells are zero.
Grown(m, n) ==
  [cell \in Cells(m, n) |-> IF cell \in Cells(assets, accounts) THEN table[cell] ELSE 0]

AddAsset ==
  /\ assets' = assets + 1
  /\ table' = Grown(assets + 1, accounts)
  /\ UNCHANGED accounts

AddAccount ==
  /\ accounts' = accounts + 1
  /\ table' = Grown(assets, accounts + 1)
  /\ UNCHANGED assets

\* The taker buys `bought` of the primary asset and pays in the secondary one.
Trade(primary, secondary, maker, taker, bought, paid) ==
  /\ primary # secondary
  /\ maker # taker
  /\ table' = [table EXCEPT ![<<primary, taker>>]   = @ + bought,
                            ![<<primary, maker>>]   = @ - bought,
                            ![<<secondary, taker>>] = @ - paid,
                            ![<<secondary, maker>>] = @ + paid]
  /\ UNCHANGED <<accounts, assets>>

TableNext ==
  \/ AddAsset
  \/ AddAccount
  \/ \E primary, secondary \in 0 .. assets - 1, maker, taker \in 0 .. accounts - 1,
        bought, paid \in Amounts :
       Trade(primary, secondary, maker, taker, bought, paid)

TableSpec == TableInit /\ [][TableNext]_tableVars
=============================================================================
