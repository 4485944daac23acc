----------------------------- MODULE BalanceBook -----------------------------
(***************************************************************************)
(* The balance book (src/balance_book.rs): one flat vector of balances,    *)
(* the accounts of asset 0 first, then those of asset 1, and so on.        *)
(* add_account inserts one balance per asset in a loop and thereby moves   *)
(* all later ones; it is cut into the rounds of that loop.  The width of a *)
(* balance is the matter of Exchange.                                      *)
(***************************************************************************)
EXTENDS Integers, SequencesExt

CONSTANTS
  Amounts,   \* what a trade may add to a balance or take from it
  NoBalance  \* None

ASSUME BalanceAssumption == Amounts \subseteq Int

VARIABLES
  accounts,  \* how many accounts the vector is laid out for
  assets,    \* how many assets
  balances,  \* the vector; index i of the code is i + 1 here
  widening,  \* TRUE while add_account runs
  widened    \* the assets that its loop has done

bookVars == <<accounts, assets, balances, widening, widened>>

Zeros(n) == [i \in 1 .. n |-> 0]

\* Mutation of GetIndex: the arguments are swapped.
GetIndexSwapped(asset, account) == accounts * account + asset

GetIndex(asset, account) == accounts * asset + account

Position(asset, account) == GetIndex(asset, account) + 1

Get(account, asset) ==
  IF Position(asset, account) \in DOMAIN balances
    THEN balances[Position(asset, account)]
    ELSE NoBalance

\* Vec::get_disjoint_mut fails if an index is repeated or out of bounds.
IsDisjoint(positions) ==
  /\ ToSet(positions) \subseteq DOMAIN balances
  /\ \A i, j \in DOMAIN positions : positions[i] = positions[j] => i = j

\* Mutation of TradePositions: a repeated line.
TradePositionsRepeated(primary, secondary, maker, taker) ==
  <<Position(primary, maker), Position(primary, taker),
    Position(secondary, maker), Position(secondary, maker)>>

\* The four balances of a settlement.
TradePositions(primary, secondary, maker, taker) ==
  <<Position(primary, maker), Position(primary, taker),
    Position(secondary, maker), Position(secondary, taker)>>
-----------------------------------------------------------------------------
BookInit ==
  /\ accounts = 0
  /\ assets = 0
  /\ balances = <<>>
  /\ widening = FALSE
  /\ widened = 0

AddAsset ==
  /\ ~ widening
  /\ balances' = balances \o Zeros(accounts)
  /\ assets' = assets + 1
  /\ UNCHANGED <<accounts, widening, widened>>

BeginAddAccount ==
  /\ ~ widening
  /\ widening' = TRUE
  /\ UNCHANGED <<accounts, assets, balances, widened>>

\* Mutation of InsertCell: the shift by the earlier rounds is forgotten.
InsertCellUnshifted ==
  /\ widening
  /\ widened < assets
  /\ balances' = InsertAt(balances, (widened + 1) * accounts + 1, 0)
  /\ widened' = widened + 1
  /\ UNCHANGED <<accounts, assets, widening>>

InsertCell ==
  /\ widening
  /\ widened < assets
  /\ balances' = InsertAt(balances, (widened + 1) * accounts + widened + 1, 0)
  /\ widened' = widened + 1
  /\ UNCHANGED <<accounts, assets, widening>>

FinishAddAccount ==
  /\ widening
  /\ widened = assets
  /\ accounts' = accounts + 1
  /\ widening' = FALSE
  /\ widened' = 0
  /\ UNCHANGED <<assets, balances>>

\* What process_transactions does with the four balances it gets.
Transfer(primary, secondary, maker, taker, bought, paid) ==
  /\ ~ widening
  /\ IsDisjoint(TradePositions(primary, secondary, maker, taker))
  /\ balances' = [balances EXCEPT ![Position(primary, taker)]   = @ + bought,
                                  ![Position(primary, maker)]   = @ - bought,
                                  ![Position(secondary, taker)] = @ - paid,
                                  ![Position(secondary, maker)] = @ + paid]
  /\ UNCHANGED <<accounts, assets, widening, widened>>

BookNext ==
  \/ AddAsset
  \/ BeginAddAccount
  \/ InsertCell
  \/ FinishAddAccount
  \/ \E primary, secondary \in 0 .. assets - 1, maker, taker \in 0 .. accounts - 1,
        bought, paid \in Amounts :
       Transfer(primary, secondary, maker, taker, bought, paid)

BookSpec == BookInit /\ [][BookNext]_bookVars
-----------------------------------------------------------------------------
\* The vector has room for exactly the cells there are.
BookTypeOK ==
  /\ accounts \in Nat
  /\ assets \in Nat
  /\ balances \in Seq(Int)
  /\ widening \in BOOLEAN
  /\ widened \in 0 .. assets
  /\ ~ widening => widened = 0
  /\ Len(balances) = accounts * assets + widened

\* Where a balance stands while add_account runs.
CurrentPosition(asset, account) ==
  Position(asset, account) + (IF asset < widened THEN asset ELSE widened)

TableOfVector ==
  [cell \in (0 .. assets - 1) \X (0 .. accounts - 1) |->
     balances[CurrentPosition(cell[1], cell[2])]]

(***************************************************************************)
(* The vector is a table of balances: adding assets and accounts keeps     *)
(* every balance with its asset and account, and a settlement changes the  *)
(* four balances of its two parties and no others.                         *)
(***************************************************************************)
Table == INSTANCE BalanceTable WITH table <- TableOfVector

ImplementsTable == Table!TableSpec

(***************************************************************************)
(* "Index overlap is impossible because self-trade returns error in        *)
(* `insert_order`.": for accounts and assets that exist, the four indices  *)
(* of a settlement are in bounds, and overlap only if the two accounts or  *)
(* the two assets are the same.                                            *)
(***************************************************************************)
OverlapOnlyIfSame ==
  ~ widening =>
    \A primary, secondary \in 0 .. assets - 1, maker, taker \in 0 .. accounts - 1 :
      IsDisjoint(TradePositions(primary, secondary, maker, taker))
        <=> primary # secondary /\ maker # taker

(***************************************************************************)
(* get_index does not look at the account: GetBalance answers an account   *)
(* that exists with its own balance, or None if the asset does not exist,  *)
(* but one that does not exist with the balance of account modulo accounts *)
(* in a later asset.                                                       *)
(***************************************************************************)
BalanceRead(account, asset) ==
  LET cell == <<asset + account \div accounts, account % accounts>>
  IN  IF cell[1] < assets THEN TableOfVector[cell] ELSE NoBalance

ReadsWrapAround ==
  ~ widening =>
    \A asset \in 0 .. assets, account \in 0 .. 2 * accounts :
      Get(account, asset) =
        IF accounts = 0 THEN NoBalance ELSE BalanceRead(account, asset)
=============================================================================
