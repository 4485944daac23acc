----------------------------- MODULE BookProofs -----------------------------
(***************************************************************************)
(* The balance book, for any number of accounts and assets and any trades. *)
(***************************************************************************)
EXTENDS BalanceBook, TLAPS, SequenceTheorems

(***************************************************************************)
(* Rows of n cells.                                                        *)
(***************************************************************************)
LEMMA ProductIsNat ==
  ASSUME NEW n \in Nat, NEW a \in Nat
  PROVE  n * a \in Nat
OBVIOUS

LEMMA NextRow ==
  ASSUME NEW n \in Nat, NEW a \in Nat
  PROVE  n * (a + 1) = n * a + n
OBVIOUS

LEMMA RowsGrow ==
  ASSUME NEW n \in Nat, NEW a \in Nat, NEW b \in Nat, a <= b
  PROVE  n * a <= n * b
<1> DEFINE k == b - a
<1>1. k \in Nat /\ b = a + k
  OBVIOUS
<1>2. n * k \in Nat
  BY <1>1, ProductIsNat
<1>3. n * b = n * a + n * k
  BY <1>1
<1> QED
  BY <1>2, <1>3, ProductIsNat

\* A cell of a row stands before all cells of the later rows.
LEMMA EarlierRow ==
  ASSUME NEW n \in Nat, NEW a \in Nat, NEW b \in Nat, NEW c \in 0 .. n - 1, a < b
  PROVE  n * a + c < n * b
<1>1. n * (a + 1) <= n * b
  BY RowsGrow
<1>2. n * (a + 1) = n * a + n
  BY NextRow
<1>3. n * a \in Nat /\ n * b \in Nat
  BY ProductIsNat
<1> QED
  BY <1>1, <1>2, <1>3

LEMMA WiderRow ==
  ASSUME NEW n \in Nat, NEW a \in Nat
  PROVE  (n + 1) * a = n * a + a
OBVIOUS

(***************************************************************************)
(* Positions in the vector.                                                *)
(***************************************************************************)
LEMMA PositionInRange ==
  ASSUME BookTypeOK, NEW a \in 0 .. assets - 1, NEW c \in 0 .. accounts - 1
  PROVE  /\ accounts * a \in Nat
         /\ Position(a, c) = accounts * a + c + 1
         /\ Position(a, c) \in 1 .. accounts * assets
         /\ CurrentPosition(a, c) \in 1 .. Len(balances)
<1>1. accounts \in Nat /\ assets \in Nat /\ a \in Nat /\ c \in Nat /\ a < assets
      /\ widened \in 0 .. assets /\ Len(balances) = accounts * assets + widened
  BY DEF BookTypeOK
<1>2. accounts * a + c < accounts * assets
  BY <1>1, EarlierRow
<1>3. accounts * a \in Nat /\ accounts * assets \in Nat
  BY <1>1, ProductIsNat
<1>4. Position(a, c) = accounts * a + c + 1
  BY DEF Position, GetIndex
<1>5. Position(a, c) \in 1 .. accounts * assets
  BY <1>1, <1>2, <1>3, <1>4
<1>6. CurrentPosition(a, c) \in 1 .. Len(balances)
  BY <1>1, <1>3, <1>5 DEF CurrentPosition
<1> QED
  BY <1>3, <1>4, <1>5, <1>6

\* Two cells never share an index: the heart of get_index.
LEMMA PositionIsInjective ==
  ASSUME BookTypeOK,
         NEW a \in 0 .. assets - 1, NEW b \in 0 .. assets - 1,
         NEW c \in 0 .. accounts - 1, NEW d \in 0 .. accounts - 1,
         Position(a, c) = Position(b, d)
  PROVE  a = b /\ c = d
<1>1. accounts \in Nat /\ assets \in Nat /\ a \in Nat /\ b \in Nat
  BY DEF BookTypeOK
<1>2. /\ accounts * a \in Nat /\ c \in Nat
      /\ accounts * b \in Nat /\ d \in Nat
      /\ accounts * a + c + 1 = accounts * b + d + 1
  BY PositionInRange
<1>3. ~ a < b
  <2> SUFFICES ASSUME a < b PROVE FALSE
    OBVIOUS
  <2>1. accounts * a + c < accounts * b
    BY <1>1, EarlierRow
  <2> QED
    BY <1>2, <2>1
<1>4. ~ b < a
  <2> SUFFICES ASSUME b < a PROVE FALSE
    OBVIOUS
  <2>1. accounts * b + d < accounts * a
    BY <1>1, EarlierRow
  <2> QED
    BY <1>2, <2>1
<1>5. a = b
  BY <1>1, <1>3, <1>4
<1> QED
  BY <1>2, <1>5

LEMMA SettledPosition ==
  ASSUME BookTypeOK, ~ widening,
         NEW a \in 0 .. assets - 1, NEW c \in 0 .. accounts - 1
  PROVE  CurrentPosition(a, c) = Position(a, c)
<1>1. widened = 0 /\ a \in Nat /\ Position(a, c) \in Nat
  BY PositionInRange DEF BookTypeOK
<1> QED
  BY <1>1 DEF CurrentPosition

(***************************************************************************)
(* While add_account runs, the rows it has done end in a zero: the balance *)
(* of the account to come.                                                 *)
(***************************************************************************)
NewCellsAreZero ==
  \A a \in 0 .. widened - 1 : balances[(accounts + 1) * a + accounts + 1] = 0

BookInv == BookTypeOK /\ NewCellsAreZero

LEMMA BookInitInv == BookInit => BookInv
<1> SUFFICES ASSUME BookInit PROVE BookInv
  OBVIOUS
<1>1. <<>> \in Seq(Int) /\ Len(<<>>) = 0 /\ 0 * 0 + 0 = 0
  OBVIOUS
<1>2. accounts = 0 /\ assets = 0 /\ widened = 0 /\ widening = FALSE
  BY DEF BookInit
<1>3. balances \in Seq(Int) /\ Len(balances) = accounts * assets + widened
  BY <1>1, <1>2 DEF BookInit
<1>4. BookTypeOK
  <2>1. accounts \in Nat /\ assets \in Nat /\ widened \in 0 .. assets
    BY <1>2
  <2>2. widening \in BOOLEAN /\ (~ widening => widened = 0)
    BY <1>2
  <2> QED
    BY <1>3, <2>1, <2>2 DEF BookTypeOK
<1>5. 0 .. widened - 1 = {}
  BY <1>2
<1> QED
  BY <1>4, <1>5 DEF BookInv, NewCellsAreZero

LEMMA ZerosProperties ==
  ASSUME NEW n \in Nat
  PROVE  /\ Zeros(n) \in Seq(Int)
         /\ Len(Zeros(n)) = n
         /\ \A i \in 1 .. n : Zeros(n)[i] = 0
BY DEF Zeros

\* What Vec::insert does to the places of a vector.
LEMMA InsertAtProperties ==
  ASSUME NEW s \in Seq(Int), NEW i \in 1 .. Len(s) + 1, NEW e \in Int
  PROVE  /\ InsertAt(s, i, e) \in Seq(Int)
         /\ Len(InsertAt(s, i, e)) = Len(s) + 1
         /\ \A j \in 1 .. Len(s) + 1 :
              InsertAt(s, i, e)[j] =
                IF j < i THEN s[j] ELSE IF j = i THEN e ELSE s[j - 1]
<1> DEFINE front == SubSeq(s, 1, i - 1)
           back == SubSeq(s, i, Len(s))
<1>1. Len(s) \in Nat
  OBVIOUS
<1>2. /\ front \in Seq(Int) /\ Len(front) = i - 1
      /\ \A j \in 1 .. i - 1 : front[j] = s[j]
  BY <1>1, SubSeqProperties
<1>3. /\ back \in Seq(Int) /\ Len(back) = Len(s) - i + 1
      /\ \A j \in 1 .. Len(s) - i + 1 : back[j] = s[i + j - 1]
  BY <1>1, SubSeqProperties
<1>4. <<e>> \in Seq(Int) /\ Len(<<e>>) = 1 /\ <<e>>[1] = e
  OBVIOUS
<1> DEFINE most == front \o <<e>>
<1>5. /\ most \in Seq(Int) /\ Len(most) = i
      /\ \A j \in 1 .. i : most[j] = IF j < i THEN s[j] ELSE e
  <2> HIDE DEF front
  <2> QED
    BY <1>1, <1>2, <1>4, ConcatProperties
<1>6. InsertAt(s, i, e) = most \o back
  BY DEF InsertAt
<1> HIDE DEF most, back, front
<1>7. /\ most \o back \in Seq(Int) /\ Len(most \o back) = Len(s) + 1
      /\ \A j \in 1 .. Len(s) + 1 :
           (most \o back)[j] = IF j <= i THEN most[j] ELSE back[j - i]
  <2>1. most \o back \in Seq(Int)
    BY <1>3, <1>5, ConcatProperties
  <2>2. Len(most \o back) = Len(most) + Len(back)
    BY <1>3, <1>5, ConcatProperties
  <2>3. Len(most \o back) = Len(s) + 1
    BY <1>1, <1>3, <1>5, <2>2
  <2>4. \A j \in 1 .. Len(most) + Len(back) :
          (most \o back)[j] = IF j <= Len(most) THEN most[j] ELSE back[j - Len(most)]
    BY <1>3, <1>5, ConcatProperties
  <2>5. Len(most) = i /\ Len(most) + Len(back) = Len(s) + 1
    BY <1>1, <1>3, <1>5
  <2> QED
    BY <2>1, <2>3, <2>4, <2>5
<1>8. ASSUME NEW j \in 1 .. Len(s) + 1
      PROVE  (most \o back)[j] = IF j < i THEN s[j] ELSE IF j = i THEN e ELSE s[j - 1]
  <2>1. CASE j <= i
    BY <1>5, <1>7, <2>1
  <2>2. CASE ~ j <= i
    <3>1. j - i \in 1 .. Len(s) - i + 1 /\ i + (j - i) - 1 = j - 1
      BY <1>1, <2>2
    <3> QED
      BY <1>3, <1>7, <2>2, <3>1
  <2> QED
    BY <2>1, <2>2
<1> QED
  BY <1>6, <1>7, <1>8

(***************************************************************************)
(* The indices of a settlement.                                            *)
(***************************************************************************)
\* What IsDisjoint asks of the four positions.
LEMMA DisjointPositions ==
  ASSUME NEW primary, NEW secondary, NEW maker, NEW taker
  PROVE  IsDisjoint(TradePositions(primary, secondary, maker, taker)) <=>
           /\ Position(primary, maker) \in DOMAIN balances
           /\ Position(primary, taker) \in DOMAIN balances
           /\ Position(secondary, maker) \in DOMAIN balances
           /\ Position(secondary, taker) \in DOMAIN balances
           /\ Position(primary, maker) # Position(primary, taker)
           /\ Position(primary, maker) # Position(secondary, maker)
           /\ Position(primary, maker) # Position(secondary, taker)
           /\ Position(primary, taker) # Position(secondary, maker)
           /\ Position(primary, taker) # Position(secondary, taker)
           /\ Position(secondary, maker) # Position(secondary, taker)
<1> DEFINE tp == TradePositions(primary, secondary, maker, taker)
<1>1. /\ DOMAIN tp = 1 .. 4
      /\ tp[1] = Position(primary, maker) /\ tp[2] = Position(primary, taker)
      /\ tp[3] = Position(secondary, maker) /\ tp[4] = Position(secondary, taker)
  BY DEF TradePositions
<1>2. 1 .. 4 = {1, 2, 3, 4}
  OBVIOUS
<1> HIDE DEF tp
<1>3. ToSet(tp) = {tp[1], tp[2], tp[3], tp[4]}
  BY <1>1, <1>2 DEF ToSet
<1>4. (\A i, j \in DOMAIN tp : tp[i] = tp[j] => i = j) <=>
        /\ tp[1] # tp[2] /\ tp[1] # tp[3] /\ tp[1] # tp[4]
        /\ tp[2] # tp[3] /\ tp[2] # tp[4] /\ tp[3] # tp[4]
  BY <1>1, <1>2
<1>5. IsDisjoint(tp) <=>
        /\ {tp[1], tp[2], tp[3], tp[4]} \subseteq DOMAIN balances
        /\ tp[1] # tp[2] /\ tp[1] # tp[3] /\ tp[1] # tp[4]
        /\ tp[2] # tp[3] /\ tp[2] # tp[4] /\ tp[3] # tp[4]
  BY <1>3, <1>4 DEF IsDisjoint
<1> QED
  BY <1>1, <1>5 DEF tp

LEMMA PositionInDomain ==
  ASSUME BookTypeOK, ~ widening,
         NEW a \in 0 .. assets - 1, NEW c \in 0 .. accounts - 1
  PROVE  Position(a, c) \in DOMAIN balances
<1>1. Position(a, c) \in 1 .. Len(balances)
  BY PositionInRange, SettledPosition
<1>2. DOMAIN balances = 1 .. Len(balances)
  BY DEF BookTypeOK
<1> QED
  BY <1>1, <1>2

\* The comment of process_transactions: indices overlap only if the accounts
\* or the assets are the same.
LEMMA OverlapLemma ==
  ASSUME BookTypeOK
  PROVE  OverlapOnlyIfSame
<1> SUFFICES ASSUME ~ widening,
                    NEW primary \in 0 .. assets - 1, NEW secondary \in 0 .. assets - 1,
                    NEW maker \in 0 .. accounts - 1, NEW taker \in 0 .. accounts - 1
             PROVE  IsDisjoint(TradePositions(primary, secondary, maker, taker))
                      <=> primary # secondary /\ maker # taker
  BY DEF OverlapOnlyIfSame
<1>1. CASE primary # secondary /\ maker # taker
  <2>1. /\ Position(primary, maker) \in DOMAIN balances
        /\ Position(primary, taker) \in DOMAIN balances
        /\ Position(secondary, maker) \in DOMAIN balances
        /\ Position(secondary, taker) \in DOMAIN balances
    BY PositionInDomain
  <2>2. Position(primary, maker) # Position(primary, taker)
    BY <1>1, PositionIsInjective
  <2>3. Position(primary, maker) # Position(secondary, maker)
    BY <1>1, PositionIsInjective
  <2>4. Position(primary, maker) # Position(secondary, taker)
    BY <1>1, PositionIsInjective
  <2>5. Position(primary, taker) # Position(secondary, maker)
    BY <1>1, PositionIsInjective
  <2>6. Position(primary, taker) # Position(secondary, taker)
    BY <1>1, PositionIsInjective
  <2>7. Position(secondary, maker) # Position(secondary, taker)
    BY <1>1, PositionIsInjective
  <2> QED
    BY <1>1, <2>1, <2>2, <2>3, <2>4, <2>5, <2>6, <2>7, DisjointPositions
<1>2. CASE primary = secondary
  BY <1>2, DisjointPositions
<1>3. CASE maker = taker
  BY <1>3, DisjointPositions
<1> QED
  BY <1>1, <1>2, <1>3

(***************************************************************************)
(* The steps of the book keep its invariant, and are steps of the table.   *)
(***************************************************************************)
\* The primed table, cell by cell.
LEMMA TableAt ==
  ASSUME NEW a \in 0 .. assets - 1, NEW c \in 0 .. accounts - 1
  PROVE  TableOfVector[<<a, c>>] = balances[CurrentPosition(a, c)]
<1>1. <<a, c>> \in (0 .. assets - 1) \X (0 .. accounts - 1)
  OBVIOUS
<1> QED
  BY <1>1 DEF TableOfVector

LEMMA GrownTable ==
  ASSUME NEW m, NEW n, m = assets', n = accounts',
         \A a \in 0 .. assets' - 1, c \in 0 .. accounts' - 1 :
           balances'[CurrentPosition(a, c)'] =
             IF a \in 0 .. assets - 1 /\ c \in 0 .. accounts - 1
               THEN balances[CurrentPosition(a, c)]
               ELSE 0
  PROVE  TableOfVector' = Table!Grown(m, n)
<1> DEFINE cells == (0 .. assets' - 1) \X (0 .. accounts' - 1)
           old == (0 .. assets - 1) \X (0 .. accounts - 1)
<1>1. ASSUME NEW cell \in cells
      PROVE  balances'[CurrentPosition(cell[1], cell[2])'] =
               IF cell \in old THEN TableOfVector[cell] ELSE 0
  <2>1. PICK a \in 0 .. assets' - 1, c \in 0 .. accounts' - 1 : cell = <<a, c>>
    OBVIOUS
  <2>2. cell[1] = a /\ cell[2] = c
    BY <2>1
  <2>3. cell \in old <=> a \in 0 .. assets - 1 /\ c \in 0 .. accounts - 1
    BY <2>1
  <2>4. balances'[CurrentPosition(a, c)'] =
          IF a \in 0 .. assets - 1 /\ c \in 0 .. accounts - 1
            THEN balances[CurrentPosition(a, c)]
            ELSE 0
    OBVIOUS
  <2>5. CASE cell \in old
    <3>1. TableOfVector[cell] = balances[CurrentPosition(a, c)]
      BY <2>1, <2>3, <2>5, TableAt
    <3> QED
      BY <2>2, <2>3, <2>4, <2>5, <3>1
  <2>6. CASE cell \notin old
    BY <2>2, <2>3, <2>4, <2>6
  <2> QED
    BY <2>5, <2>6
<1>2. TableOfVector' = [cell \in cells |-> balances'[CurrentPosition(cell[1], cell[2])']]
  BY DEF TableOfVector
<1>3. Table!Grown(m, n) = [cell \in cells |-> IF cell \in old THEN TableOfVector[cell] ELSE 0]
  BY DEF Table!Grown, Table!Cells
<1> HIDE DEF cells, old
<1> QED
  BY <1>1, <1>2, <1>3

LEMMA AddAssetStep ==
  ASSUME BookInv, AddAsset
  PROVE  BookInv' /\ Table!AddAsset
<1>1. /\ accounts \in Nat /\ assets \in Nat /\ balances \in Seq(Int) /\ widened = 0
      /\ Len(balances) = accounts * assets + widened /\ widening = FALSE
  BY DEF BookInv, BookTypeOK, AddAsset
<1>2. /\ accounts' = accounts /\ assets' = assets + 1
      /\ widening' = FALSE /\ widened' = 0
      /\ balances' = balances \o Zeros(accounts)
  BY <1>1 DEF AddAsset
<1>3. accounts * assets \in Nat /\ accounts * (assets + 1) = accounts * assets + accounts
  BY <1>1, ProductIsNat, NextRow
<1>4. /\ balances' \in Seq(Int)
      /\ Len(balances') = accounts * assets + accounts
      /\ \A i \in 1 .. accounts * assets + accounts :
           balances'[i] = IF i <= accounts * assets
                            THEN balances[i] ELSE Zeros(accounts)[i - accounts * assets]
  <2>1. /\ Zeros(accounts) \in Seq(Int) /\ Len(Zeros(accounts)) = accounts
    BY <1>1, ZerosProperties
  <2>2. Len(balances) = accounts * assets
    BY <1>1, <1>3
  <2> DEFINE zeros == Zeros(accounts)
  <2> HIDE DEF zeros
  <2>3. zeros \in Seq(Int) /\ Len(zeros) = accounts /\ balances' = balances \o zeros
    BY <1>2, <2>1 DEF zeros
  <2>4. /\ balances \o zeros \in Seq(Int)
        /\ Len(balances \o zeros) = Len(balances) + Len(zeros)
    BY <1>1, <2>3, ConcatProperties
  <2>5. \A i \in 1 .. Len(balances) + Len(zeros) :
          (balances \o zeros)[i] =
             IF i <= Len(balances) THEN balances[i] ELSE zeros[i - Len(balances)]
    BY <1>1, <2>3, ConcatProperties
  <2>6. \A i \in 1 .. accounts * assets + accounts :
          balances'[i] = IF i <= accounts * assets
                           THEN balances[i] ELSE zeros[i - accounts * assets]
    BY <2>2, <2>3, <2>5
  <2> QED
    BY <2>2, <2>3, <2>4, <2>6 DEF zeros
<1>5. BookInv'
  <2>1. accounts' \in Nat /\ assets' \in Nat /\ widened' \in 0 .. assets'
    BY <1>1, <1>2
  <2>2. Len(balances') = accounts' * assets' + widened'
    BY <1>1, <1>2, <1>3, <1>4
  <2>3. widening' \in BOOLEAN /\ (~ widening' => widened' = 0)
    BY <1>2
  <2>4. BookTypeOK'
    BY <1>4, <2>1, <2>2, <2>3 DEF BookTypeOK
  <2>5. 0 .. widened' - 1 = {}
    BY <1>2
  <2> QED
    BY <2>4, <2>5 DEF BookInv, NewCellsAreZero
<1>6. ASSUME NEW a \in 0 .. assets' - 1, NEW c \in 0 .. accounts' - 1
      PROVE  balances'[CurrentPosition(a, c)'] =
               IF a \in 0 .. assets - 1 /\ c \in 0 .. accounts - 1
                 THEN balances[CurrentPosition(a, c)]
                 ELSE 0
  <2>1. a \in Nat /\ c \in 0 .. accounts - 1 /\ c \in Nat /\ a <= assets
    BY <1>1, <1>2
  <2>2. accounts * a \in Nat
    BY <1>1, <2>1, ProductIsNat
  <2>3. CurrentPosition(a, c)' = accounts * a + c + 1
    <3>1. CurrentPosition(a, c)' = accounts * a + c + 1 + (IF a < 0 THEN a ELSE 0)
      BY <1>2 DEF CurrentPosition, Position, GetIndex
    <3> QED
      BY <2>1, <2>2, <3>1
  <2>4. CASE a < assets
    <3>1. a \in 0 .. assets - 1
      BY <1>1, <2>1, <2>4
    <3>2. Position(a, c) = accounts * a + c + 1 /\ Position(a, c) \in 1 .. accounts * assets
      BY <2>1, <3>1, PositionInRange DEF BookInv
    <3>3. CurrentPosition(a, c) = Position(a, c)
      BY <1>1, <2>1, <3>1, SettledPosition DEF BookInv
    <3>4. Position(a, c) \in 1 .. accounts * assets + accounts
          /\ Position(a, c) <= accounts * assets
      BY <1>1, <1>3, <3>2
    <3>5. balances'[Position(a, c)] = balances[Position(a, c)]
      BY <1>4, <3>4
    <3> QED
      BY <2>1, <2>3, <3>1, <3>2, <3>3, <3>5
  <2>5. CASE ~ a < assets
    <3>1. a = assets /\ a \notin 0 .. assets - 1
      BY <1>1, <2>1, <2>5
    <3>2. /\ accounts * a + c + 1 \in 1 .. accounts * assets + accounts
          /\ ~ accounts * a + c + 1 <= accounts * assets
          /\ (accounts * a + c + 1) - accounts * assets = c + 1
          /\ c + 1 \in 1 .. accounts
      BY <1>1, <1>3, <2>1, <3>1
    <3>3. balances'[accounts * a + c + 1] = Zeros(accounts)[c + 1]
      BY <1>4, <3>2
    <3>4. Zeros(accounts)[c + 1] = 0
      BY <1>1, <3>2, ZerosProperties
    <3> QED
      BY <2>3, <3>1, <3>3, <3>4
  <2> QED
    BY <2>4, <2>5
<1>7. TableOfVector' = Table!Grown(assets + 1, accounts)
  BY <1>2, <1>6, GrownTable
<1> QED
  BY <1>2, <1>5, <1>7 DEF Table!AddAsset

LEMMA SameTable ==
  ASSUME UNCHANGED <<accounts, assets>>,
         \A a \in 0 .. assets - 1, c \in 0 .. accounts - 1 :
           balances'[CurrentPosition(a, c)'] = balances[CurrentPosition(a, c)]
  PROVE  TableOfVector' = TableOfVector
<1> DEFINE cells == (0 .. assets - 1) \X (0 .. accounts - 1)
<1>1. ASSUME NEW cell \in cells
      PROVE  balances'[CurrentPosition(cell[1], cell[2])'] =
               balances[CurrentPosition(cell[1], cell[2])]
  <2>1. PICK a \in 0 .. assets - 1, c \in 0 .. accounts - 1 : cell = <<a, c>>
    OBVIOUS
  <2> QED
    BY <2>1
<1>2. TableOfVector' = [cell \in cells |-> balances'[CurrentPosition(cell[1], cell[2])']]
  BY DEF TableOfVector
<1>3. TableOfVector = [cell \in cells |-> balances[CurrentPosition(cell[1], cell[2])]]
  BY DEF TableOfVector
<1> HIDE DEF cells
<1> QED
  BY <1>1, <1>2, <1>3

LEMMA BeginAddAccountStep ==
  ASSUME BookInv, BeginAddAccount
  PROVE  BookInv' /\ UNCHANGED Table!tableVars
<1>1. /\ accounts' = accounts /\ assets' = assets /\ balances' = balances
      /\ widened' = widened /\ widening' = TRUE
  BY DEF BeginAddAccount
<1>2. BookTypeOK'
  BY <1>1 DEF BookInv, BookTypeOK
<1>3. NewCellsAreZero'
  BY <1>1 DEF BookInv, NewCellsAreZero
<1>4. TableOfVector' = TableOfVector
  BY <1>1 DEF TableOfVector, CurrentPosition, Position, GetIndex
<1> QED
  BY <1>1, <1>2, <1>3, <1>4 DEF BookInv, Table!tableVars

\* Where the loop of add_account inserts: behind row `widened`, which the
\* earlier rounds moved up by as many places.
LEMMA InsertionPoint ==
  ASSUME BookTypeOK, widened < assets
  PROVE  /\ (widened + 1) * accounts + widened + 1 \in 1 .. Len(balances) + 1
         /\ (accounts + 1) * widened + accounts + 1 = (widened + 1) * accounts + widened + 1
         /\ (widened + 1) * accounts = accounts * widened + accounts
         /\ accounts * widened \in Nat
<1>1. accounts \in Nat /\ assets \in Nat /\ widened \in Nat /\ widened + 1 \in Nat
      /\ Len(balances) = accounts * assets + widened
  BY DEF BookTypeOK
<1>2. (widened + 1) * accounts = accounts * widened + accounts
  BY <1>1
<1>3. accounts * (widened + 1) <= accounts * assets
  BY <1>1, RowsGrow
<1>4. accounts * (widened + 1) = accounts * widened + accounts
  BY <1>1, NextRow
<1>5. (accounts + 1) * widened = accounts * widened + widened
  BY <1>1, WiderRow
<1>6. accounts * widened \in Nat /\ accounts * assets \in Nat
  BY <1>1, ProductIsNat
<1>7. (widened + 1) * accounts + widened + 1 \in 1 .. Len(balances) + 1
  BY <1>1, <1>2, <1>3, <1>4, <1>6
<1>8. (accounts + 1) * widened + accounts + 1 = (widened + 1) * accounts + widened + 1
  BY <1>1, <1>2, <1>5, <1>6
<1> QED
  BY <1>2, <1>6, <1>7, <1>8

LEMMA InsertCellStep ==
  ASSUME BookInv, InsertCell
  PROVE  BookInv' /\ UNCHANGED Table!tableVars
<1> DEFINE place == (widened + 1) * accounts + widened + 1
<1>1. /\ accounts \in Nat /\ assets \in Nat /\ balances \in Seq(Int)
      /\ widened \in Nat /\ widened < assets
      /\ Len(balances) = accounts * assets + widened /\ Len(balances) \in Nat
      /\ widening = TRUE
  BY DEF BookInv, BookTypeOK, InsertCell
<1>2. /\ accounts' = accounts /\ assets' = assets
      /\ widening' = TRUE /\ widened' = widened + 1
      /\ balances' = InsertAt(balances, place, 0)
  BY <1>1 DEF InsertCell
<1>3. /\ place \in 1 .. Len(balances) + 1 /\ accounts * widened \in Nat
      /\ place = (accounts + 1) * widened + accounts + 1
      /\ place = accounts * widened + accounts + widened + 1
  BY <1>1, InsertionPoint DEF BookInv
<1> HIDE DEF place
<1>4. /\ balances' \in Seq(Int)
      /\ Len(balances') = Len(balances) + 1
      /\ \A i \in 1 .. Len(balances) + 1 :
           balances'[i] = IF i < place THEN balances[i]
                          ELSE IF i = place THEN 0 ELSE balances[i - 1]
  <2> DEFINE inserted == InsertAt(balances, place, 0)
  <2>1. /\ inserted \in Seq(Int)
        /\ Len(inserted) = Len(balances) + 1
        /\ \A i \in 1 .. Len(balances) + 1 :
             inserted[i] = IF i < place THEN balances[i]
                           ELSE IF i = place THEN 0 ELSE balances[i - 1]
    <3>1. PICK e \in Int : e = 0
      OBVIOUS
    <3>2. /\ InsertAt(balances, place, e) \in Seq(Int)
          /\ Len(InsertAt(balances, place, e)) = Len(balances) + 1
          /\ \A j \in 1 .. Len(balances) + 1 :
               InsertAt(balances, place, e)[j] =
                 IF j < place THEN balances[j] ELSE IF j = place THEN e ELSE balances[j - 1]
      <4>1. balances \in Seq(Int) /\ place \in 1 .. Len(balances) + 1
        BY <1>1, <1>3
      <4> QED
        BY <4>1, InsertAtProperties
    <3> QED
      BY <3>1, <3>2
  <2> HIDE DEF inserted
  <2>2. balances' = inserted
    BY <1>2 DEF inserted
  <2> QED
    BY <2>1, <2>2
<1>5. BookTypeOK'
  <2>1. accounts' \in Nat /\ assets' \in Nat /\ widened' \in 0 .. assets'
    BY <1>1, <1>2
  <2>2. Len(balances') = accounts' * assets' + widened'
    <3>1. accounts * assets \in Nat
      BY <1>1, ProductIsNat
    <3> QED
      BY <1>1, <1>2, <1>4, <3>1
  <2>3. widening' \in BOOLEAN /\ (~ widening' => widened' = 0)
    BY <1>2
  <2> QED
    BY <1>4, <2>1, <2>2, <2>3 DEF BookTypeOK
<1>6. NewCellsAreZero'
  <2> SUFFICES ASSUME NEW a \in 0 .. widened' - 1
               PROVE  balances'[(accounts + 1) * a + accounts + 1] = 0
    BY <1>2 DEF NewCellsAreZero
  <2>1. a \in Nat /\ a <= widened
    BY <1>1, <1>2
  <2>2. CASE a = widened
    BY <1>3, <1>4, <2>2
  <2>3. CASE a < widened
    <3>1. balances[(accounts + 1) * a + accounts + 1] = 0
      <4>1. a \in 0 .. widened - 1
        BY <1>1, <2>1, <2>3
      <4> QED
        BY <4>1 DEF BookInv, NewCellsAreZero
    <3>2. (accounts + 1) * a \in Nat
      BY <1>1, <2>1, ProductIsNat
    <3>3. (accounts + 1) * a + accounts < (accounts + 1) * widened
      <4>1. accounts + 1 \in Nat /\ accounts \in 0 .. (accounts + 1) - 1
        BY <1>1
      <4> QED
        BY <1>1, <2>1, <2>3, <4>1, EarlierRow
    <3>4. (accounts + 1) * widened \in Nat
      BY <1>1, ProductIsNat
    <3>5. (accounts + 1) * a + accounts + 1 \in 1 .. Len(balances) + 1
          /\ (accounts + 1) * a + accounts + 1 < place
      BY <1>1, <1>3, <3>2, <3>3, <3>4
    <3> QED
      BY <1>4, <3>1, <3>5
  <2> QED
    BY <1>1, <2>1, <2>2, <2>3
<1>7. ASSUME NEW a \in 0 .. assets - 1, NEW c \in 0 .. accounts - 1
      PROVE  balances'[CurrentPosition(a, c)'] = balances[CurrentPosition(a, c)]
  <2>1. a \in Nat /\ c \in Nat /\ c < accounts
    BY <1>1
  <2>2. accounts * a \in Nat
    BY <1>1, <2>1, ProductIsNat
  <2>3. CurrentPosition(a, c) = accounts * a + c + 1 + (IF a < widened THEN a ELSE widened)
        /\ CurrentPosition(a, c)' =
              accounts * a + c + 1 + (IF a < widened + 1 THEN a ELSE widened + 1)
    BY <1>2 DEF CurrentPosition, Position, GetIndex
  <2>4. CurrentPosition(a, c) \in 1 .. Len(balances)
    BY PositionInRange DEF BookInv
  <2>5. CASE a <= widened
    <3>1. accounts * a <= accounts * widened
      BY <1>1, <2>1, <2>5, RowsGrow
    <3>2. CurrentPosition(a, c)' = CurrentPosition(a, c)
      BY <1>1, <2>1, <2>2, <2>3, <2>5
    <3>3. CurrentPosition(a, c) = accounts * a + c + 1 + a
      BY <1>1, <2>1, <2>3, <2>5
    <3>4. accounts * a + c + 1 + a < accounts * widened + accounts + widened + 1
      BY <1>1, <1>3, <2>1, <2>2, <2>5, <3>1
    <3>5. CurrentPosition(a, c) < place
      BY <1>3, <3>3, <3>4
    <3> QED
      BY <1>1, <1>4, <2>4, <3>2, <3>5
  <2>6. CASE ~ a <= widened
    <3>1. accounts * (widened + 1) <= accounts * a
      BY <1>1, <2>1, <2>6, RowsGrow
    <3>2. accounts * (widened + 1) = accounts * widened + accounts
      BY <1>1, NextRow
    <3>3. CurrentPosition(a, c)' = CurrentPosition(a, c) + 1
      BY <1>1, <2>1, <2>2, <2>3, <2>6
    <3>4. CurrentPosition(a, c) >= place
      BY <1>1, <1>3, <2>1, <2>2, <2>3, <2>6, <3>1, <3>2
    <3>5. LET i == CurrentPosition(a, c) + 1
          IN  i \in 1 .. Len(balances) + 1 /\ ~ i < place /\ i # place
              /\ i - 1 = CurrentPosition(a, c)
      BY <1>1, <1>3, <2>4, <3>4
    <3> QED
      BY <1>4, <3>3, <3>5
  <2> QED
    BY <2>5, <2>6
<1>8. TableOfVector' = TableOfVector
  BY <1>2, <1>7, SameTable
<1> QED
  BY <1>2, <1>5, <1>6, <1>8 DEF BookInv, Table!tableVars

LEMMA FinishAddAccountStep ==
  ASSUME BookInv, FinishAddAccount
  PROVE  BookInv' /\ Table!AddAccount
<1>1. /\ accounts \in Nat /\ assets \in Nat /\ balances \in Seq(Int)
      /\ widened = assets /\ Len(balances) = accounts * assets + widened
  BY DEF BookInv, BookTypeOK, FinishAddAccount
<1>2. /\ accounts' = accounts + 1 /\ assets' = assets /\ balances' = balances
      /\ widening' = FALSE /\ widened' = 0
  BY DEF FinishAddAccount
<1>3. BookTypeOK'
  <2>1. accounts' \in Nat /\ assets' \in Nat /\ widened' \in 0 .. assets'
    BY <1>1, <1>2
  <2>2. Len(balances') = accounts' * assets' + widened'
    <3>1. (accounts + 1) * assets = accounts * assets + assets /\ accounts * assets \in Nat
      BY <1>1, WiderRow, ProductIsNat
    <3> QED
      BY <1>1, <1>2, <3>1
  <2>3. widening' \in BOOLEAN /\ (~ widening' => widened' = 0)
    BY <1>2
  <2> QED
    BY <1>1, <1>2, <2>1, <2>2, <2>3 DEF BookTypeOK
<1>4. NewCellsAreZero'
  <2>1. 0 .. widened' - 1 = {}
    BY <1>2
  <2> QED
    BY <2>1 DEF NewCellsAreZero
<1>5. ASSUME NEW a \in 0 .. assets' - 1, NEW c \in 0 .. accounts' - 1
      PROVE  balances'[CurrentPosition(a, c)'] =
               IF a \in 0 .. assets - 1 /\ c \in 0 .. accounts - 1
                 THEN balances[CurrentPosition(a, c)]
                 ELSE 0
  <2>1. a \in Nat /\ a < assets /\ c \in Nat /\ c <= accounts /\ a \in 0 .. assets - 1
    BY <1>1, <1>2
  <2>2. (accounts + 1) * a = accounts * a + a /\ accounts * a \in Nat
    BY <1>1, <2>1, WiderRow, ProductIsNat
  <2>3. CurrentPosition(a, c)' = (accounts + 1) * a + c + 1
    <3>1. CurrentPosition(a, c)' = (accounts + 1) * a + c + 1 + (IF a < 0 THEN a ELSE 0)
      BY <1>2 DEF CurrentPosition, Position, GetIndex
    <3> QED
      BY <2>1, <2>2, <3>1
  <2>4. CASE c < accounts
    <3>1. CurrentPosition(a, c) = accounts * a + c + 1 + a
      <4>1. CurrentPosition(a, c) =
              accounts * a + c + 1 + (IF a < assets THEN a ELSE assets)
        BY <1>1 DEF CurrentPosition, Position, GetIndex
      <4> QED
        BY <2>1, <2>2, <4>1
    <3>2. CurrentPosition(a, c)' = CurrentPosition(a, c)
      BY <2>1, <2>2, <2>3, <3>1
    <3>3. c \in 0 .. accounts - 1
      BY <1>1, <2>1, <2>4
    <3> QED
      BY <1>2, <2>1, <3>2, <3>3
  <2>5. CASE ~ c < accounts
    <3>1. c = accounts /\ c \notin 0 .. accounts - 1
      BY <1>1, <2>1, <2>5
    <3>2. balances[(accounts + 1) * a + accounts + 1] = 0
      BY <1>1, <2>1 DEF BookInv, NewCellsAreZero
    <3> QED
      BY <1>2, <2>3, <3>1, <3>2
  <2> QED
    BY <2>4, <2>5
<1>6. TableOfVector' = Table!Grown(assets, accounts + 1)
  BY <1>2, <1>5, GrownTable
<1> QED
  BY <1>2, <1>3, <1>4, <1>6 DEF BookInv, Table!AddAccount

LEMMA TransferStep ==
  ASSUME BookInv,
         NEW primary \in 0 .. assets - 1, NEW secondary \in 0 .. assets - 1,
         NEW maker \in 0 .. accounts - 1, NEW taker \in 0 .. accounts - 1,
         NEW bought \in Int, NEW paid \in Int,
         Transfer(primary, secondary, maker, taker, bought, paid)
  PROVE  BookInv' /\ Table!Trade(primary, secondary, maker, taker, bought, paid)
<1> DEFINE pt == Position(primary, taker)
           pm == Position(primary, maker)
           st == Position(secondary, taker)
           sm == Position(secondary, maker)
<1>1. /\ accounts \in Nat /\ assets \in Nat /\ balances \in Seq(Int)
      /\ widening = FALSE /\ widened = 0 /\ ~ widening
      /\ Len(balances) = accounts * assets + widened
  BY DEF BookInv, BookTypeOK, Transfer
<1>2. /\ accounts' = accounts /\ assets' = assets
      /\ widening' = widening /\ widened' = widened
      /\ balances' = [balances EXCEPT ![pt] = @ + bought, ![pm] = @ - bought,
                                       ![st] = @ - paid, ![sm] = @ + paid]
  BY DEF Transfer
<1>3. primary # secondary /\ maker # taker
  <2>1. IsDisjoint(TradePositions(primary, secondary, maker, taker))
    BY DEF Transfer
  <2>2. OverlapOnlyIfSame
    BY OverlapLemma DEF BookInv
  <2> QED
    BY <1>1, <2>1, <2>2 DEF OverlapOnlyIfSame
<1>4. /\ pt \in DOMAIN balances /\ pm \in DOMAIN balances
      /\ st \in DOMAIN balances /\ sm \in DOMAIN balances
  BY <1>1, PositionInDomain DEF BookInv
<1>5. pt # pm /\ pt # st /\ pt # sm /\ pm # st /\ pm # sm /\ st # sm
  <2>1. IsDisjoint(TradePositions(primary, secondary, maker, taker))
    BY DEF Transfer
  <2> QED
    BY <2>1, DisjointPositions
<1>6. ASSUME NEW i \in DOMAIN balances
      PROVE  balances'[i] =
               CASE i = pt -> balances[i] + bought
                 [] i = pm -> balances[i] - bought
                 [] i = st -> balances[i] - paid
                 [] i = sm -> balances[i] + paid
                 [] OTHER -> balances[i]
  <2> HIDE DEF pt, pm, st, sm
  <2> QED
    BY <1>2, <1>4, <1>5
<1>7. balances' \in Seq(Int) /\ Len(balances') = Len(balances)
  <2> HIDE DEF pt, pm, st, sm
  <2>1. \A i \in DOMAIN balances : balances[i] \in Int
    BY <1>1
  <2>2. DOMAIN balances' = DOMAIN balances
    BY <1>2
  <2>3. \A i \in DOMAIN balances : balances'[i] \in Int
    BY <1>6, <2>1
  <2>4. balances' = [i \in 1 .. Len(balances) |-> balances'[i]]
    <3>1. balances' = [i \in DOMAIN balances' |-> balances'[i]]
      BY <1>2
    <3>2. DOMAIN balances' = 1 .. Len(balances)
      BY <1>1, <2>2
    <3> QED
      BY <3>1, <3>2
  <2>5. DOMAIN balances = 1 .. Len(balances) /\ Len(balances) \in Nat
    BY <1>1
  <2> QED
    BY <2>3, <2>4, <2>5
<1>8. BookInv'
  <2>1. BookTypeOK'
    BY <1>1, <1>2, <1>7 DEF BookTypeOK, BookInv
  <2>2. 0 .. widened' - 1 = {}
    BY <1>1, <1>2
  <2> QED
    BY <2>1, <2>2 DEF BookInv, NewCellsAreZero
<1> DEFINE cells == (0 .. assets - 1) \X (0 .. accounts - 1)
           moved == [TableOfVector EXCEPT
                       ![<<primary, taker>>] = @ + bought, ![<<primary, maker>>] = @ - bought,
                       ![<<secondary, taker>>] = @ - paid, ![<<secondary, maker>>] = @ + paid]
<1>9. ASSUME NEW a \in 0 .. assets - 1, NEW c \in 0 .. accounts - 1
      PROVE  TableOfVector'[<<a, c>>] = moved[<<a, c>>]
  <2>1. TableOfVector'[<<a, c>>] = balances'[Position(a, c)]
    <3>1. <<a, c>> \in (0 .. assets' - 1) \X (0 .. accounts' - 1)
      BY <1>2
    <3>2. CurrentPosition(a, c)' = Position(a, c)
      <4>1. CurrentPosition(a, c)' = CurrentPosition(a, c)
        BY <1>2 DEF CurrentPosition, Position, GetIndex
      <4> QED
        BY <1>1, <4>1, SettledPosition DEF BookInv
    <3>3. TableOfVector'[<<a, c>>] = balances'[CurrentPosition(a, c)']
      BY <3>1 DEF TableOfVector
    <3> QED
      BY <3>2, <3>3
  <2>2. TableOfVector[<<a, c>>] = balances[Position(a, c)]
    BY <1>1, TableAt, SettledPosition DEF BookInv
  <2>3. Position(a, c) \in DOMAIN balances
    BY <1>1, PositionInDomain DEF BookInv
  <2>4. /\ Position(a, c) = pt <=> <<a, c>> = <<primary, taker>>
        /\ Position(a, c) = pm <=> <<a, c>> = <<primary, maker>>
        /\ Position(a, c) = st <=> <<a, c>> = <<secondary, taker>>
        /\ Position(a, c) = sm <=> <<a, c>> = <<secondary, maker>>
    <3>1. ASSUME NEW b \in 0 .. assets - 1, NEW d \in 0 .. accounts - 1
          PROVE  Position(a, c) = Position(b, d) <=> a = b /\ c = d
      BY PositionIsInjective DEF BookInv
    <3> QED
      BY <3>1
  <2>5. moved[<<a, c>>] =
          CASE <<a, c>> = <<primary, taker>> -> TableOfVector[<<a, c>>] + bought
            [] <<a, c>> = <<primary, maker>> -> TableOfVector[<<a, c>>] - bought
            [] <<a, c>> = <<secondary, taker>> -> TableOfVector[<<a, c>>] - paid
            [] <<a, c>> = <<secondary, maker>> -> TableOfVector[<<a, c>>] + paid
            [] OTHER -> TableOfVector[<<a, c>>]
    <3>1. DOMAIN TableOfVector = cells
      BY DEF TableOfVector
    <3>2. <<a, c>> \in cells /\ <<primary, taker>> \in cells /\ <<primary, maker>> \in cells
          /\ <<secondary, taker>> \in cells /\ <<secondary, maker>> \in cells
      OBVIOUS
    <3>3. /\ <<primary, taker>> # <<primary, maker>> /\ <<primary, taker>> # <<secondary, taker>>
          /\ <<primary, taker>> # <<secondary, maker>> /\ <<primary, maker>> # <<secondary, taker>>
          /\ <<primary, maker>> # <<secondary, maker>> /\ <<secondary, taker>> # <<secondary, maker>>
      BY <1>3
    <3> HIDE DEF cells
    <3> QED
      BY <3>1, <3>2, <3>3
  <2> HIDE DEF pt, pm, st, sm, moved
  <2> QED
    BY <1>6, <2>1, <2>2, <2>3, <2>4, <2>5
<1>10. TableOfVector' = moved
  <2>1. DOMAIN TableOfVector' = cells /\ DOMAIN moved = cells
    BY <1>2 DEF TableOfVector
  <2>2. ASSUME NEW cell \in cells PROVE TableOfVector'[cell] = moved[cell]
    <3>1. PICK a \in 0 .. assets - 1, c \in 0 .. accounts - 1 : cell = <<a, c>>
      OBVIOUS
    <3> HIDE DEF moved
    <3> QED
      BY <1>9, <3>1
  <2>3. TableOfVector' = [cell \in cells |-> TableOfVector'[cell]]
    BY <1>2 DEF TableOfVector
  <2>4. moved = [cell \in cells |-> moved[cell]]
    BY DEF TableOfVector
  <2> HIDE DEF cells, moved
  <2> QED
    BY <2>2, <2>3, <2>4
<1> QED
  BY <1>2, <1>3, <1>8, <1>10 DEF Table!Trade

\* An index is the index of exactly one cell.
LEMMA RowAndColumn ==
  ASSUME NEW n \in Nat \ {0}, NEW x \in Nat
  PROVE  x = n * (x \div n) + (x % n) /\ x % n \in 0 .. n - 1 /\ x \div n \in Nat
OBVIOUS

\* What get_index makes of an account that does not exist.
LEMMA WrapLemma ==
  ASSUME BookTypeOK
  PROVE  ReadsWrapAround
<1> SUFFICES ASSUME ~ widening, NEW asset \in 0 .. assets, NEW account \in 0 .. 2 * accounts
             PROVE  Get(account, asset) =
                      IF accounts = 0 THEN NoBalance ELSE BalanceRead(account, asset)
  BY DEF ReadsWrapAround
<1> DEFINE n == accounts
           place == Position(asset, account)
<1>1. /\ n \in Nat /\ assets \in Nat /\ asset \in Nat /\ account \in Nat
      /\ widened = 0 /\ balances \in Seq(Int) /\ Len(balances) = n * assets + widened
  BY DEF BookTypeOK
<1>2. n * assets \in Nat /\ n * asset \in Nat
  BY <1>1, ProductIsNat
<1>3. DOMAIN balances = 1 .. n * assets
  <2>1. DOMAIN balances = 1 .. Len(balances)
    BY <1>1
  <2> QED
    BY <1>1, <1>2, <2>1
<1>4. place = n * asset + account + 1
  BY DEF Position, GetIndex
<1>5. CASE n = 0
  <2>1. account = 0 /\ n * assets = 0 /\ n * asset = 0
    BY <1>1, <1>5
  <2>2. place \notin DOMAIN balances
    BY <1>3, <1>4, <2>1
  <2> QED
    BY <1>5, <2>2 DEF Get
<1>6. CASE n # 0
  <2>1. PICK q \in Nat, r \in 0 .. n - 1 :
          account = n * q + r /\ account \div n = q /\ account % n = r
    <3>1. n \in Nat \ {0}
      BY <1>1, <1>6
    <3>2. /\ account = n * (account \div n) + (account % n)
          /\ account % n \in 0 .. n - 1 /\ account \div n \in Nat
      BY <1>1, <3>1, RowAndColumn
    <3> QED
      BY <3>2, Zenon
  <2>2. n * (asset + q) = n * asset + n * q /\ n * q \in Nat /\ n * (asset + q) \in Nat
    BY <1>1
  <2>3. place = n * (asset + q) + r + 1
    BY <1>1, <1>2, <1>4, <2>1, <2>2
  <2>4. BalanceRead(account, asset) =
          IF asset + q < assets THEN TableOfVector[<<asset + q, r>>] ELSE NoBalance
    BY <2>1 DEF BalanceRead
  <2>5. CASE asset + q < assets
    <3>1. asset + q \in 0 .. assets - 1
      BY <1>1, <2>5
    <3>2. /\ CurrentPosition(asset + q, r) = Position(asset + q, r)
          /\ Position(asset + q, r) = n * (asset + q) + r + 1
          /\ Position(asset + q, r) \in DOMAIN balances
      BY <3>1, SettledPosition, PositionInRange, PositionInDomain
    <3>3. TableOfVector[<<asset + q, r>>] = balances[CurrentPosition(asset + q, r)]
      BY <3>1, TableAt
    <3>4. place \in DOMAIN balances /\ TableOfVector[<<asset + q, r>>] = balances[place]
      BY <2>3, <3>2, <3>3
    <3> QED
      BY <1>6, <2>4, <2>5, <3>4 DEF Get
  <2>6. CASE ~ asset + q < assets
    <3>1. n * assets <= n * (asset + q)
      BY <1>1, <2>1, <2>6, RowsGrow
    <3>2. place \notin DOMAIN balances
      BY <1>1, <1>2, <1>3, <2>1, <2>2, <2>3, <3>1
    <3> QED
      BY <1>6, <2>4, <2>6, <3>2 DEF Get
  <2> QED
    BY <2>5, <2>6
<1> QED
  BY <1>5, <1>6

(***************************************************************************)
(* The theorems of the book.                                               *)
(***************************************************************************)
LEMMA BookStep ==
  ASSUME BookInv, BookNext
  PROVE  BookInv' /\ (Table!TableNext \/ UNCHANGED Table!tableVars)
<1>1. CASE AddAsset
  BY <1>1, AddAssetStep DEF Table!TableNext
<1>2. CASE BeginAddAccount
  BY <1>2, BeginAddAccountStep
<1>3. CASE InsertCell
  BY <1>3, InsertCellStep
<1>4. CASE FinishAddAccount
  BY <1>4, FinishAddAccountStep DEF Table!TableNext
<1>5. ASSUME NEW primary \in 0 .. assets - 1, NEW secondary \in 0 .. assets - 1,
             NEW maker \in 0 .. accounts - 1, NEW taker \in 0 .. accounts - 1,
             NEW bought \in Amounts, NEW paid \in Amounts,
             Transfer(primary, secondary, maker, taker, bought, paid)
      PROVE  BookInv' /\ Table!TableNext
  <2>1. bought \in Int /\ paid \in Int
    BY BalanceAssumption
  <2>2. BookInv' /\ Table!Trade(primary, secondary, maker, taker, bought, paid)
    BY <1>5, <2>1, TransferStep
  <2> QED
    BY <2>2 DEF Table!TableNext
<1> QED
  BY <1>1, <1>2, <1>3, <1>4, <1>5 DEF BookNext

LEMMA BookStutter ==
  ASSUME BookInv, UNCHANGED bookVars
  PROVE  BookInv' /\ UNCHANGED Table!tableVars
<1>1. /\ accounts' = accounts /\ assets' = assets /\ balances' = balances
      /\ widening' = widening /\ widened' = widened
  BY DEF bookVars
<1>2. BookInv'
  BY <1>1 DEF BookInv, BookTypeOK, NewCellsAreZero
<1>3. TableOfVector' = TableOfVector
  BY <1>1 DEF TableOfVector, CurrentPosition, Position, GetIndex
<1> QED
  BY <1>1, <1>2, <1>3 DEF Table!tableVars

LEMMA BookInitTable == BookInit => Table!TableInit
<1> SUFFICES ASSUME BookInit PROVE Table!TableInit
  OBVIOUS
<1>1. accounts = 0 /\ assets = 0
  BY DEF BookInit
<1>2. (0 .. 0 - 1) \X (0 .. 0 - 1) = {}
  OBVIOUS
<1>3. TableOfVector = [cell \in {} |-> balances[CurrentPosition(cell[1], cell[2])]]
  BY <1>1, <1>2 DEF TableOfVector
<1>4. TableOfVector = [cell \in Table!Cells(0, 0) |-> 0]
  BY <1>2, <1>3 DEF Table!Cells
<1> QED
  BY <1>1, <1>4 DEF Table!TableInit

\* The vector always has exactly the cells that its accounts and assets need,
\* and one more for each round that add_account has done.
THEOREM BookTypeCorrect == BookSpec => []BookTypeOK
<1>1. BookInit => BookInv
  BY BookInitInv
<1>2. BookInv /\ [BookNext]_bookVars => BookInv'
  BY BookStep, BookStutter
<1>3. BookInv => BookTypeOK
  BY DEF BookInv
<1> QED
  BY <1>1, <1>2, <1>3, PTL DEF BookSpec

\* The vector implements a table of balances.
THEOREM BookImplementsTable == BookSpec => ImplementsTable
<1>1. BookInit => BookInv /\ Table!TableInit
  BY BookInitInv, BookInitTable
<1>2. BookInv /\ [BookNext]_bookVars => BookInv'
  BY BookStep, BookStutter
<1>3. BookInv /\ [BookNext]_bookVars => [Table!TableNext]_(Table!tableVars)
  BY BookStep, BookStutter
<1> QED
  BY <1>1, <1>2, <1>3, PTL DEF BookSpec, ImplementsTable, Table!TableSpec
=============================================================================
