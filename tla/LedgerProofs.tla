---------------------------- MODULE LedgerProofs ----------------------------
(***************************************************************************)
(* The set-up of an exchange and its settlements: the theorems of the book *)
(* and of the ring, composed.                                              *)
(***************************************************************************)
EXTENDS Ledger, BookProofs, SumProofs, WellFoundedInduction, NaturalsInduction

(***************************************************************************)
(* write_idx is reduced when it is used: slots go round.                   *)
(***************************************************************************)
LEMMA Quotient ==
  ASSUME NEW n \in Nat \ {0}, NEW x \in Nat
  PROVE  x = n * (x \div n) + (x % n) /\ x % n \in 0 .. n - 1 /\ x \div n \in Nat
OBVIOUS

LEMMA SmallSlot ==
  ASSUME NEW n \in Nat \ {0}, NEW x \in 0 .. n - 1
  PROVE  x % n = x
OBVIOUS

LEMMA Multiples ==
  ASSUME NEW n \in Nat, NEW a \in Nat, NEW b \in Nat, a < b
  PROVE  n * a \in Nat /\ n * b \in Nat /\ n * a + n <= n * b
<1> DEFINE k == b - a - 1
<1>1. k \in Nat /\ b = a + 1 + k
  OBVIOUS
<1>2. n * k \in Nat /\ n * a \in Nat
  BY <1>1
<1>3. n * b = n * a + n + n * k
  BY <1>1
<1> QED
  BY <1>2, <1>3

\* Quotient and remainder are unique.
LEMMA OneQuotient ==
  ASSUME NEW n \in Nat, NEW a \in Nat, NEW b \in Nat,
         NEW c \in 0 .. n - 1, NEW d \in 0 .. n - 1, n * a + c = n * b + d
  PROVE  a = b /\ c = d
<1>1. n * a \in Nat /\ n * b \in Nat
  OBVIOUS
<1>2. ~ a < b
  BY <1>1, Multiples
<1>3. ~ b < a
  BY <1>1, Multiples
<1> QED
  BY <1>1, <1>2, <1>3

LEMMA NextSlot ==
  ASSUME NEW n \in Nat \ {0}, NEW x \in Nat
  PROVE  (x + 1) % n = IF (x % n) + 1 = n THEN 0 ELSE (x % n) + 1
<1>1. PICK q \in Nat, r \in 0 .. n - 1 : x = n * q + r /\ x % n = r
  BY Quotient
<1>2. PICK q1 \in Nat, r1 \in 0 .. n - 1 : x + 1 = n * q1 + r1 /\ (x + 1) % n = r1
  <2>1. x + 1 \in Nat
    OBVIOUS
  <2>2. /\ x + 1 = n * ((x + 1) \div n) + ((x + 1) % n)
        /\ (x + 1) % n \in 0 .. n - 1 /\ (x + 1) \div n \in Nat
    BY <2>1, Quotient
  <2> QED
    BY <2>2, Zenon
<1>3. n * q \in Nat /\ n * q1 \in Nat /\ n * (q + 1) = n * q + n
  OBVIOUS
<1>4. CASE r + 1 = n
  <2>1. n * (q + 1) + 0 = n * q1 + r1 /\ 0 \in 0 .. n - 1 /\ q + 1 \in Nat
    BY <1>1, <1>2, <1>3, <1>4
  <2>2. 0 = r1
    BY <2>1, OneQuotient
  <2> QED
    BY <1>1, <1>2, <1>4, <2>2
<1>5. CASE r + 1 # n
  <2>1. n * q + (r + 1) = n * q1 + r1 /\ r + 1 \in 0 .. n - 1
    BY <1>1, <1>2, <1>3, <1>5
  <2>2. r + 1 = r1
    BY <2>1, OneQuotient
  <2> QED
    BY <1>1, <1>2, <1>5, <2>2
<1> QED
  BY <1>4, <1>5

(***************************************************************************)
(* What the vector holds: before it is full everything that was pushed,    *)
(* afterwards the newest transactions up to the write slot and the oldest  *)
(* from there on.                                                          *)
(***************************************************************************)
RingInv(T) ==
  /\ inner \in Seq(T)
  /\ pushed \in Seq(T)
  /\ writeIdx = Len(pushed)
  /\ writeIdx < RingCapacity => inner = pushed
  /\ writeIdx >= RingCapacity =>
       /\ Len(inner) = RingCapacity
       /\ \A i \in 1 .. RingCapacity :
            inner[i] = IF i <= WriteSlot
                         THEN pushed[writeIdx - WriteSlot + i]
                         ELSE pushed[writeIdx - WriteSlot - RingCapacity + i]

LEMMA RingInitInv ==
  ASSUME RingInit, NEW T
  PROVE  RingInv(T)
<1>1. <<>> \in Seq(T) /\ Len(<<>>) = 0
  BY EmptySeq
<1>2. inner = <<>> /\ pushed = <<>> /\ writeIdx = 0
  BY DEF RingInit
<1>3. writeIdx < RingCapacity
  BY <1>2, RingAssumption
<1>4. ~ writeIdx >= RingCapacity
  BY <1>2, RingAssumption
<1> QED
  BY <1>1, <1>2, <1>3, <1>4 DEF RingInv

LEMMA PushKeepsRing ==
  ASSUME NEW T, NEW t \in T, RingInv(T), Push(t)
  PROVE  RingInv(T)'
<1> DEFINE n == writeIdx
           k == WriteSlot
           C == RingCapacity
<1>1. /\ C \in Nat /\ C > 0 /\ n \in Nat /\ n = Len(pushed)
      /\ inner \in Seq(T) /\ pushed \in Seq(T) /\ Len(inner) \in Nat
  BY RingAssumption, LenProperties DEF RingInv
<1>2. k \in 0 .. C - 1 /\ (n < C => k = n)
  <2>1. C \in Nat \ {0} /\ (n < C => n \in 0 .. C - 1)
    BY <1>1
  <2> QED
    BY <1>1, <2>1, Quotient, SmallSlot DEF WriteSlot
<1>3. /\ writeIdx' = n + 1
      /\ pushed' = Append(pushed, t)
      /\ inner' = IF Len(inner) < C THEN Append(inner, t)
                  ELSE [inner EXCEPT ![k + 1] = t]
  BY DEF Push
<1>4. WriteSlot' = IF k + 1 = C THEN 0 ELSE k + 1
  <2>1. C \in Nat \ {0}
    BY <1>1
  <2> QED
    BY <1>1, <1>3, <2>1, NextSlot DEF WriteSlot
<1>5. /\ pushed' \in Seq(T) /\ Len(pushed') = n + 1 /\ pushed'[n + 1] = t
      /\ \A i \in 1 .. n : pushed'[i] = pushed[i]
  BY <1>1, <1>3
<1>6. CASE n < C
  <2>1. inner = pushed /\ Len(inner) = n /\ k = n
    BY <1>1, <1>2, <1>6 DEF RingInv
  <2>2. inner' = pushed'
    BY <1>1, <1>3, <1>6, <2>1
  <2>3. CASE n + 1 < C
    <3>1. writeIdx' < RingCapacity /\ ~ writeIdx' >= RingCapacity
      BY <1>1, <1>3, <2>3
    <3> QED
      BY <1>1, <1>3, <1>5, <2>2, <3>1 DEF RingInv
  <2>4. CASE n + 1 = C
    <3>1. WriteSlot' = 0
      BY <1>4, <2>1, <2>4
    <3>2. Len(inner') = C
      BY <1>5, <2>2, <2>4
    <3>3. \A i \in 1 .. C :
            inner'[i] = IF i <= WriteSlot' THEN pushed'[writeIdx' - WriteSlot' + i]
                        ELSE pushed'[writeIdx' - WriteSlot' - C + i]
      <4> SUFFICES ASSUME NEW i \in 1 .. C
                   PROVE  inner'[i] = IF i <= WriteSlot' THEN pushed'[writeIdx' - WriteSlot' + i]
                                      ELSE pushed'[writeIdx' - WriteSlot' - C + i]
        OBVIOUS
      <4>1. ~ i <= WriteSlot' /\ writeIdx' - WriteSlot' - C + i = i
        <5>1. writeIdx' = C /\ WriteSlot' = 0 /\ i \in Nat /\ i > 0 /\ C \in Nat
          BY <1>1, <1>3, <2>4, <3>1
        <5> QED
          BY <5>1
      <4> QED
        BY <2>2, <4>1
    <3>4. ~ writeIdx' < RingCapacity
      BY <1>1, <1>3, <2>4
    <3> QED
      BY <1>3, <1>5, <2>2, <3>2, <3>3, <3>4 DEF RingInv
  <2> QED
    BY <1>1, <1>6, <2>3, <2>4
<1>7. CASE n >= C
  <2>1. /\ Len(inner) = C
        /\ \A i \in 1 .. C : inner[i] = IF i <= k THEN pushed[n - k + i] ELSE pushed[n - k - C + i]
    BY <1>7 DEF RingInv
  <2>2. /\ inner' \in Seq(T) /\ Len(inner') = C
        /\ \A i \in 1 .. C : inner'[i] = IF i = k + 1 THEN t ELSE inner[i]
    <3>1. inner' = [inner EXCEPT ![k + 1] = t] /\ k + 1 \in 1 .. Len(inner)
      BY <1>1, <1>2, <1>3, <2>1
    <3> HIDE DEF k
    <3> QED
      BY <1>1, <2>1, <3>1, ExceptSeq
  <2>3. \A i \in 1 .. C :
          inner'[i] = IF i <= WriteSlot' THEN pushed'[writeIdx' - WriteSlot' + i]
                      ELSE pushed'[writeIdx' - WriteSlot' - C + i]
    <3> SUFFICES ASSUME NEW i \in 1 .. C
                 PROVE  inner'[i] = IF i <= WriteSlot' THEN pushed'[writeIdx' - WriteSlot' + i]
                                    ELSE pushed'[writeIdx' - WriteSlot' - C + i]
      OBVIOUS
    <3> HIDE DEF n, k, C
    <3>1. CASE k + 1 = C
      <4>1. WriteSlot' = 0 /\ ~ i <= WriteSlot' /\ writeIdx' - WriteSlot' - C + i = n + 1 - C + i
        BY <1>1, <1>2, <1>3, <1>4, <3>1
      <4>2. CASE i = k + 1
        <5>1. n + 1 - C + i = n + 1
          BY <1>1, <1>2, <3>1, <4>2
        <5> QED
          BY <1>5, <2>2, <4>1, <4>2, <5>1
      <4>3. CASE i # k + 1
        <5>1. i <= k /\ n + 1 - C + i = n - k + i /\ n - k + i \in 1 .. n
          BY <1>1, <1>2, <1>7, <3>1, <4>3
        <5> QED
          BY <1>5, <2>1, <2>2, <4>1, <4>3, <5>1
      <4> QED
        BY <4>2, <4>3
    <3>2. CASE k + 1 # C
      <4>1. WriteSlot' = k + 1 /\ writeIdx' - WriteSlot' = n - k
        BY <1>1, <1>2, <1>3, <1>4, <3>2
      <4>2. CASE i = k + 1
        <5>1. i <= WriteSlot' /\ writeIdx' - WriteSlot' + i = n + 1
          BY <1>1, <1>2, <4>1, <4>2
        <5> QED
          BY <1>5, <2>2, <4>2, <5>1
      <4>3. CASE i <= k
        <5>1. i <= WriteSlot' /\ i # k + 1 /\ n - k + i \in 1 .. n
          BY <1>1, <1>2, <1>7, <4>1, <4>3
        <5> QED
          BY <1>5, <2>1, <2>2, <4>1, <4>3, <5>1
      <4>4. CASE i > k + 1
        <5>1. ~ i <= WriteSlot' /\ i # k + 1 /\ ~ i <= k /\ n - k - C + i \in 1 .. n
          BY <1>1, <1>2, <1>7, <4>1, <4>4
        <5> QED
          BY <1>5, <2>1, <2>2, <4>1, <4>4, <5>1
      <4> QED
        BY <1>1, <1>2, <4>2, <4>3, <4>4
    <3> QED
      BY <3>1, <3>2
  <2>4. ~ writeIdx' < RingCapacity
    BY <1>1, <1>3, <1>7
  <2> QED
    BY <1>3, <1>5, <2>2, <2>3, <2>4 DEF RingInv
<1> QED
  BY <1>1, <1>6, <1>7

(***************************************************************************)
(* RecentTransactions::get, from what the vector holds.                    *)
(***************************************************************************)
LEMMA RecentLemma ==
  ASSUME NEW T, RingInv(T)
  PROVE  RecentInOrder
<1> DEFINE n == writeIdx
           k == WriteSlot
           C == RingCapacity
           older == SubSeq(inner, k + 1, Len(inner))
           newer == SubSeq(inner, 1, k)
<1>1. /\ C \in Nat /\ C > 0 /\ n \in Nat /\ n = Len(pushed)
      /\ inner \in Seq(T) /\ pushed \in Seq(T) /\ Len(inner) \in Nat
  BY RingAssumption, LenProperties DEF RingInv
<1>2. k \in 0 .. C - 1 /\ (n < C => k = n)
  <2>1. C \in Nat \ {0} /\ (n < C => n \in 0 .. C - 1)
    BY <1>1
  <2> QED
    BY <1>1, <2>1, Quotient, SmallSlot DEF WriteSlot
<1>3. Len(inner) = IF n < C THEN n ELSE C
  BY <1>1 DEF RingInv
<1>4. k <= Len(inner)
  BY <1>1, <1>2, <1>3
<1>5. \A i \in 1 .. Len(inner) : inner[i] \in T
  BY <1>1
<1>6. /\ older \in Seq(T) /\ Len(older) = Len(inner) - k
      /\ \A i \in 1 .. Len(inner) - k : older[i] = inner[k + i]
  <2> HIDE DEF k
  <2>1. \A i \in k + 1 .. Len(inner) : inner[i] \in T
    BY <1>2, <1>5
  <2> QED
    BY <1>1, <1>2, <1>4, <2>1, SubSeqProperties
<1>7. /\ newer \in Seq(T) /\ Len(newer) = k
      /\ \A i \in 1 .. k : newer[i] = inner[i]
  <2> HIDE DEF k
  <2>1. \A i \in 1 .. k : inner[i] \in T
    BY <1>1, <1>2, <1>4, <1>5
  <2> QED
    BY <1>1, <1>2, <1>4, <2>1, SubSeqProperties
<1>8. GetRecent = older \o newer
  BY DEF GetRecent, RotateLeft
<1> DEFINE last == Newest(pushed, C)
           from == IF n <= C THEN 0 ELSE n - C
<1>9. /\ last \in Seq(T) /\ Len(last) = Len(inner)
      /\ \A j \in 1 .. Len(inner) : last[j] = pushed[from + j]
  <2>1. CASE n <= C
    BY <1>1, <1>3, <2>1 DEF Newest
  <2>2. CASE ~ n <= C
    <3>1. last = SubSeq(pushed, n - C + 1, n)
      BY <1>1, <2>2 DEF Newest
    <3>2. \A i \in n - C + 1 .. n : pushed[i] \in T
      BY <1>1, <2>2
    <3>3. /\ SubSeq(pushed, n - C + 1, n) \in Seq(T)
          /\ Len(SubSeq(pushed, n - C + 1, n)) = C
          /\ \A i \in 1 .. C : SubSeq(pushed, n - C + 1, n)[i] = pushed[n - C + i]
      <4> HIDE DEF n, C
      <4>1. n - C + 1 \in Int /\ n \in Int /\ n - C + 1 <= n /\ n - (n - C + 1) + 1 = C
        BY <1>1
      <4>2. /\ SubSeq(pushed, n - C + 1, n) \in Seq(T)
            /\ Len(SubSeq(pushed, n - C + 1, n)) = C
            /\ \A i \in 1 .. C : SubSeq(pushed, n - C + 1, n)[i] = pushed[n - C + 1 + i - 1]
        BY <3>2, <4>1, SubSeqProperties
      <4>3. \A i \in 1 .. C : n - C + 1 + i - 1 = n - C + i
        BY <1>1
      <4> QED
        BY <4>2, <4>3
    <3> QED
      BY <1>1, <1>3, <2>2, <3>1, <3>3
  <2> QED
    BY <2>1, <2>2
<1> HIDE DEF older, newer, last
<1>10. /\ older \o newer \in Seq(T) /\ Len(older \o newer) = Len(inner)
       /\ \A j \in 1 .. Len(inner) :
            (older \o newer)[j] = IF j <= Len(inner) - k THEN older[j]
                                  ELSE newer[j - (Len(inner) - k)]
  <2>1. older \o newer \in Seq(T) /\ Len(older \o newer) = Len(older) + Len(newer)
    BY <1>6, <1>7, ConcatProperties
  <2>2. \A j \in 1 .. Len(older) + Len(newer) :
          (older \o newer)[j] = IF j <= Len(older) THEN older[j] ELSE newer[j - Len(older)]
    BY <1>6, <1>7, ConcatProperties
  <2>3. Len(older) = Len(inner) - k /\ Len(older) + Len(newer) = Len(inner)
    BY <1>1, <1>2, <1>6, <1>7
  <2> QED
    BY <2>1, <2>2, <2>3
<1>11. ASSUME NEW j \in 1 .. Len(inner)
       PROVE  (older \o newer)[j] = pushed[from + j]
  <2> HIDE DEF k
  <2>1. CASE n < C
    <3>1. k = Len(inner) /\ inner = pushed /\ from = 0
      BY <1>1, <1>2, <1>3, <2>1 DEF RingInv
    <3>2. ~ j <= Len(inner) - k /\ j - (Len(inner) - k) = j /\ j \in 1 .. k
      BY <1>1, <3>1
    <3>3. (older \o newer)[j] = newer[j]
      BY <1>10, <3>2
    <3> QED
      BY <1>7, <3>1, <3>2, <3>3
  <2>2. CASE ~ n < C
    <3>1. Len(inner) = C /\ from = n - C
      BY <1>1, <1>3, <2>2
    <3>2. \A i \in 1 .. C :
            inner[i] = IF i <= k THEN pushed[n - k + i] ELSE pushed[n - k - C + i]
      BY <1>1, <2>2 DEF RingInv, k
    <3>3. CASE j <= C - k
      <4>1. /\ (older \o newer)[j] = older[j] /\ j \in 1 .. C - k
            /\ k + j \in 1 .. C /\ ~ k + j <= k /\ n - k - C + (k + j) = n - C + j
        BY <1>1, <1>2, <1>10, <3>1, <3>3
      <4>2. older[j] = inner[k + j]
        BY <1>6, <3>1, <4>1
      <4>3. inner[k + j] = pushed[n - k - C + (k + j)]
        BY <3>2, <4>1
      <4> QED
        BY <3>1, <4>1, <4>2, <4>3
    <3>4. CASE ~ j <= C - k
      <4> DEFINE i == j - (C - k)
      <4>1. (older \o newer)[j] = newer[i]
        BY <1>10, <3>1, <3>4
      <4>2. i \in 1 .. k /\ i \in 1 .. C /\ i <= k /\ n - k + i = n - C + j
        BY <1>1, <1>2, <3>1, <3>4
      <4>3. newer[i] = inner[i]
        BY <1>7, <4>2
      <4>4. inner[i] = pushed[n - k + i]
        BY <3>2, <4>2
      <4> HIDE DEF i
      <4> QED
        BY <3>1, <4>1, <4>2, <4>3, <4>4
    <3> QED
      BY <3>3, <3>4
  <2> QED
    BY <2>1, <2>2
<1>12. older \o newer = last
  BY <1>9, <1>10, <1>11, SeqEqual
<1> QED
  BY <1>4, <1>8, <1>12 DEF RecentInOrder, last

AllTransactions ==
  [market : [primary : Nat, secondary : Nat], price : Prices, volume : Volumes,
   takerSide : {"Ask", "Bid"}, maker : Nat, taker : Nat]

Names == {Upper[symbol] : symbol \in DOMAIN Upper}

(***************************************************************************)
(* The exchange and its book know the same accounts and assets, up to the  *)
(* account that add_account is making room for; markets are of assets that *)
(* are listed, under the symbols of the configuration, and each is there   *)
(* once.                                                                   *)
(***************************************************************************)
ExchangeKnows ==
  /\ registered = accounts + (IF widening THEN 1 ELSE 0)
  /\ listed \in Seq(Names)
  /\ Len(listed) = assets

MarketsListed ==
  /\ markets \in Seq([primary : Nat, secondary : Nat])
  /\ Len(markets) <= Len(config.markets)
  /\ Len(markets) > 0 => Len(listed) = Len(config.assets)
  /\ \A i \in 1 .. Len(markets) :
       /\ markets[i].primary < Len(listed)
       /\ markets[i].secondary < Len(listed)
       /\ listed[markets[i].primary + 1] = Upper[config.markets[i].primary]
       /\ listed[markets[i].secondary + 1] = Upper[config.markets[i].secondary]
  /\ \A i, j \in 1 .. Len(markets) : markets[i] = markets[j] => i = j

Phases ==
  /\ phase \in {"setup", "running", "panicked", "alone"}
  /\ phase = "setup" => inner = <<>>
  /\ phase \in {"running", "panicked"} => ~ widening
  /\ phase = "running" => Len(markets) = Len(config.markets)

LedgerInv ==
  /\ BookInv
  /\ RingInv(AllTransactions)
  /\ inner \in Seq(Transactions)
  /\ Phases
  /\ phase # "alone" => config \in Configs /\ ExchangeKnows /\ MarketsListed

(***************************************************************************)
(* find(..): the first asset with a symbol.                                *)
(***************************************************************************)
LEMMA HasMin ==
  ASSUME NEW S \in SUBSET Nat, S # {}
  PROVE  Min(S) \in S
<1>1. PICK x \in S : \A y \in S : ~ (<<y, x>> \in OpToRel(<, Nat))
  BY WFMin, NatLessThanWellFounded, Zenon
<1>2. ASSUME NEW y \in S PROVE x =< y
  <2>1. y \in Nat /\ x \in Nat
    OBVIOUS
  <2>2. ~ (<<y, x>> \in OpToRel(<, Nat))
    BY <1>1, Zenon
  <2>3. ~ (y < x)
    BY <2>1, <2>2, Zenon DEF OpToRel
  <2> QED
    BY <2>1, <2>3
<1>3. \E z \in S : \A y \in S : z =< y
  BY <1>2, Zenon
<1> QED
  BY <1>3, Zenon DEF Min

LEMMA FoundAsset ==
  ASSUME NEW symbol, Len(listed) \in Nat, IsTradedAsset(AssetId(symbol))
  PROVE  /\ AssetId(symbol) \in Nat
         /\ AssetId(symbol) < Len(listed)
         /\ listed[AssetId(symbol) + 1] = Upper[symbol]
<1> DEFINE I == {i \in 1 .. Len(listed) : listed[i] = Upper[symbol]}
<1>1. AssetId(symbol) = (IF I # {} THEN Min(I) ELSE 0) - 1
  BY DEF AssetId, SelectInSeq
<1>2. AssetId(symbol) \in 0 .. Len(listed) - 1
  BY DEF IsTradedAsset
<1>3. I # {}
  <2> SUFFICES ASSUME I = {} PROVE FALSE
    OBVIOUS
  <2>1. AssetId(symbol) = 0 - 1
    BY <1>1
  <2> QED
    BY <1>2, <2>1
<1>4. Min(I) \in I
  <2>1. I \in SUBSET Nat
    OBVIOUS
  <2> HIDE DEF I
  <2> QED
    BY <1>3, <2>1, HasMin
<1>5. AssetId(symbol) = Min(I) - 1
  BY <1>1, <1>3
<1>6. PICK m \in I : m = Min(I)
  BY <1>4
<1>7. m \in 1 .. Len(listed) /\ listed[m] = Upper[symbol]
  OBVIOUS
<1> HIDE DEF I
<1>8. AssetId(symbol) + 1 = m
  BY <1>5, <1>6, <1>7
<1> QED
  BY <1>2, <1>7, <1>8

(***************************************************************************)
(* The invariant holds at the start.                                       *)
(***************************************************************************)
LEMMA LedgerInitInv == LedgerInit => LedgerInv
<1> SUFFICES ASSUME LedgerInit PROVE LedgerInv
  OBVIOUS
<1>1. BookInv
  BY BookInitInv DEF LedgerInit
<1>2. RingInv(AllTransactions)
  BY RingInitInv DEF LedgerInit
<1>3. inner = <<>> /\ inner \in Seq(Transactions)
  <2>1. <<>> \in Seq(Transactions)
    BY EmptySeq
  <2> QED
    BY <2>1 DEF LedgerInit, RingInit
<1>4. /\ accounts = 0 /\ assets = 0 /\ widening = FALSE
      /\ registered = 0 /\ listed = <<>> /\ markets = <<>>
      /\ phase # "alone" => phase = "setup" /\ config \in Configs
      /\ phase \in {"setup", "alone"}
  BY DEF LedgerInit, BookInit
<1>5. Phases
  BY <1>3, <1>4 DEF Phases
<1>6. phase # "alone" => config \in Configs /\ ExchangeKnows /\ MarketsListed
  <2> SUFFICES ASSUME phase # "alone" PROVE ExchangeKnows /\ MarketsListed
    BY <1>4
  <2>1. ExchangeKnows
    <3>1. <<>> \in Seq(Names) /\ Len(<<>>) = 0
      BY EmptySeq
    <3>2. registered = accounts + (IF widening THEN 1 ELSE 0)
      BY <1>4
    <3> QED
      BY <1>4, <3>1, <3>2 DEF ExchangeKnows
  <2>2. MarketsListed
    <3>1. markets \in Seq([primary : Nat, secondary : Nat]) /\ Len(markets) = 0
      BY <1>4, EmptySeq
    <3>2. Len(config.markets) \in Nat
      BY <1>4, ConfigAssumption, LenProperties
    <3>3. 1 .. Len(markets) = {}
      BY <3>1
    <3> QED
      BY <3>1, <3>2, <3>3 DEF MarketsListed
  <2> QED
    BY <2>1, <2>2
<1> QED
  BY <1>1, <1>2, <1>3, <1>5, <1>6 DEF LedgerInv

(***************************************************************************)
(* What a step leaves alone keeps its part of the invariant.               *)
(***************************************************************************)
LEMMA RingStutter ==
  ASSUME NEW T, RingInv(T), UNCHANGED ringVars
  PROVE  RingInv(T)'
<1>1. inner' = inner /\ writeIdx' = writeIdx /\ pushed' = pushed
  BY DEF ringVars
<1>2. WriteSlot' = WriteSlot
  BY <1>1 DEF WriteSlot
<1> QED
  BY <1>1, <1>2 DEF RingInv

LEMMA MarketsStutter ==
  ASSUME MarketsListed, UNCHANGED <<config, listed, markets>>
  PROVE  MarketsListed'
BY DEF MarketsListed

(***************************************************************************)
(* Set-up.                                                                 *)
(***************************************************************************)
LEMMA CreateAccountStep ==
  ASSUME LedgerInv, CreateAccount
  PROVE  LedgerInv' /\ UNCHANGED Table!tableVars
<1>1. /\ phase = "setup" /\ BeginAddAccount /\ registered' = registered + 1
      /\ UNCHANGED <<ringVars, config, listed, markets, phase>>
  BY DEF CreateAccount
<1>2. BookInv' /\ UNCHANGED Table!tableVars
  BY <1>1, BeginAddAccountStep DEF LedgerInv
<1>3. RingInv(AllTransactions)'
  BY <1>1, RingStutter DEF LedgerInv
<1>4. inner' = <<>> /\ (inner \in Seq(Transactions))'
  BY <1>1, EmptySeq DEF LedgerInv, Phases, ringVars
<1>5. Phases'
  BY <1>1, <1>4 DEF LedgerInv, Phases
<1>6. ExchangeKnows'
  <2>1. registered = accounts /\ accounts \in Nat /\ accounts' = accounts
        /\ assets' = assets /\ widening' = TRUE
    BY <1>1 DEF LedgerInv, ExchangeKnows, BeginAddAccount, BookInv, BookTypeOK
  <2>2. registered' = accounts' + (IF widening' THEN 1 ELSE 0)
    BY <1>1, <2>1
  <2> QED
    BY <1>1, <2>1, <2>2 DEF LedgerInv, ExchangeKnows
<1>7. MarketsListed'
  BY <1>1, MarketsStutter DEF LedgerInv
<1> QED
  BY <1>1, <1>2, <1>3, <1>4, <1>5, <1>6, <1>7 DEF LedgerInv

LEMMA WidenBookStep ==
  ASSUME LedgerInv, WidenBook
  PROVE  LedgerInv' /\ (Table!TableNext \/ UNCHANGED Table!tableVars)
<1>1. /\ phase = "setup" /\ (InsertCell \/ FinishAddAccount)
      /\ UNCHANGED <<ringVars, config, registered, listed, markets, phase>>
  BY DEF WidenBook
<1>2. BookInv' /\ (Table!TableNext \/ UNCHANGED Table!tableVars)
  BY <1>1, InsertCellStep, FinishAddAccountStep DEF LedgerInv, Table!TableNext
<1>3. RingInv(AllTransactions)'
  BY <1>1, RingStutter DEF LedgerInv
<1>4. inner' = <<>> /\ (inner \in Seq(Transactions))'
  BY <1>1, EmptySeq DEF LedgerInv, Phases, ringVars
<1>5. Phases'
  BY <1>1, <1>4 DEF LedgerInv, Phases
<1>6. ExchangeKnows'
  <2>1. ExchangeKnows /\ accounts \in Nat
    BY <1>1 DEF LedgerInv, BookInv, BookTypeOK
  <2>2. CASE InsertCell
    BY <1>1, <2>1, <2>2 DEF ExchangeKnows, InsertCell
  <2>3. CASE FinishAddAccount
    <3>1. registered = accounts + 1 /\ accounts' = accounts + 1 /\ widening' = FALSE
          /\ assets' = assets
      BY <2>1, <2>3 DEF ExchangeKnows, FinishAddAccount
    <3>2. registered' = accounts' + (IF widening' THEN 1 ELSE 0)
      BY <1>1, <2>1, <3>1
    <3> QED
      BY <1>1, <2>1, <3>1, <3>2 DEF ExchangeKnows
  <2> QED
    BY <1>1, <2>2, <2>3
<1>7. MarketsListed'
  BY <1>1, MarketsStutter DEF LedgerInv
<1> QED
  BY <1>1, <1>2, <1>3, <1>4, <1>5, <1>6, <1>7 DEF LedgerInv

LEMMA ListAssetStep ==
  ASSUME LedgerInv, ListAsset
  PROVE  LedgerInv' /\ Table!TableNext
<1> DEFINE symbol == Upper[config.assets[Len(listed) + 1]]
<1>1. /\ phase = "setup" /\ Len(listed) < Len(config.assets) /\ AddAsset
      /\ listed' = Append(listed, symbol)
      /\ UNCHANGED <<ringVars, config, registered, markets, phase>>
  BY DEF ListAsset
<1>2. BookInv' /\ Table!TableNext
  BY <1>1, AddAssetStep DEF LedgerInv, Table!TableNext
<1>3. RingInv(AllTransactions)'
  BY <1>1, RingStutter DEF LedgerInv
<1>4. inner' = <<>> /\ (inner \in Seq(Transactions))'
  BY <1>1, EmptySeq DEF LedgerInv, Phases, ringVars
<1>5. Phases'
  BY <1>1, <1>4 DEF LedgerInv, Phases
<1>6. /\ config \in Configs /\ ExchangeKnows /\ MarketsListed
      /\ listed \in Seq(Names) /\ Len(listed) = assets /\ assets \in Nat
  BY <1>1 DEF LedgerInv, ExchangeKnows, BookInv, BookTypeOK
<1>7. symbol \in Names
  <2>1. config.assets \in Seq(DOMAIN Upper)
    BY <1>6, ConfigAssumption
  <2>2. Len(listed) + 1 \in 1 .. Len(config.assets)
    BY <1>1, <1>6, <2>1, LenProperties
  <2>3. config.assets[Len(listed) + 1] \in DOMAIN Upper
    BY <2>1, <2>2, ElementOfSeq
  <2> QED
    BY <2>3 DEF Names
<1>8. ExchangeKnows'
  <2>1. listed' \in Seq(Names) /\ Len(listed') = Len(listed) + 1
    <3> HIDE DEF symbol
    <3> QED
      BY <1>1, <1>6, <1>7
  <2>2. registered' = registered /\ accounts' = accounts /\ widening' = widening
        /\ assets' = assets + 1
    BY <1>1 DEF AddAsset
  <2> QED
    BY <1>6, <2>1, <2>2 DEF ExchangeKnows
<1>9. MarketsListed'
  <2>1. markets \in Seq([primary : Nat, secondary : Nat])
        /\ Len(markets) <= Len(config.markets) /\ Len(markets) \in Nat
    BY <1>6 DEF MarketsListed
  <2>2. Len(config.assets) \in Nat
    BY <1>6, ConfigAssumption, LenProperties
  <2>3. ~ (Len(markets) > 0)
    BY <1>1, <1>6, <2>1, <2>2 DEF MarketsListed
  <2>4. 1 .. Len(markets) = {}
    BY <2>1, <2>3
  <2> QED
    BY <1>1, <2>1, <2>3, <2>4 DEF MarketsListed
<1> QED
  BY <1>1, <1>2, <1>3, <1>4, <1>5, <1>6, <1>8, <1>9 DEF LedgerInv

LEMMA AddMarketStep ==
  ASSUME LedgerInv, AddMarket
  PROVE  LedgerInv' /\ UNCHANGED Table!tableVars
<1> DEFINE wanted == NextMarket
           new == MarketOf(NextMarket)
           k == Len(markets)
<1>1. /\ phase = "setup" /\ ~ widening /\ Len(listed) = Len(config.assets)
      /\ k < Len(config.markets) /\ CanAddMarket(new)
      /\ markets' = Append(markets, new)
      /\ UNCHANGED <<bookVars, ringVars, config, registered, listed, phase>>
  BY DEF AddMarket, ReadyForMarket
<1>2. BookInv' /\ UNCHANGED Table!tableVars
  BY <1>1, BookStutter DEF LedgerInv
<1>3. RingInv(AllTransactions)'
  BY <1>1, RingStutter DEF LedgerInv
<1>4. inner' = <<>> /\ (inner \in Seq(Transactions))'
  BY <1>1, EmptySeq DEF LedgerInv, Phases, ringVars
<1>5. Phases'
  BY <1>1, <1>4 DEF LedgerInv, Phases
<1>6. /\ config \in Configs /\ ExchangeKnows /\ MarketsListed /\ Len(listed) \in Nat
      /\ k \in Nat /\ markets \in Seq([primary : Nat, secondary : Nat])
  BY <1>1, LenProperties DEF LedgerInv, ExchangeKnows, MarketsListed
<1>7. ExchangeKnows'
  BY <1>1, <1>6 DEF ExchangeKnows, bookVars
<1>8. /\ new.primary \in Nat /\ new.primary < Len(listed)
      /\ listed[new.primary + 1] = Upper[wanted.primary]
      /\ new.secondary \in Nat /\ new.secondary < Len(listed)
      /\ listed[new.secondary + 1] = Upper[wanted.secondary]
      /\ new \in [primary : Nat, secondary : Nat]
      /\ new \notin ToSet(markets)
  <2>1. /\ new.primary = AssetId(wanted.primary) /\ new.secondary = AssetId(wanted.secondary)
        /\ new = [primary |-> new.primary, secondary |-> new.secondary]
    BY DEF MarketOf
  <2>2. IsTradedAsset(new.primary) /\ IsTradedAsset(new.secondary) /\ new \notin ToSet(markets)
    BY <1>1 DEF CanAddMarket
  <2>3. /\ AssetId(wanted.primary) \in Nat /\ AssetId(wanted.primary) < Len(listed)
        /\ listed[AssetId(wanted.primary) + 1] = Upper[wanted.primary]
    BY <1>6, <2>1, <2>2, FoundAsset
  <2>4. /\ AssetId(wanted.secondary) \in Nat /\ AssetId(wanted.secondary) < Len(listed)
        /\ listed[AssetId(wanted.secondary) + 1] = Upper[wanted.secondary]
    BY <1>6, <2>1, <2>2, FoundAsset
  <2> HIDE DEF new, wanted
  <2> QED
    BY <2>1, <2>2, <2>3, <2>4
<1>9. wanted = config.markets[k + 1]
  BY DEF NextMarket
<1> HIDE DEF new, wanted, k
<1>10. /\ markets' \in Seq([primary : Nat, secondary : Nat]) /\ Len(markets') = k + 1
       /\ markets'[k + 1] = new /\ \A i \in 1 .. k : markets'[i] = markets[i]
  BY <1>1, <1>6, <1>8 DEF k
<1>11. MarketsListed'
  <2>1. Len(config.markets) \in Nat
    BY <1>6, ConfigAssumption, LenProperties
  <2>2. Len(markets') <= Len(config.markets)
    BY <1>1, <1>6, <1>10, <2>1
  <2>3. ASSUME NEW i \in 1 .. Len(markets')
        PROVE  /\ markets'[i].primary < Len(listed)
               /\ markets'[i].secondary < Len(listed)
               /\ listed[markets'[i].primary + 1] = Upper[config.markets[i].primary]
               /\ listed[markets'[i].secondary + 1] = Upper[config.markets[i].secondary]
    <3>1. CASE i = k + 1
      BY <1>8, <1>9, <1>10, <3>1
    <3>2. CASE i # k + 1
      <4>1. i \in 1 .. k /\ markets'[i] = markets[i]
        BY <1>6, <1>10, <3>2
      <4> QED
        BY <1>6, <4>1 DEF MarketsListed, k
    <3> QED
      BY <3>1, <3>2
  <2>4. ASSUME NEW i \in 1 .. Len(markets'), NEW j \in 1 .. Len(markets'),
               markets'[i] = markets'[j]
        PROVE  i = j
    <3>1. ASSUME NEW m \in 1 .. k PROVE markets[m] # new
      <4>1. DOMAIN markets = 1 .. k
        BY <1>6 DEF k
      <4> QED
        BY <1>8, <4>1 DEF ToSet
    <3>2. /\ i \in 1 .. k => markets'[i] = markets[i]
          /\ j \in 1 .. k => markets'[j] = markets[j]
          /\ i \notin 1 .. k => i = k + 1
          /\ j \notin 1 .. k => j = k + 1
      BY <1>6, <1>10
    <3>3. CASE i \in 1 .. k /\ j \in 1 .. k
      BY <1>6, <2>4, <3>2, <3>3 DEF MarketsListed, k
    <3>4. CASE i \notin 1 .. k /\ j \notin 1 .. k
      BY <3>2, <3>4
    <3>5. CASE i \in 1 .. k /\ j \notin 1 .. k
      BY <1>10, <2>4, <3>1, <3>2, <3>5
    <3>6. CASE i \notin 1 .. k /\ j \in 1 .. k
      BY <1>10, <2>4, <3>1, <3>2, <3>6
    <3> QED
      BY <3>3, <3>4, <3>5, <3>6
  <2> QED
    BY <1>1, <1>10, <2>2, <2>3, <2>4 DEF MarketsListed
<1> QED
  BY <1>1, <1>2, <1>3, <1>4, <1>5, <1>6, <1>7, <1>11 DEF LedgerInv

(***************************************************************************)
(* Steps that change the phase at most.                                    *)
(***************************************************************************)
LEMMA TransactionsStutter ==
  ASSUME UNCHANGED <<registered, markets>>
  PROVE  Transactions' = Transactions
BY DEF Transactions

LEMMA PhaseStep ==
  ASSUME LedgerInv, UNCHANGED <<bookVars, ringVars, config, registered, listed, markets>>,
         Phases', phase' # "alone" <=> phase # "alone"
  PROVE  LedgerInv' /\ UNCHANGED Table!tableVars
<1>1. BookInv' /\ UNCHANGED Table!tableVars
  BY BookStutter DEF LedgerInv
<1>2. RingInv(AllTransactions)'
  BY RingStutter DEF LedgerInv
<1>3. (inner \in Seq(Transactions))'
  BY TransactionsStutter DEF LedgerInv, ringVars
<1>4. phase # "alone" => config' \in Configs /\ ExchangeKnows' /\ MarketsListed'
  BY MarketsStutter DEF LedgerInv, ExchangeKnows, bookVars
<1> QED
  BY <1>1, <1>2, <1>3, <1>4 DEF LedgerInv

LEMMA RestStep ==
  ASSUME LedgerInv, UNCHANGED ledgerVars
  PROVE  LedgerInv' /\ UNCHANGED Table!tableVars
<1>1. Phases'
  BY DEF LedgerInv, Phases, ledgerVars, bookVars, ringVars
<1> QED
  BY <1>1, PhaseStep DEF ledgerVars

LEMMA SetupPanicsStep ==
  ASSUME LedgerInv, SetupPanics
  PROVE  LedgerInv' /\ UNCHANGED Table!tableVars
<1>1. /\ phase = "setup" /\ ~ widening /\ phase' = "panicked"
      /\ UNCHANGED <<bookVars, ringVars, config, registered, listed, markets>>
  BY DEF SetupPanics, ReadyForMarket
<1>2. Phases'
  BY <1>1 DEF LedgerInv, Phases, bookVars
<1> QED
  BY <1>1, <1>2, PhaseStep

LEMMA RunStep ==
  ASSUME LedgerInv, Run
  PROVE  LedgerInv' /\ UNCHANGED Table!tableVars
<1>1. /\ phase = "setup" /\ ~ widening /\ phase' = "running"
      /\ Len(markets) = Len(config.markets)
      /\ UNCHANGED <<bookVars, ringVars, config, registered, listed, markets>>
  BY DEF Run
<1>2. Phases'
  BY <1>1 DEF LedgerInv, Phases, bookVars
<1> QED
  BY <1>1, <1>2, PhaseStep

LEMMA SettlementPanicsStep ==
  ASSUME LedgerInv, NEW t \in Transactions, SettlementPanics(t)
  PROVE  LedgerInv' /\ UNCHANGED Table!tableVars
<1>1. /\ phase = "running" /\ phase' = "panicked"
      /\ UNCHANGED <<bookVars, ringVars, config, registered, listed, markets>>
  BY DEF SettlementPanics
<1>2. Phases'
  BY <1>1 DEF LedgerInv, Phases, bookVars
<1> QED
  BY <1>1, <1>2, PhaseStep

LEMMA CallBookStep ==
  ASSUME LedgerInv, CallBook
  PROVE  LedgerInv' /\ (Table!TableNext \/ UNCHANGED Table!tableVars)
<1>1. /\ phase = "alone" /\ BookNext
      /\ UNCHANGED <<ringVars, config, registered, listed, markets, phase>>
  BY DEF CallBook
<1>2. BookInv' /\ (Table!TableNext \/ UNCHANGED Table!tableVars)
  BY <1>1, BookStep DEF LedgerInv
<1>3. RingInv(AllTransactions)'
  BY <1>1, RingStutter DEF LedgerInv
<1>4. (inner \in Seq(Transactions))'
  BY <1>1, TransactionsStutter DEF LedgerInv, ringVars
<1>5. Phases'
  BY <1>1 DEF LedgerInv, Phases
<1> QED
  BY <1>1, <1>2, <1>3, <1>4, <1>5 DEF LedgerInv

(***************************************************************************)
(* Settlement.                                                             *)
(***************************************************************************)
Bought(t) == IF t.takerSide = "Bid" THEN t.volume ELSE - t.volume

LEMMA SettleTradeStep ==
  ASSUME LedgerInv, NEW t \in Transactions, SettleTrade(t)
  PROVE  /\ LedgerInv' /\ Table!TableNext
         /\ t.market.primary \in 0 .. assets - 1 /\ t.market.secondary \in 0 .. assets - 1
         /\ t.maker \in 0 .. accounts - 1 /\ t.taker \in 0 .. accounts - 1
         /\ Table!Trade(t.market.primary, t.market.secondary, t.maker, t.taker,
                        Bought(t), Bought(t) * t.price)
<1> DEFINE bought == IF t.takerSide = "Bid" THEN t.volume ELSE - t.volume
           paid == bought * t.price
<1>0. Bought(t) = bought /\ Bought(t) * t.price = paid
  BY DEF Bought
<1>1. /\ phase = "running"
      /\ Transfer(t.market.primary, t.market.secondary, t.maker, t.taker, bought, paid)
      /\ Push(t)
      /\ UNCHANGED <<config, registered, listed, markets, phase>>
  BY DEF SettleTrade
<1>2. /\ t.market \in ToSet(markets) /\ t.price \in Prices /\ t.volume \in Volumes
      /\ t.maker \in 0 .. registered - 1 /\ t.taker \in 0 .. registered - 1
  BY DEF Transactions
<1>3. /\ ~ widening /\ ExchangeKnows /\ MarketsListed
      /\ accounts \in Nat /\ assets \in Nat /\ registered = accounts /\ Len(listed) = assets
  BY <1>1 DEF LedgerInv, Phases, ExchangeKnows, BookInv, BookTypeOK
<1>4. /\ t.market.primary \in 0 .. assets - 1 /\ t.market.secondary \in 0 .. assets - 1
      /\ t.market \in [primary : Nat, secondary : Nat]
  <2>1. PICK i \in 1 .. Len(markets) : t.market = markets[i]
    BY <1>2, <1>3, LenProperties DEF ToSet, MarketsListed
  <2>2. markets[i] \in [primary : Nat, secondary : Nat]
    BY <1>3, ElementOfSeq DEF MarketsListed
  <2>3. markets[i].primary < Len(listed) /\ markets[i].secondary < Len(listed)
    BY <1>3 DEF MarketsListed
  <2> QED
    BY <1>3, <2>1, <2>2, <2>3
<1>5. bought \in Amounts /\ paid \in Amounts /\ bought \in Int /\ paid \in Int
  <2>1. {t.volume, - t.volume, t.volume * t.price, (- t.volume) * t.price} \subseteq Amounts
    BY <1>2, AmountAssumption
  <2>2. CASE t.takerSide = "Bid"
    BY <2>1, <2>2, BalanceAssumption
  <2>3. CASE t.takerSide # "Bid"
    BY <2>1, <2>3, BalanceAssumption
  <2> QED
    BY <2>2, <2>3
<1>6. PICK b \in Amounts, d \in Amounts :
        b = bought /\ d = paid /\ b \in Int /\ d \in Int
  BY <1>5
<1> HIDE DEF bought, paid
<1>7. t.maker \in 0 .. accounts - 1 /\ t.taker \in 0 .. accounts - 1
  BY <1>2, <1>3
<1>8. Transfer(t.market.primary, t.market.secondary, t.maker, t.taker, b, d)
  BY <1>1, <1>6
<1>9. BookInv' /\ Table!Trade(t.market.primary, t.market.secondary, t.maker, t.taker, b, d)
  BY <1>4, <1>6, <1>7, <1>8, TransferStep DEF LedgerInv
<1>17. Table!Trade(t.market.primary, t.market.secondary, t.maker, t.taker,
                   Bought(t), Bought(t) * t.price)
  BY <1>0, <1>6, <1>9
<1>10. Table!TableNext
  BY <1>4, <1>6, <1>7, <1>9 DEF Table!TableNext
<1>11. t \in AllTransactions
  <2>1. t \in [market : ToSet(markets), price : Prices, volume : Volumes,
                takerSide : {"Ask", "Bid"}, maker : 0 .. registered - 1,
                taker : 0 .. registered - 1]
    BY DEF Transactions
  <2>2. t.maker \in Nat /\ t.taker \in Nat
    BY <1>3, <1>7
  <2> QED
    BY <1>4, <2>1, <2>2 DEF AllTransactions
<1>12. RingInv(AllTransactions)'
  BY <1>1, <1>11, PushKeepsRing DEF LedgerInv
<1>13. (inner \in Seq(Transactions))'
  <2>1. Transactions' = Transactions
    BY <1>1, TransactionsStutter
  <2>2. inner \in Seq(Transactions)
    BY DEF LedgerInv
  <2>3. Append(inner, t) \in Seq(Transactions)
    BY <2>2
  <2>4. Len(inner) >= RingCapacity => [inner EXCEPT ![WriteSlot + 1] = t] \in Seq(Transactions)
    <3>1. WriteSlot \in 0 .. RingCapacity - 1
      <4>1. writeIdx \in Nat
        BY LenProperties DEF LedgerInv, RingInv
      <4> QED
        BY <4>1, RingAssumption, Quotient DEF WriteSlot
    <3>2. Len(inner) \in Nat
      BY <2>2, LenProperties
    <3>3. Len(inner) >= RingCapacity => WriteSlot + 1 \in 1 .. Len(inner)
      BY <3>1, <3>2, RingAssumption
    <3> QED
      BY <2>2, <3>3, ExceptSeq
  <2>5. Len(inner) \in Nat
    BY <2>2, LenProperties
  <2> QED
    BY <1>1, <2>1, <2>3, <2>4, <2>5, RingAssumption DEF Push
<1>14. Phases'
  BY <1>1, <1>3 DEF LedgerInv, Phases, Transfer
<1>15. ExchangeKnows'
  BY <1>1, <1>3 DEF ExchangeKnows, Transfer
<1>16. MarketsListed'
  BY <1>1, <1>3, MarketsStutter
<1> QED
  BY <1>1, <1>4, <1>7, <1>9, <1>10, <1>12, <1>13, <1>14, <1>15, <1>16, <1>17 DEF LedgerInv

(***************************************************************************)
(* Every step of the ledger keeps the invariant, and is a step of the      *)
(* table or leaves the table alone.                                        *)
(***************************************************************************)
LEMMA LedgerStep ==
  ASSUME LedgerInv, [LedgerNext]_ledgerVars
  PROVE  LedgerInv' /\ (Table!TableNext \/ UNCHANGED Table!tableVars)
<1>1. CASE CreateAccount
  BY <1>1, CreateAccountStep
<1>2. CASE WidenBook
  BY <1>2, WidenBookStep
<1>3. CASE ListAsset
  BY <1>3, ListAssetStep
<1>4. CASE AddMarket
  BY <1>4, AddMarketStep
<1>5. CASE SetupPanics
  BY <1>5, SetupPanicsStep
<1>6. CASE Run
  BY <1>6, RunStep
<1>7. CASE \E t \in Transactions : SettleTrade(t) \/ SettlementPanics(t)
  <2>1. PICK t \in Transactions : SettleTrade(t) \/ SettlementPanics(t)
    BY <1>7
  <2>2. CASE SettleTrade(t)
    BY <2>2, SettleTradeStep
  <2>3. CASE SettlementPanics(t)
    BY <2>3, SettlementPanicsStep
  <2> QED
    BY <2>1, <2>2, <2>3
<1>8. CASE CallBook
  BY <1>8, CallBookStep
<1>9. CASE ReadOrRest \/ UNCHANGED ledgerVars
  BY <1>9, RestStep DEF ReadOrRest
<1> QED
  BY <1>1, <1>2, <1>3, <1>4, <1>5, <1>6, <1>7, <1>8, <1>9 DEF LedgerNext

LEMMA LedgerInvariant == LedgerSpec => []LedgerInv
<1>1. LedgerInit => LedgerInv
  BY LedgerInitInv
<1>2. LedgerInv /\ [LedgerNext]_ledgerVars => LedgerInv'
  BY LedgerStep
<1> QED
  BY <1>1, <1>2, PTL DEF LedgerSpec

(***************************************************************************)
(* What the invariant says.                                                *)
(***************************************************************************)
LEMMA InvTypes == LedgerInv => LedgerTypeOK
<1> SUFFICES ASSUME LedgerInv PROVE LedgerTypeOK
  OBVIOUS
<1>1. BookTypeOK
  BY DEF LedgerInv, BookInv
<1>2. Len(inner) <= RingCapacity /\ writeIdx = Len(pushed)
  <2>1. Len(pushed) \in Nat
    BY LenProperties DEF LedgerInv, RingInv
  <2> QED
    BY <2>1, RingAssumption DEF LedgerInv, RingInv
<1> QED
  BY <1>1, <1>2 DEF LedgerInv, LedgerTypeOK, Phases

LEMMA InvCells == LedgerInv => CellsForEveryone
<1> SUFFICES ASSUME LedgerInv, phase # "alone", ~ widening
             PROVE  accounts = registered /\ assets = Len(listed)
  BY DEF CellsForEveryone
<1>1. ExchangeKnows /\ accounts \in Nat
  BY DEF LedgerInv, BookInv, BookTypeOK
<1> QED
  BY <1>1 DEF ExchangeKnows

LEMMA InvMarkets == LedgerInv => MarketsAsConfigured
<1> SUFFICES ASSUME LedgerInv, phase = "running"
             PROVE  /\ Len(markets) = Len(config.markets)
                    /\ \A i, j \in DOMAIN markets : markets[i] = markets[j] => i = j
                    /\ \A i \in DOMAIN markets :
                         /\ listed[markets[i].primary + 1] = Upper[config.markets[i].primary]
                         /\ listed[markets[i].secondary + 1] = Upper[config.markets[i].secondary]
  BY DEF MarketsAsConfigured
<1>1. MarketsListed /\ Len(markets) = Len(config.markets)
  BY DEF LedgerInv, Phases
<1>2. DOMAIN markets = 1 .. Len(markets)
  BY <1>1, LenProperties DEF MarketsListed
<1> QED
  BY <1>1, <1>2 DEF MarketsListed

(***************************************************************************)
(* The vectors of the book and of the ring have their lengths, and only    *)
(* transactions of markets and accounts that exist are in the ring.        *)
(***************************************************************************)
THEOREM LedgerTypeCorrect == LedgerSpec => []LedgerTypeOK
<1>1. LedgerInv => LedgerTypeOK
  BY InvTypes
<1> QED
  BY <1>1, LedgerInvariant, PTL

(***************************************************************************)
(* Whatever the configuration, the book has a cell for every account and   *)
(* asset of the exchange, which insert_order takes for granted.            *)
(***************************************************************************)
THEOREM CellsForEveryoneHolds == LedgerSpec => []CellsForEveryone
<1>1. LedgerInv => CellsForEveryone
  BY InvCells
<1> QED
  BY <1>1, LedgerInvariant, PTL

(***************************************************************************)
(* The four indices of a settlement are in bounds, and overlap only in a   *)
(* trade with oneself or of one asset, for any number of accounts and      *)
(* assets.                                                                 *)
(***************************************************************************)
THEOREM OverlapHolds == LedgerSpec => []OverlapOnlyIfSame
<1>1. LedgerInv => OverlapOnlyIfSame
  BY OverlapLemma DEF LedgerInv, BookInv
<1> QED
  BY <1>1, LedgerInvariant, PTL

(***************************************************************************)
(* What get_index makes of an account that does not exist.                 *)
(***************************************************************************)
THEOREM ReadsWrapAroundHolds == LedgerSpec => []ReadsWrapAround
<1>1. LedgerInv => ReadsWrapAround
  BY WrapLemma DEF LedgerInv, BookInv
<1> QED
  BY <1>1, LedgerInvariant, PTL

(***************************************************************************)
(* The ring returns the newest transactions in the order of their          *)
(* settlement, for any capacity and however many there were.               *)
(***************************************************************************)
THEOREM RecentInOrderHolds == LedgerSpec => []RecentInOrder
<1>1. LedgerInv => RecentInOrder
  BY RecentLemma DEF LedgerInv
<1> QED
  BY <1>1, LedgerInvariant, PTL

(***************************************************************************)
(* A configuration that starts has its markets, each once and under the    *)
(* symbols it names them by.                                               *)
(***************************************************************************)
THEOREM MarketsAsConfiguredHolds == LedgerSpec => []MarketsAsConfigured
<1>1. LedgerInv => MarketsAsConfigured
  BY InvMarkets
<1> QED
  BY <1>1, LedgerInvariant, PTL

(***************************************************************************)
(* The set-up methods and settlements of the exchange see a table of       *)
(* balances: no balance changes its asset or account while the book grows, *)
(* and a settlement changes the four it should.                            *)
(***************************************************************************)
THEOREM LedgerImplementsTable == LedgerSpec => ImplementsTable
<1>1. LedgerInit => Table!TableInit
  BY BookInitTable DEF LedgerInit
<1>2. LedgerInv /\ [LedgerNext]_ledgerVars => [Table!TableNext]_(Table!tableVars)
  BY LedgerStep
<1> QED
  BY <1>1, <1>2, LedgerInvariant, PTL DEF LedgerSpec, ImplementsTable, Table!TableSpec

(***************************************************************************)
(* The audit.  All balances are zero until the exchange runs; from then on *)
(* each is the sum of what all settled transactions moved to it, and the   *)
(* ring is that list as long as it has dropped none.                       *)
(***************************************************************************)
Moved(asset, account) == SumFunction([i \in DOMAIN pushed |-> MovedTo(pushed[i], asset, account)])

NothingMoved ==
  phase = "setup" => pushed = <<>> /\ \A i \in 1 .. Len(balances) : balances[i] = 0

AllMoved ==
  phase = "running" =>
    \A asset \in 0 .. assets - 1, account \in 0 .. accounts - 1 :
      TableOfVector[<<asset, account>>] = Moved(asset, account)

AuditInv == LedgerInv /\ NothingMoved /\ AllMoved

LEMMA MovedToType ==
  ASSUME NEW t \in AllTransactions, NEW asset, NEW account
  PROVE  MovedTo(t, asset, account) \in Int
<1> DEFINE sign == (IF account = t.taker THEN 1 ELSE 0) - (IF account = t.maker THEN 1 ELSE 0)
<1>1. t.volume \in Int /\ t.price \in Int
  BY AmountAssumption DEF AllTransactions
<1>2. Bought(t) \in Int
  BY <1>1 DEF Bought
<1>3. sign \in Int
  OBVIOUS
<1> HIDE DEF sign
<1>4. sign * Bought(t) \in Int /\ sign * Bought(t) * t.price \in Int
  BY <1>1, <1>2, <1>3
<1>5. MovedTo(t, asset, account) =
        (IF asset = t.market.primary THEN sign * Bought(t) ELSE 0)
          - (IF asset = t.market.secondary THEN sign * Bought(t) * t.price ELSE 0)
  BY DEF MovedTo, Bought, sign
<1> QED
  BY <1>4, <1>5

LEMMA AuditInit == LedgerInit => AuditInv
<1> SUFFICES ASSUME LedgerInit PROVE AuditInv
  OBVIOUS
<1>1. LedgerInv
  BY LedgerInitInv
<1>2. pushed = <<>> /\ balances = <<>> /\ phase \in {"setup", "alone"}
  BY DEF LedgerInit, RingInit, BookInit
<1>3. NothingMoved
  BY <1>2 DEF NothingMoved
<1>4. AllMoved
  BY <1>2 DEF AllMoved
<1> QED
  BY <1>1, <1>3, <1>4 DEF AuditInv

\* The steps of the set-up write zeros only.
LEMMA SetupWritesZeros ==
  ASSUME AuditInv, phase = "setup", AddAsset \/ InsertCell
  PROVE  \A i \in 1 .. Len(balances') : balances'[i] = 0
<1>1. /\ BookTypeOK /\ \A i \in 1 .. Len(balances) : balances[i] = 0
      /\ accounts \in Nat /\ balances \in Seq(Int) /\ Len(balances) \in Nat
  BY LenProperties DEF AuditInv, NothingMoved, LedgerInv, BookInv, BookTypeOK
<1>2. CASE AddAsset
  <2>1. balances' = balances \o Zeros(accounts)
    BY <1>2 DEF AddAsset
  <2>2. /\ Zeros(accounts) \in Seq(Int) /\ Len(Zeros(accounts)) = accounts
        /\ \A i \in 1 .. accounts : Zeros(accounts)[i] = 0
    BY <1>1, ZerosProperties
  <2>3. /\ Len(balances') = Len(balances) + accounts
        /\ \A i \in 1 .. Len(balances) + accounts :
             balances'[i] = IF i <= Len(balances) THEN balances[i]
                            ELSE Zeros(accounts)[i - Len(balances)]
    BY <1>1, <2>1, <2>2, ConcatProperties
  <2> QED
    BY <1>1, <2>2, <2>3
<1>3. CASE InsertCell
  <2> DEFINE place == (widened + 1) * accounts + widened + 1
  <2>1. widened < assets /\ balances' = InsertAt(balances, place, 0)
    BY <1>3 DEF InsertCell
  <2>2. place \in 1 .. Len(balances) + 1
    BY <1>1, <2>1, InsertionPoint
  <2> HIDE DEF place
  <2>3. /\ Len(balances') = Len(balances) + 1
        /\ \A i \in 1 .. Len(balances) + 1 :
             balances'[i] = IF i < place THEN balances[i]
                            ELSE IF i = place THEN 0 ELSE balances[i - 1]
    <3>1. /\ 0 \in Int
          /\ Len(InsertAt(balances, place, 0)) = Len(balances) + 1
          /\ \A i \in 1 .. Len(balances) + 1 :
               InsertAt(balances, place, 0)[i] =
                 IF i < place THEN balances[i]
                 ELSE IF i = place THEN 0 ELSE balances[i - 1]
      BY <1>1, <2>2, InsertAtProperties
    <3> QED
      BY <2>1, <3>1
  <2> QED
    BY <1>1, <2>2, <2>3, SMTT(40)
<1> QED
  BY <1>2, <1>3

\* When the exchange starts, nothing was settled and every balance is zero.
LEMMA RunAudited ==
  ASSUME AuditInv, Run
  PROVE  NothingMoved' /\ AllMoved'
<1>1. /\ phase = "setup" /\ phase' = "running"
      /\ UNCHANGED <<accounts, assets, balances, widened, pushed>>
  BY DEF Run, bookVars, ringVars
<1>2. NothingMoved'
  BY <1>1 DEF NothingMoved
<1>3. ASSUME NEW asset \in 0 .. assets - 1, NEW account \in 0 .. accounts - 1
      PROVE  TableOfVector'[<<asset, account>>] = Moved(asset, account)'
  <2>1. BookTypeOK /\ pushed = <<>> /\ \A i \in 1 .. Len(balances) : balances[i] = 0
    BY <1>1 DEF AuditInv, NothingMoved, LedgerInv, BookInv
  <2>2. TableOfVector[<<asset, account>>] = 0
    BY <2>1, TableAt, PositionInRange
  <2>3. TableOfVector' = TableOfVector
    BY <1>1 DEF TableOfVector, CurrentPosition, Position, GetIndex
  <2>4. pushed' = <<>>
    BY <1>1, <2>1
  <2>5. Moved(asset, account)' = 0
    BY <2>4, SumOfEmpty DEF Moved
  <2> QED
    BY <2>2, <2>3, <2>5
<1> QED
  BY <1>1, <1>2, <1>3 DEF AllMoved

\* A settlement moves the same to a balance as the audit counts for it.
LEMMA TradeMoves ==
  ASSUME NEW t \in AllTransactions, NEW asset \in 0 .. assets - 1,
         NEW account \in 0 .. accounts - 1, TableOfVector[<<asset, account>>] \in Int,
         t.market.primary \in 0 .. assets - 1, t.market.secondary \in 0 .. assets - 1,
         t.maker \in 0 .. accounts - 1, t.taker \in 0 .. accounts - 1,
         Table!Trade(t.market.primary, t.market.secondary, t.maker, t.taker,
                     Bought(t), Bought(t) * t.price)
  PROVE  TableOfVector'[<<asset, account>>]
           = TableOfVector[<<asset, account>>] + MovedTo(t, asset, account)
<1> DEFINE paid == Bought(t) * t.price
           p == t.market.primary
           s == t.market.secondary
           sign == (IF account = t.taker THEN 1 ELSE 0) - (IF account = t.maker THEN 1 ELSE 0)
           old == TableOfVector[<<asset, account>>]
           new == TableOfVector'[<<asset, account>>]
<1>1. Bought(t) \in Int /\ t.price \in Int /\ paid \in Int
  <2>1. t.volume \in Int /\ t.price \in Int
    BY AmountAssumption DEF AllTransactions
  <2>2. Bought(t) \in Int
    BY <2>1 DEF Bought
  <2> QED
    BY <2>1, <2>2
<1>2. /\ p # s /\ t.maker # t.taker
      /\ TableOfVector' = [TableOfVector EXCEPT ![<<p, t.taker>>] = @ + Bought(t),
                                                ![<<p, t.maker>>] = @ - Bought(t),
                                                ![<<s, t.taker>>] = @ - paid,
                                                ![<<s, t.maker>>] = @ + paid]
  BY DEF Table!Trade
<1>3. <<asset, account>> \in DOMAIN TableOfVector
  BY DEF TableOfVector
<1>4. MovedTo(t, asset, account) =
        (IF asset = p THEN sign * Bought(t) ELSE 0)
          - (IF asset = s THEN sign * Bought(t) * t.price ELSE 0)
  BY DEF MovedTo, Bought
<1>5. new = IF asset = p /\ account = t.taker THEN old + Bought(t)
            ELSE IF asset = p /\ account = t.maker THEN old - Bought(t)
            ELSE IF asset = s /\ account = t.taker THEN old - paid
            ELSE IF asset = s /\ account = t.maker THEN old + paid
            ELSE old
  <2> HIDE DEF paid, p, s
  <2> QED
    BY <1>2, <1>3
<1>6. MovedTo(t, asset, account) =
            IF asset = p /\ account = t.taker THEN Bought(t)
            ELSE IF asset = p /\ account = t.maker THEN - Bought(t)
            ELSE IF asset = s /\ account = t.taker THEN - paid
            ELSE IF asset = s /\ account = t.maker THEN paid
            ELSE 0
  <2>1. CASE account = t.taker
    <3>1. sign = 1
      BY <1>2, <2>1
    <3>2. sign * Bought(t) = Bought(t) /\ sign * Bought(t) * t.price = paid
      BY <1>1, <3>1
    <3> HIDE DEF sign, p, s, paid
    <3> QED
      BY <1>1, <1>2, <1>4, <2>1, <3>2
  <2>2. CASE account = t.maker
    <3>1. sign = -1
      BY <1>2, <2>2
    <3>2. sign * Bought(t) = - Bought(t) /\ sign * Bought(t) * t.price = - paid
      BY <1>1, <3>1
    <3> HIDE DEF sign, p, s, paid
    <3> QED
      BY <1>1, <1>2, <1>4, <2>2, <3>2
  <2>3. CASE account # t.taker /\ account # t.maker
    <3>1. sign = 0
      BY <2>3
    <3>2. sign * Bought(t) = 0 /\ sign * Bought(t) * t.price = 0
      BY <1>1, <3>1
    <3> HIDE DEF sign, p, s, paid
    <3> QED
      BY <1>1, <1>2, <1>4, <2>3, <3>2
  <2> QED
    BY <2>1, <2>2, <2>3
<1> HIDE DEF paid, p, s, old, new
<1>7. new = old + MovedTo(t, asset, account)
  BY <1>1, <1>5, <1>6 DEF old
<1> QED
  BY <1>7 DEF old, new

LEMMA SettleAudited ==
  ASSUME AuditInv, NEW t \in Transactions, SettleTrade(t)
  PROVE  NothingMoved' /\ AllMoved'
<1>1. /\ phase = "running" /\ phase' = "running"
      /\ pushed' = Append(pushed, t)
      /\ UNCHANGED <<accounts, assets>>
  BY DEF SettleTrade, Push, Transfer
<1>2. NothingMoved'
  BY <1>1 DEF NothingMoved
<1>3. LedgerInv /\ LedgerInv'
  BY SettleTradeStep DEF AuditInv
<1>4. /\ pushed \in Seq(AllTransactions) /\ pushed' \in Seq(AllTransactions)
  BY <1>3 DEF LedgerInv, RingInv
<1> DEFINE n == Len(pushed)
<1>5. /\ n \in Nat
      /\ DOMAIN pushed = 1 .. n
      /\ DOMAIN pushed' = 1 .. n + 1
      /\ \A i \in 1 .. n : pushed'[i] = pushed[i]
      /\ pushed'[n + 1] = t
      /\ \A i \in 1 .. n + 1 : pushed'[i] \in AllTransactions
  <2>1. n \in Nat /\ DOMAIN pushed = 1 .. n
    BY <1>4, LenProperties
  <2>2. Len(pushed') = n + 1
    BY <1>1, <1>4
  <2>3. DOMAIN pushed' = 1 .. n + 1 /\ \A i \in 1 .. n + 1 : pushed'[i] \in AllTransactions
    BY <1>4, <2>2, LenProperties, ElementOfSeq
  <2> QED
    BY <1>1, <1>4, <2>1, <2>3
<1>6. t \in AllTransactions
  BY <1>5
<1>7. ASSUME NEW asset \in 0 .. assets - 1, NEW account \in 0 .. accounts - 1
      PROVE  TableOfVector'[<<asset, account>>] = Moved(asset, account)'
  <2> DEFINE f == [i \in 1 .. n |-> MovedTo(pushed[i], asset, account)]
             h == [i \in 1 .. n + 1 |-> MovedTo(pushed'[i], asset, account)]
  <2>1. Moved(asset, account) = SumFunction(f)
    BY <1>5 DEF Moved
  <2>2. Moved(asset, account)' = SumFunction(h)
    BY <1>5 DEF Moved, MovedTo
  <2>3. /\ DOMAIN f = 1 .. n /\ DOMAIN h = 1 .. n + 1
        /\ \A i \in 1 .. n : h[i] = f[i]
        /\ \A i \in 1 .. n + 1 : h[i] \in Int
        /\ h[n + 1] = MovedTo(t, asset, account)
    BY <1>5, MovedToType
  <2> HIDE DEF f, h, n
  <2>4. SumFunction(f) \in Int /\ SumFunction(h) = SumFunction(f) + h[n + 1]
    BY <1>5, <2>3, SumOfAppended
  <2>5. TableOfVector[<<asset, account>>] = Moved(asset, account)
    BY <1>1 DEF AuditInv, AllMoved
  <2>6. TableOfVector'[<<asset, account>>]
          = TableOfVector[<<asset, account>>] + MovedTo(t, asset, account)
    BY <1>3, <1>6, <2>1, <2>4, <2>5, SettleTradeStep, TradeMoves
  <2> QED
    BY <2>1, <2>2, <2>3, <2>4, <2>5, <2>6
<1> QED
  BY <1>1, <1>2, <1>7 DEF AllMoved

LEMMA AuditStep ==
  ASSUME AuditInv, [LedgerNext]_ledgerVars
  PROVE  AuditInv'
<1>0. LedgerInv'
  BY LedgerStep DEF AuditInv
<1>1. ASSUME NothingMoved', AllMoved' PROVE AuditInv'
  BY <1>0, <1>1 DEF AuditInv
<1>2. ASSUME phase' = "setup", pushed' = pushed, phase = "setup",
             \A i \in 1 .. Len(balances') : balances'[i] = 0
      PROVE  AuditInv'
  <2>1. NothingMoved' /\ AllMoved'
    BY <1>2 DEF AuditInv, NothingMoved, AllMoved
  <2> QED
    BY <1>1, <2>1
<1>3. ASSUME phase' \in {"panicked", "alone"} PROVE AuditInv'
  BY <1>1, <1>3 DEF NothingMoved, AllMoved
<1>4. CASE CreateAccount
  <2>1. /\ phase' = "setup" /\ phase = "setup" /\ pushed' = pushed /\ balances' = balances
    BY <1>4 DEF CreateAccount, BeginAddAccount, ringVars
  <2> QED
    BY <1>2, <2>1 DEF AuditInv, NothingMoved
<1>5. CASE WidenBook
  <2>1. phase' = "setup" /\ phase = "setup" /\ pushed' = pushed
    BY <1>5 DEF WidenBook, ringVars
  <2>2. CASE InsertCell
    BY <1>2, <2>1, <2>2, SetupWritesZeros
  <2>3. CASE FinishAddAccount
    <3>1. balances' = balances
      BY <2>3 DEF FinishAddAccount
    <3> QED
      BY <1>2, <2>1, <3>1 DEF AuditInv, NothingMoved
  <2> QED
    BY <1>5, <2>2, <2>3 DEF WidenBook
<1>6. CASE ListAsset
  <2>1. phase' = "setup" /\ phase = "setup" /\ pushed' = pushed /\ AddAsset
    BY <1>6 DEF ListAsset, ringVars
  <2> QED
    BY <1>2, <2>1, SetupWritesZeros
<1>7. CASE AddMarket
  <2>1. /\ phase' = "setup" /\ phase = "setup" /\ pushed' = pushed /\ balances' = balances
    BY <1>7 DEF AddMarket, ReadyForMarket, ringVars, bookVars
  <2> QED
    BY <1>2, <2>1 DEF AuditInv, NothingMoved
<1>8. CASE SetupPanics
  BY <1>3, <1>8 DEF SetupPanics
<1>9. CASE Run
  BY <1>1, <1>9, RunAudited
<1>10. CASE \E t \in Transactions : SettleTrade(t) \/ SettlementPanics(t)
  <2>1. PICK t \in Transactions : SettleTrade(t) \/ SettlementPanics(t)
    BY <1>10
  <2>2. CASE SettleTrade(t)
    BY <1>1, <2>2, SettleAudited
  <2>3. CASE SettlementPanics(t)
    BY <1>3, <2>3 DEF SettlementPanics
  <2> QED
    BY <2>1, <2>2, <2>3
<1>11. CASE CallBook
  BY <1>3, <1>11 DEF CallBook
<1>12. CASE ReadOrRest \/ UNCHANGED ledgerVars
  <2>1. UNCHANGED <<phase, pushed, accounts, assets, balances, widened>>
    BY <1>12 DEF ReadOrRest, ledgerVars, bookVars, ringVars
  <2>2. TableOfVector' = TableOfVector
    BY <2>1 DEF TableOfVector, CurrentPosition, Position, GetIndex
  <2>3. \A asset, account : Moved(asset, account)' = Moved(asset, account)
    BY <2>1 DEF Moved, MovedTo
  <2> QED
    BY <1>1, <2>1, <2>2, <2>3 DEF AuditInv, NothingMoved, AllMoved
<1> QED
  BY <1>4, <1>5, <1>6, <1>7, <1>8, <1>9, <1>10, <1>11, <1>12 DEF LedgerNext

(***************************************************************************)
(* As long as the ring has dropped no transaction, GetBalance is the sum   *)
(* of what GetLast100Transactions lists: no settlement is lost, counted    *)
(* twice, or written to another account's or asset's balance.              *)
(***************************************************************************)
THEOREM BalancesAuditableHolds == LedgerSpec => []BalancesAuditable
<1>1. AuditInv => BalancesAuditable
  <2> SUFFICES ASSUME AuditInv, phase = "running", Len(pushed) <= RingCapacity,
                      NEW asset \in 0 .. assets - 1, NEW account \in 0 .. accounts - 1
               PROVE  Get(account, asset) =
                        SumFunction([i \in DOMAIN GetRecent |->
                                       MovedTo(GetRecent[i], asset, account)])
    BY DEF BalancesAuditable
  <2>1. BookTypeOK /\ ~ widening
    BY DEF AuditInv, LedgerInv, BookInv, Phases
  <2>2. Get(account, asset) = TableOfVector[<<asset, account>>]
    BY <2>1, TableAt, SettledPosition, PositionInDomain DEF Get
  <2>3. GetRecent = pushed
    <3>1. RecentInOrder
      BY RecentLemma DEF AuditInv, LedgerInv
    <3> QED
      BY <3>1 DEF RecentInOrder, Newest
  <2> QED
    BY <2>2, <2>3 DEF AuditInv, AllMoved, Moved
<1> QED
  BY <1>1, AuditInit, AuditStep, PTL DEF LedgerSpec
=============================================================================
