-------------------------- MODULE OrderbookProofs --------------------------
(***************************************************************************)
(* Safety of Orderbook for every set of pairs, accounts, prices and        *)
(* requests, every volume width and every number of orders.                *)
(***************************************************************************)
EXTENDS Orderbook, SumProofs, TLAPS, FiniteSetTheorems, SequenceTheorems

Queue == Seq(OrderbookEntry)

LEMMA VolumesAreNaturals == \A v \in Volume : v \in Nat
  BY OrderbookAssumption DEF Volume

(***************************************************************************)
(* A queue c is thinned from b when its orders are some of those of b, in  *)
(* the order of b.  Fills, cancellations and modifications thin queues.    *)
(***************************************************************************)
SameOrder(d, e) == d.id = e.id /\ d.account = e.account

Embeds(c, b) ==
  \E f \in [1 .. Len(c) -> 1 .. Len(b)] :
    /\ \A i, j \in 1 .. Len(c) : i < j => f[i] < f[j]
    /\ \A i \in 1 .. Len(c) : SameOrder(c[i], b[f[i]])

Thins(c, b) ==
  /\ DOMAIN c \subseteq DOMAIN b
  /\ \A s \in DOMAIN c : Embeds(c[s], b[s])

\* A queue is thinned from itself and from one with the same orders.
LEMMA SameOrdersEmbed ==
  ASSUME NEW b \in Queue, NEW c \in Queue, Len(c) = Len(b),
         \A i \in 1 .. Len(b) : SameOrder(c[i], b[i])
  PROVE  Embeds(c, b)
<1> DEFINE f == [i \in 1 .. Len(c) |-> i]
<1>1. Len(b) \in Nat
  BY LenProperties DEF Queue
<1>2. f \in [1 .. Len(c) -> 1 .. Len(b)]
  OBVIOUS
<1>3. /\ \A i, j \in 1 .. Len(c) : i < j => f[i] < f[j]
      /\ \A i \in 1 .. Len(c) : SameOrder(c[i], b[f[i]])
  BY <1>1
<1> QED
  BY <1>2, <1>3 DEF Embeds

\* Taking volume from the oldest order keeps the ids of the queue.
LEMMA DecrementThins ==
  ASSUME NEW q \in Queue, q # <<>>, NEW v \in Nat, v <= q[1].volume
  PROVE  Decrement(q, v) \in Queue /\ Embeds(Decrement(q, v), q)
<1> DEFINE e == [q[1] EXCEPT !.volume = @ - v]
<1>1. Len(q) \in Nat \ {0} /\ 1 \in 1 .. Len(q)
  BY EmptySeq DEF Queue
<1>2. q[1] \in OrderbookEntry
  BY <1>1, ElementOfSeq DEF Queue
<1>3. e \in OrderbookEntry /\ SameOrder(e, q[1])
  <2>1. q[1].volume - v \in Volume
    BY <1>2, OrderbookAssumption DEF OrderbookEntry, Volume
  <2> QED
    BY <1>2, <2>1 DEF OrderbookEntry, SameOrder
<1>4. Decrement(q, v) = [q EXCEPT ![1] = e]
  BY DEF Decrement
<1>5. /\ [q EXCEPT ![1] = e] \in Seq(OrderbookEntry)
      /\ Len([q EXCEPT ![1] = e]) = Len(q)
      /\ \A j \in 1 .. Len(q) : [q EXCEPT ![1] = e][j] = IF j = 1 THEN e ELSE q[j]
  BY <1>1, <1>3, ExceptSeq DEF Queue
<1>6. \A j \in 1 .. Len(q) : SameOrder(Decrement(q, v)[j], q[j])
  BY <1>3, <1>4, <1>5 DEF SameOrder
<1> QED
  BY <1>4, <1>5, <1>6, SameOrdersEmbed DEF Queue

\* So does reducing the volume of any order.
LEMMA ReduceThins ==
  ASSUME NEW q \in Queue, NEW i \in 1 .. Len(q), NEW r \in Nat,
         r <= q[i].volume
  PROVE  LET c == [q EXCEPT ![i].volume = @ - r] IN c \in Queue /\ Embeds(c, q)
<1> DEFINE e == [q[i] EXCEPT !.volume = @ - r]
           c == [q EXCEPT ![i] = e]
<1>1. q[i] \in OrderbookEntry
  BY ElementOfSeq DEF Queue
<1>2. e \in OrderbookEntry /\ SameOrder(e, q[i])
  <2>1. q[i].volume - r \in Volume
    BY <1>1, OrderbookAssumption DEF OrderbookEntry, Volume
  <2> QED
    BY <1>1, <2>1 DEF OrderbookEntry, SameOrder
<1>3. /\ c \in Seq(OrderbookEntry)
      /\ Len(c) = Len(q)
      /\ \A j \in 1 .. Len(q) : c[j] = IF j = i THEN e ELSE q[j]
  BY <1>2, ExceptSeq DEF Queue
<1>4. \A j \in 1 .. Len(q) : SameOrder(c[j], q[j])
  BY <1>2, <1>3 DEF SameOrder
<1>5. c \in Queue /\ Embeds(c, q)
  BY <1>3, <1>4, SameOrdersEmbed DEF Queue
<1> QED
  BY <1>5

\* Removing one order thins its queue, and leaves only the others.
LEMMA RemoveAtThins ==
  ASSUME NEW q \in Queue, NEW i \in 1 .. Len(q)
  PROVE  /\ RemoveAt(q, i) \in Queue /\ Embeds(RemoveAt(q, i), q)
         /\ \A j \in 1 .. Len(RemoveAt(q, i)) :
              \E k \in 1 .. Len(q) \ {i} : RemoveAt(q, i)[j] = q[k]
<1> DEFINE a == SubSeq(q, 1, i - 1)
           b == SubSeq(q, i + 1, Len(q))
           f == [j \in 1 .. Len(q) - 1 |-> IF j < i THEN j ELSE j + 1]
<1>1. Len(q) \in Nat /\ \A j \in 1 .. Len(q) : q[j] \in OrderbookEntry
  BY LenProperties, ElementOfSeq DEF Queue
<1>2. /\ a \in Queue
      /\ Len(a) = i - 1
      /\ \A j \in 1 .. i - 1 : a[j] = q[j]
  <2>1. \A j \in 1 .. i - 1 : q[j] \in OrderbookEntry
    BY <1>1
  <2> QED
    BY <1>1, <2>1, SubSeqProperties DEF Queue
<1>3. /\ b \in Queue
      /\ Len(b) = Len(q) - i
      /\ \A j \in 1 .. Len(q) - i : b[j] = q[i + j]
  <2>1. \A j \in i + 1 .. Len(q) : q[j] \in OrderbookEntry
    BY <1>1
  <2> QED
    BY <1>1, <2>1, SubSeqProperties DEF Queue
<1>4. RemoveAt(q, i) = a \o b
  BY DEF RemoveAt
<1> HIDE DEF a, b
<1>5. /\ a \o b \in Queue
      /\ Len(a \o b) = Len(q) - 1
      /\ \A j \in 1 .. Len(q) - 1 :
           (a \o b)[j] = IF j <= i - 1 THEN a[j] ELSE b[j - (i - 1)]
  <2>1. /\ a \o b \in Queue
        /\ Len(a \o b) = Len(a) + Len(b)
        /\ \A j \in 1 .. Len(a) + Len(b) :
             (a \o b)[j] = IF j <= Len(a) THEN a[j] ELSE b[j - Len(a)]
    BY <1>2, <1>3, ConcatProperties DEF Queue
  <2>2. Len(a) + Len(b) = Len(q) - 1
    BY <1>1, <1>2, <1>3
  <2> QED
    BY <1>2, <2>1, <2>2
<1>6. ASSUME NEW j \in 1 .. Len(q) - 1 PROVE (a \o b)[j] = q[f[j]]
  <2>1. CASE j < i
    BY <1>1, <1>2, <1>5, <2>1
  <2>2. CASE ~ (j < i)
    <3>1. j - (i - 1) \in 1 .. Len(q) - i /\ i + (j - (i - 1)) = j + 1
      BY <1>1, <2>2
    <3>2. (a \o b)[j] = b[j - (i - 1)]
      BY <1>1, <1>5, <2>2
    <3>3. b[j - (i - 1)] = q[i + (j - (i - 1))]
      BY <1>3, <3>1
    <3>4. f[j] = j + 1
      BY <2>2
    <3> QED
      BY <3>1, <3>2, <3>3, <3>4
  <2> QED
    BY <2>1, <2>2
<1>7. /\ f \in [1 .. Len(a \o b) -> 1 .. Len(q)]
      /\ \A j, k \in 1 .. Len(a \o b) : j < k => f[j] < f[k]
  BY <1>1, <1>5
<1>8. Embeds(a \o b, q)
  BY <1>5, <1>6, <1>7 DEF Embeds, SameOrder
<1>9. ASSUME NEW j \in 1 .. Len(a \o b)
      PROVE  \E k \in 1 .. Len(q) \ {i} : (a \o b)[j] = q[k]
  <2>1. j \in 1 .. Len(q) - 1
    BY <1>5, <1>9
  <2>2. f[j] \in 1 .. Len(q) \ {i}
    BY <1>1, <2>1
  <2> QED
    BY <1>6, <2>1, <2>2
<1> QED
  BY <1>4, <1>5, <1>8, <1>9

\* Popping the oldest order thins its queue.
LEMMA TailThins ==
  ASSUME NEW q \in Queue, q # <<>>
  PROVE  Tail(q) \in Queue /\ Embeds(Tail(q), q)
<1> DEFINE f == [j \in 1 .. Len(q) - 1 |-> j + 1]
<1>1. Len(q) \in Nat \ {0}
  BY EmptySeq DEF Queue
<1>2. /\ Tail(q) \in Seq(OrderbookEntry)
      /\ Len(Tail(q)) = Len(q) - 1
      /\ \A j \in 1 .. Len(Tail(q)) : Tail(q)[j] = q[j + 1]
  BY HeadTailProperties DEF Queue
<1>3. /\ f \in [1 .. Len(Tail(q)) -> 1 .. Len(q)]
      /\ \A j, k \in 1 .. Len(Tail(q)) : j < k => f[j] < f[k]
      /\ \A j \in 1 .. Len(Tail(q)) : SameOrder(Tail(q)[j], q[f[j]])
  BY <1>1, <1>2 DEF SameOrder
<1> QED
  BY <1>2, <1>3 DEF Embeds, Queue

(***************************************************************************)
(* The levels that rank among the first Cardinality(V) of P are V, when V  *)
(* is what the iterator meets first.                                       *)
(***************************************************************************)
LEMMA PrefixByRank ==
  ASSUME NEW P, P \subseteq Int, IsFiniteSet(P), NEW V \in SUBSET P,
         NEW side \in Side,
         \A p \in V, q \in P \ V : Before(side, p, q)
  PROVE  \A p \in P : Rank(P, side, p) <= Cardinality(V) <=> p \in V
<1> DEFINE UpTo(p) == {q \in P : q = p \/ Before(side, q, p)}
<1>1. IsFiniteSet(V) /\ Cardinality(V) \in Nat
  BY FS_Subset, FS_CardinalityType
<1>2. ASSUME NEW p \in V PROVE Cardinality(UpTo(p)) <= Cardinality(V)
  <2>1. ASSUME NEW q \in UpTo(p), q \notin V PROVE FALSE
    <3>1. q \in P \ V /\ Before(side, p, q) /\ p \in Int /\ q \in Int
      BY <2>1
    <3>2. q = p \/ Before(side, q, p)
      OBVIOUS
    <3> QED
      BY <3>1, <3>2 DEF Before
  <2>2. UpTo(p) \in SUBSET V
    BY <2>1
  <2> QED
    BY <1>1, <2>2, FS_Subset
<1>3. ASSUME NEW p \in P \ V PROVE ~ (Cardinality(UpTo(p)) <= Cardinality(V))
  <2>1. V \cup {p} \in SUBSET UpTo(p)
    OBVIOUS
  <2>2. IsFiniteSet(UpTo(p)) /\ Cardinality(UpTo(p)) \in Nat
    <3>1. UpTo(p) \in SUBSET P
      OBVIOUS
    <3> QED
      BY <3>1, FS_Subset, FS_CardinalityType
  <2>3. Cardinality(V \cup {p}) = Cardinality(V) + 1
    BY <1>1, FS_AddElement
  <2>4. Cardinality(V \cup {p}) <= Cardinality(UpTo(p))
    BY <2>1, <2>2, FS_Subset
  <2> QED
    BY <1>1, <2>2, <2>3, <2>4
<1> QED
  BY <1>2, <1>3 DEF Rank

(***************************************************************************)
(* The changes to a book.                                                  *)
(***************************************************************************)
IsBook(b) == DOMAIN b \subseteq Slots /\ b \in [DOMAIN b -> Queue]

\* A book is thinned when one of its queues is.
LEMMA UpdateThins ==
  ASSUME IsBook(book), NEW s \in DOMAIN book, NEW c \in Queue, Embeds(c, book[s])
  PROVE  LET b == [book EXCEPT ![s] = c] IN IsBook(b) /\ Thins(b, book)
<1> DEFINE b == [book EXCEPT ![s] = c]
<1>1. IsBook(b)
  BY DEF IsBook
<1>2. ASSUME NEW t \in DOMAIN b PROVE Embeds(b[t], book[t])
  <2>1. CASE t = s
    BY <2>1
  <2>2. CASE t # s
    <3>1. b[t] = book[t] /\ book[t] \in Queue
      BY <1>2, <2>2 DEF IsBook
    <3> QED
      BY <3>1, SameOrdersEmbed DEF SameOrder
  <2> QED
    BY <2>1, <2>2
<1>3. DOMAIN b \subseteq DOMAIN book
  OBVIOUS
<1> QED
  BY <1>1, <1>2, <1>3 DEF Thins

\* A book is thinned when it loses levels.
LEMMA DropLevelsThins ==
  ASSUME IsBook(book), NEW D
  PROVE  LET b == [t \in DOMAIN book \ D |-> book[t]] IN IsBook(b) /\ Thins(b, book)
<1> DEFINE b == [t \in DOMAIN book \ D |-> book[t]]
<1>1. IsBook(b)
  BY DEF IsBook
<1>2. ASSUME NEW t \in DOMAIN b PROVE Embeds(b[t], book[t])
  <2>1. b[t] = book[t] /\ book[t] \in Queue
    BY <1>2 DEF IsBook
  <2> QED
    BY <2>1, SameOrdersEmbed DEF SameOrder
<1> QED
  BY <1>1, <1>2 DEF Thins

\* RemoveEntry thins the book.
LEMMA RemoveEntryThins ==
  ASSUME IsBook(book), NEW s \in DOMAIN book, NEW i \in 1 .. Len(book[s])
  PROVE  IsBook(RemoveEntry(s, i)) /\ Thins(RemoveEntry(s, i), book)
<1>1. CASE Len(book[s]) = 1
  BY <1>1, DropLevelsThins DEF RemoveEntry
<1>2. CASE Len(book[s]) # 1
  <2>1. book[s] \in Queue
    BY DEF IsBook
  <2>2. RemoveAt(book[s], i) \in Queue /\ Embeds(RemoveAt(book[s], i), book[s])
    BY <2>1, RemoveAtThins
  <2>3. RemoveEntry(s, i) = [book EXCEPT ![s] = RemoveAt(book[s], i)]
    BY <1>2 DEF RemoveEntry
  <2> QED
    BY <2>2, <2>3, UpdateThins
<1> QED
  BY <1>1, <1>2

LevelLength(b, s) == IF s \in DOMAIN b THEN Len(b[s]) ELSE 0

\* Resting an order adds it behind the orders of its level.
LEMMA RestAppends ==
  ASSUME NEW b, IsBook(b), NEW s \in Slots, NEW entry \in OrderbookEntry
  PROVE  /\ IsBook(Rest(b, s, entry))
         /\ DOMAIN Rest(b, s, entry) = DOMAIN b \cup {s}
         /\ \A t \in DOMAIN b \ {s} : Rest(b, s, entry)[t] = b[t]
         /\ LevelLength(b, s) \in Nat
         /\ Len(Rest(b, s, entry)[s]) = LevelLength(b, s) + 1
         /\ Rest(b, s, entry)[s][LevelLength(b, s) + 1] = entry
         /\ \A i \in 1 .. LevelLength(b, s) : Rest(b, s, entry)[s][i] = b[s][i]
<1> DEFINE c == Rest(b, s, entry)
           n == LevelLength(b, s)
<1> USE DEF LevelLength
<1>1. /\ DOMAIN c = DOMAIN b \cup {s}
      /\ \A t \in DOMAIN b \ {s} : c[t] = b[t]
      /\ c[s] = IF s \in DOMAIN b THEN Append(b[s], entry) ELSE <<entry>>
      /\ c = [t \in DOMAIN b \cup {s} |-> c[t]]
  BY DEF Rest
<1>2. /\ c[s] \in Queue
      /\ n \in Nat
      /\ Len(c[s]) = n + 1
      /\ c[s][n + 1] = entry
      /\ \A i \in 1 .. n : c[s][i] = b[s][i]
  <2>1. CASE s \in DOMAIN b
    <3>1. b[s] \in Seq(OrderbookEntry)
      BY <2>1 DEF IsBook, Queue
    <3> HIDE DEF c
    <3>2. Len(b[s]) \in Nat
      BY <3>1, LenProperties
    <3> QED
      BY <1>1, <2>1, <3>1, <3>2, AppendProperties DEF Queue
  <2>2. CASE s \notin DOMAIN b
    <3> HIDE DEF c
    <3>1. c[s] = <<entry>> /\ n = 0
      BY <1>1, <2>2
    <3> QED
      BY <3>1 DEF Queue
  <2> QED
    BY <2>1, <2>2
<1>3. IsBook(c)
  <2>1. \A t \in DOMAIN c : c[t] \in Queue
    BY <1>1, <1>2 DEF IsBook
  <2> HIDE DEF c
  <2> QED
    BY <1>1, <2>1 DEF IsBook
<1> QED
  BY <1>1, <1>2, <1>3

(***************************************************************************)
(* Type correctness.                                                       *)
(***************************************************************************)
LEMMA TakerType ==
  ASSUME TypeOK, step # "idle"
  PROVE  /\ taker \in OrderInsertionRequest
         /\ taker.account \in AccountIds
         /\ taker.pair \in Pairs
         /\ taker.side \in Side
         /\ Other(taker.side) \in Side
         /\ taker.volume \in Volume
         /\ taker.price \in Prices
  BY OrderbookAssumption DEF TypeOK, OrderInsertionRequest, Side, Other

LEMMA BookType == TypeOK => IsBook(book)
  BY DEF TypeOK, IsBook, Queue

\* The oldest order of a level that is not empty, and what a match takes.
LEMMA MakerType ==
  ASSUME TypeOK, NEW s \in DOMAIN book, book[s] # <<>>
  PROVE  /\ book[s] \in Queue
         /\ Len(book[s]) \in Nat \ {0}
         /\ book[s][1] \in OrderbookEntry
         /\ Lesser(remaining, book[s][1].volume) \in Volume
         /\ Lesser(remaining, book[s][1].volume) <= remaining
         /\ Lesser(remaining, book[s][1].volume) <= book[s][1].volume
<1>1. book[s] \in Queue
  BY DEF TypeOK, Queue
<1>2. Len(book[s]) \in Nat \ {0} /\ 1 \in 1 .. Len(book[s])
  BY <1>1, EmptySeq DEF Queue
<1>3. book[s][1] \in OrderbookEntry
  BY <1>1, <1>2, ElementOfSeq DEF Queue
<1>4. book[s][1].volume \in Volume /\ remaining \in Volume
  BY <1>3 DEF OrderbookEntry, TypeOK
<1> QED
  BY <1>1, <1>2, <1>3, <1>4, OrderbookAssumption DEF Lesser, Volume

\* Next level's slot.
LEMMA NextLevelSlot ==
  ASSUME TypeOK, NEW p \in Prices, IsNext(p)
  PROVE  /\ Opposing(p) \in DOMAIN book
         /\ p \in OpposingPrices \ visited
         /\ WithinLimit(taker, p)
  BY DEF IsNext, Ahead, OpposingPrices, LevelPrices, Opposing

\* A match thins the book.
LEMMA FillThins ==
  ASSUME TypeOK, NEW p \in Prices, Fill(p)
  PROVE  IsBook(book') /\ Thins(book', book) /\ remaining' \in Volume
<1> DEFINE s == Opposing(p)
           v == Lesser(remaining, book[s][1].volume)
           left == IF v = book[s][1].volume THEN Tail(book[s]) ELSE Decrement(book[s], v)
<1>1. s \in DOMAIN book /\ book[s] # <<>>
  BY NextLevelSlot DEF Fill
<1>2. book[s] \in Queue /\ v \in Volume /\ v <= remaining /\ v <= book[s][1].volume
  BY <1>1, MakerType
<1>3. left \in Queue /\ Embeds(left, book[s])
  BY <1>1, <1>2, TailThins, DecrementThins, OrderbookAssumption DEF Volume
<1>4. book' = [book EXCEPT ![s] = left]
  BY DEF Fill
<1>5. remaining' = remaining - v
  BY DEF Fill
<1>6. remaining' \in Volume
  BY <1>2, <1>5, OrderbookAssumption DEF Volume, TypeOK
<1>7. IsBook(book') /\ Thins(book', book)
  <2> HIDE DEF s, left
  <2> QED
    BY <1>1, <1>3, <1>4, UpdateThins, BookType
<1> QED
  BY <1>6, <1>7

\* So does the match that an abort leaves behind.
LEMMA AbortThins ==
  ASSUME TypeOK, NEW p \in Prices, AbortSelfTrade(p)
  PROVE  IsBook(book') /\ Thins(book', book)
<1> DEFINE s == Opposing(p)
           v == Lesser(remaining, book[s][1].volume)
           left == Decrement(book[s], v)
<1>1. s \in DOMAIN book /\ book[s] # <<>>
  BY NextLevelSlot DEF AbortSelfTrade
<1>2. book[s] \in Queue /\ v \in Volume /\ v <= book[s][1].volume
  BY <1>1, MakerType
<1>3. left \in Queue /\ Embeds(left, book[s])
  BY <1>1, <1>2, DecrementThins, OrderbookAssumption DEF Volume
<1>4. book' = [book EXCEPT ![s] = left]
  BY DEF AbortSelfTrade
<1> HIDE DEF s, left
<1> QED
  BY <1>1, <1>3, <1>4, UpdateThins, BookType

\* Cancellations and modifications thin the book.
LEMMA CancelThins ==
  ASSUME TypeOK, NEW s \in Slots, NEW id \in 0 .. MaxOrders - 1, CancelOrder(s, id)
  PROVE  IsBook(book') /\ Thins(book', book)
  BY RemoveEntryThins, BookType DEF CancelOrder, Positions

LEMMA ModifyThins ==
  ASSUME TypeOK, NEW s \in Slots, NEW id \in 0 .. MaxOrders - 1,
         NEW reduction \in Volume, ModifyOrder(s, id, reduction)
  PROVE  IsBook(book') /\ Thins(book', book)
<1>1. PICK i \in Positions(s, id) :
        book' = IF reduction >= book[s][i].volume
                  THEN RemoveEntry(s, i)
                  ELSE [book EXCEPT ![s][i].volume = @ - reduction]
  BY DEF ModifyOrder
<1>2. s \in DOMAIN book /\ i \in 1 .. Len(book[s]) /\ book[s] \in Queue
  BY DEF ModifyOrder, Positions, TypeOK, Queue
<1>3. CASE reduction >= book[s][i].volume
  BY <1>1, <1>2, <1>3, RemoveEntryThins, BookType
<1>4. CASE ~ (reduction >= book[s][i].volume)
  <2> DEFINE c == [book[s] EXCEPT ![i].volume = @ - reduction]
  <2>1. book[s][i] \in OrderbookEntry
    BY <1>2, ElementOfSeq DEF Queue
  <2>2. reduction \in Nat /\ reduction <= book[s][i].volume
    BY <1>4, <2>1, OrderbookAssumption DEF OrderbookEntry, Volume
  <2>3. c \in Queue /\ Embeds(c, book[s])
    BY <1>2, <2>2, ReduceThins
  <2>4. book' = [book EXCEPT ![s] = c]
    BY <1>1, <1>4
  <2> HIDE DEF c
  <2> QED
    BY <1>2, <2>3, <2>4, UpdateThins, BookType
<1> QED
  BY <1>3, <1>4

\* What an insertion records when it enters its order.
LEMMA EnterType ==
  ASSUME TypeOK, EnterOrder
  PROVE  /\ IsBook(CleanedBook)
         /\ Thins(CleanedBook, book)
         /\ Slot(taker.pair, taker.side, taker.price) \in Slots
         /\ RestingEntry \in OrderbookEntry
         /\ IsBook(book')
<1>1. IsBook(CleanedBook) /\ Thins(CleanedBook, book)
  BY DropLevelsThins, BookType DEF CleanedBook
<1>2. Slot(taker.pair, taker.side, taker.price) \in Slots
  BY TakerType DEF Slot, Slots, EnterOrder
<1>3. RestingEntry \in OrderbookEntry
  BY TakerType DEF RestingEntry, OrderbookEntry, EnterOrder, TypeOK
<1>4. IsBook(book')
  <2>1. CASE remaining > 0
    BY <1>1, <1>2, <1>3, <2>1, RestAppends DEF EnterOrder
  <2>2. CASE ~ (remaining > 0)
    BY <1>1, <2>2 DEF EnterOrder
  <2> QED
    BY <2>1, <2>2
<1> QED
  BY <1>1, <1>2, <1>3, <1>4

LEMMA TypeInit == Init => TypeOK
  BY OrderbookAssumption DEF Init, TypeOK, Volume

LEMMA TypeStep == TypeOK /\ [Next]_vars => TypeOK'
<1> SUFFICES ASSUME TypeOK, [Next]_vars PROVE TypeOK'
  OBVIOUS
<1> USE DEF TypeOK, insertionVars
<1>1. ASSUME NEW pair \in Pairs, AddMarket(pair) PROVE TypeOK'
  BY <1>1 DEF AddMarket
<1>2. ASSUME NEW order \in Insertions, BeginInsert(order) PROVE TypeOK'
  <2>1. order.volume \in Volume
    BY OrderbookAssumption DEF OrderInsertionRequest
  <2> QED
    BY <1>2, <2>1 DEF BeginInsert
<1>3. ASSUME NEW p \in Prices, Fill(p) PROVE TypeOK'
  <2> DEFINE v == Lesser(remaining, book[Opposing(p)][1].volume)
             trade == [price |-> p, volume |-> v, takerSide |-> taker.side,
                       maker |-> book[Opposing(p)][1].id, taker |-> nextId]
  <2>1. Opposing(p) \in DOMAIN book /\ book[Opposing(p)] # <<>> /\ step = "match"
    BY <1>3, NextLevelSlot DEF Fill
  <2>2. v \in Volume /\ book[Opposing(p)][1] \in OrderbookEntry
    BY <2>1, MakerType
  <2>3. trade \in ObTransaction
    BY <2>1, <2>2, TakerType DEF ObTransaction, OrderbookEntry
  <2>4. transactionBuf' = Append(transactionBuf, trade)
    BY <1>3 DEF Fill
  <2>5. transactionBuf' \in Seq(ObTransaction)
    BY <2>3, <2>4, AppendProperties
  <2>6. /\ DOMAIN book' \subseteq Slots
        /\ book' \in [DOMAIN book' -> Seq(OrderbookEntry)]
        /\ remaining' \in Volume
    BY <1>3, FillThins DEF IsBook, Queue
  <2>7. /\ UNCHANGED <<markets, nextId, taker, visited, deletions>>
        /\ step' \in {"enter", "match"}
    BY <1>3 DEF Fill
  <2> QED
    BY <2>1, <2>5, <2>6, <2>7
<1>4. ASSUME NEW p \in Prices, AbortSelfTrade(p) PROVE TypeOK'
  <2>1. /\ DOMAIN book' \subseteq Slots
        /\ book' \in [DOMAIN book' -> Seq(OrderbookEntry)]
    BY <1>4, AbortThins DEF IsBook, Queue
  <2> QED
    BY <1>4, <2>1, OrderbookAssumption DEF AbortSelfTrade, ForgetInsertion, Volume
<1>5. ASSUME NEW p \in Prices, PassLevel(p) PROVE TypeOK'
  BY <1>5 DEF PassLevel
<1>6. CASE StopMatching
  BY <1>6 DEF StopMatching
<1>7. CASE EnterOrder
  <2>1. /\ DOMAIN book' \subseteq Slots
        /\ book' \in [DOMAIN book' -> Seq(OrderbookEntry)]
    BY <1>7, EnterType DEF IsBook, Queue
  <2> QED
    BY <1>7, <2>1 DEF EnterOrder
<1>8. CASE PopTransaction
  <2>1. Front(transactionBuf) \in Seq(ObTransaction)
    <3>1. Len(transactionBuf) \in Nat
      BY LenProperties
    <3>2. \A i \in 1 .. Len(transactionBuf) - 1 : transactionBuf[i] \in ObTransaction
      BY <3>1, ElementOfSeq
    <3> QED
      BY <3>1, <3>2, SubSeqProperties DEF Front
  <2> QED
    BY <1>8, <2>1 DEF PopTransaction
<1>9. CASE FinishInsert
  BY <1>9, OrderbookAssumption DEF FinishInsert, ForgetInsertion, Volume
<1>10. ASSUME NEW s \in Slots, NEW id \in 0 .. MaxOrders - 1, CancelOrder(s, id)
       PROVE TypeOK'
  <2>1. /\ DOMAIN book' \subseteq Slots
        /\ book' \in [DOMAIN book' -> Seq(OrderbookEntry)]
    BY <1>10, CancelThins DEF IsBook, Queue
  <2> QED
    BY <1>10, <2>1 DEF CancelOrder
<1>11. ASSUME NEW s \in Slots, NEW id \in 0 .. MaxOrders - 1,
              NEW reduction \in Volume, ModifyOrder(s, id, reduction)
       PROVE TypeOK'
  <2>1. /\ DOMAIN book' \subseteq Slots
        /\ book' \in [DOMAIN book' -> Seq(OrderbookEntry)]
    BY <1>11, ModifyThins DEF IsBook, Queue
  <2> QED
    BY <1>11, <2>1 DEF ModifyOrder
<1>12. CASE UNCHANGED vars
  BY <1>12 DEF vars
<1> QED
  BY <1>1, <1>2, <1>3, <1>4, <1>5, <1>6, <1>7, <1>8, <1>9, <1>10, <1>11, <1>12
  DEF Next, Advance, RefuseKilled, RefuseNotResting

\* Every reachable state is well typed; in particular no volume, neither of a
\* resting order nor of the order being matched, leaves the range of a u32.
THEOREM TypeCorrect == Spec => []TypeOK
  BY TypeInit, TypeStep, PTL DEF Spec

(***************************************************************************)
(* Order: queues stay sorted by id and no order rests twice.  Every step   *)
(* but EnterOrder only thins the book; EnterOrder appends an id that no    *)
(* resting order has yet.                                                  *)
(***************************************************************************)
IdsOrdered(b, n) ==
  /\ \A s \in DOMAIN b :
       /\ \A i \in 1 .. Len(b[s]) : b[s][i].id < n
       /\ \A i, j \in 1 .. Len(b[s]) : i < j => b[s][i].id < b[s][j].id
  /\ \A s, t \in DOMAIN b :
       \A i \in 1 .. Len(b[s]), j \in 1 .. Len(b[t]) :
         b[s][i].id = b[t][j].id => s = t

LEMMA IdsOrderedIs == IdsOrdered(book, nextId) <=> TimePriority /\ RestsOnce
  BY DEF IdsOrdered, TimePriority, RestsOnce

LEMMA ThinningKeepsIdsOrdered ==
  ASSUME NEW b, NEW c, NEW n, Thins(c, b), IdsOrdered(b, n)
  PROVE  IdsOrdered(c, n)
<1>1. ASSUME NEW s \in DOMAIN c
      PROVE  /\ \A i \in 1 .. Len(c[s]) : c[s][i].id < n
             /\ \A i, j \in 1 .. Len(c[s]) : i < j => c[s][i].id < c[s][j].id
  <2>1. s \in DOMAIN b /\ Embeds(c[s], b[s])
    BY <1>1 DEF Thins
  <2>2. PICK f \in [1 .. Len(c[s]) -> 1 .. Len(b[s])] :
          /\ \A i, j \in 1 .. Len(c[s]) : i < j => f[i] < f[j]
          /\ \A i \in 1 .. Len(c[s]) : c[s][i].id = b[s][f[i]].id
    BY <2>1 DEF Embeds, SameOrder
  <2>3. \A i \in 1 .. Len(c[s]) : f[i] \in 1 .. Len(b[s])
    BY <2>2
  <2> QED
    BY <2>1, <2>2, <2>3 DEF IdsOrdered
<1>2. ASSUME NEW s \in DOMAIN c, NEW t \in DOMAIN c,
             NEW i \in 1 .. Len(c[s]), NEW j \in 1 .. Len(c[t]),
             c[s][i].id = c[t][j].id
      PROVE  s = t
  <2>1. /\ s \in DOMAIN b /\ Embeds(c[s], b[s])
        /\ t \in DOMAIN b /\ Embeds(c[t], b[t])
    BY <1>2 DEF Thins
  <2>2. PICK k \in 1 .. Len(b[s]) : c[s][i].id = b[s][k].id
    BY <1>2, <2>1 DEF Embeds, SameOrder
  <2>3. PICK l \in 1 .. Len(b[t]) : c[t][j].id = b[t][l].id
    BY <1>2, <2>1 DEF Embeds, SameOrder
  <2> QED
    BY <1>2, <2>1, <2>2, <2>3 DEF IdsOrdered
<1> QED
  BY <1>1, <1>2 DEF IdsOrdered

LEMMA AppendingKeepsIdsOrdered ==
  ASSUME NEW b, IsBook(b), NEW n \in Nat, IdsOrdered(b, n), NEW s \in Slots,
         NEW entry \in OrderbookEntry, entry.id = n
  PROVE  IdsOrdered(Rest(b, s, entry), n + 1)
<1> DEFINE c == Rest(b, s, entry)
           k == LevelLength(b, s)
<1>1. /\ IsBook(c)
      /\ DOMAIN c = DOMAIN b \cup {s}
      /\ \A t \in DOMAIN b \ {s} : c[t] = b[t]
      /\ k \in Nat
      /\ Len(c[s]) = k + 1
      /\ c[s][k + 1] = entry
      /\ \A i \in 1 .. k : c[s][i] = b[s][i]
  BY RestAppends
<1> HIDE DEF c, k
<1>2. ASSUME NEW t \in DOMAIN c, NEW i \in 1 .. Len(c[t])
      PROVE  \/ t = s /\ i = k + 1 /\ c[t][i].id = n
             \/ /\ t \in DOMAIN b /\ i \in 1 .. Len(b[t]) /\ c[t][i] = b[t][i]
                /\ c[t][i].id \in Nat /\ c[t][i].id < n
  <2>1. CASE t # s
    <3>1. t \in DOMAIN b /\ c[t] = b[t] /\ b[t] \in Queue
      BY <1>1, <1>2, <2>1 DEF IsBook
    <3>2. c[t][i] \in OrderbookEntry
      BY <1>2, <3>1, ElementOfSeq DEF Queue
    <3> QED
      BY <1>2, <3>1, <3>2 DEF IdsOrdered, OrderbookEntry
  <2>2. CASE t = s /\ i # k + 1
    <3>1. i \in 1 .. k /\ s \in DOMAIN b /\ k = Len(b[s])
      <4>1. i \in 1 .. k
        BY <1>1, <1>2, <2>2
      <4>2. k # 0
        BY <1>1, <4>1
      <4> QED
        BY <4>1, <4>2 DEF k, LevelLength
    <3>2. c[s][i] = b[s][i] /\ b[s] \in Queue
      BY <1>1, <3>1 DEF IsBook
    <3>3. b[s][i] \in OrderbookEntry
      BY <3>1, <3>2, ElementOfSeq DEF Queue
    <3> QED
      BY <2>2, <3>1, <3>2, <3>3 DEF IdsOrdered, OrderbookEntry
  <2> QED
    BY <1>1, <2>1, <2>2
<1>3. ASSUME NEW t \in DOMAIN c
      PROVE  /\ \A i \in 1 .. Len(c[t]) : c[t][i].id < n + 1
             /\ \A i, j \in 1 .. Len(c[t]) : i < j => c[t][i].id < c[t][j].id
  <2>1. \A i \in 1 .. Len(c[t]) : c[t][i].id < n + 1
    BY <1>2
  <2>2. ASSUME NEW i \in 1 .. Len(c[t]), NEW j \in 1 .. Len(c[t]), i < j
        PROVE  c[t][i].id < c[t][j].id
    <3>1. CASE t = s /\ j = k + 1
      BY <1>1, <1>2, <2>2, <3>1
    <3>2. CASE ~ (t = s /\ j = k + 1)
      <4>1. /\ t \in DOMAIN b /\ j \in 1 .. Len(b[t]) /\ c[t][j] = b[t][j]
        BY <1>2, <3>2
      <4>2. ~ (t = s /\ i = k + 1)
        BY <1>1, <2>2, <3>2
      <4>3. i \in 1 .. Len(b[t]) /\ c[t][i] = b[t][i]
        BY <1>2, <4>2
      <4> QED
        BY <2>2, <4>1, <4>3 DEF IdsOrdered
    <3> QED
      BY <3>1, <3>2
  <2> QED
    BY <2>1, <2>2
<1>4. ASSUME NEW t \in DOMAIN c, NEW u \in DOMAIN c,
             NEW i \in 1 .. Len(c[t]), NEW j \in 1 .. Len(c[u]),
             c[t][i].id = c[u][j].id
      PROVE  t = u
  <2>1. CASE (t = s /\ i = k + 1) \/ (u = s /\ j = k + 1)
    BY <1>1, <1>2, <1>4, <2>1
  <2>2. CASE ~ (t = s /\ i = k + 1) /\ ~ (u = s /\ j = k + 1)
    <3>1. t \in DOMAIN b /\ i \in 1 .. Len(b[t]) /\ c[t][i] = b[t][i]
      BY <1>2, <2>2
    <3>2. u \in DOMAIN b /\ j \in 1 .. Len(b[u]) /\ c[u][j] = b[u][j]
      BY <1>2, <2>2
    <3>3. b[t][i].id = b[u][j].id
      BY <1>4, <3>1, <3>2
    <3> QED
      BY <3>1, <3>2, <3>3 DEF IdsOrdered
  <2> QED
    BY <2>1, <2>2
<1> QED
  BY <1>3, <1>4 DEF IdsOrdered, c

LEMMA OrderInit == Init => TimePriority /\ RestsOnce
  BY DEF Init, TimePriority, RestsOnce

LEMMA OrderStep ==
  TypeOK /\ TimePriority /\ RestsOnce /\ [Next]_vars => (TimePriority /\ RestsOnce)'
<1> SUFFICES ASSUME TypeOK, TimePriority, RestsOnce, [Next]_vars
             PROVE  IdsOrdered(book', nextId')
  BY DEF IdsOrdered, TimePriority, RestsOnce
<1>0. IdsOrdered(book, nextId)
  BY IdsOrderedIs
<1>1. ASSUME Thins(book', book), nextId' = nextId PROVE IdsOrdered(book', nextId')
  BY <1>0, <1>1, ThinningKeepsIdsOrdered
<1>2. ASSUME UNCHANGED <<book, nextId>> PROVE IdsOrdered(book', nextId')
  BY <1>0, <1>2
<1>3. ASSUME NEW pair \in Pairs, AddMarket(pair) PROVE IdsOrdered(book', nextId')
  BY <1>2, <1>3 DEF AddMarket
<1>4. ASSUME NEW order \in Insertions, BeginInsert(order)
      PROVE  IdsOrdered(book', nextId')
  BY <1>2, <1>4 DEF BeginInsert
<1>5. ASSUME NEW p \in Prices, Fill(p) PROVE IdsOrdered(book', nextId')
  BY <1>1, <1>5, FillThins DEF Fill
<1>6. ASSUME NEW p \in Prices, AbortSelfTrade(p) PROVE IdsOrdered(book', nextId')
  BY <1>1, <1>6, AbortThins DEF AbortSelfTrade
<1>7. ASSUME NEW p \in Prices, PassLevel(p) PROVE IdsOrdered(book', nextId')
  BY <1>2, <1>7 DEF PassLevel
<1>8. CASE EnterOrder
  <2>1. /\ IsBook(CleanedBook)
        /\ Slot(taker.pair, taker.side, taker.price) \in Slots
        /\ RestingEntry \in OrderbookEntry
        /\ nextId \in Nat
        /\ nextId' = nextId + 1
    BY <1>8, EnterType DEF EnterOrder, TypeOK
  <2>2. IdsOrdered(CleanedBook, nextId)
    BY <1>0, <1>8, EnterType, ThinningKeepsIdsOrdered
  <2>3. CASE remaining > 0
    <3>1. book' = Rest(CleanedBook, Slot(taker.pair, taker.side, taker.price), RestingEntry)
      BY <1>8, <2>3 DEF EnterOrder
    <3>2. RestingEntry.id = nextId
      BY DEF RestingEntry
    <3> QED
      BY <2>1, <2>2, <3>1, <3>2, AppendingKeepsIdsOrdered
  <2>4. CASE ~ (remaining > 0)
    <3>1. book' = CleanedBook
      BY <1>8, <2>4 DEF EnterOrder
    <3>2. ASSUME NEW s \in DOMAIN CleanedBook, NEW i \in 1 .. Len(CleanedBook[s])
          PROVE  CleanedBook[s][i].id \in Nat
      <4>1. CleanedBook[s] \in Seq(OrderbookEntry)
        BY <2>1 DEF IsBook, Queue
      <4>2. CleanedBook[s][i] \in OrderbookEntry
        BY <4>1, ElementOfSeq
      <4> QED
        BY <4>2 DEF OrderbookEntry
    <3> QED
      BY <2>1, <2>2, <3>1, <3>2 DEF IdsOrdered
  <2> QED
    BY <2>3, <2>4
<1>9. CASE StopMatching \/ PopTransaction \/ FinishInsert
  BY <1>2, <1>9 DEF StopMatching, PopTransaction, FinishInsert
<1>10. ASSUME NEW s \in Slots, NEW id \in 0 .. MaxOrders - 1, CancelOrder(s, id)
       PROVE  IdsOrdered(book', nextId')
  BY <1>1, <1>10, CancelThins DEF CancelOrder
<1>11. ASSUME NEW s \in Slots, NEW id \in 0 .. MaxOrders - 1,
              NEW reduction \in Volume, ModifyOrder(s, id, reduction)
       PROVE  IdsOrdered(book', nextId')
  BY <1>1, <1>11, ModifyThins DEF ModifyOrder
<1>12. CASE UNCHANGED vars
  BY <1>2, <1>12 DEF vars
<1> QED
  BY <1>3, <1>4, <1>5, <1>6, <1>7, <1>8, <1>9, <1>10, <1>11, <1>12
  DEF Next, Advance, RefuseKilled, RefuseNotResting

\* At every level the orders stand in the order of their placement, whatever
\* fills, cancellations and modifications did to the queue.
THEOREM TimePriorityHolds == Spec => []TimePriority
  BY TypeInit, TypeStep, OrderInit, OrderStep, PTL DEF Spec

\* No order ever rests at two levels.
THEOREM RestsOnceHolds == Spec => []RestsOnce
  BY TypeInit, TypeStep, OrderInit, OrderStep, PTL DEF Spec

(***************************************************************************)
(* Crossing.  While it iterates, the loop leaves behind a run of the best  *)
(* opposing levels, all of them empty and as many as it counted; it        *)
(* reaches the clean-up with volume left only when no opposing level       *)
(* remains within the limit.                                               *)
(***************************************************************************)
IteratorInv ==
  step \in {"match", "enter"} =>
    /\ visited \subseteq OpposingPrices
    /\ Cardinality(visited) = deletions
    /\ \A p \in visited : book[Opposing(p)] = <<>>
    /\ \A p \in visited, q \in OpposingPrices \ visited :
         Before(Other(taker.side), p, q)

ExhaustedInv == step = "enter" /\ remaining > 0 => Ahead = {}

CrossInv == Uncrossed /\ IteratorInv /\ ExhaustedInv

\* What the clean-up deletes is what the iterator left behind.
LEMMA CleanedIsVisited ==
  ASSUME TypeOK, IteratorInv, step \in {"match", "enter"}
  PROVE  Cleaned = visited
<1> DEFINE P == OpposingPrices
           side == Other(taker.side)
<1>1. P \subseteq Prices /\ P \subseteq Int /\ side \in Side
  BY TakerType, OrderbookAssumption DEF OpposingPrices, LevelPrices
<1>2. IsFiniteSet(P)
  BY <1>1, OrderbookAssumption, FS_Subset
<1>3. visited \in SUBSET P /\ Cardinality(visited) = deletions
  BY DEF IteratorInv
<1>4. \A p \in visited, q \in P \ visited : Before(side, p, q)
  BY DEF IteratorInv
<1>5. Cleaned = {p \in P : Rank(P, side, p) <= Cardinality(visited)}
  BY <1>3 DEF Cleaned
<1> HIDE DEF P, side
<1>6. \A p \in P : Rank(P, side, p) <= Cardinality(visited) <=> p \in visited
  BY <1>1, <1>2, <1>3, <1>4, PrefixByRank
<1> QED
  BY <1>3, <1>5, <1>6

LEMMA CleanupFollows == TypeOK /\ IteratorInv => CleanupExact
  BY CleanedIsVisited DEF CleanupExact, IteratorInv

\* The opposing levels do not change with the queues at them.
LEMMA OpposingSame ==
  ASSUME DOMAIN book' = DOMAIN book, taker' = taker
  PROVE  /\ OpposingPrices' = OpposingPrices
         /\ \A p : Opposing(p)' = Opposing(p)
  BY DEF OpposingPrices, LevelPrices, Opposing, Slot

LEMMA CrossInit == Init => CrossInv
  BY DEF Init, CrossInv, Uncrossed, IteratorInv, ExhaustedInv

\* Fewer levels cross no more than before.
LEMMA ThinningKeepsUncrossed ==
  ASSUME Uncrossed, Thins(book', book) PROVE Uncrossed'
  BY DEF Uncrossed, Thins

LEMMA FillCross ==
  ASSUME TypeOK, CrossInv, NEW p \in Prices, Fill(p) PROVE CrossInv'
<1> DEFINE s == Opposing(p)
<1>1. s \in DOMAIN book /\ p \notin visited /\ step = "match"
  BY NextLevelSlot DEF Fill
<1>2. /\ DOMAIN book' = DOMAIN book
      /\ \A t \in DOMAIN book \ {s} : book'[t] = book[t]
  BY DEF Fill
<1>3. Uncrossed'
  BY ThinningKeepsUncrossed, FillThins DEF CrossInv
<1>4. IteratorInv'
  <2>1. UNCHANGED <<taker, visited, deletions>>
    BY DEF Fill
  <2>2. \A q \in visited : Opposing(q) # s /\ Opposing(q) \in DOMAIN book
    BY <1>1 DEF CrossInv, IteratorInv, OpposingPrices, LevelPrices, Opposing, Slot
  <2>3. OpposingPrices' = OpposingPrices /\ \A q : Opposing(q)' = Opposing(q)
    BY <1>2, <2>1, OpposingSame
  <2>4. \A q \in visited : book'[Opposing(q)] = <<>>
    BY <1>1, <1>2, <2>2 DEF CrossInv, IteratorInv
  <2>5. /\ visited \subseteq OpposingPrices
        /\ Cardinality(visited) = deletions
        /\ \A q \in visited, r \in OpposingPrices \ visited :
             Before(Other(taker.side), q, r)
    BY <1>1 DEF CrossInv, IteratorInv
  <2> QED
    BY <2>1, <2>3, <2>4, <2>5 DEF IteratorInv, Before
<1>5. ExhaustedInv'
  <2>1. step' = "enter" => remaining' = 0
    BY DEF Fill
  <2> QED
    BY <2>1 DEF ExhaustedInv
<1> QED
  BY <1>3, <1>4, <1>5 DEF CrossInv

\* Every level within the limit comes before every level beyond it.
LEMMA LimitSeparates ==
  ASSUME TypeOK, step # "idle", NEW p \in Prices, NEW q \in Prices,
         WithinLimit(taker, p), ~ WithinLimit(taker, q)
  PROVE  Before(Other(taker.side), p, q)
<1>1. /\ taker.price \in Int /\ p \in Int /\ q \in Int
      /\ taker.side \in {"Bid", "Ask"}
  BY TakerType, OrderbookAssumption DEF Side
<1>2. CASE taker.side = "Bid"
  BY <1>1, <1>2 DEF WithinLimit, Before, Other
<1>3. CASE taker.side = "Ask"
  BY <1>1, <1>3 DEF WithinLimit, Before, Other
<1> QED
  BY <1>1, <1>2, <1>3

LEMMA PassCross ==
  ASSUME TypeOK, CrossInv, NEW p \in Prices, PassLevel(p) PROVE CrossInv'
<1> DEFINE side == Other(taker.side)
<1>1. /\ step = "match" /\ p \in OpposingPrices \ visited /\ WithinLimit(taker, p)
      /\ \A q \in Ahead \ {p} : Before(side, p, q)
  BY NextLevelSlot DEF PassLevel, IsNext
<1>2. /\ UNCHANGED <<book, taker, remaining>>
      /\ visited' = visited \cup {p}
      /\ deletions' = deletions + 1
      /\ book[Opposing(p)] = <<>>
      /\ step' = IF remaining = 0 THEN "enter" ELSE "match"
  BY DEF PassLevel
<1>3. OpposingPrices' = OpposingPrices /\ \A q : Opposing(q)' = Opposing(q)
  BY <1>2, OpposingSame
<1>4. /\ visited \subseteq OpposingPrices
      /\ Cardinality(visited) = deletions
      /\ \A q \in visited : book[Opposing(q)] = <<>>
      /\ \A q \in visited, r \in OpposingPrices \ visited : Before(side, q, r)
  BY <1>1 DEF CrossInv, IteratorInv
<1>5. Cardinality(visited \cup {p}) = deletions + 1
  <2>1. IsFiniteSet(visited)
    BY OrderbookAssumption, FS_Subset DEF TypeOK
  <2> QED
    BY <1>1, <1>4, <2>1, FS_AddElement
<1>6. ASSUME NEW q \in OpposingPrices \ (visited \cup {p}) PROVE Before(side, p, q)
  <2>1. CASE WithinLimit(taker, q)
    BY <1>1, <1>6, <2>1 DEF Ahead, OpposingPrices, LevelPrices
  <2>2. CASE ~ WithinLimit(taker, q)
    BY <1>1, <1>6, <2>2, LimitSeparates DEF OpposingPrices, LevelPrices
  <2> QED
    BY <2>1, <2>2
<1>7. IteratorInv'
  <2>1. \A q \in visited \cup {p} : book[Opposing(q)] = <<>>
    BY <1>2, <1>4
  <2>2. \A q \in visited \cup {p}, r \in OpposingPrices \ (visited \cup {p}) :
          Before(side, q, r)
    BY <1>4, <1>6
  <2> QED
    BY <1>1, <1>2, <1>3, <1>4, <1>5, <2>1, <2>2 DEF IteratorInv
<1>8. Uncrossed'
  BY <1>2 DEF CrossInv, Uncrossed
<1>9. ExhaustedInv'
  <2>1. step' = "enter" => remaining' = 0
    BY <1>2
  <2> QED
    BY <2>1 DEF ExhaustedInv
<1> QED
  BY <1>7, <1>8, <1>9 DEF CrossInv

LEMMA EnterCross ==
  ASSUME TypeOK, CrossInv, EnterOrder PROVE CrossInv'
<1> DEFINE own == Slot(taker.pair, taker.side, taker.price)
<1>1. step = "enter" /\ step' = "settle"
  BY DEF EnterOrder
<1>2. Uncrossed'
  <2>1. CASE ~ (remaining > 0)
    <3>1. book' = CleanedBook
      BY <2>1 DEF EnterOrder
    <3> QED
      BY <3>1, EnterType, ThinningKeepsUncrossed DEF CrossInv
  <2>2. CASE remaining > 0
    <3>1. Ahead = {} /\ Cleaned = visited
      BY <1>1, <2>2, CleanedIsVisited DEF CrossInv, ExhaustedInv
    <3>2. DOMAIN book' = DOMAIN CleanedBook \cup {own}
      <4>1. book' = Rest(CleanedBook, own, RestingEntry)
        BY <2>2 DEF EnterOrder
      <4> QED
        BY <4>1 DEF Rest
    <3>3. ASSUME NEW t \in DOMAIN CleanedBook,
                 t.pair = own.pair, t.side = Other(taker.side)
          PROVE  ~ WithinLimit(taker, t.price)
      <4>1. t \in DOMAIN book /\ t \in Slots
        BY DEF CleanedBook, TypeOK
      <4>2. t = Opposing(t.price) /\ t.price \in Prices
        BY <3>3, <4>1 DEF Opposing, Slot, Slots
      <4>3. t.price \in OpposingPrices /\ t.price \notin Cleaned
        BY <4>1, <4>2 DEF OpposingPrices, LevelPrices, Opposing, CleanedBook
      <4> QED
        BY <3>1, <4>3 DEF Ahead
    <3>4. ASSUME NEW s \in DOMAIN book', NEW t \in DOMAIN book',
                 s.pair = t.pair, s.side = "Bid", t.side = "Ask"
          PROVE  s.price < t.price
      <4>1. DOMAIN CleanedBook \subseteq DOMAIN book /\ DOMAIN book \subseteq Slots
        BY DEF CleanedBook, TypeOK
      <4>2. /\ own.pair = taker.pair /\ own.side = taker.side
            /\ own.price = taker.price /\ own \in Slots
        BY EnterType DEF Slot
      <4>3. s.price \in Int /\ t.price \in Int
        BY <3>2, <4>1, <4>2, OrderbookAssumption DEF Slots
      <4>4. CASE s # own /\ t # own
        BY <3>2, <3>4, <4>1, <4>4 DEF CrossInv, Uncrossed
      <4>5. CASE s = own
        <5>1. t \in DOMAIN CleanedBook /\ t.side = Other(taker.side)
          BY <3>2, <3>4, <4>2, <4>5 DEF Other
        <5>2. ~ WithinLimit(taker, t.price)
          BY <3>3, <3>4, <4>5, <5>1
        <5> QED
          BY <3>4, <4>2, <4>3, <4>5, <5>2 DEF WithinLimit
      <4>6. CASE t = own
        <5>1. s \in DOMAIN CleanedBook /\ s.side = Other(taker.side)
          BY <3>2, <3>4, <4>2, <4>6 DEF Other
        <5>2. ~ WithinLimit(taker, s.price)
          BY <3>3, <3>4, <4>6, <5>1
        <5> QED
          BY <3>4, <4>2, <4>3, <4>6, <5>2 DEF WithinLimit
      <4> QED
        BY <4>4, <4>5, <4>6
    <3> QED
      BY <3>4 DEF Uncrossed
  <2> QED
    BY <2>1, <2>2
<1> QED
  BY <1>1, <1>2 DEF CrossInv, IteratorInv, ExhaustedInv

LEMMA CrossStep == TypeOK /\ CrossInv /\ [Next]_vars => CrossInv'
<1> SUFFICES ASSUME TypeOK, CrossInv, [Next]_vars PROVE CrossInv'
  OBVIOUS
<1>1. ASSUME Uncrossed', step' \in {"idle", "settle"} PROVE CrossInv'
  BY <1>1 DEF CrossInv, IteratorInv, ExhaustedInv
<1>2. ASSUME UNCHANGED book PROVE Uncrossed'
  BY <1>2 DEF CrossInv, Uncrossed
<1>3. ASSUME UNCHANGED <<book, step, insertionVars>> PROVE CrossInv'
  BY <1>3 DEF CrossInv, Uncrossed, IteratorInv, ExhaustedInv, insertionVars,
              OpposingPrices, LevelPrices, Opposing, Slot, Ahead, WithinLimit, Before
<1>4. ASSUME NEW pair \in Pairs, AddMarket(pair) PROVE CrossInv'
  BY <1>3, <1>4 DEF AddMarket
<1>5. ASSUME NEW order \in Insertions, BeginInsert(order) PROVE CrossInv'
  <2>1. visited' = {} /\ deletions' = 0 /\ step' = "match" /\ UNCHANGED book
    BY <1>5 DEF BeginInsert
  <2> QED
    BY <1>2, <2>1, FS_EmptySet DEF CrossInv, IteratorInv, ExhaustedInv
<1>6. ASSUME NEW p \in Prices, Fill(p) PROVE CrossInv'
  BY <1>6, FillCross
<1>7. ASSUME NEW p \in Prices, AbortSelfTrade(p) PROVE CrossInv'
  BY <1>1, <1>7, AbortThins, ThinningKeepsUncrossed DEF AbortSelfTrade, CrossInv
<1>8. ASSUME NEW p \in Prices, PassLevel(p) PROVE CrossInv'
  BY <1>8, PassCross
<1>9. CASE StopMatching
  <2>1. Ahead' = Ahead
    BY <1>9 DEF StopMatching, insertionVars, Ahead, OpposingPrices, LevelPrices,
                WithinLimit
  <2>2. IteratorInv'
    BY <1>9 DEF StopMatching, insertionVars, CrossInv, IteratorInv, OpposingPrices,
                LevelPrices, Opposing
  <2> QED
    BY <1>2, <1>9, <2>1, <2>2 DEF StopMatching, CrossInv, ExhaustedInv
<1>10. CASE EnterOrder
  BY <1>10, EnterCross
<1>11. CASE PopTransaction
  BY <1>3, <1>11 DEF PopTransaction
<1>12. CASE FinishInsert
  BY <1>1, <1>2, <1>12 DEF FinishInsert
<1>13. ASSUME NEW s \in Slots, NEW id \in 0 .. MaxOrders - 1, CancelOrder(s, id)
       PROVE  CrossInv'
  BY <1>1, <1>13, CancelThins, ThinningKeepsUncrossed DEF CancelOrder, CrossInv
<1>14. ASSUME NEW s \in Slots, NEW id \in 0 .. MaxOrders - 1,
              NEW reduction \in Volume, ModifyOrder(s, id, reduction)
       PROVE  CrossInv'
  BY <1>1, <1>14, ModifyThins, ThinningKeepsUncrossed DEF ModifyOrder, CrossInv
<1>15. CASE UNCHANGED vars
  BY <1>3, <1>15 DEF vars
<1> QED
  BY <1>4, <1>5, <1>6, <1>7, <1>8, <1>9, <1>10, <1>11, <1>12, <1>13, <1>14, <1>15
  DEF Next, Advance, RefuseKilled, RefuseNotResting

\* No market is ever crossed: for every pair, each bid level is below each ask
\* level, in every state of every insertion, cancellation and modification.
THEOREM NeverCrossed == Spec => []Uncrossed
<1>1. CrossInv => Uncrossed
  BY DEF CrossInv
<1> QED
  BY <1>1, TypeInit, TypeStep, CrossInit, CrossStep, PTL DEF Spec

\* The levels deleted after matching are exactly those the loop emptied.
THEOREM CleanupIsExact == Spec => []CleanupExact
<1>1. TypeOK /\ CrossInv => CleanupExact
  BY CleanupFollows DEF CrossInv
<1> QED
  BY <1>1, TypeInit, TypeStep, CrossInit, CrossStep, PTL DEF Spec

(***************************************************************************)
(* Price-time priority of every match.                                     *)
(***************************************************************************)
LEMMA FillIsBestFirst ==
  ASSUME TypeOK, TimePriority, CrossInv, NEW p \in Prices, Fill(p)
  PROVE  LET trade == Last(transactionBuf')
         IN  /\ WithinLimit(taker, trade.price)
             /\ \A q \in OpposingPrices :
                  \A i \in 1 .. Len(book[Opposing(q)]) :
                    /\ ~ Before(Other(taker.side), q, trade.price)
                    /\ q = trade.price => trade.maker <= book[Opposing(q)][i].id
<1> DEFINE s == Opposing(p)
           side == Other(taker.side)
           trade == [price |-> p, volume |-> Lesser(remaining, book[s][1].volume),
                     takerSide |-> taker.side, maker |-> book[s][1].id,
                     taker |-> nextId]
<1>1. /\ step = "match" /\ s \in DOMAIN book /\ WithinLimit(taker, p)
      /\ \A q \in Ahead \ {p} : Before(side, p, q)
  BY NextLevelSlot DEF Fill, IsNext
<1>2. book[s] # <<>> /\ transactionBuf' = Append(transactionBuf, trade)
  BY DEF Fill
<1>3. Last(transactionBuf') = trade
  <2>1. transactionBuf \in Seq(ObTransaction) /\ trade \in ObTransaction
    <3>1. book[s][1] \in OrderbookEntry
          /\ Lesser(remaining, book[s][1].volume) \in Volume
      BY <1>1, <1>2, MakerType
    <3> QED
      BY <1>1, <3>1, TakerType DEF ObTransaction, OrderbookEntry, TypeOK
  <2> HIDE DEF trade
  <2> QED
    BY <1>2, <2>1, AppendProperties, LenProperties DEF Last
<1>4. ASSUME NEW q \in OpposingPrices, NEW i \in 1 .. Len(book[Opposing(q)])
      PROVE  ~ Before(side, q, p) /\ (q = p => book[s][1].id <= book[Opposing(q)][i].id)
  <2>1. q \in Prices /\ q \in Int /\ p \in Int
    BY OrderbookAssumption DEF OpposingPrices, LevelPrices
  <2>2. CASE q = p
    <3>1. ~ Before(side, q, p)
      BY <2>1, <2>2 DEF Before
    <3>2. book[s][1].id <= book[s][i].id
      <4>1. Len(book[s]) \in Nat \ {0} /\ book[s] \in Queue
        BY <1>1, <1>2, MakerType
      <4>2. i \in 1 .. Len(book[s]) /\ 1 \in 1 .. Len(book[s])
        BY <1>4, <2>2, <4>1
      <4>3. book[s][1] \in OrderbookEntry /\ book[s][i] \in OrderbookEntry
        BY <4>1, <4>2, ElementOfSeq DEF Queue
      <4>4. CASE i = 1
        BY <4>3, <4>4 DEF OrderbookEntry
      <4>5. CASE i # 1
        <5>1. 1 < i
          BY <4>2, <4>5
        <5>2. book[s][1].id < book[s][i].id
          BY <1>1, <4>2, <5>1 DEF TimePriority
        <5> QED
          BY <4>3, <5>2 DEF OrderbookEntry
      <4> QED
        BY <4>4, <4>5
    <3> QED
      BY <2>2, <3>1, <3>2
  <2>3. CASE q # p
    <3>1. q \notin visited
      <4>1. q \in visited => book[Opposing(q)] = <<>>
        BY <1>1 DEF CrossInv, IteratorInv
      <4> QED
        BY <1>4, <4>1
    <3>2. Before(side, p, q)
      <4>1. CASE WithinLimit(taker, q)
        BY <1>1, <1>4, <2>1, <2>3, <3>1, <4>1 DEF Ahead
      <4>2. CASE ~ WithinLimit(taker, q)
        BY <1>1, <2>1, <4>2, LimitSeparates
      <4> QED
        BY <4>1, <4>2
    <3> QED
      BY <2>1, <2>3, <3>2 DEF Before
  <2> QED
    BY <2>2, <2>3
<1> QED
  BY <1>1, <1>3, <1>4

\* No other step adds a transaction.
LEMMA OnlyFillTrades ==
  ASSUME TypeOK, [Next]_vars, Len(transactionBuf') > Len(transactionBuf)
  PROVE  \E p \in Prices : Fill(p)
<1>1. Len(transactionBuf) \in Nat
  BY LenProperties DEF TypeOK
<1>2. transactionBuf' # transactionBuf
  BY <1>1
<1>3. ~ PopTransaction
  <2> SUFFICES ASSUME PopTransaction PROVE FALSE
    OBVIOUS
  <2>1. transactionBuf' = SubSeq(transactionBuf, 1, Len(transactionBuf) - 1)
    BY DEF PopTransaction, Front
  <2>2. \A i \in 1 .. Len(transactionBuf) - 1 : transactionBuf[i] \in ObTransaction
    BY <1>1, ElementOfSeq DEF TypeOK
  <2>3. Len(transactionBuf') <= Len(transactionBuf)
    BY <1>1, <2>1, <2>2, SubSeqProperties
  <2> QED
    BY <1>1, <2>3
<1> QED
  BY <1>2, <1>3 DEF Next, Advance, AddMarket, BeginInsert, RefuseKilled, AbortSelfTrade,
     PassLevel, StopMatching, EnterOrder, FinishInsert, CancelOrder, ModifyOrder,
     RefuseNotResting, vars

\* Every match is with the oldest order at the best price of the other side, at
\* a price the taker accepts.
THEOREM PriceTimePriority == Spec => MatchesBestFirst
<1> DEFINE Best ==
      Len(transactionBuf') > Len(transactionBuf) =>
        LET trade == Last(transactionBuf')
        IN  /\ WithinLimit(taker, trade.price)
            /\ \A p \in OpposingPrices :
                 \A i \in 1 .. Len(book[Opposing(p)]) :
                   /\ ~ Before(Other(taker.side), p, trade.price)
                   /\ p = trade.price => trade.maker <= book[Opposing(p)][i].id
<1>1. TypeOK /\ TimePriority /\ CrossInv /\ [Next]_vars => Best
  BY OnlyFillTrades, FillIsBestFirst
<1>2. TypeOK /\ TimePriority /\ CrossInv /\ [Next]_vars => [Best]_vars
  BY <1>1
<1>3. MatchesBestFirst <=> [][Best]_vars
  BY DEF MatchesBestFirst
<1> HIDE DEF Best
<1>4. Spec => [][Best]_vars
  BY <1>2, TypeInit, TypeStep, OrderInit, OrderStep, CrossInit, CrossStep, PTL DEF Spec
<1> QED
  BY <1>3, <1>4

(***************************************************************************)
(* The volume of a queue, and what the changes to a queue do to it.        *)
(***************************************************************************)
Volumes(queue) == [i \in DOMAIN queue |-> queue[i].volume]

LEMMA VolumesOf ==
  ASSUME NEW queue \in Queue
  PROVE  /\ QueueVolume(queue) = SumFunction(Volumes(queue))
         /\ Len(queue) \in Nat
         /\ DOMAIN Volumes(queue) = 1 .. Len(queue)
         /\ \A i \in 1 .. Len(queue) : /\ queue[i] \in OrderbookEntry
                                       /\ Volumes(queue)[i] = queue[i].volume
                                       /\ Volumes(queue)[i] \in Nat
<1>1. Len(queue) \in Nat /\ DOMAIN queue = 1 .. Len(queue)
  BY LenProperties DEF Queue
<1>2. \A i \in 1 .. Len(queue) : queue[i] \in OrderbookEntry
  BY ElementOfSeq DEF Queue
<1>3. \A e \in OrderbookEntry : e.volume \in Nat
  BY VolumesAreNaturals DEF OrderbookEntry
<1> QED
  BY <1>1, <1>2, <1>3 DEF QueueVolume, Volumes

LEMMA QueueVolumeType ==
  ASSUME NEW queue \in Queue
  PROVE  QueueVolume(queue) \in Nat
<1>1. \A i \in {} : Volumes(queue)[i] \in Nat
  OBVIOUS
<1>2. IsFiniteSet(1 .. Len(queue))
  BY VolumesOf, FS_Interval
<1>3. \A i \in 1 .. Len(queue) : Volumes(queue)[i] \in Nat /\ Volumes(queue)[i] \in Int
  BY VolumesOf
<1>4. SumFunctionOnSet(Volumes(queue), 1 .. Len(queue)) \in Int
  BY <1>2, <1>3, SumType
<1>5. 0 <= SumFunctionOnSet(Volumes(queue), 1 .. Len(queue))
  BY <1>2, <1>3, SumMonotone
<1>6. QueueVolume(queue) = SumFunctionOnSet(Volumes(queue), 1 .. Len(queue))
  BY VolumesOf DEF SumFunction
<1> QED
  BY <1>4, <1>5, <1>6

LEMMA QueueVolumeEmpty == QueueVolume(<<>>) = 0
  BY SumOfEmpty DEF QueueVolume

LEMMA QueueVolumeTail ==
  ASSUME NEW queue \in Queue, queue # <<>>
  PROVE  /\ Tail(queue) \in Queue
         /\ QueueVolume(queue) = queue[1].volume + QueueVolume(Tail(queue))
<1>1. /\ Tail(queue) \in Queue
      /\ Len(queue) \in Nat \ {0}
      /\ Len(Tail(queue)) = Len(queue) - 1
      /\ \A i \in 1 .. Len(queue) - 1 : Tail(queue)[i] = queue[i + 1]
  BY EmptySeq, HeadTailProperties DEF Queue
<1> DEFINE n == Len(queue) - 1
<1>2. /\ n \in Nat
      /\ DOMAIN Volumes(queue) = 1 .. n + 1
      /\ DOMAIN Volumes(Tail(queue)) = 1 .. n
      /\ \A i \in 1 .. n + 1 : Volumes(queue)[i] \in Int
      /\ \A i \in 1 .. n : Volumes(Tail(queue))[i] = Volumes(queue)[i + 1]
      /\ Volumes(queue)[1] = queue[1].volume
  <2>1. /\ DOMAIN Volumes(queue) = 1 .. Len(queue)
        /\ \A i \in 1 .. Len(queue) : /\ Volumes(queue)[i] = queue[i].volume
                                      /\ Volumes(queue)[i] \in Nat
    BY VolumesOf
  <2>2. /\ DOMAIN Volumes(Tail(queue)) = 1 .. Len(Tail(queue))
        /\ \A i \in 1 .. Len(Tail(queue)) :
             Volumes(Tail(queue))[i] = Tail(queue)[i].volume
    BY <1>1, VolumesOf
  <2>3. n \in Nat /\ n + 1 = Len(queue) /\ n = Len(Tail(queue))
    BY <1>1
  <2>4. \A i \in 1 .. n : i \in 1 .. n + 1 /\ i + 1 \in 1 .. n + 1 /\ Tail(queue)[i] = queue[i + 1]
    BY <1>1, <2>3
  <2> HIDE DEF n
  <2>5. 1 \in 1 .. n + 1
    BY <2>3
  <2> QED
    BY <2>1, <2>2, <2>3, <2>4, <2>5
<1> HIDE DEF n
<1>3. SumFunction(Volumes(queue)) = Volumes(queue)[1] + SumFunction(Volumes(Tail(queue)))
  <2> DEFINE a == Volumes(queue)
             b == Volumes(Tail(queue))
  <2>1. /\ n \in Nat /\ DOMAIN a = 1 .. n + 1 /\ DOMAIN b = 1 .. n
        /\ \A i \in 1 .. n + 1 : a[i] \in Int
        /\ \A i \in 1 .. n : b[i] = a[i + 1]
    BY <1>2
  <2> HIDE DEF a, b
  <2>2. SumFunction(a) = a[1] + SumFunction(b)
    BY ONLY <2>1, SumOfTail
  <2> QED
    BY <2>2 DEF a, b
<1> QED
  BY <1>1, <1>2, <1>3, VolumesOf

LEMMA QueueVolumeReduced ==
  ASSUME NEW queue \in Queue, NEW c \in Queue, Len(c) = Len(queue),
         NEW k \in 1 .. Len(queue), NEW v \in Nat, c[k].volume = queue[k].volume - v,
         \A i \in 1 .. Len(queue) : i # k => c[i] = queue[i]
  PROVE  QueueVolume(c) = QueueVolume(queue) - v
<1> DEFINE S == 1 .. Len(queue)
           f == Volumes(queue)
           h == Volumes(c)
<1>1. /\ IsFiniteSet(S)
      /\ DOMAIN f = S /\ DOMAIN h = S
      /\ \A i \in S : f[i] \in Int /\ h[i] \in Int
      /\ \A i \in S \ {k} : h[i] = f[i]
      /\ h[k] = f[k] - v
  <2>1. DOMAIN f = S /\ \A i \in S : f[i] = queue[i].volume /\ f[i] \in Nat
    BY VolumesOf
  <2>2. DOMAIN h = S /\ \A i \in S : h[i] = c[i].volume /\ h[i] \in Nat
    BY VolumesOf
  <2>3. IsFiniteSet(S)
    BY VolumesOf, FS_Interval
  <2>4. k \in S /\ \A i \in S \ {k} : c[i] = queue[i]
    OBVIOUS
  <2> HIDE DEF S, f, h
  <2>5. \A i \in S \ {k} : h[i] = f[i]
    BY <2>1, <2>2, <2>4
  <2>6. h[k] = f[k] - v
    BY <2>1, <2>2, <2>4
  <2>7. \A i \in S : f[i] \in Int /\ h[i] \in Int
    BY <2>1, <2>2
  <2> QED
    BY <2>1, <2>2, <2>3, <2>5, <2>6, <2>7
<1>2. k \in S
  OBVIOUS
<1> HIDE DEF S, f, h
<1>3. SumFunctionOnSet(h, S) = SumFunctionOnSet(f, S) + (h[k] - f[k])
  <2>1. \A i \in S : f[i] \in Int /\ h[i] \in Int
    BY <1>1
  <2>2. \A i \in S \ {k} : h[i] = f[i]
    BY <1>1
  <2>3. IsFiniteSet(S)
    BY <1>1
  <2>4. \A y \in S :
          (\A x \in S \ {y} : h[x] = f[x]) =>
            SumFunctionOnSet(h, S) = SumFunctionOnSet(f, S) + (h[y] - f[y])
    BY <2>1, <2>3, SumUpdate
  <2> QED
    BY <1>2, <2>2, <2>4
<1>4. SumFunctionOnSet(f, S) \in Int
  BY <1>1, SumType
<1>5. SumFunctionOnSet(h, S) = SumFunctionOnSet(f, S) - v
  BY <1>1, <1>2, <1>3, <1>4
<1>6. /\ QueueVolume(queue) = SumFunctionOnSet(f, S)
      /\ QueueVolume(c) = SumFunctionOnSet(h, S)
  BY <1>1, VolumesOf DEF SumFunction, f, h
<1> QED
  BY <1>5, <1>6

LEMMA QueueVolumePrefix ==
  ASSUME NEW queue \in Queue, NEW m \in 1 .. Len(queue)
  PROVE  /\ SubSeq(queue, 1, m) \in Queue
         /\ QueueVolume(SubSeq(queue, 1, m)) <= QueueVolume(queue)
<1> DEFINE c == SubSeq(queue, 1, m)
<1>1. Len(queue) \in Nat /\ m \in 0 .. Len(queue)
  BY VolumesOf
<1>2. /\ c \in Queue
      /\ Len(c) = m
      /\ \A i \in 1 .. m : c[i] = queue[i]
  BY <1>1, SubSeqProperties DEF Queue
<1> HIDE DEF c
<1>3. /\ DOMAIN Volumes(queue) = 1 .. Len(queue)
      /\ \A i \in 1 .. Len(queue) : Volumes(queue)[i] \in Nat
      /\ DOMAIN Volumes(c) = 1 .. m
      /\ \A i \in 1 .. m : Volumes(c)[i] = Volumes(queue)[i]
  BY <1>1, <1>2, VolumesOf
<1>4. SumFunction(Volumes(c)) <= SumFunction(Volumes(queue))
  BY <1>1, <1>3, SumOfPrefix
<1>5. QueueVolume(c) <= QueueVolume(queue)
  BY <1>2, <1>4, VolumesOf
<1> QED
  BY <1>2, <1>5 DEF c

\* What a match leaves at a level is lower by what it takes.
LEMMA MatchTakes ==
  ASSUME NEW queue \in Queue, queue # <<>>, NEW v \in Nat, v <= queue[1].volume
  PROVE  LET left == IF v = queue[1].volume THEN Tail(queue) ELSE Decrement(queue, v)
         IN  left \in Queue /\ QueueVolume(left) = QueueVolume(queue) - v
<1>1. /\ Len(queue) \in Nat \ {0}
      /\ QueueVolume(queue) \in Nat
  BY EmptySeq, QueueVolumeType DEF Queue
<1>2. queue[1] \in OrderbookEntry
  BY <1>1, VolumesOf
<1>3. CASE v = queue[1].volume
  <2>1. /\ Tail(queue) \in Queue
        /\ QueueVolume(queue) = queue[1].volume + QueueVolume(Tail(queue))
    BY QueueVolumeTail
  <2>2. QueueVolume(Tail(queue)) \in Nat
    BY <2>1, QueueVolumeType
  <2> QED
    BY <1>1, <1>3, <2>1, <2>2
<1>4. CASE v # queue[1].volume
  <2> DEFINE c == Decrement(queue, v)
             e == [queue[1] EXCEPT !.volume = queue[1].volume - v]
  <2>1. e \in OrderbookEntry /\ e.volume = queue[1].volume - v
    <3>1. queue[1].volume \in 0 .. VolumeMod - 1
      BY <1>2 DEF OrderbookEntry, Volume
    <3>2. queue[1].volume - v \in Volume
      BY <3>1, OrderbookAssumption DEF Volume
    <3> QED
      BY <1>2, <3>2 DEF OrderbookEntry
  <2>2. c = [queue EXCEPT ![1] = e]
    BY DEF Decrement
  <2> HIDE DEF c, e
  <2>3. c \in Queue /\ Len(c) = Len(queue) /\ \A i \in 1 .. Len(queue) :
          c[i] = IF i = 1 THEN e ELSE queue[i]
    BY <1>1, <2>1, <2>2, ExceptSeq DEF Queue
  <2>4. 1 \in 1 .. Len(queue) /\ c[1].volume = queue[1].volume - v
    BY <1>1, <2>1, <2>3
  <2>5. QueueVolume(c) = QueueVolume(queue) - v
    BY <2>3, <2>4, QueueVolumeReduced
  <2> QED
    BY <1>4, <2>3, <2>5 DEF c
<1> QED
  BY <1>3, <1>4

(***************************************************************************)
(* FillOrKill and Market orders.  At every turn of the loop the levels     *)
(* ahead hold the volume still to be matched: the check before the loop    *)
(* establishes it (the sum may wrap around, but only to less), a match     *)
(* takes the same volume from both, and a level passed has none.           *)
(***************************************************************************)
AheadVolume == SumFunction([p \in Ahead |-> QueueVolume(book[Opposing(p)])])

VolumeSuffices ==
  step = "match" /\ taker.type \in {"FillOrKill", "Market"} => remaining <= AheadVolume

FillableInv == TypeOK /\ VolumeSuffices /\ FilledOrKilled

LEMMA FillableInit == Init => FillableInv
<1> SUFFICES ASSUME Init PROVE FillableInv
  OBVIOUS
<1>1. step = "idle"
  BY DEF Init
<1> QED
  BY <1>1, TypeInit DEF FillableInv, VolumeSuffices, FilledOrKilled

\* The levels that lie ahead, and their volumes.
LEMMA AheadType ==
  ASSUME TypeOK
  PROVE  /\ IsFiniteSet(Ahead)
         /\ \A p \in Ahead : /\ p \in Prices
                             /\ Opposing(p) \in DOMAIN book
                             /\ book[Opposing(p)] \in Queue
                             /\ QueueVolume(book[Opposing(p)]) \in Nat
<1>1. Ahead \subseteq Prices
  BY DEF Ahead, OpposingPrices, LevelPrices
<1>2. IsFiniteSet(Ahead)
  BY <1>1, OrderbookAssumption, FS_Subset
<1>3. \A p \in Ahead : Opposing(p) \in DOMAIN book
  BY DEF Ahead, OpposingPrices, LevelPrices, Opposing
<1>4. \A p \in Ahead : book[Opposing(p)] \in Queue
  BY <1>3, BookType DEF IsBook
<1> QED
  BY <1>1, <1>2, <1>3, <1>4, QueueVolumeType

\* What a volume check has summed up is within the limit.
LEMMA ScanIsWithin ==
  ASSUME TypeOK, NEW order \in Insertions, NEW p \in Scanned(order),
         NEW i \in 1 .. Len(book[Slot(order.pair, Other(order.side), p)])
  PROVE  LET Level(q) == Slot(order.pair, Other(order.side), q)
             within == {q \in LevelPrices(order.pair, Other(order.side)) :
                          WithinLimit(order, q)}
             sum == SumFunction([q \in within |-> QueueVolume(book[Level(q)])])
         IN  /\ VolumeUpTo(order, p, i) \in Nat
             /\ sum \in Int
             /\ VolumeUpTo(order, p, i) <= sum
<1> DEFINE Level(q) == Slot(order.pair, Other(order.side), q)
           within == {q \in LevelPrices(order.pair, Other(order.side)) :
                        WithinLimit(order, q)}
           f == [q \in within |-> QueueVolume(book[Level(q)])]
<1>2. i \in 1 .. Len(book[Level(p)])
  OBVIOUS
<1>3. within \subseteq Prices /\ Prices \subseteq Int /\ IsFiniteSet(within)
  BY OrderbookAssumption, FS_Subset DEF LevelPrices
<1>4. Scanned(order) \subseteq within
  <2> SUFFICES ASSUME NEW q \in Scanned(order) PROVE q \in within
    OBVIOUS
  <2>1. /\ q \in LevelPrices(order.pair, Other(order.side))
        /\ q <= q => WithinLimit(order, q)
    BY DEF Scanned
  <2>2. q \in Int
    BY <2>1, OrderbookAssumption DEF LevelPrices
  <2> QED
    BY <2>1, <2>2
<1>5. \A q \in within : /\ Level(q) \in DOMAIN book
                        /\ book[Level(q)] \in Queue
                        /\ QueueVolume(book[Level(q)]) \in Nat
  <2>1. \A q \in within : Level(q) \in DOMAIN book
    BY DEF LevelPrices
  <2>2. \A q \in within : book[Level(q)] \in Queue
    BY <2>1, BookType DEF IsBook
  <2> QED
    BY <2>1, <2>2, QueueVolumeType
<1> DEFINE below == {r \in Scanned(order) : r < p}
           g == [q \in below |-> QueueVolume(book[Level(q)])]
           part == QueueVolume(SubSeq(book[Level(p)], 1, i))
<1>6. VolumeUpTo(order, p, i) = SumFunction(g) + part
  BY DEF VolumeUpTo
<1>7. /\ below \subseteq within /\ p \in within /\ p \notin below
      /\ DOMAIN f = within /\ DOMAIN g = below
      /\ \A q \in within : f[q] \in Nat
      /\ \A q \in below : g[q] = f[q]
  <2>0. p \in within /\ p \in Int
    BY <1>3, <1>4
  <2>1. below \subseteq Scanned(order) /\ ~ (p < p)
    BY <2>0
  <2>2. below \subseteq within /\ p \in within /\ p \notin below
    BY <1>4, <2>0, <2>1
  <2>3. \A q \in within : f[q] \in Nat
    BY <1>5
  <2>4. \A q \in below : g[q] = f[q]
    BY <2>2
  <2> QED
    BY <2>2, <2>3, <2>4
<1>8. part \in Nat /\ part <= f[p]
  BY <1>2, <1>5, <1>7, QueueVolumePrefix, QueueVolumeType
<1> HIDE DEF Level, within, f, below, g, part
<1>10. IsFiniteSet(below) /\ IsFiniteSet(below \cup {p}) /\ below \cup {p} \subseteq within
  BY <1>3, <1>7, FS_Subset
<1>11. SumFunction(g) = SumFunctionOnSet(f, below)
  <2>1. SumFunctionOnSet(g, below) = SumFunctionOnSet(f, below)
    BY <1>7, <1>10, SumCongruence
  <2> QED
    BY <1>7, <2>1 DEF SumFunction
<1>12. /\ SumFunctionOnSet(f, below) \in Int /\ 0 <= SumFunctionOnSet(f, below)
       /\ SumFunctionOnSet(f, below \cup {p}) = f[p] + SumFunctionOnSet(f, below)
  <2>1. \A q \in below \cup {p} : f[q] \in Nat /\ f[q] \in Int
    BY <1>7
  <2>2. (below \cup {p}) \ {p} = below /\ p \in below \cup {p}
    BY <1>7
  <2>3. /\ SumFunctionOnSet(f, (below \cup {p}) \ {p}) \in Int
        /\ SumFunctionOnSet(f, below \cup {p})
             = f[p] + SumFunctionOnSet(f, (below \cup {p}) \ {p})
    BY <1>10, <2>1, <2>2, SumSplit
  <2>4. 0 <= SumFunctionOnSet(f, below)
    BY <1>10, <2>1, SumMonotone
  <2> QED
    BY <2>2, <2>3, <2>4
<1>13. SumFunctionOnSet(f, below \cup {p}) <= SumFunctionOnSet(f, within)
  BY <1>3, <1>7, <1>10, SumMonotone
<1>14. SumFunctionOnSet(f, within) \in Int
  <2>1. \A q \in within : f[q] \in Int
    BY <1>7
  <2> QED
    BY <1>3, <2>1, SumType
<1>15. VolumeUpTo(order, p, i) \in Nat /\ VolumeUpTo(order, p, i) <= SumFunctionOnSet(f, within)
  <2>1. VolumeUpTo(order, p, i) = SumFunctionOnSet(f, below) + part
    BY <1>6, <1>11
  <2>2. f[p] \in Nat
    BY <1>7
  <2> QED
    BY ONLY <1>8, <1>12, <1>13, <1>14, <2>1, <2>2
<1>16. SumFunctionOnSet(f, within) = SumFunction(f)
  BY <1>7 DEF SumFunction
<1>17. /\ VolumeUpTo(order, p, i) \in Nat
       /\ SumFunction(f) \in Int
       /\ VolumeUpTo(order, p, i) <= SumFunction(f)
  BY <1>14, <1>15, <1>16
<1> QED
  BY <1>17 DEF f, within, Level

\* The volume check: enough volume was scanned, all of it within the limit.
LEMMA CheckSuffices ==
  ASSUME TypeOK, NEW order \in Insertions, EnoughVolume(order)
  PROVE  LET Level(q) == Slot(order.pair, Other(order.side), q)
             within == {q \in LevelPrices(order.pair, Other(order.side)) :
                          WithinLimit(order, q)}
         IN  order.volume <= SumFunction([q \in within |-> QueueVolume(book[Level(q)])])
<1> DEFINE Level(q) == Slot(order.pair, Other(order.side), q)
           within == {q \in LevelPrices(order.pair, Other(order.side)) :
                        WithinLimit(order, q)}
           sum == SumFunction([q \in within |-> QueueVolume(book[Level(q)])])
<1>1. PICK p \in Scanned(order) : \E i \in 1 .. Len(book[Level(p)]) :
             VolumeUpTo(order, p, i) % VolumeMod >= order.volume
  BY DEF EnoughVolume
<1>2. PICK i \in 1 .. Len(book[Level(p)]) :
             VolumeUpTo(order, p, i) % VolumeMod >= order.volume
  BY <1>1
<1>3. /\ VolumeUpTo(order, p, i) \in Nat /\ sum \in Int
      /\ VolumeUpTo(order, p, i) <= sum
  BY ScanIsWithin
<1>4. order.volume \in Nat
  BY OrderbookAssumption, VolumesAreNaturals DEF OrderInsertionRequest
<1> HIDE DEF sum
<1>5. VolumeUpTo(order, p, i) % VolumeMod <= VolumeUpTo(order, p, i)
  BY <1>3, OrderbookAssumption
<1>6. order.volume <= sum
  BY <1>2, <1>3, <1>4, <1>5, OrderbookAssumption
<1> QED
  BY <1>6 DEF sum

LEMMA BeginFillable ==
  ASSUME FillableInv, NEW order \in Insertions, BeginInsert(order)
  PROVE  VolumeSuffices'
<1> SUFFICES ASSUME order.type \in {"FillOrKill", "Market"}
             PROVE  remaining' <= AheadVolume'
  BY DEF VolumeSuffices, BeginInsert
<1> DEFINE Level(q) == Slot(order.pair, Other(order.side), q)
           within == {q \in LevelPrices(order.pair, Other(order.side)) :
                        WithinLimit(order, q)}
<1>1. TypeOK /\ EnoughVolume(order)
  BY DEF FillableInv, BeginInsert, Killed
<1>2. order.volume <= SumFunction([q \in within |-> QueueVolume(book[Level(q)])])
  BY <1>1, CheckSuffices
<1>3. taker' = order /\ book' = book /\ visited' = {} /\ remaining' = order.volume
  BY DEF BeginInsert
<1>4. /\ Ahead' = within
      /\ \A q \in within : Opposing(q)' = Level(q)
  <2>1. LevelPrices(order.pair, Other(order.side))' = LevelPrices(order.pair, Other(order.side))
    BY <1>3 DEF LevelPrices
  <2> QED
    BY <1>3, <2>1 DEF Ahead, OpposingPrices, LevelPrices, WithinLimit, Opposing
<1> HIDE DEF within, Level
<1>5. AheadVolume' = SumFunction([q \in within |-> QueueVolume(book[Level(q)])])
  <2>1. AheadVolume' = SumFunction([q \in Ahead' |-> QueueVolume(book'[Opposing(q)'])])
    BY DEF AheadVolume, QueueVolume
  <2>2. [q \in Ahead' |-> QueueVolume(book'[Opposing(q)'])]
          = [q \in within |-> QueueVolume(book[Level(q)])]
    BY <1>3, <1>4
  <2> QED
    BY <2>1, <2>2
<1> QED
  BY <1>2, <1>3, <1>5

LEMMA FillKeepsFillable ==
  ASSUME FillableInv, NEW p \in Prices, Fill(p)
  PROVE  VolumeSuffices' /\ FilledOrKilled'
<1> DEFINE s == Opposing(p)
           v == Lesser(remaining, book[s][1].volume)
           left == IF v = book[s][1].volume THEN Tail(book[s]) ELSE Decrement(book[s], v)
           f == [q \in Ahead |-> QueueVolume(book[Opposing(q)])]
           h == [q \in Ahead |-> QueueVolume(book'[Opposing(q)])]
<1>1. TypeOK /\ step = "match" /\ p \in Ahead /\ s \in DOMAIN book /\ book[s] # <<>>
  BY NextLevelSlot DEF FillableInv, Fill, IsNext
<1>2. book[s] \in Queue /\ v \in Nat /\ v <= remaining /\ v <= book[s][1].volume
  BY <1>1, MakerType, VolumesAreNaturals
<1>3. left \in Queue /\ QueueVolume(left) = QueueVolume(book[s]) - v
  BY <1>1, <1>2, MatchTakes
<1>4. /\ book' = [book EXCEPT ![s] = left]
      /\ remaining' = remaining - v
      /\ UNCHANGED <<taker, visited>>
      /\ step' = "enter" => remaining' = 0
  BY DEF Fill
<1> HIDE DEF left, v
<1>5. DOMAIN book' = DOMAIN book
  BY <1>4
<1>6. Ahead' = Ahead /\ \A q : Opposing(q)' = Opposing(q)
  BY <1>4, <1>5, OpposingSame DEF Ahead, WithinLimit
<1>7. /\ \A q \in Ahead : Opposing(q) \in DOMAIN book /\ f[q] \in Int
      /\ IsFiniteSet(Ahead)
  BY <1>1, AheadType
<1>8. /\ \A q \in Ahead \ {p} : h[q] = f[q]
      /\ h[p] = f[p] - v
  <2>1. \A q \in Ahead \ {p} : Opposing(q) # s
    BY DEF Opposing, Slot
  <2>2. \A q \in Ahead \ {p} : book'[Opposing(q)] = book[Opposing(q)]
    BY <1>4, <1>7, <2>1
  <2>3. book'[s] = left
    BY <1>1, <1>4
  <2> QED
    BY <1>1, <1>3, <2>2, <2>3
<1>9. /\ AheadVolume = SumFunctionOnSet(f, Ahead)
      /\ AheadVolume' = SumFunctionOnSet(h, Ahead)
  <2>1. AheadVolume' = SumFunction([q \in Ahead' |-> QueueVolume(book'[Opposing(q)'])])
    BY DEF AheadVolume, QueueVolume
  <2>2. [q \in Ahead' |-> QueueVolume(book'[Opposing(q)'])] = h
    BY <1>6
  <2>3. AheadVolume' = SumFunction(h) /\ AheadVolume = SumFunction(f)
    BY <2>1, <2>2 DEF AheadVolume
  <2>4. DOMAIN f = Ahead /\ DOMAIN h = Ahead
    OBVIOUS
  <2> HIDE DEF f, h
  <2> QED
    BY <2>3, <2>4 DEF SumFunction
<1> HIDE DEF f, h
<1>10. \A q \in Ahead : f[q] \in Int /\ h[q] \in Int
  BY <1>1, <1>2, <1>7, <1>8
<1>11. AheadVolume' = AheadVolume - v
  <2>1. \A y \in Ahead :
          (\A x \in Ahead \ {y} : h[x] = f[x]) =>
            SumFunctionOnSet(h, Ahead) = SumFunctionOnSet(f, Ahead) + (h[y] - f[y])
    BY <1>7, <1>10, SumUpdate
  <2>2. SumFunctionOnSet(h, Ahead) = SumFunctionOnSet(f, Ahead) + (h[p] - f[p])
    BY <1>1, <1>8, <2>1
  <2>3. SumFunctionOnSet(f, Ahead) \in Int /\ f[p] \in Int
    BY <1>1, <1>7, SumType
  <2> QED
    BY <1>2, <1>8, <1>9, <2>2, <2>3
<1>12. AheadVolume \in Int /\ remaining \in Int
  <2>1. SumFunctionOnSet(f, Ahead) \in Int
    BY <1>7, SumType
  <2> QED
    BY <1>1, <1>9, <2>1, VolumesAreNaturals DEF TypeOK
<1> QED
  BY <1>1, <1>2, <1>4, <1>11, <1>12 DEF FillableInv, VolumeSuffices, FilledOrKilled

LEMMA PassKeepsFillable ==
  ASSUME FillableInv, NEW p \in Prices, PassLevel(p)
  PROVE  VolumeSuffices' /\ FilledOrKilled'
<1> DEFINE f == [q \in Ahead |-> QueueVolume(book[Opposing(q)])]
           h == [q \in Ahead \ {p} |-> QueueVolume(book[Opposing(q)])]
<1>1. TypeOK /\ step = "match" /\ p \in Ahead /\ book[Opposing(p)] = <<>>
  BY DEF FillableInv, PassLevel, IsNext
<1>2. /\ UNCHANGED <<book, taker, remaining>>
      /\ visited' = visited \cup {p}
      /\ step' = "enter" => remaining = 0
  BY DEF PassLevel
<1>3. Ahead' = Ahead \ {p} /\ \A q : Opposing(q)' = Opposing(q)
  BY <1>2, OpposingSame DEF Ahead, WithinLimit
<1>4. f[p] = 0
  BY <1>1, QueueVolumeEmpty
<1>5. /\ \A q \in Ahead : f[q] \in Int
      /\ IsFiniteSet(Ahead) /\ IsFiniteSet(Ahead \ {p})
  BY <1>1, AheadType, FS_Subset
<1>6. AheadVolume' = SumFunction(h) /\ AheadVolume = SumFunction(f)
  <2>1. AheadVolume' = SumFunction([q \in Ahead' |-> QueueVolume(book'[Opposing(q)'])])
    BY DEF AheadVolume, QueueVolume
  <2>2. [q \in Ahead' |-> QueueVolume(book'[Opposing(q)'])] = h
    BY <1>2, <1>3
  <2> QED
    BY <2>1, <2>2 DEF AheadVolume
<1>7. /\ DOMAIN f = Ahead /\ DOMAIN h = Ahead \ {p}
      /\ \A q \in Ahead \ {p} : f[q] \in Int /\ h[q] = f[q]
  BY <1>5
<1> HIDE DEF f, h
<1>8. /\ SumFunctionOnSet(f, Ahead \ {p}) \in Int
      /\ SumFunctionOnSet(f, Ahead) = f[p] + SumFunctionOnSet(f, Ahead \ {p})
  BY <1>1, <1>5, SumSplit
<1>9. SumFunctionOnSet(h, Ahead \ {p}) = SumFunctionOnSet(f, Ahead \ {p})
  BY <1>5, <1>7, SumCongruence
<1>10. AheadVolume' = AheadVolume
  BY <1>4, <1>6, <1>7, <1>8, <1>9 DEF SumFunction
<1> QED
  BY <1>1, <1>2, <1>10 DEF FillableInv, VolumeSuffices, FilledOrKilled

\* With nothing ahead there is nothing left to match.
LEMMA StopKeepsFillable ==
  ASSUME FillableInv, StopMatching
  PROVE  VolumeSuffices' /\ FilledOrKilled'
<1>1. step = "match" /\ step' = "enter" /\ UNCHANGED <<taker, remaining>> /\ Ahead = {}
  BY DEF StopMatching, insertionVars
<1>2. AheadVolume = 0
  BY <1>1, SumOfEmpty DEF AheadVolume
<1>3. remaining \in Nat
  BY VolumesAreNaturals DEF FillableInv, TypeOK
<1> QED
  BY <1>1, <1>2, <1>3 DEF FillableInv, VolumeSuffices, FilledOrKilled

LEMMA FillableStep == FillableInv /\ [Next]_vars => FillableInv'
<1> SUFFICES ASSUME FillableInv, [Next]_vars PROVE FillableInv'
  OBVIOUS
<1>0. TypeOK'
  BY TypeStep DEF FillableInv
<1>1. ASSUME VolumeSuffices', FilledOrKilled' PROVE FillableInv'
  BY <1>0, <1>1 DEF FillableInv
<1>2. ASSUME step' \in {"idle", "settle"} PROVE FillableInv'
  BY <1>1, <1>2 DEF VolumeSuffices, FilledOrKilled
<1>3. ASSUME NEW order \in Insertions, BeginInsert(order) PROVE FillableInv'
  <2>1. FilledOrKilled'
    BY <1>3 DEF BeginInsert, FilledOrKilled
  <2> QED
    BY <1>1, <1>3, <2>1, BeginFillable
<1>4. ASSUME NEW p \in Prices, Fill(p) PROVE FillableInv'
  BY <1>1, <1>4, FillKeepsFillable
<1>5. ASSUME NEW p \in Prices, AbortSelfTrade(p) PROVE FillableInv'
  BY <1>2, <1>5 DEF AbortSelfTrade
<1>6. ASSUME NEW p \in Prices, PassLevel(p) PROVE FillableInv'
  BY <1>1, <1>6, PassKeepsFillable
<1>7. CASE StopMatching
  BY <1>1, <1>7, StopKeepsFillable
<1>8. CASE EnterOrder \/ PopTransaction \/ FinishInsert
  BY <1>2, <1>8 DEF EnterOrder, PopTransaction, FinishInsert
<1>9. ASSUME NEW pair \in Pairs, AddMarket(pair) PROVE FillableInv'
  BY <1>2, <1>9 DEF AddMarket
<1>10. ASSUME NEW s \in Slots, NEW id \in 0 .. MaxOrders - 1,
              CancelOrder(s, id) \/ \E reduction \in Volume : ModifyOrder(s, id, reduction)
       PROVE  FillableInv'
  BY <1>2, <1>10 DEF CancelOrder, ModifyOrder
<1>11. CASE UNCHANGED vars
  <2>1. UNCHANGED <<book, step, taker, remaining, visited>>
    BY <1>11 DEF vars, insertionVars
  <2>2. AheadVolume' = AheadVolume
    BY <2>1 DEF AheadVolume, Ahead, OpposingPrices, LevelPrices, WithinLimit, Opposing,
                QueueVolume
  <2> QED
    BY <1>1, <2>1, <2>2 DEF FillableInv, VolumeSuffices, FilledOrKilled
<1> QED
  BY <1>3, <1>4, <1>5, <1>6, <1>7, <1>8, <1>9, <1>10, <1>11
  DEF Next, Advance, RefuseKilled, RefuseNotResting

\* An order that must be filled at once never rests: it is refused before the
\* loop, aborted by an order of its own account, or nothing of it remains.
THEOREM FilledOrKilledHolds == Spec => []FilledOrKilled
<1>1. FillableInv => FilledOrKilled
  BY DEF FillableInv
<1> QED
  BY <1>1, FillableInit, FillableStep, PTL DEF Spec

(***************************************************************************)
(* What holds as long as no insertion is aborted by a self-trade.  The     *)
(* aborted insertion forgets its taker, but neither the transactions it    *)
(* made nor the volume it took from its own order, nor the levels it       *)
(* emptied.                                                                *)
(***************************************************************************)
NoSelfTrade == \A p \in Prices : ~ AbortSelfTrade(p)

\* Every account trades a pair from one side only.
OneSidePerAccount ==
  \A q, r \in Insertions : q.account = r.account /\ q.pair = r.pair => q.side = r.side

\* The resting orders come from the requests that arrive.
SidesInv ==
  \A s \in DOMAIN book :
    \A i \in 1 .. Len(book[s]) :
      \E r \in Insertions :
        r.account = book[s][i].account /\ r.pair = s.pair /\ r.side = s.side

LEMMA ThinningKeepsSides ==
  ASSUME NEW b, IsBook(b), Thins(b, book), SidesInv,
         NEW s \in DOMAIN b, NEW i \in 1 .. Len(b[s])
  PROVE  \E r \in Insertions :
           r.account = b[s][i].account /\ r.pair = s.pair /\ r.side = s.side
<1>1. s \in DOMAIN book /\ Embeds(b[s], book[s])
  BY DEF Thins
<1>2. PICK k \in 1 .. Len(book[s]) : b[s][i].account = book[s][k].account
  BY <1>1 DEF Embeds, SameOrder
<1> QED
  BY <1>1, <1>2 DEF SidesInv

LEMMA EnterKeepsSides ==
  ASSUME TypeOK, SidesInv, EnterOrder
  PROVE  SidesInv'
<1> DEFINE own == Slot(taker.pair, taker.side, taker.price)
           c == Rest(CleanedBook, own, RestingEntry)
           n == LevelLength(CleanedBook, own)
<1>1. /\ IsBook(CleanedBook) /\ Thins(CleanedBook, book)
      /\ own \in Slots /\ RestingEntry \in OrderbookEntry
      /\ taker \in Insertions
  BY EnterType DEF EnterOrder, TypeOK
<1>2. CASE ~ (remaining > 0)
  <2>1. book' = CleanedBook
    BY <1>2 DEF EnterOrder
  <2> QED
    BY <1>1, <2>1, ThinningKeepsSides DEF SidesInv
<1>3. CASE remaining > 0
  <2>1. book' = c
    BY <1>3 DEF EnterOrder
  <2>2. /\ DOMAIN c = DOMAIN CleanedBook \cup {own}
        /\ \A t \in DOMAIN CleanedBook \ {own} : c[t] = CleanedBook[t]
        /\ n \in Nat
        /\ Len(c[own]) = n + 1
        /\ c[own][n + 1] = RestingEntry
        /\ \A i \in 1 .. n : c[own][i] = CleanedBook[own][i]
    BY <1>1, RestAppends, ZenonT(60)
  <2>3. own.pair = taker.pair /\ own.side = taker.side /\ RestingEntry.account = taker.account
    BY DEF Slot, RestingEntry
  <2>4. own \notin DOMAIN CleanedBook => n = 0
    BY DEF LevelLength
  <2>5. own \in DOMAIN CleanedBook => n = Len(CleanedBook[own])
    BY DEF LevelLength
  <2> HIDE DEF own, c, n
  <2> SUFFICES ASSUME NEW s \in DOMAIN c, NEW i \in 1 .. Len(c[s])
               PROVE  \E r \in Insertions :
                        r.account = c[s][i].account /\ r.pair = s.pair /\ r.side = s.side
    BY <2>1 DEF SidesInv
  <2>6. CASE s # own
    <3>1. s \in DOMAIN CleanedBook /\ c[s] = CleanedBook[s]
      BY <2>2, <2>6
    <3> QED
      BY <1>1, <3>1, ThinningKeepsSides
  <2>7. CASE s = own /\ i = n + 1
    BY <1>1, <2>2, <2>3, <2>7
  <2>8. CASE s = own /\ i # n + 1
    <3>1. i \in 1 .. n /\ n # 0
      BY <2>2, <2>8
    <3>2. own \in DOMAIN CleanedBook /\ i \in 1 .. Len(CleanedBook[own])
      BY <2>4, <2>5, <3>1
    <3>3. c[own][i] = CleanedBook[own][i]
      BY <2>2, <3>1
    <3>4. \E r \in Insertions : /\ r.account = CleanedBook[own][i].account
                                /\ r.pair = own.pair /\ r.side = own.side
      BY <1>1, <3>2, ThinningKeepsSides
    <3> QED
      BY <2>8, <3>3, <3>4
  <2> QED
    BY <2>6, <2>7, <2>8
<1> QED
  BY <1>2, <1>3

LEMMA SidesInit == Init => SidesInv
  BY DEF Init, SidesInv

LEMMA SidesStep == TypeOK /\ SidesInv /\ [Next]_vars => SidesInv'
<1> SUFFICES ASSUME TypeOK, SidesInv, [Next]_vars PROVE SidesInv'
  OBVIOUS
<1>1. ASSUME IsBook(book'), Thins(book', book) PROVE SidesInv'
  BY <1>1, ThinningKeepsSides DEF SidesInv
<1>2. ASSUME UNCHANGED book PROVE SidesInv'
  BY <1>2 DEF SidesInv
<1>3. ASSUME NEW pair \in Pairs, AddMarket(pair) PROVE SidesInv'
  BY <1>2, <1>3 DEF AddMarket
<1>4. ASSUME NEW order \in Insertions, BeginInsert(order) PROVE SidesInv'
  BY <1>2, <1>4 DEF BeginInsert
<1>5. ASSUME NEW p \in Prices, Fill(p) PROVE SidesInv'
  BY <1>1, <1>5, FillThins
<1>6. ASSUME NEW p \in Prices, AbortSelfTrade(p) PROVE SidesInv'
  BY <1>1, <1>6, AbortThins
<1>7. ASSUME NEW p \in Prices, PassLevel(p) PROVE SidesInv'
  BY <1>2, <1>7 DEF PassLevel
<1>8. CASE EnterOrder
  BY <1>8, EnterKeepsSides
<1>9. CASE StopMatching \/ PopTransaction \/ FinishInsert
  BY <1>2, <1>9 DEF StopMatching, PopTransaction, FinishInsert
<1>10. ASSUME NEW s \in Slots, NEW id \in 0 .. MaxOrders - 1, CancelOrder(s, id)
       PROVE  SidesInv'
  BY <1>1, <1>10, CancelThins
<1>11. ASSUME NEW s \in Slots, NEW id \in 0 .. MaxOrders - 1,
              NEW reduction \in Volume, ModifyOrder(s, id, reduction)
       PROVE  SidesInv'
  BY <1>1, <1>11, ModifyThins
<1>12. CASE UNCHANGED vars
  BY <1>2, <1>12 DEF vars
<1> QED
  BY <1>3, <1>4, <1>5, <1>6, <1>7, <1>8, <1>9, <1>10, <1>11, <1>12
  DEF Next, Advance, RefuseKilled, RefuseNotResting

\* Orders of one account on one side never meet.
LEMMA OneSideNeverAborts ==
  ASSUME OneSidePerAccount, TypeOK, SidesInv
  PROVE  NoSelfTrade
<1> SUFFICES ASSUME NEW p \in Prices, AbortSelfTrade(p) PROVE FALSE
  BY DEF NoSelfTrade
<1> DEFINE s == Opposing(p)
<1>1. s \in DOMAIN book /\ book[s] # <<>> /\ step = "match"
  BY NextLevelSlot DEF AbortSelfTrade
<1>2. 1 \in 1 .. Len(book[s])
  BY <1>1, MakerType
<1>3. /\ book[s][1].account = taker.account
      /\ s.pair = taker.pair /\ s.side = Other(taker.side)
      /\ taker \in Insertions /\ taker.side \in Side
  BY <1>1, TakerType DEF AbortSelfTrade, Opposing, Slot, TypeOK
<1>4. PICK r \in Insertions : r.account = taker.account /\ r.pair = taker.pair
                              /\ r.side = Other(taker.side)
  BY <1>1, <1>2, <1>3 DEF SidesInv
<1>5. r.side = taker.side
  BY <1>3, <1>4 DEF OneSidePerAccount
<1> QED
  BY <1>3, <1>4, <1>5 DEF Other, Side

\* When every account keeps to one side of a pair, as the accounts of
\* market_enforcers.py do, no insertion is ever aborted by a self-trade.
THEOREM OneSidedNeverSelfTrades ==
  ASSUME OneSidePerAccount PROVE Spec => [][NoSelfTrade]_vars
<1>1. TypeOK /\ SidesInv /\ [Next]_vars => [NoSelfTrade]_vars
  BY OneSideNeverAborts
<1> QED
  BY <1>1, TypeInit, TypeStep, SidesInit, SidesStep, PTL DEF Spec

(***************************************************************************)
(* The fills of an insertion add up.                                       *)
(***************************************************************************)
LEMMA AppendedVolume ==
  ASSUME TypeOK, NEW trade \in ObTransaction
  PROVE  /\ QueueVolume(transactionBuf) \in Int
         /\ QueueVolume(Append(transactionBuf, trade))
              = QueueVolume(transactionBuf) + trade.volume
<1> DEFINE n == Len(transactionBuf)
           c == Append(transactionBuf, trade)
<1>1. /\ n \in Nat /\ DOMAIN transactionBuf = 1 .. n
      /\ c \in Seq(ObTransaction) /\ DOMAIN c = 1 .. n + 1
      /\ c[n + 1] = trade
      /\ \A i \in 1 .. n : c[i] = transactionBuf[i]
  <2>1. transactionBuf \in Seq(ObTransaction)
    BY DEF TypeOK
  <2>2. n \in Nat /\ DOMAIN transactionBuf = 1 .. n
    BY <2>1, LenProperties
  <2>3. /\ c \in Seq(ObTransaction) /\ Len(c) = n + 1
        /\ c[n + 1] = trade
        /\ \A i \in 1 .. n : c[i] = transactionBuf[i]
    BY <2>1, AppendProperties
  <2>4. DOMAIN c = 1 .. n + 1
    BY <2>3, LenProperties
  <2> QED
    BY <2>2, <2>3, <2>4
<1>2. \A i \in 1 .. n + 1 : c[i].volume \in Int
  <2>1. \A e \in ObTransaction : e.volume \in Int
    BY VolumesAreNaturals DEF ObTransaction
  <2>2. \A i \in 1 .. Len(c) : c[i] \in ObTransaction
    BY <1>1, ElementOfSeq
  <2>3. Len(c) = n + 1
    BY AppendProperties DEF TypeOK
  <2> QED
    BY <2>1, <2>2, <2>3
<1>3. /\ DOMAIN Volumes(transactionBuf) = 1 .. n
      /\ DOMAIN Volumes(c) = 1 .. n + 1
      /\ \A i \in 1 .. n + 1 : Volumes(c)[i] = c[i].volume
      /\ \A i \in 1 .. n : Volumes(transactionBuf)[i] = transactionBuf[i].volume
  BY <1>1 DEF Volumes
<1> HIDE DEF c, n
<1>4. /\ \A i \in 1 .. n + 1 : Volumes(c)[i] \in Int
      /\ \A i \in 1 .. n : Volumes(c)[i] = Volumes(transactionBuf)[i]
      /\ Volumes(c)[n + 1] = trade.volume
  <2>1. \A i \in 1 .. n + 1 : Volumes(c)[i] \in Int
    BY <1>2, <1>3
  <2>2. \A i \in 1 .. n : i \in 1 .. n + 1
    BY <1>1
  <2>3. n + 1 \in 1 .. n + 1
    BY <1>1
  <2> QED
    BY <1>1, <1>3, <2>1, <2>2, <2>3
<1>5. /\ SumFunction(Volumes(transactionBuf)) \in Int
      /\ SumFunction(Volumes(c)) = SumFunction(Volumes(transactionBuf)) + Volumes(c)[n + 1]
  BY <1>1, <1>3, <1>4, SumOfAppended
<1> QED
  BY <1>4, <1>5 DEF QueueVolume, Volumes, c

BufferInv == step = "idle" => transactionBuf = <<>>

FillsInv == BufferInv /\ FillsAddUp

LEMMA FillsInit == Init => FillsInv
  BY DEF Init, FillsInv, BufferInv, FillsAddUp

LEMMA FillAddsUp ==
  ASSUME TypeOK, FillsInv, NEW p \in Prices, Fill(p)
  PROVE  FillsInv'
<1> DEFINE s == Opposing(p)
           v == Lesser(remaining, book[s][1].volume)
           trade == [price |-> p, volume |-> v, takerSide |-> taker.side,
                     maker |-> book[s][1].id, taker |-> nextId]
<1>1. s \in DOMAIN book /\ book[s] # <<>> /\ step = "match"
  BY NextLevelSlot DEF Fill
<1>2. v \in Volume /\ book[s][1] \in OrderbookEntry
  BY <1>1, MakerType
<1>3. trade \in ObTransaction
  BY <1>1, <1>2, TakerType DEF ObTransaction, OrderbookEntry, TypeOK
<1>4. /\ transactionBuf' = Append(transactionBuf, trade)
      /\ remaining' = remaining - v
      /\ taker' = taker
      /\ step' \in {"match", "enter"}
      /\ trade.volume = v
  BY DEF Fill
<1> HIDE DEF v, trade
<1>5. /\ QueueVolume(transactionBuf) \in Int
      /\ QueueVolume(transactionBuf') = QueueVolume(transactionBuf) + v
  BY <1>3, <1>4, AppendedVolume
<1>6. v \in Int /\ remaining \in Int
  BY <1>2, VolumesAreNaturals DEF TypeOK
<1>7. QueueVolume(transactionBuf) + remaining = taker.volume
  BY <1>1 DEF FillsInv, FillsAddUp
<1>8. QueueVolume(transactionBuf') + remaining' = taker'.volume
  BY <1>4, <1>5, <1>6, <1>7
<1>9. QueueVolume(transactionBuf)' = QueueVolume(transactionBuf')
  BY DEF QueueVolume
<1> QED
  BY <1>4, <1>8, <1>9 DEF FillsInv, FillsAddUp, BufferInv

LEMMA FillsStep == TypeOK /\ FillsInv /\ [Next]_vars /\ [NoSelfTrade]_vars => FillsInv'
<1> SUFFICES ASSUME TypeOK, FillsInv, [Next]_vars, [NoSelfTrade]_vars PROVE FillsInv'
  OBVIOUS
<1>1. ASSUME UNCHANGED <<step, taker, remaining, transactionBuf>> PROVE FillsInv'
  BY <1>1 DEF FillsInv, FillsAddUp, BufferInv, QueueVolume
<1>2. ASSUME step \in {"match", "enter"}, step' \in {"match", "enter"},
             UNCHANGED <<taker, remaining, transactionBuf>>
      PROVE  FillsInv'
  BY <1>2 DEF FillsInv, FillsAddUp, BufferInv, QueueVolume
<1>3. ASSUME NEW order \in Insertions, BeginInsert(order) PROVE FillsInv'
  <2>1. /\ transactionBuf = <<>> /\ transactionBuf' = <<>>
        /\ remaining' = order.volume /\ taker' = order /\ step' = "match"
    BY <1>3 DEF BeginInsert, FillsInv, BufferInv
  <2>2. order.volume \in Int
    BY OrderbookAssumption, VolumesAreNaturals DEF OrderInsertionRequest
  <2>3. QueueVolume(transactionBuf)' = 0
    BY <2>1, QueueVolumeEmpty DEF QueueVolume
  <2> QED
    BY <2>1, <2>2, <2>3 DEF FillsInv, FillsAddUp, BufferInv
<1>4. ASSUME NEW p \in Prices, Fill(p) PROVE FillsInv'
  BY <1>4, FillAddsUp
<1>5. ASSUME NEW p \in Prices, AbortSelfTrade(p) PROVE FillsInv'
  <2>1. vars' = vars
    BY <1>5 DEF NoSelfTrade
  <2> QED
    BY <1>1, <2>1 DEF vars, insertionVars
<1>6. ASSUME NEW p \in Prices, PassLevel(p) PROVE FillsInv'
  BY <1>2, <1>6 DEF PassLevel
<1>7. CASE StopMatching
  BY <1>2, <1>7 DEF StopMatching, insertionVars
<1>8. CASE EnterOrder \/ PopTransaction
  BY <1>8 DEF EnterOrder, PopTransaction, FillsInv, FillsAddUp, BufferInv
<1>9. CASE FinishInsert
  BY <1>9 DEF FinishInsert, FillsInv, FillsAddUp, BufferInv
<1>10. ASSUME NEW pair \in Pairs, AddMarket(pair) PROVE FillsInv'
  BY <1>1, <1>10 DEF AddMarket, insertionVars
<1>11. ASSUME NEW s \in Slots, NEW id \in 0 .. MaxOrders - 1,
              CancelOrder(s, id) \/ \E reduction \in Volume : ModifyOrder(s, id, reduction)
       PROVE  FillsInv'
  BY <1>1, <1>11 DEF CancelOrder, ModifyOrder, insertionVars
<1>12. CASE UNCHANGED vars
  BY <1>1, <1>12 DEF vars, insertionVars
<1> QED
  BY <1>3, <1>4, <1>5, <1>6, <1>7, <1>8, <1>9, <1>10, <1>11, <1>12
  DEF Next, Advance, RefuseKilled, RefuseNotResting

\* Unless an insertion is aborted by a self-trade, the transactions waiting to
\* be settled and the volume still to be matched make up the volume of the order.
THEOREM FillsAddUpHolds == Spec /\ [][NoSelfTrade]_vars => []FillsAddUp
<1>1. FillsInv => FillsAddUp
  BY DEF FillsInv
<1> QED
  BY <1>1, TypeInit, TypeStep, FillsInit, FillsStep, PTL DEF Spec

\* In particular when every account keeps to one side of a pair.
THEOREM FillsAddUpOneSided == ASSUME OneSidePerAccount PROVE Spec => []FillsAddUp
  BY OneSidedNeverSelfTrades, FillsAddUpHolds, PTL

(***************************************************************************)
(* Live quotes.  Every resting order has volume, and a level without       *)
(* orders is one that the iterator has left behind or stands at: unless an *)
(* abort keeps the loop from its clean-up, no empty level outlives it.     *)
(***************************************************************************)
Positive(b) == \A s \in DOMAIN b : \A i \in 1 .. Len(b[s]) : b[s][i].volume > 0

Emptied(s) ==
  \E p \in Prices :
    /\ s = Opposing(p)
    /\ p \in visited \/ (step = "match" /\ IsNext(p))

EmptyLevelsKnown ==
  \A s \in DOMAIN book :
    book[s] = <<>> => step \in {"match", "enter"} /\ Emptied(s)

LiveInv == Positive(book) /\ EmptyLevelsKnown

LEMMA LiveInit == Init => LiveInv
  BY DEF Init, LiveInv, Positive, EmptyLevelsKnown

\* The iterator stands at one level at a time.
LEMMA NextIsUnique ==
  ASSUME NEW p \in Prices, NEW q \in Prices, IsNext(p), IsNext(q)
  PROVE  p = q
<1> SUFFICES ASSUME p # q PROVE FALSE
  OBVIOUS
<1>1. Before(Other(taker.side), p, q) /\ Before(Other(taker.side), q, p)
  BY DEF IsNext
<1>2. p \in Int /\ q \in Int
  BY OrderbookAssumption
<1> QED
  BY <1>1, <1>2 DEF Before

\* What stays of a queue after taking v from its oldest order has volume.
LEMMA LeftIsPositive ==
  ASSUME NEW queue \in Queue, queue # <<>>, NEW v \in Nat, v <= queue[1].volume,
         \A i \in 1 .. Len(queue) : queue[i].volume > 0
  PROVE  LET left == IF v = queue[1].volume THEN Tail(queue) ELSE Decrement(queue, v)
         IN  \A i \in 1 .. Len(left) : left[i].volume > 0
<1>1. Len(queue) \in Nat \ {0} /\ 1 \in 1 .. Len(queue)
  BY EmptySeq DEF Queue
<1>2. CASE v = queue[1].volume
  <2>1. /\ Len(Tail(queue)) = Len(queue) - 1
        /\ \A j \in 1 .. Len(Tail(queue)) : Tail(queue)[j] = queue[j + 1]
    BY HeadTailProperties DEF Queue
  <2> QED
    BY <1>1, <1>2, <2>1
<1>3. CASE v # queue[1].volume
  <2> DEFINE e == [queue[1] EXCEPT !.volume = queue[1].volume - v]
             c == Decrement(queue, v)
  <2>1. queue[1] \in OrderbookEntry
    BY <1>1, ElementOfSeq DEF Queue
  <2>2. queue[1].volume \in 0 .. VolumeMod - 1
    BY <2>1 DEF OrderbookEntry, Volume
  <2>3. e \in OrderbookEntry /\ e.volume > 0
    <3>1. queue[1].volume - v \in Volume /\ queue[1].volume - v > 0
      BY <1>3, <2>2, OrderbookAssumption DEF Volume
    <3> QED
      BY <2>1, <3>1 DEF OrderbookEntry
  <2>4. c = [queue EXCEPT ![1] = e]
    BY DEF Decrement
  <2> HIDE DEF c, e
  <2>5. Len(c) = Len(queue) /\ \A i \in 1 .. Len(queue) : c[i] = IF i = 1 THEN e ELSE queue[i]
    BY <1>1, <2>3, <2>4, ExceptSeq DEF Queue
  <2>6. \A i \in 1 .. Len(c) : c[i].volume > 0
    BY <2>3, <2>5
  <2> QED
    BY <1>3, <2>6 DEF c
<1> QED
  BY <1>2, <1>3

LEMMA FillKeepsLive ==
  ASSUME TypeOK, LiveInv, NEW p \in Prices, Fill(p)
  PROVE  LiveInv'
<1> DEFINE s == Opposing(p)
           v == Lesser(remaining, book[s][1].volume)
           left == IF v = book[s][1].volume THEN Tail(book[s]) ELSE Decrement(book[s], v)
<1>1. s \in DOMAIN book /\ book[s] # <<>> /\ step = "match" /\ IsNext(p)
  BY NextLevelSlot DEF Fill
<1>2. book[s] \in Queue /\ v \in Nat /\ v <= book[s][1].volume
  BY <1>1, MakerType, VolumesAreNaturals
<1>3. \A i \in 1 .. Len(left) : left[i].volume > 0
  BY <1>1, <1>2, LeftIsPositive DEF LiveInv, Positive
<1>4. /\ book' = [book EXCEPT ![s] = left]
      /\ UNCHANGED <<taker, visited>>
      /\ step' \in {"match", "enter"}
      /\ left = <<>> => step' = "match"
  BY DEF Fill
<1> HIDE DEF left, v
<1>5. DOMAIN book' = DOMAIN book /\ book'[s] = left
      /\ \A t \in DOMAIN book \ {s} : book'[t] = book[t]
  BY <1>1, <1>4
<1>6. Positive(book)'
  BY <1>3, <1>5 DEF LiveInv, Positive
<1>7. /\ \A q : Opposing(q)' = Opposing(q)
      /\ Ahead' = Ahead
  BY <1>4, <1>5, OpposingSame DEF Ahead, WithinLimit
<1>8. ASSUME NEW t \in DOMAIN book, book'[t] = <<>> PROVE Emptied(t)'
  <2>1. CASE t = s
    <3>1. step' = "match" /\ t = Opposing(p)'
      BY <1>4, <1>5, <1>7, <1>8, <2>1
    <3>2. IsNext(p)'
      BY <1>1, <1>4, <1>7 DEF IsNext, Before
    <3> QED
      BY <3>1, <3>2 DEF Emptied
  <2>2. CASE t # s
    <3>1. book[t] = <<>>
      BY <1>5, <1>8, <2>2
    <3>2. PICK q \in Prices : t = Opposing(q) /\ (q \in visited \/ IsNext(q))
      BY <3>1 DEF LiveInv, EmptyLevelsKnown, Emptied
    <3>3. q \in visited
      BY <1>1, <2>2, <3>2, NextIsUnique
    <3> QED
      BY <1>4, <1>7, <3>2, <3>3 DEF Emptied
  <2> QED
    BY <2>1, <2>2
<1>9. EmptyLevelsKnown'
  BY <1>4, <1>5, <1>8 DEF EmptyLevelsKnown
<1> QED
  BY <1>6, <1>9 DEF LiveInv

LEMMA PassKeepsLive ==
  ASSUME TypeOK, LiveInv, NEW p \in Prices, PassLevel(p)
  PROVE  LiveInv'
<1>1. /\ IsNext(p) /\ step' \in {"match", "enter"}
      /\ UNCHANGED <<book, taker>> /\ visited' = visited \cup {p}
  BY DEF PassLevel
<1>2. \A q : Opposing(q)' = Opposing(q)
  BY <1>1, OpposingSame
<1>3. ASSUME NEW t \in DOMAIN book, book[t] = <<>> PROVE Emptied(t)'
  <2>1. PICK q \in Prices : t = Opposing(q) /\ (q \in visited \/ IsNext(q))
    BY <1>3 DEF LiveInv, EmptyLevelsKnown, Emptied
  <2>2. q \in visited'
    BY <1>1, <2>1, NextIsUnique
  <2> QED
    BY <1>2, <2>1, <2>2 DEF Emptied
<1> QED
  BY <1>1, <1>3 DEF LiveInv, EmptyLevelsKnown, Positive

LEMMA StopKeepsLive ==
  ASSUME LiveInv, StopMatching
  PROVE  LiveInv'
<1>1. /\ Ahead = {} /\ step' = "enter"
      /\ UNCHANGED <<book, taker, visited>>
  BY DEF StopMatching, insertionVars
<1>2. \A q : Opposing(q)' = Opposing(q)
  BY <1>1, OpposingSame
<1>3. ASSUME NEW t \in DOMAIN book, book[t] = <<>> PROVE Emptied(t)'
  <2>1. PICK q \in Prices : t = Opposing(q) /\ (q \in visited \/ IsNext(q))
    BY <1>3 DEF LiveInv, EmptyLevelsKnown, Emptied
  <2>2. q \in visited'
    BY <1>1, <2>1 DEF IsNext
  <2> QED
    BY <1>2, <2>1, <2>2 DEF Emptied
<1> QED
  BY <1>1, <1>3 DEF LiveInv, EmptyLevelsKnown, Positive

\* The clean-up removes every empty level, and what rests has volume.
LEMMA EnterKeepsLive ==
  ASSUME TypeOK, CrossInv, LiveInv, EnterOrder
  PROVE  LiveInv'
<1> DEFINE own == Slot(taker.pair, taker.side, taker.price)
           c == Rest(CleanedBook, own, RestingEntry)
           n == LevelLength(CleanedBook, own)
<1>1. /\ IsBook(CleanedBook) /\ own \in Slots /\ RestingEntry \in OrderbookEntry
      /\ step = "enter"
  BY EnterType DEF EnterOrder
<1>2. /\ DOMAIN CleanedBook = DOMAIN book \ {Opposing(p) : p \in visited}
      /\ \A s \in DOMAIN CleanedBook : CleanedBook[s] = book[s]
  BY <1>1, CleanedIsVisited DEF CleanedBook, CrossInv
<1>3. ASSUME NEW s \in DOMAIN CleanedBook
      PROVE  /\ CleanedBook[s] # <<>>
             /\ \A i \in 1 .. Len(CleanedBook[s]) : CleanedBook[s][i].volume > 0
  <2>1. book[s] # <<>>
    <3> SUFFICES ASSUME book[s] = <<>> PROVE FALSE
      OBVIOUS
    <3>1. PICK q \in Prices : s = Opposing(q) /\ q \in visited
      BY <1>1, <1>2 DEF LiveInv, EmptyLevelsKnown, Emptied
    <3> QED
      BY <1>2, <3>1
  <2> QED
    BY <1>2, <2>1 DEF LiveInv, Positive
<1>4. CASE ~ (remaining > 0)
  <2>1. book' = CleanedBook
    BY <1>4 DEF EnterOrder
  <2> QED
    BY <1>3, <2>1 DEF LiveInv, Positive, EmptyLevelsKnown
<1>5. CASE remaining > 0
  <2>1. book' = c
    BY <1>5 DEF EnterOrder
  <2>2. /\ DOMAIN c = DOMAIN CleanedBook \cup {own}
        /\ \A t \in DOMAIN CleanedBook \ {own} : c[t] = CleanedBook[t]
        /\ n \in Nat
        /\ Len(c[own]) = n + 1
        /\ c[own][n + 1] = RestingEntry
        /\ \A i \in 1 .. n : c[own][i] = CleanedBook[own][i]
    BY <1>1, RestAppends, ZenonT(60)
  <2>3. RestingEntry.volume > 0
    BY <1>5 DEF RestingEntry
  <2>4. own \notin DOMAIN CleanedBook => n = 0
    BY DEF LevelLength
  <2>5. own \in DOMAIN CleanedBook => n = Len(CleanedBook[own])
    BY DEF LevelLength
  <2> HIDE DEF own, c, n
  <2>6. ASSUME NEW s \in DOMAIN c
        PROVE  c[s] # <<>> /\ \A i \in 1 .. Len(c[s]) : c[s][i].volume > 0
    <3>1. CASE s # own
      BY <1>3, <2>2, <3>1
    <3>2. CASE s = own
      <4>1. c[own] # <<>>
        <5> SUFFICES ASSUME c[own] = <<>> PROVE FALSE
          OBVIOUS
        <5>1. Len(c[own]) = 0
          OBVIOUS
        <5> QED
          BY <2>2, <5>1
      <4>2. ASSUME NEW i \in 1 .. n + 1 PROVE c[own][i].volume > 0
        <5>1. CASE i = n + 1
          BY <2>2, <2>3, <5>1
        <5>2. CASE i # n + 1
          <6>1. i \in 1 .. n /\ n # 0
            BY <2>2, <5>2
          <6>2. own \in DOMAIN CleanedBook /\ i \in 1 .. Len(CleanedBook[own])
            BY <2>4, <2>5, <6>1
          <6> QED
            BY <1>3, <2>2, <6>1, <6>2
        <5> QED
          BY <5>1, <5>2
      <4> QED
        BY <2>2, <3>2, <4>1, <4>2
    <3> QED
      BY <3>1, <3>2
  <2> QED
    BY <2>1, <2>6 DEF LiveInv, Positive, EmptyLevelsKnown
<1> QED
  BY <1>4, <1>5

\* Between insertions every level has orders.
LEMMA RemoveKeepsLive ==
  ASSUME TypeOK, LiveInv, step = "idle", NEW s \in DOMAIN book,
         NEW i \in 1 .. Len(book[s]), book' = RemoveEntry(s, i)
  PROVE  LiveInv'
<1>1. \A t \in DOMAIN book : book[t] # <<>>
  BY DEF LiveInv, EmptyLevelsKnown
<1>2. CASE Len(book[s]) = 1
  <2>1. /\ DOMAIN book' \subseteq DOMAIN book
        /\ \A t \in DOMAIN book' : book'[t] = book[t]
    BY <1>2 DEF RemoveEntry
  <2> QED
    BY <1>1, <2>1 DEF LiveInv, Positive, EmptyLevelsKnown
<1>3. CASE Len(book[s]) # 1
  <2> DEFINE left == RemoveAt(book[s], i)
  <2>1. book[s] \in Queue /\ Len(book[s]) \in Nat
    BY LenProperties DEF TypeOK, Queue
  <2>2. /\ book' = [book EXCEPT ![s] = left]
        /\ \A j \in 1 .. Len(left) : \E k \in 1 .. Len(book[s]) \ {i} : left[j] = book[s][k]
    BY <1>3, <2>1, RemoveAtThins DEF RemoveEntry
  <2>3. left # <<>>
    <3>1. left = SubSeq(book[s], 1, i - 1) \o SubSeq(book[s], i + 1, Len(book[s]))
      BY DEF RemoveAt
    <3>2. Len(left) = Len(book[s]) - 1
      <4>1. \A j \in 1 .. Len(book[s]) : book[s][j] \in OrderbookEntry
        BY <2>1, ElementOfSeq DEF Queue
      <4>2. /\ SubSeq(book[s], 1, i - 1) \in Queue
            /\ Len(SubSeq(book[s], 1, i - 1)) = i - 1
        BY <2>1, <4>1, SubSeqProperties DEF Queue
      <4>3. /\ SubSeq(book[s], i + 1, Len(book[s])) \in Queue
            /\ Len(SubSeq(book[s], i + 1, Len(book[s]))) = Len(book[s]) - i
        BY <2>1, <4>1, SubSeqProperties DEF Queue
      <4>4. \A x, y \in Queue : Len(x \o y) = Len(x) + Len(y)
        BY ConcatProperties DEF Queue
      <4>5. Len(left) = Len(SubSeq(book[s], 1, i - 1)) + Len(SubSeq(book[s], i + 1, Len(book[s])))
        BY <3>1, <4>2, <4>3, <4>4
      <4>6. (i - 1) + (Len(book[s]) - i) = Len(book[s]) - 1
        BY <2>1
      <4>7. Len(left) = (i - 1) + (Len(book[s]) - i)
        BY <4>2, <4>3, <4>5, Zenon
      <4> HIDE DEF left
      <4> QED
        BY <4>6, <4>7
    <3> HIDE DEF left
    <3> SUFFICES ASSUME left = <<>> PROVE FALSE
      OBVIOUS
    <3>3. Len(left) = 0
      OBVIOUS
    <3> QED
      BY <1>3, <2>1, <3>2, <3>3
  <2> HIDE DEF left
  <2>4. \A t \in DOMAIN book' : book'[t] = IF t = s THEN left ELSE book[t]
    BY <2>2
  <2>5. \A j \in 1 .. Len(left) : left[j].volume > 0
    BY <2>2 DEF LiveInv, Positive
  <2> QED
    BY <1>1, <2>2, <2>3, <2>4, <2>5 DEF LiveInv, Positive, EmptyLevelsKnown
<1> QED
  BY <1>2, <1>3

LEMMA ModifyKeepsLive ==
  ASSUME TypeOK, LiveInv, NEW s \in Slots, NEW id \in 0 .. MaxOrders - 1,
         NEW reduction \in Volume, ModifyOrder(s, id, reduction)
  PROVE  LiveInv'
<1>1. PICK i \in Positions(s, id) :
        book' = IF reduction >= book[s][i].volume
                  THEN RemoveEntry(s, i)
                  ELSE [book EXCEPT ![s][i].volume = @ - reduction]
  BY DEF ModifyOrder
<1>2. s \in DOMAIN book /\ i \in 1 .. Len(book[s]) /\ book[s] \in Queue /\ step = "idle"
  BY DEF ModifyOrder, Positions, TypeOK, Queue
<1>3. CASE reduction >= book[s][i].volume
  BY <1>1, <1>2, <1>3, RemoveKeepsLive
<1>4. CASE ~ (reduction >= book[s][i].volume)
  <2> DEFINE e == [book[s][i] EXCEPT !.volume = book[s][i].volume - reduction]
             c == [book[s] EXCEPT ![i] = e]
  <2>1. book[s][i] \in OrderbookEntry
    BY <1>2, ElementOfSeq DEF Queue
  <2>2. e.volume > 0 /\ e \in OrderbookEntry
    <3>1. book[s][i].volume \in 0 .. VolumeMod - 1
      BY <2>1 DEF OrderbookEntry, Volume
    <3>2. reduction \in 0 .. VolumeMod - 1
      BY DEF Volume
    <3>3. /\ book[s][i].volume - reduction \in Volume
          /\ book[s][i].volume - reduction > 0
      BY <1>4, <3>1, <3>2, OrderbookAssumption DEF Volume
    <3> QED
      BY <2>1, <3>3 DEF OrderbookEntry
  <2>3. book' = [book EXCEPT ![s] = c]
    BY <1>1, <1>4
  <2>4. \A t \in DOMAIN book : book[t] # <<>>
    BY <1>2 DEF LiveInv, EmptyLevelsKnown
  <2> HIDE DEF e
  <2>5. Len(c) = Len(book[s]) /\ \A j \in 1 .. Len(book[s]) : c[j] = IF j = i THEN e ELSE book[s][j]
    BY <1>2, <2>2, ExceptSeq DEF Queue
  <2> HIDE DEF c
  <2>6. c # <<>>
    <3> SUFFICES ASSUME c = <<>> PROVE FALSE
      OBVIOUS
    <3>1. Len(c) = 0
      OBVIOUS
    <3> QED
      BY <1>2, <2>5, <3>1
  <2>7. \A j \in 1 .. Len(c) : c[j].volume > 0
    BY <1>2, <2>2, <2>5 DEF LiveInv, Positive
  <2>8. \A t \in DOMAIN book' : book'[t] = IF t = s THEN c ELSE book[t]
    BY <2>3
  <2>9. DOMAIN book' = DOMAIN book
    BY <2>3
  <2> QED
    BY <2>4, <2>6, <2>7, <2>8, <2>9 DEF LiveInv, Positive, EmptyLevelsKnown
<1> QED
  BY <1>3, <1>4

LEMMA LiveStep ==
  TypeOK /\ CrossInv /\ LiveInv /\ [Next]_vars /\ [NoSelfTrade]_vars => LiveInv'
<1> SUFFICES ASSUME TypeOK, CrossInv, LiveInv, [Next]_vars, [NoSelfTrade]_vars
             PROVE  LiveInv'
  OBVIOUS
<1>1. ASSUME step \notin {"match", "enter"}, UNCHANGED book PROVE LiveInv'
  BY <1>1 DEF LiveInv, Positive, EmptyLevelsKnown
<1>2. CASE UNCHANGED vars
  BY <1>2 DEF vars, insertionVars, LiveInv, Positive, EmptyLevelsKnown, Emptied,
              Opposing, IsNext, Ahead, OpposingPrices, LevelPrices, WithinLimit, Before
<1>3. ASSUME NEW order \in Insertions, BeginInsert(order) PROVE LiveInv'
  BY <1>1, <1>3 DEF BeginInsert
<1>4. ASSUME NEW p \in Prices, Fill(p) PROVE LiveInv'
  BY <1>4, FillKeepsLive
<1>5. ASSUME NEW p \in Prices, AbortSelfTrade(p) PROVE LiveInv'
  <2>1. vars' = vars
    BY <1>5 DEF NoSelfTrade
  <2> QED
    BY <1>2, <2>1
<1>6. ASSUME NEW p \in Prices, PassLevel(p) PROVE LiveInv'
  BY <1>6, PassKeepsLive
<1>7. CASE StopMatching
  BY <1>7, StopKeepsLive
<1>8. CASE EnterOrder
  BY <1>8, EnterKeepsLive
<1>9. CASE PopTransaction \/ FinishInsert
  BY <1>1, <1>9 DEF PopTransaction, FinishInsert
<1>10. ASSUME NEW pair \in Pairs, AddMarket(pair) PROVE LiveInv'
  BY <1>1, <1>10 DEF AddMarket
<1>11. ASSUME NEW s \in Slots, NEW id \in 0 .. MaxOrders - 1, CancelOrder(s, id)
       PROVE  LiveInv'
  BY <1>11, RemoveKeepsLive DEF CancelOrder, Positions
<1>12. ASSUME NEW s \in Slots, NEW id \in 0 .. MaxOrders - 1,
              NEW reduction \in Volume, ModifyOrder(s, id, reduction)
       PROVE  LiveInv'
  BY <1>12, ModifyKeepsLive
<1> QED
  BY <1>2, <1>3, <1>4, <1>5, <1>6, <1>7, <1>8, <1>9, <1>10, <1>11, <1>12
  DEF Next, Advance, RefuseKilled, RefuseNotResting

\* The volume of every level fits in the u32 that get_l1 and get_l2 add it up in.
LevelsFit == \A s \in DOMAIN book : QueueVolume(book[s]) < VolumeMod

LEMMA PositiveVolume ==
  ASSUME NEW queue \in Queue, queue # <<>>,
         \A i \in 1 .. Len(queue) : queue[i].volume > 0
  PROVE  QueueVolume(queue) > 0
<1>1. Len(queue) \in Nat \ {0} /\ 1 \in 1 .. Len(queue)
  BY EmptySeq DEF Queue
<1>2. /\ Tail(queue) \in Queue
      /\ QueueVolume(queue) = queue[1].volume + QueueVolume(Tail(queue))
  BY QueueVolumeTail
<1>3. QueueVolume(Tail(queue)) \in Nat
  BY <1>2, QueueVolumeType
<1>4. queue[1].volume \in Nat /\ queue[1].volume > 0
  BY <1>1, VolumesOf
<1> QED
  BY <1>2, <1>3, <1>4

LEMMA LiveQuotes == TypeOK /\ LiveInv /\ LevelsFit => QuotesAreLive
<1> SUFFICES ASSUME TypeOK, LiveInv, LevelsFit, step = "idle",
                    NEW pair \in Pairs, NEW side \in Side,
                    NEW p \in LevelPrices(pair, side)
             PROVE  QueueVolume(book[Slot(pair, side, p)]) % VolumeMod > 0
  BY DEF QuotesAreLive, L2
<1> DEFINE s == Slot(pair, side, p)
<1>1. s \in DOMAIN book
  BY DEF LevelPrices
<1>2. book[s] \in Queue /\ book[s] # <<>>
  BY <1>1 DEF TypeOK, LiveInv, EmptyLevelsKnown, Queue
<1>3. \A i \in 1 .. Len(book[s]) : book[s][i].volume > 0
  BY <1>1 DEF LiveInv, Positive
<1>4. QueueVolume(book[s]) \in Nat /\ QueueVolume(book[s]) > 0
  BY <1>2, <1>3, QueueVolumeType, PositiveVolume
<1>5. QueueVolume(book[s]) < VolumeMod
  BY <1>1 DEF LevelsFit
<1> HIDE DEF s
<1>6. QueueVolume(book[s]) % VolumeMod = QueueVolume(book[s])
  BY <1>4, <1>5, OrderbookAssumption
<1> QED
  BY <1>4, <1>6 DEF s

\* Unless an insertion is aborted by a self-trade or the volumes at a level wrap
\* around, every level that L1 and L2 show between commands has volume.
THEOREM QuotesAreLiveHolds == Spec /\ [][NoSelfTrade]_vars /\ []LevelsFit => []QuotesAreLive
  BY LiveQuotes, TypeInit, TypeStep, CrossInit, CrossStep, LiveInit, LiveStep, PTL DEF Spec

(***************************************************************************)
(* The volume of a whole book, and a bound on it: an order adds its volume *)
(* once, and nothing else adds any.                                        *)
(***************************************************************************)
BookVolume(b) == SumFunction([s \in DOMAIN b |-> QueueVolume(b[s])])

\* Removing an order takes its volume from the queue.
LEMMA QueueVolumeRemoved ==
  ASSUME NEW queue \in Queue, NEW i \in 1 .. Len(queue)
  PROVE  /\ RemoveAt(queue, i) \in Queue
         /\ QueueVolume(RemoveAt(queue, i)) = QueueVolume(queue) - queue[i].volume
<1> DEFINE c == RemoveAt(queue, i)
           n == Len(queue)
           S == 1 .. n - 1
           R == (1 .. n) \ {i}
           b == [j \in S |-> IF j < i THEN j ELSE j + 1]
           f == Volumes(queue)
           h == Volumes(c)
<1>1. /\ n \in Nat \ {0} /\ DOMAIN f = 1 .. n
      /\ \A j \in 1 .. n : f[j] = queue[j].volume /\ f[j] \in Int
      /\ QueueVolume(queue) = SumFunction(f)
  BY VolumesOf
<1>2. c \in Queue /\ Len(c) = n - 1 /\ \A j \in S : c[j] = queue[b[j]]
  <2>1. n \in Nat /\ queue \in Seq(OrderbookEntry) /\ i \in 1 .. n
    BY <1>1 DEF Queue
  <2>2. \A j \in 1 .. n : queue[j] \in OrderbookEntry
    BY <2>1, ElementOfSeq
  <2> DEFINE x == SubSeq(queue, 1, i - 1)
             y == SubSeq(queue, i + 1, n)
  <2>3. x \in Queue /\ Len(x) = i - 1 /\ \A j \in 1 .. i - 1 : x[j] = queue[j]
    BY <2>1, <2>2, SubSeqProperties DEF Queue
  <2>4. y \in Queue /\ Len(y) = n - i /\ \A j \in 1 .. n - i : y[j] = queue[i + j]
    BY <2>1, <2>2, SubSeqProperties DEF Queue
  <2>5. c = x \o y
    BY DEF RemoveAt
  <2> HIDE DEF x, y
  <2>6. /\ x \o y \in Queue
        /\ Len(x \o y) = Len(x) + Len(y)
        /\ \A j \in 1 .. Len(x) + Len(y) :
             (x \o y)[j] = IF j <= Len(x) THEN x[j] ELSE y[j - Len(x)]
    BY <2>3, <2>4, ConcatProperties DEF Queue
  <2>7. Len(x) + Len(y) = n - 1
    BY <2>1, <2>3, <2>4
  <2>8. ASSUME NEW j \in S PROVE (x \o y)[j] = queue[b[j]]
    <3>1. CASE j < i
      BY <2>1, <2>3, <2>6, <2>7, <3>1
    <3>2. CASE ~ (j < i)
      <4>1. j - (i - 1) \in 1 .. n - i /\ i + (j - (i - 1)) = j + 1
        BY <2>1, <3>2
      <4>2. (x \o y)[j] = y[j - (i - 1)]
        BY <2>1, <2>3, <2>6, <2>7, <3>2
      <4> QED
        BY <2>4, <3>2, <4>1, <4>2
    <3> QED
      BY <3>1, <3>2
  <2> HIDE DEF c, n
  <2> QED
    BY <2>5, <2>6, <2>7, <2>8
<1>3. DOMAIN h = S /\ \A j \in S : h[j] = c[j].volume /\ h[j] \in Int
  <2> HIDE DEF c
  <2> QED
    BY <1>2, VolumesOf
<1>4. b \in Bijection(S, R)
  <2>1. n \in Nat \ {0} /\ i \in 1 .. n
    BY <1>1
  <2> HIDE DEF n
  <2>2. \A j \in S : b[j] \in R
    BY <2>1
  <2>3. \A j, k \in S : b[j] = b[k] => j = k
    BY <2>1
  <2>4. ASSUME NEW k \in R PROVE \E j \in S : b[j] = k
    <3>1. CASE k < i
      <4>1. k \in S
        BY <2>1, <3>1
      <4> QED
        BY <3>1, <4>1
    <3>2. CASE ~ (k < i)
      <4>1. k - 1 \in S /\ ~ (k - 1 < i)
        BY <2>1, <3>2
      <4>2. b[k - 1] = k
        BY <4>1
      <4> QED
        BY <4>1, <4>2
    <3> QED
      BY <3>1, <3>2
  <2>5. b \in [S -> R]
    BY <2>2
  <2> HIDE DEF b, S, R
  <2> QED
    BY <2>3, <2>4, <2>5 DEF Bijection, Injection, IsInjective, Surjection
<1>5. /\ IsFiniteSet(S) /\ IsFiniteSet(1 .. n) /\ IsFiniteSet(R)
      /\ \A j \in S : h[j] = f[b[j]]
      /\ \A j \in R : f[j] \in Int
      /\ i \in 1 .. n /\ R = (1 .. n) \ {i}
  <2>1. IsFiniteSet(S) /\ IsFiniteSet(1 .. n)
    BY <1>1, FS_Interval
  <2>2. IsFiniteSet(R)
    BY <2>1, FS_Subset
  <2>3. \A j \in S : b[j] \in 1 .. n
    BY <1>1
  <2>4. \A j \in S : h[j] = f[b[j]]
    <3> HIDE DEF b, f, h, c
    <3> QED
      BY <1>1, <1>2, <1>3, <2>3
  <2> QED
    BY <1>1, <2>1, <2>2, <2>4
<1> HIDE DEF S, R, b, f, h
<1>6. SumFunctionOnSet(h, S) = SumFunctionOnSet(f, R)
  BY <1>4, <1>5, SumRenamed
<1>7. /\ SumFunctionOnSet(f, R) \in Int
      /\ SumFunctionOnSet(f, 1 .. n) = f[i] + SumFunctionOnSet(f, R)
  BY <1>1, <1>5, SumSplit
<1>8. QueueVolume(c) = SumFunction(h)
  <2> HIDE DEF c
  <2> QED
    BY <1>2, VolumesOf DEF h
<1>9. SumFunction(h) = SumFunctionOnSet(h, S) /\ SumFunction(f) = SumFunctionOnSet(f, 1 .. n)
  BY <1>1, <1>3 DEF SumFunction
<1>10. f[i] = queue[i].volume /\ f[i] \in Int
  BY <1>1, <1>5
<1> QED
  BY <1>1, <1>2, <1>6, <1>7, <1>8, <1>9, <1>10

\* Appending an order adds its volume.
LEMMA QueueVolumeAppended ==
  ASSUME NEW queue \in Queue, NEW entry \in OrderbookEntry
  PROVE  QueueVolume(Append(queue, entry)) = QueueVolume(queue) + entry.volume
<1> DEFINE n == Len(queue)
           c == Append(queue, entry)
<1>1. c \in Queue /\ n \in Nat /\ Len(c) = n + 1 /\ c[n + 1] = entry
      /\ \A i \in 1 .. n : c[i] = queue[i]
  BY AppendProperties, LenProperties DEF Queue
<1>2. /\ DOMAIN Volumes(queue) = 1 .. n
      /\ \A i \in 1 .. n : Volumes(queue)[i] = queue[i].volume
      /\ QueueVolume(queue) = SumFunction(Volumes(queue))
  BY VolumesOf
<1> HIDE DEF c, n
<1>3. /\ DOMAIN Volumes(c) = 1 .. n + 1
      /\ \A i \in 1 .. n + 1 : Volumes(c)[i] = c[i].volume /\ Volumes(c)[i] \in Int
      /\ QueueVolume(c) = SumFunction(Volumes(c))
  BY <1>1, VolumesOf
<1>4. (\A i \in 1 .. n : i \in 1 .. n + 1) /\ n + 1 \in 1 .. n + 1
  BY <1>1
<1>5. \A i \in 1 .. n : Volumes(c)[i] = Volumes(queue)[i]
  BY <1>1, <1>2, <1>3, <1>4
<1>6. SumFunction(Volumes(c)) = SumFunction(Volumes(queue)) + Volumes(c)[n + 1]
  BY <1>1, <1>2, <1>3, <1>5, SumOfAppended
<1> QED
  BY <1>1, <1>2, <1>3, <1>4, <1>6 DEF c

LEMMA LevelVolumes ==
  ASSUME NEW b, IsBook(b)
  PROVE  \A s \in DOMAIN b : QueueVolume(b[s]) \in Nat /\ QueueVolume(b[s]) \in Int
  BY QueueVolumeType DEF IsBook

LEMMA BookVolumeType ==
  ASSUME NEW b, IsBook(b), IsFiniteSet(DOMAIN b)
  PROVE  BookVolume(b) \in Nat /\ \A s \in DOMAIN b : QueueVolume(b[s]) <= BookVolume(b)
<1> DEFINE f == [s \in DOMAIN b |-> QueueVolume(b[s])]
<1>1. DOMAIN f = DOMAIN b /\ \A s \in DOMAIN b : f[s] \in Nat /\ f[s] = QueueVolume(b[s])
  BY LevelVolumes
<1>2. BookVolume(b) = SumFunctionOnSet(f, DOMAIN b)
  <2>1. BookVolume(b) = SumFunction(f)
    BY DEF BookVolume
  <2> HIDE DEF f
  <2> QED
    BY <1>1, <2>1 DEF SumFunction
<1> HIDE DEF f
<1>3. SumFunctionOnSet(f, DOMAIN b) \in Int /\ 0 <= SumFunctionOnSet(f, DOMAIN b)
  BY <1>1, SumType, SumMonotone
<1>4. \A s \in DOMAIN b : f[s] <= SumFunctionOnSet(f, DOMAIN b)
  BY <1>1, SumMember
<1> QED
  BY <1>1, <1>2, <1>3, <1>4

LEMMA BookVolumeUpdated ==
  ASSUME NEW b, IsBook(b), IsFiniteSet(DOMAIN b), NEW s \in DOMAIN b, NEW c \in Queue
  PROVE  BookVolume([b EXCEPT ![s] = c])
           = BookVolume(b) + (QueueVolume(c) - QueueVolume(b[s]))
<1> DEFINE d == [b EXCEPT ![s] = c]
           f == [t \in DOMAIN b |-> QueueVolume(b[t])]
           h == [t \in DOMAIN b |-> QueueVolume(d[t])]
<1>1. /\ \A t \in DOMAIN b : f[t] \in Int /\ h[t] \in Int
      /\ \A t \in DOMAIN b \ {s} : h[t] = f[t]
      /\ f[s] = QueueVolume(b[s]) /\ h[s] = QueueVolume(c)
      /\ DOMAIN f = DOMAIN b /\ DOMAIN h = DOMAIN b
  <2>1. QueueVolume(c) \in Int
    BY QueueVolumeType
  <2>2. \A t \in DOMAIN b : QueueVolume(b[t]) \in Int
    BY LevelVolumes
  <2> QED
    BY <2>1, <2>2
<1>2. BookVolume(b) = SumFunction(f) /\ BookVolume(d) = SumFunction(h)
  BY DEF BookVolume
<1> HIDE DEF f, h, d
<1>3. SumFunctionOnSet(h, DOMAIN b) = SumFunctionOnSet(f, DOMAIN b) + (h[s] - f[s])
  BY <1>1, SumUpdate
<1>4. SumFunction(f) = SumFunctionOnSet(f, DOMAIN b) /\ SumFunction(h) = SumFunctionOnSet(h, DOMAIN b)
  BY <1>1 DEF SumFunction
<1> QED
  BY <1>1, <1>2, <1>3, <1>4 DEF d

LEMMA BookVolumeDropped ==
  ASSUME NEW b, IsBook(b), IsFiniteSet(DOMAIN b), NEW D
  PROVE  LET c == [t \in DOMAIN b \ D |-> b[t]]
         IN  IsFiniteSet(DOMAIN c) /\ BookVolume(c) <= BookVolume(b)
<1> DEFINE c == [t \in DOMAIN b \ D |-> b[t]]
           T == DOMAIN b \ D
           f == [t \in DOMAIN b |-> QueueVolume(b[t])]
           h == [t \in T |-> QueueVolume(c[t])]
<1>1. /\ T \subseteq DOMAIN b /\ IsFiniteSet(T) /\ DOMAIN c = T
      /\ \A t \in DOMAIN b : f[t] \in Nat
      /\ \A t \in T : f[t] \in Int /\ h[t] = f[t]
      /\ DOMAIN f = DOMAIN b /\ DOMAIN h = T
  BY LevelVolumes, FS_Subset
<1>2. BookVolume(b) = SumFunction(f) /\ BookVolume(c) = SumFunction(h)
  BY DEF BookVolume
<1> HIDE DEF f, h, c, T
<1>3. SumFunctionOnSet(h, T) = SumFunctionOnSet(f, T)
  BY <1>1, SumCongruence
<1>4. SumFunctionOnSet(f, T) <= SumFunctionOnSet(f, DOMAIN b)
  BY <1>1, SumMonotone
<1>5. SumFunction(f) = SumFunctionOnSet(f, DOMAIN b) /\ SumFunction(h) = SumFunctionOnSet(h, T)
  BY <1>1 DEF SumFunction
<1> QED
  BY <1>1, <1>2, <1>3, <1>4, <1>5 DEF c

LEMMA BookVolumeRested ==
  ASSUME NEW b, IsBook(b), IsFiniteSet(DOMAIN b), NEW s \in Slots,
         NEW entry \in OrderbookEntry
  PROVE  /\ IsFiniteSet(DOMAIN Rest(b, s, entry))
         /\ BookVolume(Rest(b, s, entry)) = BookVolume(b) + entry.volume
<1> DEFINE c == Rest(b, s, entry)
           S == DOMAIN b \cup {s}
<1>1. DOMAIN c = S /\ IsFiniteSet(S) /\ IsBook(c)
  BY RestAppends, FS_AddElement
<1>2. entry.volume \in Nat
  BY VolumesAreNaturals DEF OrderbookEntry
<1>3. CASE s \in DOMAIN b
  <2>1. c = [b EXCEPT ![s] = Append(b[s], entry)]
    BY <1>3 DEF Rest
  <2>2. b[s] \in Queue /\ Append(b[s], entry) \in Queue
    BY <1>3, AppendProperties DEF IsBook, Queue
  <2>3. QueueVolume(Append(b[s], entry)) = QueueVolume(b[s]) + entry.volume
    BY <2>2, QueueVolumeAppended
  <2>4. BookVolume(c) = BookVolume(b) + (QueueVolume(Append(b[s], entry)) - QueueVolume(b[s]))
    BY <1>3, <2>1, <2>2, BookVolumeUpdated
  <2>5. BookVolume(b) \in Int /\ QueueVolume(b[s]) \in Int
    BY <2>2, BookVolumeType, QueueVolumeType
  <2> QED
    BY <1>1, <1>2, <2>3, <2>4, <2>5
<1>4. CASE s \notin DOMAIN b
  <2> DEFINE f == [t \in DOMAIN b |-> QueueVolume(b[t])]
             h == [t \in S |-> QueueVolume(c[t])]
  <2>1. /\ c[s] = <<entry>>
        /\ \A t \in DOMAIN b : c[t] = b[t]
    BY <1>4 DEF Rest
  <2>2. QueueVolume(<<entry>>) = entry.volume
    <3>1. <<>> \in Queue /\ Append(<<>>, entry) = <<entry>>
      BY DEF Queue
    <3>2. QueueVolume(Append(<<>>, entry)) = QueueVolume(<<>>) + entry.volume
      BY <3>1, QueueVolumeAppended
    <3> QED
      BY <1>2, <3>1, <3>2, QueueVolumeEmpty
  <2> HIDE DEF c
  <2>3. /\ \A t \in DOMAIN b : f[t] \in Int /\ h[t] = f[t]
        /\ \A t \in S : h[t] \in Int
        /\ h[s] = entry.volume
        /\ DOMAIN f = DOMAIN b /\ DOMAIN h = S
        /\ S \ {s} = DOMAIN b /\ s \in S
    <3>1. \A t \in DOMAIN b : QueueVolume(b[t]) \in Int
      BY LevelVolumes
    <3> QED
      BY <1>2, <1>4, <2>1, <2>2, <3>1
  <2>4. BookVolume(b) = SumFunction(f) /\ BookVolume(c) = SumFunction(h)
    BY <1>1 DEF BookVolume
  <2> HIDE DEF f, h, S
  <2>5. SumFunctionOnSet(h, S) = h[s] + SumFunctionOnSet(h, S \ {s})
    BY <1>1, <2>3, SumSplit
  <2>6. SumFunctionOnSet(h, DOMAIN b) = SumFunctionOnSet(f, DOMAIN b)
    BY <2>3, SumCongruence
  <2>7. SumFunctionOnSet(f, DOMAIN b) \in Int
    BY <2>3, SumType
  <2>8. SumFunction(f) = SumFunctionOnSet(f, DOMAIN b) /\ SumFunction(h) = SumFunctionOnSet(h, S)
    BY <2>3 DEF SumFunction
  <2>9. BookVolume(c) = BookVolume(b) + entry.volume
    BY <1>2, <2>3, <2>4, <2>5, <2>6, <2>7, <2>8
  <2> QED
    BY <1>1, <2>9 DEF c
<1> QED
  BY <1>3, <1>4

\* No order asks for more than V.
VolumesUpTo(V) == V \in Nat /\ \A r \in Insertions : r.volume <= V

\* The orders of a session, taken together, ask for less than a u32 holds.
SessionFits == \E V : VolumesUpTo(V) /\ MaxOrders * V < VolumeMod

BoundedInv(V) ==
  /\ IsFiniteSet(DOMAIN book)
  /\ BookVolume(book) <= nextId * V
  /\ nextId <= MaxOrders
  /\ step \in {"match", "enter"} => nextId < MaxOrders /\ remaining <= V

LEMMA BoundedInit == ASSUME NEW V, VolumesUpTo(V) PROVE Init => BoundedInv(V)
<1> SUFFICES ASSUME Init PROVE BoundedInv(V)
  OBVIOUS
<1>1. book = [s \in {} |-> <<>>] /\ nextId = 0 /\ step = "idle"
  BY DEF Init
<1>2. DOMAIN book = {} /\ IsFiniteSet({})
  BY <1>1, FS_EmptySet
<1>3. BookVolume(book) = 0
  BY <1>2, SumOfEmpty DEF BookVolume
<1> QED
  BY <1>1, <1>2, <1>3, OrderbookAssumption DEF BoundedInv, VolumesUpTo

\* A match, like a modification, takes volume from one queue.
LEMMA LevelReduced ==
  ASSUME TypeOK, IsFiniteSet(DOMAIN book), NEW s \in DOMAIN book, NEW c \in Queue,
         QueueVolume(c) <= QueueVolume(book[s])
  PROVE  LET b == [book EXCEPT ![s] = c]
         IN  IsFiniteSet(DOMAIN b) /\ BookVolume(b) <= BookVolume(book)
<1> DEFINE b == [book EXCEPT ![s] = c]
<1>1. IsBook(book) /\ DOMAIN b = DOMAIN book
  BY BookType
<1>2. BookVolume(b) = BookVolume(book) + (QueueVolume(c) - QueueVolume(book[s]))
  BY <1>1, BookVolumeUpdated
<1>3. BookVolume(book) \in Int /\ QueueVolume(c) \in Int /\ QueueVolume(book[s]) \in Int
  BY <1>1, BookVolumeType, QueueVolumeType, LevelVolumes
<1> HIDE DEF b
<1>4. IsFiniteSet(DOMAIN b) /\ BookVolume(b) <= BookVolume(book)
  BY <1>1, <1>2, <1>3
<1> QED
  BY <1>4 DEF b

LEMMA FillReduces ==
  ASSUME TypeOK, IsFiniteSet(DOMAIN book), NEW p \in Prices,
         Fill(p) \/ AbortSelfTrade(p)
  PROVE  IsFiniteSet(DOMAIN book') /\ BookVolume(book') <= BookVolume(book)
<1> DEFINE s == Opposing(p)
           v == Lesser(remaining, book[s][1].volume)
           left == IF v = book[s][1].volume THEN Tail(book[s]) ELSE Decrement(book[s], v)
           cut == Decrement(book[s], v)
<1>1. s \in DOMAIN book /\ book[s] # <<>>
  BY NextLevelSlot DEF Fill, AbortSelfTrade
<1>2. book[s] \in Queue /\ v \in Nat /\ v <= book[s][1].volume
  BY <1>1, MakerType, VolumesAreNaturals
<1>3. QueueVolume(book[s]) \in Nat
  BY <1>2, QueueVolumeType
<1>4. CASE Fill(p)
  <2>1. left \in Queue /\ QueueVolume(left) = QueueVolume(book[s]) - v
    BY <1>1, <1>2, MatchTakes
  <2>2. book' = [book EXCEPT ![s] = left]
    BY <1>4 DEF Fill
  <2>3. QueueVolume(left) <= QueueVolume(book[s])
    BY <1>2, <1>3, <2>1
  <2> HIDE DEF left, s, v
  <2> QED
    BY <1>1, <2>1, <2>2, <2>3, LevelReduced
<1>5. CASE AbortSelfTrade(p)
  <2>1. cut \in Queue
    BY <1>1, <1>2, DecrementThins
  <2>2. QueueVolume(cut) = QueueVolume(book[s]) - v
    <3>1. Len(book[s]) \in Nat \ {0} /\ 1 \in 1 .. Len(book[s])
      BY <1>1, MakerType
    <3> DEFINE e == [book[s][1] EXCEPT !.volume = book[s][1].volume - v]
    <3>2. book[s][1] \in OrderbookEntry
      BY <1>2, <3>1, VolumesOf
    <3>3. e \in OrderbookEntry /\ e.volume = book[s][1].volume - v
      <4>1. book[s][1].volume \in 0 .. VolumeMod - 1
        BY <3>2 DEF OrderbookEntry, Volume
      <4>2. book[s][1].volume - v \in Volume
        BY <1>2, <4>1, OrderbookAssumption DEF Volume
      <4> QED
        BY <3>2, <4>2 DEF OrderbookEntry
    <3>4. cut = [book[s] EXCEPT ![1] = e]
      BY DEF Decrement
    <3> HIDE DEF cut, e, s, v
    <3>5. Len(cut) = Len(book[s])
          /\ \A i \in 1 .. Len(book[s]) : cut[i] = IF i = 1 THEN e ELSE book[s][i]
      BY <1>2, <3>1, <3>3, <3>4, ExceptSeq DEF Queue
    <3>6. cut[1].volume = book[s][1].volume - v
      BY <3>1, <3>3, <3>5
    <3> QED
      BY <1>2, <2>1, <3>1, <3>5, <3>6, QueueVolumeReduced
  <2>3. book' = [book EXCEPT ![s] = cut]
    BY <1>5 DEF AbortSelfTrade
  <2>4. QueueVolume(cut) <= QueueVolume(book[s])
    BY <1>2, <1>3, <2>2
  <2> HIDE DEF cut, s, v
  <2> QED
    BY <1>1, <2>1, <2>3, <2>4, LevelReduced
<1> QED
  BY <1>4, <1>5

LEMMA RemoveReduces ==
  ASSUME TypeOK, IsFiniteSet(DOMAIN book), NEW s \in DOMAIN book,
         NEW i \in 1 .. Len(book[s]), book' = RemoveEntry(s, i)
  PROVE  IsFiniteSet(DOMAIN book') /\ BookVolume(book') <= BookVolume(book)
<1>1. IsBook(book) /\ book[s] \in Queue
  BY BookType DEF IsBook
<1>2. CASE Len(book[s]) = 1
  BY <1>1, <1>2, BookVolumeDropped DEF RemoveEntry
<1>3. CASE Len(book[s]) # 1
  <2> DEFINE c == RemoveAt(book[s], i)
  <2>1. c \in Queue /\ QueueVolume(c) = QueueVolume(book[s]) - book[s][i].volume
    BY <1>1, QueueVolumeRemoved
  <2>2. book[s][i].volume \in Nat /\ QueueVolume(book[s]) \in Nat
    BY <1>1, VolumesOf, QueueVolumeType
  <2>3. book' = [book EXCEPT ![s] = c]
    BY <1>3 DEF RemoveEntry
  <2> HIDE DEF c
  <2>4. QueueVolume(c) <= QueueVolume(book[s])
    BY <2>1, <2>2
  <2> QED
    BY <2>1, <2>3, <2>4, LevelReduced
<1> QED
  BY <1>2, <1>3

LEMMA ModifyReduces ==
  ASSUME TypeOK, IsFiniteSet(DOMAIN book), NEW s \in Slots, NEW id \in 0 .. MaxOrders - 1,
         NEW reduction \in Volume, ModifyOrder(s, id, reduction)
  PROVE  IsFiniteSet(DOMAIN book') /\ BookVolume(book') <= BookVolume(book)
<1>1. PICK i \in Positions(s, id) :
        book' = IF reduction >= book[s][i].volume
                  THEN RemoveEntry(s, i)
                  ELSE [book EXCEPT ![s][i].volume = @ - reduction]
  BY DEF ModifyOrder
<1>2. s \in DOMAIN book /\ i \in 1 .. Len(book[s]) /\ book[s] \in Queue
  BY DEF ModifyOrder, Positions, TypeOK, Queue
<1>3. CASE reduction >= book[s][i].volume
  BY <1>1, <1>2, <1>3, RemoveReduces
<1>4. CASE ~ (reduction >= book[s][i].volume)
  <2> DEFINE e == [book[s][i] EXCEPT !.volume = book[s][i].volume - reduction]
             c == [book[s] EXCEPT ![i] = e]
  <2>1. book[s][i] \in OrderbookEntry
    BY <1>2, ElementOfSeq DEF Queue
  <2>2. e \in OrderbookEntry /\ e.volume = book[s][i].volume - reduction
    <3>1. book[s][i].volume \in 0 .. VolumeMod - 1
      BY <2>1 DEF OrderbookEntry, Volume
    <3>2. reduction \in 0 .. VolumeMod - 1
      BY DEF Volume
    <3>3. book[s][i].volume - reduction \in Volume
      BY <1>4, <3>1, <3>2, OrderbookAssumption DEF Volume
    <3> QED
      BY <2>1, <3>3 DEF OrderbookEntry
  <2>3. book' = [book EXCEPT ![s] = c]
    BY <1>1, <1>4
  <2> HIDE DEF e
  <2>4. /\ c \in Queue /\ Len(c) = Len(book[s])
        /\ \A j \in 1 .. Len(book[s]) : c[j] = IF j = i THEN e ELSE book[s][j]
    BY <1>2, <2>2, ExceptSeq DEF Queue
  <2> HIDE DEF c
  <2>5. reduction \in Nat /\ c[i].volume = book[s][i].volume - reduction
    BY <1>2, <2>2, <2>4, VolumesAreNaturals
  <2>6. QueueVolume(c) = QueueVolume(book[s]) - reduction
    BY <1>2, <2>4, <2>5, QueueVolumeReduced
  <2>7. QueueVolume(book[s]) \in Nat
    BY <1>2, QueueVolumeType
  <2>8. QueueVolume(c) <= QueueVolume(book[s])
    BY <2>5, <2>6, <2>7
  <2> QED
    BY <1>2, <2>3, <2>4, <2>8, LevelReduced
<1> QED
  BY <1>3, <1>4

LEMMA BoundedStep ==
  ASSUME NEW V, VolumesUpTo(V)
  PROVE  TypeOK /\ BoundedInv(V) /\ [Next]_vars => BoundedInv(V)'
<1> SUFFICES ASSUME TypeOK, BoundedInv(V), [Next]_vars PROVE BoundedInv(V)'
  OBVIOUS
<1>1. /\ IsFiniteSet(DOMAIN book) /\ IsBook(book) /\ BookVolume(book) \in Nat
      /\ nextId \in Nat /\ V \in Nat /\ nextId * V \in Nat /\ remaining \in Nat
      /\ MaxOrders \in Nat
  BY BookType, BookVolumeType, OrderbookAssumption, VolumesAreNaturals
  DEF BoundedInv, VolumesUpTo, TypeOK
<1>2. BookVolume(book)' = BookVolume(book')
  BY DEF BookVolume, QueueVolume
<1>3. ASSUME IsFiniteSet(DOMAIN book'), IsBook(book'), BookVolume(book') <= BookVolume(book),
             nextId' = nextId,
             step' \in {"match", "enter"} => step \in {"match", "enter"} /\ remaining' <= V
      PROVE  BoundedInv(V)'
  <2>1. BookVolume(book') \in Nat
    BY <1>3, BookVolumeType
  <2>2. BookVolume(book') <= nextId * V
    BY <1>1, <1>3, <2>1 DEF BoundedInv
  <2> QED
    BY <1>2, <1>3, <2>2 DEF BoundedInv
<1>4. ASSUME UNCHANGED <<book, nextId>>,
             step' \in {"match", "enter"} => step \in {"match", "enter"} /\ remaining' = remaining
      PROVE  BoundedInv(V)'
  BY <1>1, <1>2, <1>4 DEF BoundedInv
<1>5. ASSUME NEW pair \in Pairs, AddMarket(pair) PROVE BoundedInv(V)'
  BY <1>4, <1>5 DEF AddMarket, insertionVars
<1>6. ASSUME NEW order \in Insertions, BeginInsert(order) PROVE BoundedInv(V)'
  BY <1>1, <1>2, <1>6 DEF BeginInsert, BoundedInv, VolumesUpTo
<1>7. ASSUME NEW p \in Prices, Fill(p) PROVE BoundedInv(V)'
  <2>1. step = "match" /\ nextId' = nextId /\ remaining' <= remaining /\ remaining' \in Nat
    <3> DEFINE s == Opposing(p)
               v == Lesser(remaining, book[s][1].volume)
    <3>1. s \in DOMAIN book /\ book[s] # <<>>
      BY <1>7, NextLevelSlot DEF Fill
    <3>2. v \in Nat /\ v <= remaining
      BY <3>1, MakerType, VolumesAreNaturals
    <3>3. remaining' = remaining - v /\ step = "match" /\ nextId' = nextId
      BY <1>7 DEF Fill
    <3> HIDE DEF v
    <3> QED
      BY <1>1, <3>2, <3>3
  <2>2. IsFiniteSet(DOMAIN book') /\ BookVolume(book') <= BookVolume(book)
    BY <1>1, <1>7, FillReduces
  <2>3. remaining' <= V
    BY <1>1, <2>1 DEF BoundedInv
  <2>4. IsBook(book')
    BY <1>7, FillThins
  <2> QED
    BY <1>3, <2>1, <2>2, <2>3, <2>4
<1>8. ASSUME NEW p \in Prices, AbortSelfTrade(p) PROVE BoundedInv(V)'
  BY <1>1, <1>3, <1>8, FillReduces, AbortThins DEF AbortSelfTrade
<1>9. ASSUME NEW p \in Prices, PassLevel(p) PROVE BoundedInv(V)'
  BY <1>4, <1>9 DEF PassLevel
<1>10. CASE StopMatching
  BY <1>4, <1>10 DEF StopMatching, insertionVars
<1>11. CASE EnterOrder
  <2> DEFINE own == Slot(taker.pair, taker.side, taker.price)
  <2>1. /\ IsBook(CleanedBook) /\ own \in Slots /\ RestingEntry \in OrderbookEntry
        /\ RestingEntry.volume = remaining
        /\ nextId < MaxOrders /\ remaining <= V
    BY <1>11, EnterType DEF RestingEntry, EnterOrder, BoundedInv
  <2>2. IsFiniteSet(DOMAIN CleanedBook) /\ BookVolume(CleanedBook) <= BookVolume(book)
    BY <1>1, BookVolumeDropped DEF CleanedBook
  <2>3. BookVolume(CleanedBook) \in Nat
    BY <2>1, <2>2, BookVolumeType
  <2>4. IsFiniteSet(DOMAIN book') /\ BookVolume(book') \in Nat /\ BookVolume(book') <= BookVolume(CleanedBook) + remaining
    <3>1. CASE remaining > 0
      <4>1. book' = Rest(CleanedBook, own, RestingEntry)
        BY <1>11, <3>1 DEF EnterOrder
      <4>2. /\ IsFiniteSet(DOMAIN book')
            /\ BookVolume(book') = BookVolume(CleanedBook) + remaining
        BY <2>1, <2>2, <4>1, BookVolumeRested
      <4> QED
        BY <1>1, <2>3, <4>2
    <3>2. CASE ~ (remaining > 0)
      <4>1. book' = CleanedBook
        BY <1>11, <3>2 DEF EnterOrder
      <4> QED
        BY <1>1, <2>2, <2>3, <4>1
    <3> QED
      BY <3>1, <3>2
  <2>5. nextId' = nextId + 1 /\ step' = "settle"
    BY <1>11 DEF EnterOrder
  <2>6. (nextId + 1) * V = nextId * V + V
    BY <1>1
  <2>7. BookVolume(book') <= nextId * V + V
    BY <1>1, <2>1, <2>2, <2>3, <2>4 DEF BoundedInv
  <2> QED
    BY <1>1, <1>2, <2>1, <2>4, <2>5, <2>6, <2>7 DEF BoundedInv
<1>12. CASE PopTransaction \/ FinishInsert
  BY <1>4, <1>12 DEF PopTransaction, FinishInsert
<1>13. ASSUME NEW s \in Slots, NEW id \in 0 .. MaxOrders - 1, CancelOrder(s, id)
       PROVE  BoundedInv(V)'
  <2>1. IsFiniteSet(DOMAIN book') /\ BookVolume(book') <= BookVolume(book)
    BY <1>1, <1>13, RemoveReduces DEF CancelOrder, Positions
  <2> QED
    BY <1>3, <1>13, <2>1, CancelThins DEF CancelOrder
<1>14. ASSUME NEW s \in Slots, NEW id \in 0 .. MaxOrders - 1,
              NEW reduction \in Volume, ModifyOrder(s, id, reduction)
       PROVE  BoundedInv(V)'
  BY <1>1, <1>3, <1>14, ModifyReduces, ModifyThins DEF ModifyOrder
<1>15. CASE UNCHANGED vars
  BY <1>4, <1>15 DEF vars, insertionVars
<1> QED
  BY <1>5, <1>6, <1>7, <1>8, <1>9, <1>10, <1>11, <1>12, <1>13, <1>14, <1>15
  DEF Next, Advance, RefuseKilled, RefuseNotResting

LEMMA BoundedFits ==
  ASSUME NEW V, VolumesUpTo(V), MaxOrders * V < VolumeMod, TypeOK, BoundedInv(V)
  PROVE  BookVolume(book) < VolumeMod /\ LevelsFit
<1>1. /\ BookVolume(book) \in Nat
      /\ \A s \in DOMAIN book : QueueVolume(book[s]) <= BookVolume(book)
      /\ \A s \in DOMAIN book : QueueVolume(book[s]) \in Nat
  BY BookType, BookVolumeType, LevelVolumes DEF BoundedInv
<1>2. nextId \in Nat /\ nextId <= MaxOrders /\ MaxOrders \in Nat /\ V \in Nat /\ VolumeMod \in Nat
  BY OrderbookAssumption DEF BoundedInv, VolumesUpTo, TypeOK
<1>3. nextId * V <= MaxOrders * V
  <2>1. PICK d \in Nat : MaxOrders = nextId + d
    <3>1. MaxOrders - nextId \in Nat /\ MaxOrders = nextId + (MaxOrders - nextId)
      BY <1>2
    <3> QED
      BY <3>1
  <2>2. MaxOrders * V = nextId * V + d * V
    BY <1>2, <2>1
  <2>3. d * V \in Nat /\ nextId * V \in Nat
    BY <1>2
  <2> QED
    BY <2>2, <2>3
<1>4. BookVolume(book) < VolumeMod
  <2>1. nextId * V \in Nat /\ MaxOrders * V \in Nat
    BY <1>2
  <2> QED
    BY <1>1, <1>2, <1>3, <2>1 DEF BoundedInv
<1> QED
  BY <1>1, <1>2, <1>4 DEF LevelsFit

\* The levels within the limit of an order hold no more than the whole book.
LEMMA ScanFits ==
  ASSUME TypeOK, IsFiniteSet(DOMAIN book), NEW order \in Insertions,
         NEW p \in Scanned(order),
         NEW i \in 1 .. Len(book[Slot(order.pair, Other(order.side), p)])
  PROVE  VolumeUpTo(order, p, i) <= BookVolume(book)
<1> DEFINE Level(q) == Slot(order.pair, Other(order.side), q)
           within == {q \in LevelPrices(order.pair, Other(order.side)) :
                        WithinLimit(order, q)}
           levels == {Level(q) : q \in within}
           b == [q \in within |-> Level(q)]
           h == [q \in within |-> QueueVolume(book[Level(q)])]
           f == [s \in DOMAIN book |-> QueueVolume(book[s])]
<1>1. /\ VolumeUpTo(order, p, i) \in Nat
      /\ VolumeUpTo(order, p, i) <= SumFunction(h)
  BY ScanIsWithin
<1>2. levels \in SUBSET DOMAIN book /\ IsFiniteSet(within)
  BY OrderbookAssumption, FS_Subset DEF LevelPrices
<1>3. IsFiniteSet(levels)
  BY <1>2, FS_Subset
<1>4. b \in Bijection(within, levels)
  <2>1. b \in [within -> levels] /\ \A z \in levels : \E q \in within : b[q] = z
    OBVIOUS
  <2>2. \A q, r \in within : b[q] = b[r] => q = r
    BY DEF Slot
  <2> QED
    BY <2>1, <2>2 DEF Bijection, Injection, IsInjective, Surjection
<1>5. /\ DOMAIN h = within /\ DOMAIN f = DOMAIN book
      /\ \A s \in DOMAIN book : f[s] \in Nat /\ f[s] \in Int
      /\ \A q \in within : h[q] = f[b[q]]
  <2>1. \A s \in DOMAIN book : f[s] \in Nat /\ f[s] \in Int
    BY BookType, LevelVolumes
  <2>2. \A q \in within : Level(q) \in DOMAIN book
    BY DEF LevelPrices
  <2> QED
    BY <2>1, <2>2
<1>6. BookVolume(book) = SumFunction(f)
  BY DEF BookVolume
<1> HIDE DEF levels, within, b, h, f
<1>7. SumFunctionOnSet(h, within) = SumFunctionOnSet(f, levels)
  <2>1. \A z \in levels : f[z] \in Int
    BY <1>2, <1>5
  <2> QED
    BY <1>2, <1>3, <1>4, <1>5, <2>1, SumRenamed
<1>8. /\ SumFunctionOnSet(f, levels) <= SumFunctionOnSet(f, DOMAIN book)
      /\ SumFunctionOnSet(f, levels) \in Int
      /\ SumFunctionOnSet(f, DOMAIN book) \in Int
  <2>1. SumFunctionOnSet(f, levels) <= SumFunctionOnSet(f, DOMAIN book)
    BY <1>2, <1>5, SumMonotone
  <2>2. \A z \in levels : f[z] \in Int
    BY <1>2, <1>5
  <2> QED
    BY <1>3, <1>5, <2>1, <2>2, SumType
<1>9. SumFunction(h) = SumFunctionOnSet(h, within)
  BY <1>5 DEF SumFunction
<1>10. SumFunction(f) = SumFunctionOnSet(f, DOMAIN book)
  BY <1>5 DEF SumFunction
<1> QED
  BY <1>1, <1>6, <1>7, <1>8, <1>9, <1>10

\* When the orders of a session together ask for less than a u32 holds, the
\* volumes that get_l1 and get_l2 add up at a level never wrap around.
THEOREM LevelsFitHolds == ASSUME SessionFits PROVE Spec => []LevelsFit
<1>1. PICK V : VolumesUpTo(V) /\ MaxOrders * V < VolumeMod
  BY DEF SessionFits
<1>2. /\ Init => BoundedInv(V)
      /\ TypeOK /\ BoundedInv(V) /\ [Next]_vars => BoundedInv(V)'
      /\ TypeOK /\ BoundedInv(V) => LevelsFit
  BY <1>1, BoundedInit, BoundedStep, BoundedFits
<1> QED
  BY <1>2, TypeInit, TypeStep, PTL DEF Spec

\* When every account keeps to one side of a pair and the volumes of a session
\* fit, every level shown between commands has volume.
THEOREM QuotesAreLiveOneSided ==
  ASSUME OneSidePerAccount, SessionFits PROVE Spec => []QuotesAreLive
  BY OneSidedNeverSelfTrades, LevelsFitHolds, QuotesAreLiveHolds, PTL
=============================================================================
