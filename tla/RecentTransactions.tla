------------------------- MODULE RecentTransactions -------------------------
(***************************************************************************)
(* RecentTransactions of src/exchange.rs: a ring of the transactions that  *)
(* were settled last, read from the oldest to the newest.                  *)
(***************************************************************************)
EXTENDS Integers, SequencesExt

CONSTANTS RingCapacity   \* 100; the capacity of the vector `inner`

ASSUME RingAssumption == RingCapacity \in Nat \ {0}

VARIABLES
  inner,     \* the vector
  writeIdx,  \* write_idx, which is never reduced
  pushed     \* history: all transactions that were pushed

ringVars == <<inner, writeIdx, pushed>>

WriteSlot == writeIdx % RingCapacity

\* slice::rotate_left
RotateLeft(s, n) == SubSeq(s, n + 1, Len(s)) \o SubSeq(s, 1, n)

\* Mutation of GetRecent: the vector as it is stored.
GetUnrotated == inner

GetRecent == RotateLeft(inner, WriteSlot)
-----------------------------------------------------------------------------
RingInit ==
  /\ inner = <<>>
  /\ writeIdx = 0
  /\ pushed = <<>>

\* Mutation of Push: the vector grows beyond its capacity.
PushOnly(transaction) ==
  /\ inner' = Append(inner, transaction)
  /\ writeIdx' = writeIdx + 1
  /\ pushed' = Append(pushed, transaction)

Push(transaction) ==
  /\ inner' = IF Len(inner) < RingCapacity
                THEN Append(inner, transaction)
                ELSE [inner EXCEPT ![WriteSlot + 1] = transaction]
  /\ writeIdx' = writeIdx + 1
  /\ pushed' = Append(pushed, transaction)
-----------------------------------------------------------------------------
\* The last n elements of a sequence, or all if there are fewer.
Newest(s, n) == IF Len(s) <= n THEN s ELSE SubSeq(s, Len(s) - n + 1, Len(s))

(***************************************************************************)
(* A read returns the last transactions that were settled, oldest first,   *)
(* before and after the ring is full, and rotate_left is never asked to    *)
(* rotate beyond the length of the vector, where it would panic.           *)
(***************************************************************************)
RecentInOrder ==
  /\ WriteSlot <= Len(inner)
  /\ GetRecent = Newest(pushed, RingCapacity)
=============================================================================
