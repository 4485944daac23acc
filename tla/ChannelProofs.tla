--------------------------- MODULE ChannelProofs ---------------------------
(***************************************************************************)
(* Safety of CommandChannel for every set of clients, every capacity, all  *)
(* sizes of buffers and every number of calls.                             *)
(***************************************************************************)
EXTENDS CommandChannel, TLAPS, SequenceTheorems

Lines == Seq(Calls)

(***************************************************************************)
(* Sequences.                                                              *)
(***************************************************************************)
LEMMA HeadOfTail ==
  ASSUME NEW S, NEW s \in Seq(S), s # <<>>
  PROVE  /\ Head(s) \in S /\ Tail(s) \in Seq(S)
         /\ s = <<Head(s)>> \o Tail(s)
<1>1. Head(s) \in S /\ Tail(s) \in Seq(S) /\ Len(Tail(s)) = Len(s) - 1
      /\ \A i \in 1 .. Len(Tail(s)) : Tail(s)[i] = s[i + 1]
  BY HeadTailProperties
<1>2. Len(s) \in Nat \ {0} /\ Head(s) = s[1]
  BY EmptySeq
<1>3. <<Head(s)>> \in Seq(S) /\ Len(<<Head(s)>>) = 1 /\ <<Head(s)>>[1] = s[1]
  BY <1>1, <1>2
<1> DEFINE t == <<Head(s)>> \o Tail(s)
<1>4. /\ t \in Seq(S)
      /\ Len(t) = Len(s)
      /\ \A i \in 1 .. Len(s) : t[i] = IF i <= 1 THEN s[1] ELSE Tail(s)[i - 1]
  BY <1>1, <1>2, <1>3, ConcatProperties
<1>5. \A i \in 1 .. Len(s) : t[i] = s[i]
  <2> SUFFICES ASSUME NEW i \in 1 .. Len(s) PROVE t[i] = s[i]
    OBVIOUS
  <2>1. CASE i = 1
    BY <1>4, <2>1
  <2>2. CASE i # 1
    <3>1. i - 1 \in 1 .. Len(Tail(s)) /\ (i - 1) + 1 = i
      BY <1>1, <1>2, <2>2
    <3>2. Tail(s)[i - 1] = s[i]
      BY <1>1, <3>1
    <3> QED
      BY <1>2, <1>4, <2>2, <3>2
  <2> QED
    BY <2>1, <2>2
<1> QED
  <2>1. s = t
    BY <1>4, <1>5, SeqEqual
  <2> QED
    BY <1>1, <2>1

\* Lines in a row, however they are taken together.
LEMMA Closed == \A s, t \in Lines : s \o t \in Lines
BY ConcatProperties DEF Lines

LEMMA Associative == \A s, t, u \in Lines : (s \o t) \o u = s \o (t \o u)
BY ConcatAssociative DEF Lines

LEMMA Regroup ==
  \A s, t, u, v \in Lines : (s \o (t \o u)) \o v = s \o (t \o (u \o v))
<1> SUFFICES ASSUME NEW s \in Lines, NEW t \in Lines, NEW u \in Lines, NEW v \in Lines
             PROVE  (s \o (t \o u)) \o v = s \o (t \o (u \o v))
  OBVIOUS
<1>1. t \o u \in Lines
  BY Closed
<1>2. (s \o (t \o u)) \o v = s \o ((t \o u) \o v)
  BY <1>1, Associative
<1>3. (t \o u) \o v = t \o (u \o v)
  BY Associative
<1> QED
  BY <1>2, <1>3

\* A buffer enters at one end of the row and is served at the other.
LEMMA AppendToRow ==
  ASSUME NEW s \in Lines, NEW t \in Lines, NEW u \in Lines, NEW e \in Calls
  PROVE  Append(s \o (t \o u), e) = s \o (t \o Append(u, e))
<1> DEFINE one == <<e>>
<1>1. one \in Lines
  BY DEF Lines
<1>2. s \o (t \o u) \in Seq(Calls)
  <2>1. t \o u \in Seq(Calls)
    BY ConcatProperties DEF Lines
  <2> QED
    BY <2>1, ConcatProperties DEF Lines
<1>3. Append(s \o (t \o u), e) = (s \o (t \o u)) \o one /\ Append(u, e) = u \o one
  BY <1>2, AppendIsConcat DEF Lines
<1>4. \A x \in Lines : (s \o (t \o u)) \o x = s \o (t \o (u \o x))
  BY Regroup
<1>5. (s \o (t \o u)) \o one = s \o (t \o (u \o one))
  BY <1>1, <1>4, Zenon
<1> QED
  BY <1>3, <1>5

LEMMA HeadOfRow ==
  ASSUME NEW s \in Lines, NEW t \in Lines, NEW u \in Lines, t # <<>>
  PROVE  s \o (t \o u) = Append(s, Head(t)) \o (Tail(t) \o u)
<1>1. Head(t) \in Calls /\ Tail(t) \in Lines /\ t = <<Head(t)>> \o Tail(t)
  BY HeadOfTail DEF Lines
<1>2. <<Head(t)>> \in Lines /\ Append(s, Head(t)) = s \o <<Head(t)>>
  BY <1>1, AppendIsConcat DEF Lines
<1>3. PICK h \in Lines, r \in Lines : h = <<Head(t)>> /\ r = Tail(t)
  BY <1>1, <1>2
<1>4. t = h \o r /\ Append(s, Head(t)) = s \o h
  BY <1>1, <1>2, <1>3
<1>5. (s \o h) \o (r \o u) = s \o (h \o (r \o u))
  <2>1. r \o u \in Lines
    BY Closed
  <2> QED
    BY <2>1, Associative
<1>6. (h \o r) \o u = h \o (r \o u)
  BY Associative
<1> QED
  BY <1>3, <1>4, <1>5, <1>6

\* Taking an element out of a sequence leaves a sequence.
LEMMA RemoveAtType ==
  ASSUME NEW S, NEW s \in Seq(S), NEW i \in DOMAIN s
  PROVE  RemoveAt(s, i) \in Seq(S)
<1>1. Len(s) \in Nat /\ DOMAIN s = 1 .. Len(s)
  BY LenProperties
<1>2. \A j \in 1 .. Len(s) : s[j] \in S
  BY ElementOfSeq
<1>3. i \in Int /\ i - 1 \in Int /\ i + 1 \in Int /\ 1 <= i /\ i <= Len(s)
  BY <1>1
<1>4. SubSeq(s, 1, i - 1) \in Seq(S)
  <2>1. \A j \in 1 .. i - 1 : s[j] \in S
    BY <1>1, <1>2, <1>3
  <2> QED
    BY <1>3, <2>1, SubSeqProperties
<1>5. SubSeq(s, i + 1, Len(s)) \in Seq(S)
  <2>1. \A j \in i + 1 .. Len(s) : s[j] \in S
    BY <1>1, <1>2, <1>3
  <2> QED
    BY <1>1, <1>3, <2>1, SubSeqProperties
<1> QED
  BY <1>4, <1>5, ConcatProperties DEF RemoveAt

(***************************************************************************)
(* Types.                                                                  *)
(***************************************************************************)
LEMMA LeaveLineType ==
  ASSUME waiters \in Lines, NEW c, LeaveLine(c)
  PROVE  waiters' \in Lines
<1>1. CASE UNCHANGED waiters
  BY <1>1
<1>2. CASE \E i \in DOMAIN waiters : waiters' = RemoveAt(waiters, i)
  BY <1>2, RemoveAtType DEF Lines
<1> QED
  BY <1>1, <1>2 DEF LeaveLine

LEMMA CallFields ==
  ASSUME NEW r \in Calls
  PROVE  r.client \in Clients /\ r.number \in Nat /\ r.size \in Nat
<1>1. r.client \in Clients /\ r.number \in Nat /\ r.size \in BufferSizes \cup {0}
  BY DEF Calls
<1>2. BufferSizes \cup {0} \subseteq Nat
  BY ChannelAssumption
<1> QED
  BY <1>1, <1>2, Zenon

LEMMA ChannelTypeInit == Init => ChannelTypeOK
<1> SUFFICES ASSUME Init PROVE ChannelTypeOK
  OBVIOUS
<1>1. call \in [Clients -> Calls]
  BY DEF Init, Calls
<1>2. <<>> \in Seq(Calls) /\ <<>> \in Seq(Results) /\ Len(<<>>) = 0
  BY EmptySeq
<1>3. reply \in [Clients -> {NoReply} \cup Seq(Results)]
  BY DEF Init
<1>4. \A n \in {0} : n <= Capacity
  BY ChannelAssumption
<1> QED
  BY <1>1, <1>2, <1>3, <1>4 DEF Init, ChannelTypeOK

LEMMA ChannelTypeStep == ChannelTypeOK /\ [Next]_vars => ChannelTypeOK'
<1> SUFFICES ASSUME ChannelTypeOK, [Next]_vars PROVE ChannelTypeOK'
  OBVIOUS
<1> USE DEF ChannelTypeOK, clientVars, threadVars
<1>1. ASSUME NEW c \in Clients, GetClient(c) PROVE ChannelTypeOK'
  BY <1>1 DEF GetClient
<1>2. ASSUME NEW c \in Clients, NEW size \in BufferSizes, SendCommands(c, size)
      PROVE  ChannelTypeOK'
  <2> DEFINE r == [client |-> c, number |-> call[c].number + 1, size |-> size]
  <2>1. r \in Calls
    BY CallFields DEF Calls
  <2>2. call' = [call EXCEPT ![c] = r] /\ call'[c] = r /\ call' \in [Clients -> Calls]
    BY <1>2, <2>1 DEF SendCommands
  <2>3. waiters' \in Seq(Calls)
    BY <1>2, <2>1, <2>2, AppendProperties DEF SendCommands
  <2> QED
    BY <1>2, <2>2, <2>3 DEF SendCommands
<1>3. ASSUME NEW c \in Clients, Enter(c) PROVE ChannelTypeOK'
  <2>1. /\ channel' \in Seq(Calls) /\ Len(channel') = Len(channel) + 1
        /\ arrived' \in Seq(Calls)
    BY <1>3, AppendProperties DEF Enter
  <2>2. Len(channel) \in Nat /\ Len(channel') <= Capacity
    BY <1>3, <2>1, LenProperties, ChannelAssumption DEF Enter
  <2>3. waiters' \in Seq(Calls)
    <3>1. CASE waiters = <<>>
      BY <1>3, <3>1, EmptySeq DEF Enter
    <3>2. CASE waiters # <<>>
      BY <1>3, <3>2, HeadTailProperties DEF Enter
    <3> QED
      BY <3>1, <3>2
  <2> QED
    BY <1>3, <2>1, <2>2, <2>3 DEF Enter
<1>4. ASSUME NEW c \in Clients, TakeReply(c) PROVE ChannelTypeOK'
  BY <1>4 DEF TakeReply
<1>5. ASSUME NEW c \in Clients, SendFails(c) PROVE ChannelTypeOK'
  <2>1. waiters' \in Seq(Calls)
    BY <1>5, LeaveLineType DEF SendFails, Lines
  <2> QED
    BY <1>5, <2>1 DEF SendFails
<1>6. ASSUME NEW c \in Clients, ReplyFails(c) PROVE ChannelTypeOK'
  BY <1>6 DEF ReplyFails
<1>7. ASSUME NEW c \in Clients, Leave(c) PROVE ChannelTypeOK'
  <2>1. waiters' \in Seq(Calls)
    BY <1>7, LeaveLineType DEF Leave, Lines
  <2> QED
    BY <1>7, <2>1 DEF Leave
<1>8. CASE DropHandle
  BY <1>8 DEF DropHandle
<1>9. CASE Receive
  BY <1>9, EmptySeq, ChannelAssumption DEF Receive
<1>10. CASE HandleCommand
  <2>1. Head(batch) \in Calls /\ Len(results) + 1 \in Nat
    BY <1>10, HeadTailProperties, LenProperties DEF HandleCommand
  <2>2. Result(Head(batch), Len(results) + 1) \in Results
    BY <2>1 DEF Result, Results
  <2>3. results' \in Seq(Results)
    BY <1>10, <2>2, AppendProperties DEF HandleCommand
  <2> QED
    BY <1>10, <2>3 DEF HandleCommand
<1>11. CASE SendReply
  <2>1. Head(batch) \in Calls /\ Tail(batch) \in Seq(Calls) /\ Len(Tail(batch)) = Len(batch) - 1
    BY <1>11, HeadTailProperties DEF SendReply
  <2>2. batch' \in Seq(Calls) /\ Len(batch') <= Capacity
    BY <1>11, <2>1, LenProperties, ChannelAssumption DEF SendReply
  <2>3. served' \in Seq(Calls)
    BY <1>11, <2>1, AppendProperties DEF SendReply
  <2>4. reply' \in [Clients -> {NoReply} \cup Seq(Results)]
    BY <1>11 DEF SendReply, Deliver
  <2>5. results' \in Seq(Results)
    BY <1>11, EmptySeq DEF SendReply
  <2> QED
    BY <1>11, <2>2, <2>3, <2>4, <2>5 DEF SendReply
<1>12. CASE Panic
  BY <1>12, EmptySeq, ChannelAssumption DEF Panic
<1>13. CASE Stop
  BY <1>13 DEF Stop
<1>14. CASE UNCHANGED vars
  BY <1>14 DEF vars
<1> QED
  BY <1>1, <1>2, <1>3, <1>4, <1>5, <1>6, <1>7, <1>8, <1>9, <1>10, <1>11, <1>12,
     <1>13, <1>14 DEF Next, ClientStep, ThreadStep, Ended

(***************************************************************************)
(* The variables keep their types and the channel its bound, for every     *)
(* capacity and any number of clients.                                     *)
(***************************************************************************)
THEOREM ChannelTypeCorrect == Spec => []ChannelTypeOK
<1> QED
  BY ChannelTypeInit, ChannelTypeStep, PTL DEF Spec

(***************************************************************************)
(* The order of service.  While the thread runs, what arrived is what was  *)
(* served and what it still holds; after that, the rest is lost.           *)
(***************************************************************************)
Starts(s, t) == \E rest \in Lines : t = s \o rest

OrderInv ==
  /\ thread = "running" => arrived = served \o (batch \o channel)
  /\ thread = "stopped" => served = arrived
  /\ thread # "running" => Starts(served, arrived)

LEMMA StartsIsPrefix ==
  ASSUME NEW s \in Lines, NEW t \in Lines, Starts(s, t)
  PROVE  IsPrefix(s, t)
<1> PICK rest \in Lines : t = s \o rest
  BY DEF Starts
<1>1. /\ Len(s) \in Nat /\ Len(rest) \in Nat /\ Len(t) = Len(s) + Len(rest)
      /\ \A i \in 1 .. Len(s) : t[i] = s[i]
  <2>1. /\ Len(t) = Len(s) + Len(rest)
        /\ \A i \in 1 .. Len(s) + Len(rest) :
             t[i] = IF i <= Len(s) THEN s[i] ELSE rest[i - Len(s)]
    BY ConcatProperties DEF Lines
  <2>2. Len(s) \in Nat /\ Len(rest) \in Nat
    BY LenProperties DEF Lines
  <2> QED
    BY <2>1, <2>2
<1>2. \A i \in 1 .. Len(s) : s[i] \in Calls /\ t[i] \in Calls
  BY <1>1, ElementOfSeq DEF Lines
<1> DEFINE u == SubSeq(s, 1, Len(s))
           v == SubSeq(t, 1, Len(s))
<1>3. /\ u \in Lines /\ Len(u) = Len(s)
      /\ \A i \in 1 .. Len(s) : u[i] = s[i]
  <2>1. u = s
    BY SubSeqFull DEF Lines
  <2> QED
    BY <2>1
<1>4. /\ v \in Lines /\ Len(v) = Len(s)
      /\ \A i \in 1 .. Len(s) : v[i] = t[i]
  <2>1. /\ v \in Seq(Calls)
        /\ Len(v) = IF 1 <= Len(s) THEN Len(s) - 1 + 1 ELSE 0
        /\ \A i \in 1 .. Len(s) - 1 + 1 : v[i] = t[1 + i - 1]
    BY <1>1, <1>2, SubSeqProperties
  <2>2. Len(v) = Len(s)
    BY <1>1, <2>1
  <2>3. \A i \in 1 .. Len(s) : i \in 1 .. Len(s) - 1 + 1 /\ 1 + i - 1 = i
    BY <1>1
  <2> QED
    BY <2>1, <2>2, <2>3 DEF Lines
<1>5. u = v
  <2>1. \A i \in 1 .. Len(u) : u[i] = v[i]
    BY <1>1, <1>3, <1>4
  <2> QED
    BY <1>3, <1>4, <2>1, SeqEqual DEF Lines
<1> QED
  BY <1>1, <1>5 DEF IsPrefix

\* When the thread panics, what it held is the rest that is lost.
LEMMA RunningPrefix ==
  ASSUME ChannelTypeOK, OrderInv, thread = "running"
  PROVE  Starts(served, arrived)
<1>1. batch \o channel \in Lines
  BY ConcatProperties DEF ChannelTypeOK, Lines
<1> QED
  BY <1>1 DEF OrderInv, Starts

LEMMA OrderInit == Init => OrderInv
<1> SUFFICES ASSUME Init PROVE OrderInv
  OBVIOUS
<1>1. <<>> \in Seq(Calls)
  BY EmptySeq
<1>2. <<>> \o (<<>> \o <<>>) = <<>>
  BY <1>1, ConcatEmptySeq
<1> QED
  BY <1>2 DEF Init, OrderInv

LEMMA OrderStep == ChannelTypeOK /\ OrderInv /\ [Next]_vars => OrderInv'
<1> SUFFICES ASSUME ChannelTypeOK, OrderInv, [Next]_vars PROVE OrderInv'
  OBVIOUS
<1> USE DEF OrderInv, Starts, clientVars, threadVars
<1>1. ASSUME NEW c \in Clients, GetClient(c) PROVE OrderInv'
  BY <1>1 DEF GetClient
<1>2. ASSUME NEW c \in Clients, NEW size \in BufferSizes, SendCommands(c, size)
      PROVE  OrderInv'
  BY <1>2 DEF SendCommands
<1>3. ASSUME NEW c \in Clients, Enter(c) PROVE OrderInv'
  <2>1. call[c] \in Calls /\ served \in Lines /\ batch \in Lines /\ channel \in Lines
    BY <1>3 DEF ChannelTypeOK, Lines
  <2>2. Append(served \o (batch \o channel), call[c])
          = served \o (batch \o Append(channel, call[c]))
    BY <2>1, AppendToRow
  <2> QED
    BY <1>3, <2>2 DEF Enter
<1>4. ASSUME NEW c \in Clients, TakeReply(c) PROVE OrderInv'
  BY <1>4 DEF TakeReply
<1>5. ASSUME NEW c \in Clients, SendFails(c) PROVE OrderInv'
  BY <1>5 DEF SendFails
<1>6. ASSUME NEW c \in Clients, ReplyFails(c) PROVE OrderInv'
  BY <1>6 DEF ReplyFails
<1>7. ASSUME NEW c \in Clients, Leave(c) PROVE OrderInv'
  BY <1>7 DEF Leave
<1>8. CASE DropHandle
  BY <1>8 DEF DropHandle
<1>9. CASE Receive
  <2>1. <<>> \o channel = channel /\ channel \o <<>> = channel
    BY ConcatEmptySeq DEF ChannelTypeOK
  <2> QED
    BY <1>9, <2>1 DEF Receive
<1>10. CASE HandleCommand
  BY <1>10 DEF HandleCommand
<1>11. CASE SendReply
  <2>1. /\ batch # <<>> /\ thread = "running"
        /\ served \in Lines /\ batch \in Lines /\ channel \in Lines
    BY <1>11 DEF SendReply, ChannelTypeOK, Lines
  <2>2. served \o (batch \o channel) = Append(served, Head(batch)) \o (Tail(batch) \o channel)
    BY <2>1, HeadOfRow
  <2> QED
    BY <1>11, <2>1, <2>2 DEF SendReply
<1>12. CASE Panic
  BY <1>12, RunningPrefix DEF Panic
<1>13. CASE Stop
  <2>1. served \o (<<>> \o <<>>) = served
    BY ConcatEmptySeq, EmptySeq DEF ChannelTypeOK
  <2>2. served = arrived
    BY <1>13, <2>1 DEF Stop
  <2> QED
    BY <1>13, <2>2, RunningPrefix DEF Stop
<1>14. CASE UNCHANGED vars
  BY <1>14 DEF vars
<1> QED
  BY <1>1, <1>2, <1>3, <1>4, <1>5, <1>6, <1>7, <1>8, <1>9, <1>10, <1>11, <1>12,
     <1>13, <1>14 DEF Next, ClientStep, ThreadStep, Ended

LEMMA OrderCorrect == Spec => [](ChannelTypeOK /\ OrderInv)
<1> QED
  BY ChannelTypeInit, ChannelTypeStep, OrderInit, OrderStep, PTL DEF Spec

(***************************************************************************)
(* Buffers are answered in the order in which they arrived, none twice and *)
(* none left out.                                                          *)
(***************************************************************************)
THEOREM ServedInOrderHolds == Spec => []ServedInOrder
<1>1. ChannelTypeOK /\ OrderInv => ServedInOrder
  <2> SUFFICES ASSUME ChannelTypeOK, OrderInv PROVE ServedInOrder
    OBVIOUS
  <2>1. (served \o batch) \o channel = served \o (batch \o channel)
    BY ConcatAssociative DEF ChannelTypeOK
  <2>2. CASE thread = "running"
    BY <2>1, <2>2 DEF OrderInv, ServedInOrder
  <2>3. CASE thread # "running"
    BY <2>3, StartsIsPrefix DEF OrderInv, ServedInOrder, ChannelTypeOK, Lines
  <2> QED
    BY <2>2, <2>3
<1> QED
  BY <1>1, OrderCorrect, PTL

(***************************************************************************)
(* When the thread has stopped, all that was ever sent has been served.    *)
(***************************************************************************)
THEOREM StopsDrainedHolds == Spec => []StopsDrained
<1>1. OrderInv => StopsDrained
  BY DEF OrderInv, StopsDrained
<1> QED
  BY <1>1, OrderCorrect, PTL

(***************************************************************************)
(* Replies.  response_buf holds the results of the commands of the first   *)
(* buffer that were handled, and a call that is still in line has no reply *)
(* of an earlier one.                                                      *)
(***************************************************************************)
ResultsInv ==
  /\ batch = <<>> => results = <<>>
  /\ batch # <<>> =>
       /\ Len(results) <= Head(batch).size
       /\ \A i \in 1 .. Len(results) : results[i] = Result(Head(batch), i)

NoEarlyReply == \A c \in Clients : client[c] = "sending" => reply[c] = NoReply

ReplyInv == ResultsInv /\ NoEarlyReply /\ RepliesMatch

LEMMA CompleteResults ==
  ASSUME ChannelTypeOK, ResultsInv, batch # <<>>, Len(results) = Head(batch).size
  PROVE  results = ResultsOf(Head(batch))
<1>1. results \in [1 .. Len(results) -> Results]
  BY LenProperties DEF ChannelTypeOK
<1>2. \A i \in 1 .. Len(results) : results[i] = Result(Head(batch), i)
  BY DEF ResultsInv
<1>3. ResultsOf(Head(batch)) = [i \in 1 .. Len(results) |-> Result(Head(batch), i)]
  BY DEF ResultsOf
<1> QED
  BY <1>1, <1>2, <1>3

LEMMA ReplyInit == Init => ReplyInv
BY EmptySeq DEF Init, ReplyInv, ResultsInv, NoEarlyReply, RepliesMatch

LEMMA ResultsStep == ChannelTypeOK /\ ResultsInv /\ [Next]_vars => ResultsInv'
<1> SUFFICES ASSUME ChannelTypeOK, ResultsInv, [Next]_vars PROVE ResultsInv'
  OBVIOUS
<1> USE DEF threadVars
<1>1. CASE UNCHANGED <<batch, results>>
  BY <1>1 DEF ResultsInv
<1>2. CASE Receive
  <2>1. results' = <<>> /\ Len(results') = 0 /\ batch' = channel /\ channel # <<>>
    BY <1>2, EmptySeq DEF Receive, ResultsInv
  <2>2. Head(channel) \in Calls
    BY <2>1, HeadTailProperties DEF ChannelTypeOK
  <2>3. 0 <= Head(channel).size
    BY <2>2, CallFields
  <2> QED
    BY <2>1, <2>3 DEF ResultsInv
<1>3. CASE HandleCommand
  <2> DEFINE r == Result(Head(batch), Len(results) + 1)
  <2>1. /\ batch # <<>> /\ batch' = batch /\ results' = Append(results, r)
        /\ Len(results) < Head(batch).size
    BY <1>3 DEF HandleCommand
  <2>2. Head(batch) \in Calls /\ Len(results) \in Nat /\ Head(batch).size \in Nat
    BY <2>1, HeadTailProperties, CallFields, LenProperties DEF ChannelTypeOK
  <2>3. r \in Results
    BY <2>2 DEF Result, Results
  <2>4. /\ Len(results') = Len(results) + 1
        /\ \A i \in 1 .. Len(results) : results'[i] = results[i]
        /\ results'[Len(results) + 1] = r
    BY <2>1, <2>3, AppendProperties DEF ChannelTypeOK
  <2>5. \A i \in 1 .. Len(results') : results'[i] = Result(Head(batch), i)
    <3> SUFFICES ASSUME NEW i \in 1 .. Len(results')
                 PROVE  results'[i] = Result(Head(batch), i)
      OBVIOUS
    <3>1. CASE i = Len(results) + 1
      BY <2>4, <3>1
    <3>2. CASE i # Len(results) + 1
      <4>1. i \in 1 .. Len(results)
        BY <2>2, <2>4, <3>2
      <4> QED
        BY <2>1, <2>4, <4>1 DEF ResultsInv
    <3> QED
      BY <3>1, <3>2
  <2>6. Len(results') <= Head(batch).size
    BY <2>1, <2>2, <2>4
  <2> QED
    BY <2>1, <2>5, <2>6 DEF ResultsInv
<1>4. CASE SendReply
  <2>1. results' = <<>> /\ Len(results') = 0 /\ batch' = Tail(batch) /\ batch # <<>>
    BY <1>4, EmptySeq DEF SendReply
  <2>2. Tail(batch) \in Seq(Calls)
    BY <2>1, HeadTailProperties DEF ChannelTypeOK
  <2>3. batch' # <<>> => 0 <= Head(batch').size
    BY <2>1, <2>2, HeadTailProperties, CallFields
  <2> QED
    BY <2>1, <2>3 DEF ResultsInv
<1>5. CASE Panic
  BY <1>5 DEF Panic, ResultsInv
<1> QED
  BY <1>1, <1>2, <1>3, <1>4, <1>5 DEF Next, ClientStep, ThreadStep, Ended, vars,
     GetClient, SendCommands, Enter, TakeReply, SendFails, ReplyFails, Leave,
     DropHandle, Stop

LEMMA ReplyStep == ChannelTypeOK /\ ReplyInv /\ [Next]_vars => NoEarlyReply' /\ RepliesMatch'
<1> SUFFICES ASSUME ChannelTypeOK, ReplyInv, [Next]_vars
             PROVE  NoEarlyReply' /\ RepliesMatch'
  OBVIOUS
<1> DEFINE Goal == NoEarlyReply' /\ RepliesMatch'
<1> USE DEF NoEarlyReply, RepliesMatch, clientVars
<1>0. /\ client \in [Clients -> {"absent", "ready", "sending", "waiting", "gone", "failed"}]
      /\ call \in [Clients -> Calls]
      /\ reply \in [Clients -> {NoReply} \cup Seq(Results)]
      /\ NoEarlyReply /\ RepliesMatch
  BY DEF ChannelTypeOK, ReplyInv
<1>1. ASSUME NEW c \in Clients, GetClient(c) PROVE Goal
  BY <1>0, <1>1 DEF GetClient
<1>2. ASSUME NEW c \in Clients, NEW size \in BufferSizes, SendCommands(c, size)
      PROVE  Goal
  BY <1>0, <1>2 DEF SendCommands
<1>3. ASSUME NEW c \in Clients, Enter(c) PROVE Goal
  BY <1>0, <1>3 DEF Enter
<1>4. ASSUME NEW c \in Clients, TakeReply(c) PROVE Goal
  BY <1>0, <1>4 DEF TakeReply
<1>5. ASSUME NEW c \in Clients, SendFails(c) PROVE Goal
  BY <1>0, <1>5 DEF SendFails
<1>6. ASSUME NEW c \in Clients, ReplyFails(c) PROVE Goal
  BY <1>0, <1>6 DEF ReplyFails
<1>7. ASSUME NEW c \in Clients, Leave(c) PROVE Goal
  BY <1>0, <1>7 DEF Leave
<1>8. CASE SendReply
  <2>1. results = ResultsOf(Head(batch)) /\ UNCHANGED <<client, call>>
    BY <1>8, CompleteResults DEF SendReply, ReplyInv
  <2>2. \A c \in Clients :
          \/ reply'[c] = reply[c]
          \/ /\ client[c] = "waiting" /\ call[c] = Head(batch)
             /\ reply'[c] = ResultsOf(Head(batch))
    BY <1>0, <1>8, <2>1 DEF SendReply, Deliver
  <2> QED
    BY <1>0, <2>1, <2>2
<1>9. CASE UNCHANGED <<client, call, reply>>
  BY <1>0, <1>9 DEF ResultsOf
<1> QED
  BY <1>1, <1>2, <1>3, <1>4, <1>5, <1>6, <1>7, <1>8, <1>9 DEF Next, ClientStep,
     ThreadStep, Ended, vars, DropHandle, Receive, HandleCommand, Panic, Stop

(***************************************************************************)
(* A client that finds a reply finds the results of its latest call, all   *)
(* of them and in the order of its commands.                               *)
(***************************************************************************)
THEOREM RepliesMatchHolds == Spec => []RepliesMatch
<1>1. ChannelTypeOK /\ ReplyInv /\ [Next]_vars => ReplyInv'
  BY ResultsStep, ReplyStep DEF ReplyInv
<1>2. ReplyInv => RepliesMatch
  BY DEF ReplyInv
<1> QED
  BY <1>1, <1>2, ReplyInit, ChannelTypeInit, ChannelTypeStep, PTL DEF Spec

(***************************************************************************)
(* The channel implements CommandService.  A call is held in one place at  *)
(* a time: the line of senders, the channel or the thread's batch.         *)
(***************************************************************************)
Distinct(s) == \A i, j \in 1 .. Len(s) : s[i] = s[j] => i = j

LEMMA SetOfLine ==
  ASSUME NEW s \in Lines
  PROVE  /\ Len(s) \in Nat
         /\ ToSet(s) = {s[i] : i \in 1 .. Len(s)}
         /\ ToSet(s) \subseteq Calls
<1>1. Len(s) \in Nat /\ DOMAIN s = 1 .. Len(s)
  BY LenProperties DEF Lines
<1>2. \A i \in 1 .. Len(s) : s[i] \in Calls
  BY ElementOfSeq DEF Lines
<1> QED
  BY <1>1, <1>2 DEF ToSet

LEMMA EmptyLine ==
  <<>> \in Lines /\ ToSet(<<>>) = {} /\ Distinct(<<>>)
<1>1. <<>> \in Lines /\ Len(<<>>) = 0
  BY EmptySeq DEF Lines
<1>2. 1 .. 0 = {}
  OBVIOUS
<1> QED
  BY <1>1, <1>2, SetOfLine DEF Distinct

LEMMA AppendToLine ==
  ASSUME NEW s \in Lines, NEW e \in Calls
  PROVE  /\ ToSet(Append(s, e)) = ToSet(s) \cup {e}
         /\ Distinct(s) /\ e \notin ToSet(s) => Distinct(Append(s, e))
<1> DEFINE t == Append(s, e)
<1>1. /\ t \in Lines /\ Len(t) = Len(s) + 1 /\ t[Len(s) + 1] = e
      /\ \A i \in 1 .. Len(s) : t[i] = s[i]
  BY AppendProperties DEF Lines
<1>2. /\ Len(s) \in Nat
      /\ ToSet(s) = {s[i] : i \in 1 .. Len(s)}
      /\ ToSet(t) = {t[i] : i \in 1 .. Len(t)}
  BY <1>1, SetOfLine
<1> HIDE DEF t
<1>3. \A i : i \in 1 .. Len(t) <=> i \in 1 .. Len(s) \/ i = Len(s) + 1
  BY <1>1, <1>2
<1>4. ToSet(t) = ToSet(s) \cup {e}
  <2>1. ToSet(t) \subseteq ToSet(s) \cup {e}
    BY <1>1, <1>2, <1>3
  <2>2. \A x \in ToSet(s) : x \in ToSet(t)
    BY <1>1, <1>2, <1>3
  <2>3. e \in ToSet(t)
    BY <1>1, <1>2, <1>3
  <2> QED
    BY <2>1, <2>2, <2>3
<1>5. ASSUME Distinct(s), e \notin ToSet(s) PROVE Distinct(t)
  <2> SUFFICES ASSUME NEW i \in 1 .. Len(t), NEW j \in 1 .. Len(t), t[i] = t[j]
               PROVE  i = j
    BY DEF Distinct
  <2>1. CASE i \in 1 .. Len(s) /\ j \in 1 .. Len(s)
    BY <1>1, <1>5, <2>1 DEF Distinct
  <2>2. CASE i = Len(s) + 1 /\ j \in 1 .. Len(s)
    BY <1>1, <1>2, <1>5, <2>2
  <2>3. CASE i \in 1 .. Len(s) /\ j = Len(s) + 1
    BY <1>1, <1>2, <1>5, <2>3
  <2> QED
    BY <1>3, <2>1, <2>2, <2>3
<1> QED
  BY <1>4, <1>5 DEF t

LEMMA TailOfLine ==
  ASSUME NEW s \in Lines, s # <<>>
  PROVE  /\ Tail(s) \in Lines /\ Head(s) \in Calls
         /\ ToSet(s) = ToSet(Tail(s)) \cup {Head(s)}
         /\ Distinct(s) => Distinct(Tail(s)) /\ Head(s) \notin ToSet(Tail(s))
<1> DEFINE t == Tail(s)
<1>1. /\ t \in Lines /\ Head(s) \in Calls /\ Len(t) = Len(s) - 1
      /\ \A i \in 1 .. Len(t) : t[i] = s[i + 1]
  BY HeadTailProperties DEF Lines
<1>2. /\ Len(s) \in Nat \ {0} /\ Head(s) = s[1]
      /\ ToSet(s) = {s[i] : i \in 1 .. Len(s)}
      /\ ToSet(t) = {t[i] : i \in 1 .. Len(t)}
  <2>1. Len(s) \in Nat \ {0} /\ Head(s) = s[1]
    BY EmptySeq DEF Lines
  <2> QED
    BY <1>1, <2>1, SetOfLine
<1> HIDE DEF t
<1>3. /\ \A i \in 1 .. Len(t) : i + 1 \in 1 .. Len(s) /\ i + 1 # 1
      /\ \A i \in 1 .. Len(s) : i = 1 \/ (i - 1 \in 1 .. Len(t) /\ (i - 1) + 1 = i)
      /\ 1 \in 1 .. Len(s)
  BY <1>1, <1>2
<1>4. ToSet(s) = ToSet(t) \cup {Head(s)}
  <2>1. \A x \in ToSet(s) : x \in ToSet(t) \/ x = Head(s)
    <3> SUFFICES ASSUME NEW i \in 1 .. Len(s) PROVE s[i] \in ToSet(t) \/ s[i] = s[1]
      BY <1>2
    <3>1. CASE i = 1
      BY <3>1
    <3>2. CASE i # 1
      <4>1. i - 1 \in 1 .. Len(t) /\ t[i - 1] = s[i]
        BY <1>1, <1>3, <3>2
      <4> QED
        BY <1>2, <4>1
    <3> QED
      BY <3>1, <3>2
  <2>2. \A x \in ToSet(t) : x \in ToSet(s)
    BY <1>1, <1>2, <1>3
  <2>3. Head(s) \in ToSet(s)
    BY <1>2, <1>3
  <2> QED
    BY <2>1, <2>2, <2>3
<1>5. ASSUME Distinct(s) PROVE Distinct(t) /\ Head(s) \notin ToSet(t)
  <2>1. Distinct(t)
    <3> SUFFICES ASSUME NEW i \in 1 .. Len(t), NEW j \in 1 .. Len(t), t[i] = t[j]
                 PROVE  i = j
      BY DEF Distinct
    <3>1. s[i + 1] = s[j + 1] /\ i + 1 \in 1 .. Len(s) /\ j + 1 \in 1 .. Len(s)
      BY <1>1, <1>3
    <3>2. i + 1 = j + 1
      BY <1>5, <3>1 DEF Distinct
    <3> QED
      BY <3>2
  <2>2. \A i \in 1 .. Len(t) : t[i] # Head(s)
    <3> SUFFICES ASSUME NEW i \in 1 .. Len(t), s[i + 1] = s[1] PROVE FALSE
      BY <1>1, <1>2
    <3> QED
      BY <1>3, <1>5 DEF Distinct
  <2> QED
    BY <1>2, <2>1, <2>2
<1> QED
  BY <1>1, <1>4, <1>5 DEF t

LEMMA RemoveFromLine ==
  ASSUME NEW s \in Lines, NEW k \in DOMAIN s, Distinct(s)
  PROVE  /\ ToSet(RemoveAt(s, k)) = ToSet(s) \ {s[k]}
         /\ Distinct(RemoveAt(s, k))
<1> DEFINE t == RemoveAt(s, k)
           n == Len(s)
           p == SubSeq(s, 1, k - 1)
           q == SubSeq(s, k + 1, n)
           from(i) == IF i <= k - 1 THEN i ELSE i + 1
<1>1. n \in Nat /\ k \in 1 .. n /\ \A i \in 1 .. n : s[i] \in Calls
  BY LenProperties, ElementOfSeq DEF Lines
<1>2. /\ p \in Lines /\ Len(p) = k - 1
      /\ \A i \in 1 .. k - 1 : p[i] = s[i]
  <2>1. /\ p \in Seq(Calls)
        /\ Len(p) = IF 1 <= k - 1 THEN (k - 1) - 1 + 1 ELSE 0
        /\ \A i \in 1 .. (k - 1) - 1 + 1 : p[i] = s[1 + i - 1]
    <3>1. 1 \in Int /\ k - 1 \in Int /\ \A i \in 1 .. k - 1 : s[i] \in Calls
      BY <1>1
    <3> QED
      BY <3>1, SubSeqProperties
  <2>2. Len(p) = k - 1
    BY <1>1, <2>1
  <2>3. \A i \in 1 .. k - 1 : i \in 1 .. (k - 1) - 1 + 1 /\ 1 + i - 1 = i
    BY <1>1
  <2> QED
    BY <2>1, <2>2, <2>3 DEF Lines
<1>3. /\ q \in Lines /\ Len(q) = n - k
      /\ \A i \in 1 .. n - k : q[i] = s[k + i]
  <2>1. /\ q \in Seq(Calls)
        /\ Len(q) = IF k + 1 <= n THEN n - (k + 1) + 1 ELSE 0
        /\ \A i \in 1 .. n - (k + 1) + 1 : q[i] = s[(k + 1) + i - 1]
    <3>1. k + 1 \in Int /\ n \in Int /\ \A i \in k + 1 .. n : s[i] \in Calls
      BY <1>1
    <3> QED
      BY <3>1, SubSeqProperties
  <2>2. Len(q) = n - k
    BY <1>1, <2>1
  <2>3. \A i \in 1 .. n - k : i \in 1 .. n - (k + 1) + 1 /\ (k + 1) + i - 1 = k + i
    BY <1>1
  <2> QED
    BY <2>1, <2>2, <2>3 DEF Lines
<1>4. t = p \o q
  BY DEF RemoveAt
<1> HIDE DEF p, q
<1>5. /\ t \in Lines /\ Len(t) = n - 1
      /\ \A i \in 1 .. n - 1 : t[i] = s[from(i)]
  <2>1. /\ p \o q \in Lines /\ Len(p \o q) = Len(p) + Len(q)
        /\ \A i \in 1 .. Len(p) + Len(q) :
             (p \o q)[i] = IF i <= Len(p) THEN p[i] ELSE q[i - Len(p)]
    BY <1>2, <1>3, ConcatProperties DEF Lines
  <2>2. Len(p) + Len(q) = n - 1
    BY <1>1, <1>2, <1>3
  <2>3. ASSUME NEW i \in 1 .. n - 1 PROVE (p \o q)[i] = s[from(i)]
    <3>1. (p \o q)[i] = IF i <= k - 1 THEN p[i] ELSE q[i - (k - 1)]
      BY <1>2, <2>1, <2>2
    <3>2. CASE i <= k - 1
      BY <1>1, <1>2, <3>1, <3>2
    <3>3. CASE ~ (i <= k - 1)
      <4>1. i - (k - 1) \in 1 .. n - k /\ k + (i - (k - 1)) = i + 1
        BY <1>1, <3>3
      <4> QED
        BY <1>3, <3>1, <3>3, <4>1
    <3> QED
      BY <3>2, <3>3
  <2> QED
    BY <1>4, <2>1, <2>2, <2>3
<1>6. /\ ToSet(s) = {s[i] : i \in 1 .. n}
      /\ ToSet(t) = {t[i] : i \in 1 .. n - 1}
  BY <1>5, SetOfLine
<1>7. /\ \A i \in 1 .. n - 1 : from(i) \in 1 .. n /\ from(i) # k
      /\ \A i, j \in 1 .. n - 1 : from(i) = from(j) => i = j
      /\ \A j \in 1 .. n : j # k => \E i \in 1 .. n - 1 : from(i) = j
  <2>1. \A j \in 1 .. n : j < k => j \in 1 .. n - 1 /\ from(j) = j
    BY <1>1
  <2>2. \A j \in 1 .. n : j > k => j - 1 \in 1 .. n - 1 /\ from(j - 1) = j
    BY <1>1
  <2>3. \A j \in 1 .. n : j # k => j < k \/ j > k
    BY <1>1
  <2>4. \A j \in 1 .. n : j # k => \E i \in 1 .. n - 1 : from(i) = j
    BY <2>1, <2>2, <2>3
  <2> QED
    BY <1>1, <2>4
<1> HIDE DEF t, n, from
<1>8. \A i, j \in 1 .. n : s[i] = s[j] => i = j
  BY DEF Distinct, n
<1>9. ToSet(t) = ToSet(s) \ {s[k]}
  <2>1. \A x \in ToSet(t) : x \in ToSet(s) /\ x # s[k]
    BY <1>1, <1>5, <1>6, <1>7, <1>8
  <2>2. \A x \in ToSet(s) : x # s[k] => x \in ToSet(t)
    <3> SUFFICES ASSUME NEW j \in 1 .. n, s[j] # s[k] PROVE s[j] \in ToSet(t)
      BY <1>6
    <3>1. PICK i \in 1 .. n - 1 : from(i) = j
      BY <1>7
    <3> QED
      BY <1>5, <1>6, <3>1
  <2> QED
    BY <2>1, <2>2
<1>10. Distinct(t)
  BY <1>5, <1>7, <1>8 DEF Distinct
<1> QED
  BY <1>9, <1>10 DEF t

\* The senders in line are those whose call is not in the channel yet.
Senders == {c \in Clients : client[c] = "sending"}

Held == ToSet(channel) \cup ToSet(batch)

HeldInv ==
  /\ \A c \in Clients : call[c].client = c
  /\ Distinct(waiters) /\ Distinct(channel) /\ Distinct(batch)
  /\ ToSet(waiters) = {call[c] : c \in Senders}
  /\ ToSet(waiters) \cap Held = {}
  /\ ToSet(channel) \cap ToSet(batch) = {}
  /\ \A r \in Held : r.number <= call[r.client].number
  /\ \A c \in Clients :
       client[c] = "waiting" /\ reply[c] # NoReply => call[c] \in ToSet(served)

\* A client that gives up its call leaves the line, if it stands there.
LEMMA LeaveLineEffect ==
  ASSUME ChannelTypeOK, HeldInv, NEW c \in Clients, LeaveLine(c)
  PROVE  /\ ToSet(waiters') = {call[d] : d \in Senders \ {c}}
         /\ ToSet(waiters') = ToSet(waiters) \ {call[c]}
         /\ Distinct(waiters')
<1>1. /\ \A d \in Clients : call[d].client = d
      /\ Distinct(waiters)
      /\ ToSet(waiters) = {call[d] : d \in Senders}
      /\ waiters \in Lines
  BY DEF HeldInv, ChannelTypeOK, Lines
<1>2. {call[d] : d \in Senders \ {c}} = ToSet(waiters) \ {call[c]}
  BY <1>1 DEF Senders
<1>3. CASE call[c] \notin ToSet(waiters) /\ UNCHANGED waiters
  BY <1>1, <1>2, <1>3
<1>4. CASE \E i \in DOMAIN waiters :
             waiters[i] = call[c] /\ waiters' = RemoveAt(waiters, i)
  <2> PICK i \in DOMAIN waiters :
             waiters[i] = call[c] /\ waiters' = RemoveAt(waiters, i)
    BY <1>4
  <2>1. /\ ToSet(RemoveAt(waiters, i)) = ToSet(waiters) \ {waiters[i]}
        /\ Distinct(RemoveAt(waiters, i))
    BY <1>1, RemoveFromLine
  <2> QED
    BY <1>2, <2>1
<1> QED
  BY <1>3, <1>4 DEF LeaveLine

LEMMA HeldInit == Init => HeldInv
<1> SUFFICES ASSUME Init PROVE HeldInv
  OBVIOUS
<1>1. Senders = {} /\ \A c \in Clients : call[c].client = c
  BY DEF Init, Senders
<1> QED
  BY <1>1, EmptyLine DEF Init, HeldInv, Held

LEMMA HeldStep == ChannelTypeOK /\ ReplyInv /\ HeldInv /\ [Next]_vars => HeldInv'
<1> SUFFICES ASSUME ChannelTypeOK, ReplyInv, HeldInv, [Next]_vars PROVE HeldInv'
  OBVIOUS
<1> USE DEF clientVars, threadVars
<1>0. /\ client \in [Clients -> {"absent", "ready", "sending", "waiting", "gone", "failed"}]
      /\ call \in [Clients -> Calls]
      /\ reply \in [Clients -> {NoReply} \cup Seq(Results)]
      /\ waiters \in Lines /\ channel \in Lines /\ batch \in Lines /\ served \in Lines
  BY DEF ChannelTypeOK, Lines
<1>1. ASSUME NEW c \in Clients, GetClient(c) PROVE HeldInv'
  <2>1. Senders' = Senders
    BY <1>0, <1>1 DEF GetClient, Senders
  <2> QED
    BY <1>0, <1>1, <2>1 DEF GetClient, HeldInv, Held
<1>2. ASSUME NEW c \in Clients, NEW size \in BufferSizes, SendCommands(c, size)
      PROVE  HeldInv'
  <2> DEFINE r == call'[c]
  <2>1. /\ r = [client |-> c, number |-> call[c].number + 1, size |-> size]
        /\ \A d \in Clients : d # c => call'[d] = call[d]
        /\ call' \in [Clients -> Calls] /\ r \in Calls
        /\ call[c].number \in Nat
    <3>1. call[c].number \in Nat
      BY <1>0, CallFields
    <3> QED
      BY <1>0, <1>2, <3>1 DEF SendCommands, Calls
  <2>2. waiters' = Append(waiters, r) /\ UNCHANGED <<channel, batch, served>>
        /\ reply' = [reply EXCEPT ![c] = NoReply]
        /\ client' = [client EXCEPT ![c] = "sending"] /\ client[c] = "ready"
    BY <1>2 DEF SendCommands
  <2>3. Held' = Held /\ Held \subseteq Calls
    BY <1>0, <2>2, SetOfLine DEF Held
  <2>4. r \notin Held
    <3> SUFFICES ASSUME r \in Held PROVE FALSE
      OBVIOUS
    <3>1. r.number <= call[r.client].number
      BY DEF HeldInv
    <3>2. r.number = call[c].number + 1 /\ r.client = c
      BY <2>1
    <3> QED
      BY <2>1, <3>1, <3>2
  <2>5. r \notin ToSet(waiters) /\ c \notin Senders
    <3>1. c \notin Senders
      BY <2>2 DEF Senders
    <3>2. \A d \in Senders : call[d].client = d
      BY DEF HeldInv, Senders
    <3>3. r.client = c
      BY <2>1
    <3> QED
      BY <3>1, <3>2, <3>3 DEF HeldInv
  <2>6. ToSet(waiters') = ToSet(waiters) \cup {r} /\ Distinct(waiters')
    BY <1>0, <2>1, <2>2, <2>5, AppendToLine DEF HeldInv
  <2>7. Senders' = Senders \cup {c}
    BY <1>0, <2>2 DEF Senders
  <2>8. ToSet(waiters') = {call'[d] : d \in Senders'}
    <3>1. \A d \in Senders : call'[d] = call[d]
      BY <2>1, <2>5 DEF Senders
    <3> QED
      BY <2>6, <2>7, <3>1 DEF HeldInv
  <2>9. \A x \in Held' : x.number <= call'[x.client].number
    <3> SUFFICES ASSUME NEW x \in Held PROVE x.number <= call'[x.client].number
      BY <2>3
    <3>1. x.number \in Nat /\ x.client \in Clients /\ x.number <= call[x.client].number
      BY <2>3, CallFields DEF HeldInv
    <3>2. CASE x.client = c
      BY <2>1, <3>1, <3>2
    <3>3. CASE x.client # c
      BY <2>1, <3>1, <3>3
    <3> QED
      BY <3>2, <3>3
  <2>10. \A d \in Clients : call'[d].client = d
    BY <2>1 DEF HeldInv
  <2>11. \A d \in Clients :
           client'[d] = "waiting" /\ reply'[d] # NoReply => call'[d] \in ToSet(served')
    BY <1>0, <2>1, <2>2 DEF HeldInv
  <2> QED
    BY <2>2, <2>3, <2>4, <2>6, <2>8, <2>9, <2>10, <2>11 DEF HeldInv
<1>3. ASSUME NEW c \in Clients, Enter(c) PROVE HeldInv'
  <2> DEFINE r == call[c]
  <2>1. /\ c \in Senders /\ r \in Calls /\ r \in ToSet(waiters)
        /\ r = Head(waiters) /\ waiters' = Tail(waiters)
        /\ channel' = Append(channel, r)
        /\ client' = [client EXCEPT ![c] = "waiting"]
        /\ UNCHANGED <<batch, call, reply, served>>
    BY <1>0, <1>3 DEF Enter, Senders, HeldInv
  <2>2. waiters # <<>>
    BY <2>1, EmptyLine
  <2>3. /\ ToSet(waiters) = ToSet(waiters') \cup {r}
        /\ Distinct(waiters') /\ r \notin ToSet(waiters')
    BY <1>0, <2>1, <2>2, TailOfLine DEF HeldInv
  <2>4. r \notin ToSet(channel) /\ r \notin ToSet(batch)
    BY <2>1 DEF HeldInv, Held
  <2>5. ToSet(channel') = ToSet(channel) \cup {r} /\ Distinct(channel')
    BY <1>0, <2>1, <2>4, AppendToLine DEF HeldInv
  <2>6. Senders' = Senders \ {c}
    BY <1>0, <2>1 DEF Senders
  <2>7. ToSet(waiters') = {call'[d] : d \in Senders'}
    <3>1. \A d \in Senders' : call[d] # r
      BY <2>1, <2>6 DEF HeldInv, Senders
    <3> QED
      BY <2>1, <2>3, <2>6, <3>1 DEF HeldInv
  <2>8. Held' = Held \cup {r}
    BY <2>1, <2>5 DEF Held
  <2>9. \A x \in Held' : x.number <= call'[x.client].number
    <3>1. r.client = c /\ r.number \in Nat
      BY <2>1, CallFields DEF HeldInv
    <3> QED
      BY <2>1, <2>8, <3>1 DEF HeldInv
  <2>10. \A d \in Clients :
           client'[d] = "waiting" /\ reply'[d] # NoReply => call'[d] \in ToSet(served')
    <3>1. reply[c] = NoReply
      BY <2>1 DEF ReplyInv, NoEarlyReply, Senders
    <3> QED
      BY <1>0, <2>1, <3>1 DEF HeldInv
  <2> QED
    BY <2>1, <2>3, <2>4, <2>5, <2>7, <2>8, <2>9, <2>10 DEF HeldInv, Held
<1>4. ASSUME NEW c \in Clients, TakeReply(c) PROVE HeldInv'
  <2>1. Senders' = Senders
    BY <1>0, <1>4 DEF TakeReply, Senders
  <2> QED
    BY <1>0, <1>4, <2>1 DEF TakeReply, HeldInv, Held
<1>5. ASSUME NEW c \in Clients, NEW place \in {"failed", "gone"}, LeaveLine(c),
             client' = [client EXCEPT ![c] = place],
             UNCHANGED <<call, channel, reply, threadVars>>
      PROVE  HeldInv'
  <2>1. Senders' = Senders \ {c}
    BY <1>0, <1>5 DEF Senders
  <2>2. /\ ToSet(waiters') = {call[d] : d \in Senders \ {c}}
        /\ ToSet(waiters') = ToSet(waiters) \ {call[c]}
        /\ Distinct(waiters')
    BY <1>5, LeaveLineEffect
  <2>3. \A d \in Clients :
          client'[d] = "waiting" /\ reply[d] # NoReply => call[d] \in ToSet(served)
    BY <1>0, <1>5 DEF HeldInv
  <2> QED
    BY <1>5, <2>1, <2>2, <2>3 DEF HeldInv, Held
<1>6. ASSUME NEW c \in Clients, ReplyFails(c) PROVE HeldInv'
  <2>1. Senders' = Senders
    BY <1>0, <1>6 DEF ReplyFails, Senders
  <2> QED
    BY <1>0, <1>6, <2>1 DEF ReplyFails, HeldInv, Held
<1>7. CASE Receive
  <2>1. /\ batch = <<>> /\ batch' = channel /\ channel' = <<>>
        /\ UNCHANGED <<client, call, waiters, reply, served>>
    BY <1>7 DEF Receive
  <2>2. Held' = Held /\ Senders' = Senders
    BY <2>1, EmptyLine DEF Held, Senders
  <2>3. ToSet(channel') = {} /\ Distinct(channel')
    BY <2>1, EmptyLine
  <2> QED
    BY <2>1, <2>2, <2>3 DEF HeldInv
<1>8. CASE SendReply
  <2> DEFINE r == Head(batch)
  <2>1. /\ batch # <<>> /\ batch' = Tail(batch) /\ served' = Append(served, r)
        /\ reply' = Deliver(r)
        /\ UNCHANGED <<client, call, waiters, channel>>
    BY <1>8 DEF SendReply
  <2>2. /\ r \in Calls /\ ToSet(batch) = ToSet(batch') \cup {r} /\ Distinct(batch')
    BY <1>0, <2>1, TailOfLine DEF HeldInv
  <2>3. Held' \subseteq Held /\ ToSet(batch') \subseteq ToSet(batch) /\ Senders' = Senders
    BY <2>1, <2>2 DEF Held, Senders
  <2>4. ToSet(served') = ToSet(served) \cup {r}
    BY <1>0, <2>1, <2>2, AppendToLine
  <2>5. \A c \in Clients :
          reply'[c] = reply[c] \/ call[c] = r
    BY <1>0, <2>1 DEF Deliver
  <2>6. \A c \in Clients :
          client'[c] = "waiting" /\ reply'[c] # NoReply => call'[c] \in ToSet(served')
    BY <2>1, <2>4, <2>5 DEF HeldInv
  <2> QED
    BY <2>1, <2>2, <2>3, <2>6 DEF HeldInv
<1>9. CASE Panic
  <2>1. /\ batch' = <<>> /\ channel' = <<>>
        /\ UNCHANGED <<client, call, waiters, reply, served>>
    BY <1>9 DEF Panic
  <2>2. Held' = {} /\ Senders' = Senders
    BY <2>1, EmptyLine DEF Held, Senders
  <2> QED
    BY <2>1, <2>2, EmptyLine DEF HeldInv
<1>10. CASE UNCHANGED <<client, call, waiters, channel, batch, reply, served>>
  BY <1>10 DEF HeldInv, Held, Senders
<1> QED
  BY <1>1, <1>2, <1>3, <1>4, <1>5, <1>6, <1>7, <1>8, <1>9, <1>10 DEF Next,
     ClientStep, ThreadStep, Ended, vars, SendFails, Leave, DropHandle,
     HandleCommand, Stop

\* Clients whose call has not ended, and the calls that may yet be served.
Calling == {c \in Clients : client[c] \in {"sending", "waiting"}}

Pending == ToSet(waiters) \cup ToSet(channel) \cup ToSet(batch)

LEMMA ServiceStarts == Init => Service!ServiceInit
<1> SUFFICES ASSUME Init PROVE Service!ServiceInit
  OBVIOUS
<1>1. Pending = {} /\ Calling = {}
  BY EmptyLine DEF Init, Pending, Calling
<1> QED
  BY <1>1 DEF Init, Pending, Calling, Service!ServiceInit, Service!CallOf

\* A client that gives up, wherever its call stands.
LEMMA GivesUp ==
  ASSUME ChannelTypeOK, HeldInv, NEW c \in Clients,
         NEW place \in {"failed", "gone"}, LeaveLine(c),
         client' = [client EXCEPT ![c] = place],
         UNCHANGED <<call, channel, batch, served, thread>>
  PROVE  \/ Service!GiveUp(c)
         \/ UNCHANGED Service!serviceVars
<1>1. /\ Calling' = Calling \ {c}
      /\ UNCHANGED <<call, served, thread>>
  BY DEF Calling, ChannelTypeOK
<1>2. ToSet(waiters') = ToSet(waiters) \ {call[c]}
  BY LeaveLineEffect
<1>3. CASE client[c] = "sending"
  <2>1. call[c] \in ToSet(waiters) /\ c \in Calling
    BY <1>3 DEF HeldInv, Senders, Calling
  <2>2. Pending' = Pending \ {call[c]}
    BY <1>2, <2>1 DEF Pending, HeldInv, Held
  <2> QED
    BY <1>1, <2>1, <2>2 DEF Service!GiveUp, Calling, Pending
<1>4. CASE client[c] # "sending"
  <2>1. call[c] \notin ToSet(waiters)
    BY <1>4 DEF HeldInv, Senders
  <2>2. Pending' = Pending
    BY <1>2, <2>1 DEF Pending
  <2>3. CASE c \in Calling
    BY <1>1, <2>2, <2>3 DEF Service!GiveUp, Calling, Pending
  <2>4. CASE c \notin Calling
    BY <1>1, <2>2, <2>4 DEF Service!serviceVars, Calling, Pending
  <2> QED
    BY <2>3, <2>4
<1> QED
  BY <1>3, <1>4

LEMMA ServiceSteps ==
  ChannelTypeOK /\ ReplyInv /\ HeldInv /\ [Next]_vars
    => [Service!ServiceNext]_(Service!serviceVars)
<1> SUFFICES ASSUME ChannelTypeOK, ReplyInv, HeldInv, [Next]_vars
             PROVE  Service!ServiceNext \/ UNCHANGED Service!serviceVars
  OBVIOUS
<1> DEFINE Goal == Service!ServiceNext \/ UNCHANGED Service!serviceVars
<1> USE DEF clientVars, threadVars
<1>0. /\ client \in [Clients -> {"absent", "ready", "sending", "waiting", "gone", "failed"}]
      /\ call \in [Clients -> Calls]
      /\ waiters \in Lines /\ channel \in Lines /\ batch \in Lines /\ served \in Lines
  BY DEF ChannelTypeOK, Lines
<1>1. ASSUME Calling' = Calling, Pending' = Pending,
             UNCHANGED <<call, served>>, (thread # "panicked") = (thread # "panicked")'
      PROVE  Goal
  BY <1>1 DEF Service!serviceVars, Calling, Pending
<1>2. ASSUME NEW c \in Clients, GetClient(c) PROVE Goal
  <2>1. Calling' = Calling
    BY <1>0, <1>2 DEF GetClient, Calling
  <2> QED
    BY <1>1, <1>2, <2>1 DEF GetClient, Pending
<1>3. ASSUME NEW c \in Clients, NEW size \in BufferSizes, SendCommands(c, size)
      PROVE  Goal
  <2>1. /\ call' = [call EXCEPT ![c] = Service!CallOf(c, @.number + 1, size)]
        /\ waiters' = Append(waiters, call'[c])
        /\ client[c] = "ready" /\ client' = [client EXCEPT ![c] = "sending"]
        /\ UNCHANGED <<channel, batch, served, thread>>
    BY <1>3 DEF SendCommands, Service!CallOf
  <2>2. call'[c] \in Calls
    BY <1>3, ChannelTypeStep DEF ChannelTypeOK
  <2>3. Pending' = Pending \cup {call'[c]}
    BY <1>0, <2>1, <2>2, AppendToLine DEF Pending
  <2>4. c \notin Calling /\ Calling' = Calling \cup {c}
    BY <1>0, <2>1 DEF Calling
  <2>5. Service!Request(c, size)
    BY <2>1, <2>3, <2>4 DEF Service!Request, Pending, Calling
  <2> QED
    BY <2>5 DEF Service!ServiceNext
<1>4. ASSUME NEW c \in Clients, Enter(c) PROVE Goal
  <2>1. /\ client[c] = "sending" /\ client' = [client EXCEPT ![c] = "waiting"]
        /\ call[c] = Head(waiters) /\ call[c] \in ToSet(waiters) /\ call[c] \in Calls
        /\ waiters' = Tail(waiters) /\ channel' = Append(channel, call[c])
        /\ UNCHANGED <<call, batch, served, thread>>
    BY <1>0, <1>4 DEF Enter, HeldInv, Senders
  <2>2. waiters # <<>>
    BY <2>1, EmptyLine
  <2>3. /\ ToSet(waiters) = ToSet(waiters') \cup {call[c]}
        /\ ToSet(channel') = ToSet(channel) \cup {call[c]}
    BY <1>0, <2>1, <2>2, TailOfLine, AppendToLine
  <2>4. Pending' = Pending /\ Calling' = Calling
    BY <1>0, <2>1, <2>3 DEF Pending, Calling
  <2> QED
    BY <1>1, <2>1, <2>4
<1>5. ASSUME NEW c \in Clients, TakeReply(c) PROVE Goal
  <2>1. /\ c \in Calling /\ Calling' = Calling \ {c}
        /\ call[c] \in ToSet(served) /\ Pending' = Pending
        /\ UNCHANGED <<call, served, thread>>
    BY <1>0, <1>5 DEF TakeReply, Calling, Pending, HeldInv
  <2>2. Service!Return(c)
    BY <2>1 DEF Service!Return, Service!ToSet, ToSet, Calling, Pending
  <2> QED
    BY <2>2 DEF Service!ServiceNext
<1>6. ASSUME NEW c \in Clients, SendFails(c) \/ Leave(c) PROVE Goal
  <2>1. PICK place \in {"failed", "gone"} : client' = [client EXCEPT ![c] = place]
    BY <1>6 DEF SendFails, Leave
  <2>2. LeaveLine(c) /\ UNCHANGED <<call, channel, batch, served, thread>>
    BY <1>6 DEF SendFails, Leave
  <2>3. Service!GiveUp(c) \/ UNCHANGED Service!serviceVars
    BY <2>1, <2>2, GivesUp
  <2> QED
    BY <2>3 DEF Service!ServiceNext
<1>7. ASSUME NEW c \in Clients, ReplyFails(c) PROVE Goal
  <2>1. /\ c \in Calling /\ Calling' = Calling \ {c} /\ Pending' = Pending
        /\ UNCHANGED <<call, served, thread>>
    BY <1>0, <1>7 DEF ReplyFails, Calling, Pending
  <2>2. Service!GiveUp(c)
    BY <2>1 DEF Service!GiveUp, Calling, Pending
  <2> QED
    BY <2>2 DEF Service!ServiceNext
<1>8. CASE Receive
  <2>1. Pending' = Pending /\ Calling' = Calling
    BY <1>8, EmptyLine DEF Receive, Pending, Calling
  <2> QED
    BY <1>1, <1>8, <2>1 DEF Receive
<1>9. CASE SendReply
  <2> DEFINE r == Head(batch)
  <2>1. /\ batch # <<>> /\ batch' = Tail(batch) /\ served' = Append(served, r)
        /\ thread = "running"
        /\ UNCHANGED <<client, call, waiters, channel, thread>>
    BY <1>9 DEF SendReply
  <2>2. /\ ToSet(batch) = ToSet(batch') \cup {r} /\ r \notin ToSet(batch')
    BY <1>0, <2>1, TailOfLine DEF HeldInv
  <2>3. r \notin ToSet(waiters) /\ r \notin ToSet(channel)
    BY <2>2 DEF HeldInv, Held
  <2>4. Pending' = Pending \ {r} /\ r \in Pending /\ Calling' = Calling
    BY <2>1, <2>2, <2>3 DEF Pending, Calling
  <2>5. Service!Serve(r)
    BY <2>1, <2>4 DEF Service!Serve, Pending, Calling
  <2> QED
    BY <2>4, <2>5 DEF Service!ServiceNext, Pending
<1>10. CASE Panic
  <2>1. /\ thread = "running" /\ thread' = "panicked"
        /\ batch' = <<>> /\ channel' = <<>>
        /\ UNCHANGED <<client, call, waiters, served>>
    BY <1>10 DEF Panic
  <2>2. Pending' \in SUBSET Pending /\ Calling' = Calling
    BY <2>1, EmptyLine DEF Pending, Calling
  <2>3. Service!Crash
    BY <2>1, <2>2 DEF Service!Crash, Pending, Calling
  <2> QED
    BY <2>3 DEF Service!ServiceNext
<1>11. CASE Stop
  <2>1. Pending' = Pending /\ Calling' = Calling
    BY <1>11 DEF Stop, Pending, Calling
  <2> QED
    BY <1>1, <1>11, <2>1 DEF Stop
<1>12. CASE UNCHANGED <<client, call, waiters, channel, batch, served, thread>>
  BY <1>1, <1>12 DEF Pending, Calling
<1> QED
  BY <1>2, <1>3, <1>4, <1>5, <1>6, <1>7, <1>8, <1>9, <1>10, <1>11, <1>12 DEF Next,
     ClientStep, ThreadStep, Ended, vars, DropHandle, HandleCommand

(***************************************************************************)
(* send_commands is an atomic service: whatever the clients, the capacity  *)
(* and the sizes of the buffers, each call is served once, as a whole,     *)
(* before it returns, or its caller fails.                                 *)
(***************************************************************************)
THEOREM ChannelImplementsService == Spec => ImplementsService
<1>1. ChannelTypeOK /\ ReplyInv /\ [Next]_vars => ReplyInv'
  BY ResultsStep, ReplyStep DEF ReplyInv
<1> QED
  BY <1>1, ChannelTypeInit, ChannelTypeStep, ReplyInit, HeldInit, HeldStep,
     ServiceStarts, ServiceSteps, PTL DEF Spec, ImplementsService, Service!ServiceSpec

=============================================================================
