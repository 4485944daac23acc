--------------------------- MODULE CommandChannel ---------------------------
(***************************************************************************)
(* The way of command buffers from the clients to the exchange thread and  *)
(* of their results back (src/exchange_client.rs, Exchange::run_inner in   *)
(* src/exchange.rs).                                                       *)
(*                                                                         *)
(* A client is an ExchangeClient in a task of its own, cloned from the     *)
(* handle; it has one call to send_commands at a time.  The channel is a   *)
(* tokio mpsc of Capacity buffers whose senders wait in line for room; the *)
(* thread takes all that is in it at once.  Each buffer carries a oneshot  *)
(* sender, so dropping a buffer fails the call that waits for it.  What a  *)
(* command does is the matter of Exchange: here it yields the result of    *)
(* that command, or it panics.                                             *)
(***************************************************************************)
EXTENDS Integers, SequencesExt

CONSTANTS
  Clients,      \* the tasks that hold an ExchangeClient
  Capacity,     \* MPSC_CAPACITY
  BufferSizes,  \* how many commands a buffer may have
  MaxCalls,     \* bound on the calls of all clients together
  NoReply       \* an oneshot receiver without a reply

ASSUME ChannelAssumption ==
  /\ Capacity \in Nat \ {0}
  /\ BufferSizes \subseteq Nat
  /\ MaxCalls \in Nat

VARIABLES
  handle,   \* TRUE while the ExchangeHandle is held
  client,   \* where each client's task stands
  call,     \* its latest call
  waiters,  \* calls in line for room in the channel
  channel,  \* the buffers in the mpsc channel, oldest first
  batch,    \* channel_buf: the buffers the thread has taken
  results,  \* response_buf: the results for the first of them
  reply,    \* what each client's oneshot receiver holds
  thread,   \* "running", "stopped" or "panicked"
  arrived,  \* history: the buffers in the order they entered the channel
  served    \* history: the buffers in the order they were answered

clientVars == <<client, call, waiters>>
threadVars == <<batch, results, thread, served>>
vars == <<handle, clientVars, channel, reply, threadVars, arrived>>

Calls == [client : Clients, number : Nat, size : BufferSizes \cup {0}]

Results == [of : Calls, command : Nat]

\* The result of the i-th command of a buffer.
Result(request, i) == [of |-> request, command |-> i]

ResultsOf(request) == [i \in 1 .. request.size |-> Result(request, i)]

CallsMade == MapThenSumSet(LAMBDA c : call[c].number, Clients)

\* A client holds its sender until its task ends.
HoldsSender(c) == client[c] \in {"ready", "sending", "waiting"}

\* Mutation of NoSenders: the exchange keeps a sender for its own clients.
ExchangeKeepsSender == FALSE

NoSenders == ~ handle /\ \A c \in Clients : ~ HoldsSender(c)

IsHeld(request) ==
  request \in ToSet(channel) \/ request \in ToSet(batch)
-----------------------------------------------------------------------------
Init ==
  /\ handle = TRUE
  /\ client = [c \in Clients |-> "absent"]
  /\ call = [c \in Clients |-> [client |-> c, number |-> 0, size |-> 0]]
  /\ waiters = <<>>
  /\ channel = <<>>
  /\ batch = <<>>
  /\ results = <<>>
  /\ reply = [c \in Clients |-> NoReply]
  /\ thread = "running"
  /\ arrived = <<>>
  /\ served = <<>>

(***************************************************************************)
(* The tasks of the clients.                                               *)
(***************************************************************************)
GetClient(c) ==
  /\ handle
  /\ client[c] = "absent"
  /\ client' = [client EXCEPT ![c] = "ready"]
  /\ UNCHANGED <<handle, call, waiters, channel, reply, threadVars, arrived>>

SendCommands(c, size) ==
  /\ client[c] = "ready"
  /\ CallsMade < MaxCalls
  /\ call' = [call EXCEPT ![c] = [client |-> c, number |-> @.number + 1, size |-> size]]
  /\ client' = [client EXCEPT ![c] = "sending"]
  /\ waiters' = Append(waiters, call'[c])
  /\ reply' = [reply EXCEPT ![c] = NoReply]
  /\ UNCHANGED <<handle, channel, threadVars, arrived>>

\* Mutation of Enter: an unbounded channel.
EnterUnbounded(c) ==
  /\ client[c] = "sending"
  /\ thread = "running"
  /\ call[c] = Head(waiters)
  /\ waiters' = Tail(waiters)
  /\ channel' = Append(channel, call[c])
  /\ arrived' = Append(arrived, call[c])
  /\ client' = [client EXCEPT ![c] = "waiting"]
  /\ UNCHANGED <<handle, call, reply, threadVars>>

\* mpsc::Sender::send gets its permit and returns.
Enter(c) ==
  /\ client[c] = "sending"
  /\ thread = "running"
  /\ call[c] = Head(waiters)
  /\ Len(channel) < Capacity
  /\ waiters' = Tail(waiters)
  /\ channel' = Append(channel, call[c])
  /\ arrived' = Append(arrived, call[c])
  /\ client' = [client EXCEPT ![c] = "waiting"]
  /\ UNCHANGED <<handle, call, reply, threadVars>>

TakeReply(c) ==
  /\ client[c] = "waiting"
  /\ reply[c] # NoReply
  /\ client' = [client EXCEPT ![c] = "ready"]
  /\ UNCHANGED <<handle, call, waiters, channel, reply, threadVars, arrived>>

\* A sender that gives up leaves the line, if it still stands there.
LeaveLine(c) ==
  \/ call[c] \notin ToSet(waiters) /\ UNCHANGED waiters
  \/ \E i \in DOMAIN waiters :
       waiters[i] = call[c] /\ waiters' = RemoveAt(waiters, i)

\* `send(..).await.unwrap()`: the receiver went with the thread.
SendFails(c) ==
  /\ client[c] = "sending"
  /\ thread # "running"
  /\ client' = [client EXCEPT ![c] = "failed"]
  /\ LeaveLine(c)
  /\ UNCHANGED <<handle, call, channel, reply, threadVars, arrived>>

\* `rx_reply.await.unwrap()`: the oneshot sender was dropped with its buffer.
ReplyFails(c) ==
  /\ client[c] = "waiting"
  /\ reply[c] = NoReply
  /\ ~ IsHeld(call[c])
  /\ client' = [client EXCEPT ![c] = "failed"]
  /\ UNCHANGED <<handle, call, waiters, channel, reply, threadVars, arrived>>

\* The task ends, or the runtime drops it at one of its awaits.
Leave(c) ==
  /\ HoldsSender(c)
  /\ client' = [client EXCEPT ![c] = "gone"]
  /\ LeaveLine(c)
  /\ UNCHANGED <<handle, call, channel, reply, threadVars, arrived>>

DropHandle ==
  /\ handle
  /\ handle' = FALSE
  /\ UNCHANGED <<clientVars, channel, reply, threadVars, arrived>>

(***************************************************************************)
(* run_inner.                                                              *)
(***************************************************************************)
\* Mutation of Receive: the batch is emptied with Vec::pop, newest first.
ReceiveNewestFirst ==
  /\ thread = "running"
  /\ batch = <<>>
  /\ channel # <<>>
  /\ batch' = Reverse(channel)
  /\ channel' = <<>>
  /\ UNCHANGED <<handle, clientVars, reply, results, thread, arrived, served>>

\* blocking_recv_many: the limit is the channel's capacity.
Receive ==
  /\ thread = "running"
  /\ batch = <<>>
  /\ channel # <<>>
  /\ batch' = channel
  /\ channel' = <<>>
  /\ UNCHANGED <<handle, clientVars, reply, results, thread, arrived, served>>

HandleCommand ==
  /\ thread = "running"
  /\ batch # <<>>
  /\ Len(results) < Head(batch).size
  /\ results' = Append(results, Result(Head(batch), Len(results) + 1))
  /\ UNCHANGED <<handle, clientVars, channel, batch, reply, thread, arrived, served>>

\* What became of the oneshot receiver decides whether the send succeeds.
Deliver(request) ==
  IF client[request.client] = "waiting" /\ call[request.client] = request
    THEN [reply EXCEPT ![request.client] = results]
    ELSE reply

\* Mutations of SendReply: response_buf is not made anew for each buffer; the
\* buffers are iterated over and not drained.
SendReplyKeepsResults ==
  /\ thread = "running"
  /\ batch # <<>>
  /\ Len(results) >= Head(batch).size
  /\ reply' = Deliver(Head(batch))
  /\ served' = Append(served, Head(batch))
  /\ batch' = Tail(batch)
  /\ UNCHANGED <<handle, clientVars, channel, results, thread, arrived>>

SendReplyKeepsBuffer ==
  /\ thread = "running"
  /\ batch # <<>>
  /\ Len(results) = Head(batch).size
  /\ Len(served) < MaxCalls + 1
  /\ reply' = Deliver(Head(batch))
  /\ served' = Append(served, Head(batch))
  /\ results' = <<>>
  /\ UNCHANGED <<handle, clientVars, channel, batch, thread, arrived>>

SendReply ==
  /\ thread = "running"
  /\ batch # <<>>
  /\ Len(results) = Head(batch).size
  /\ reply' = Deliver(Head(batch))
  /\ served' = Append(served, Head(batch))
  /\ batch' = Tail(batch)
  /\ results' = <<>>
  /\ UNCHANGED <<handle, clientVars, channel, thread, arrived>>

\* Mutation of Panic: the receiver outlives the thread that panicked.
PanicKeepsChannel ==
  /\ thread = "running"
  /\ batch # <<>>
  /\ Len(results) < Head(batch).size
  /\ thread' = "panicked"
  /\ batch' = <<>>
  /\ results' = <<>>
  /\ UNCHANGED <<handle, clientVars, channel, reply, arrived, served>>

\* A command panics: the unwinding thread drops its buffers and its receiver.
Panic ==
  /\ thread = "running"
  /\ batch # <<>>
  /\ Len(results) < Head(batch).size
  /\ thread' = "panicked"
  /\ channel' = <<>>
  /\ batch' = <<>>
  /\ results' = <<>>
  /\ UNCHANGED <<handle, clientVars, reply, arrived, served>>

\* Mutation of Stop: no more senders, but what they sent is not looked at.
StopWithoutDraining ==
  /\ thread = "running"
  /\ batch = <<>>
  /\ NoSenders
  /\ thread' = "stopped"
  /\ UNCHANGED <<handle, clientVars, channel, reply, batch, results, arrived, served>>

\* blocking_recv_many returns 0.
Stop ==
  /\ thread = "running"
  /\ batch = <<>>
  /\ channel = <<>>
  /\ NoSenders
  /\ thread' = "stopped"
  /\ UNCHANGED <<handle, clientVars, channel, reply, batch, results, arrived, served>>

\* Nothing is left to do.
Ended == thread # "running" /\ NoSenders /\ UNCHANGED vars

ClientStep(c) == Enter(c) \/ TakeReply(c) \/ SendFails(c) \/ ReplyFails(c)

ThreadStep == Receive \/ HandleCommand \/ SendReply \/ Panic \/ Stop

Next ==
  \/ \E c \in Clients :
       \/ GetClient(c)
       \/ \E size \in BufferSizes : SendCommands(c, size)
       \/ ClientStep(c)
       \/ Leave(c)
  \/ DropHandle
  \/ ThreadStep
  \/ Ended

Spec == Init /\ [][Next]_vars

(***************************************************************************)
(* The thread is scheduled, and the runtime polls a task that was woken: a *)
(* sender that is first in line and has room, a receiver whose oneshot is  *)
(* answered or dropped.  Nobody has to make a call, to leave or to drop    *)
(* the handle.                                                             *)
(***************************************************************************)
FairSpec ==
  /\ Spec
  /\ WF_vars(ThreadStep)
  /\ \A c \in Clients : WF_vars(ClientStep(c))
-----------------------------------------------------------------------------
\* The variables keep their types; the channel holds Capacity buffers at most.
ChannelTypeOK ==
  /\ handle \in BOOLEAN
  /\ client \in
       [Clients -> {"absent", "ready", "sending", "waiting", "gone", "failed"}]
  /\ call \in [Clients -> Calls]
  /\ waiters \in Seq(Calls)
  /\ channel \in Seq(Calls) /\ Len(channel) <= Capacity
  /\ batch \in Seq(Calls) /\ Len(batch) <= Capacity
  /\ results \in Seq(Results)
  /\ reply \in [Clients -> {NoReply} \cup Seq(Results)]
  /\ thread \in {"running", "stopped", "panicked"}
  /\ arrived \in Seq(Calls)
  /\ served \in Seq(Calls)

(***************************************************************************)
(* First come, first served: buffers are answered in the order in which    *)
(* they entered the channel, none twice and, as long as the thread runs,   *)
(* none left out ("Use `drain` so that the order of `CommandBuffer`s is    *)
(* maintained").                                                           *)
(***************************************************************************)
ServedInOrder ==
  IF thread = "running"
    THEN arrived = served \o batch \o channel
    ELSE IsPrefix(served, arrived)

(***************************************************************************)
(* The reply that a client finds is that of its latest call: one result    *)
(* for each of its commands, in their order.                               *)
(***************************************************************************)
RepliesMatch ==
  \A c \in Clients :
    client[c] = "waiting" /\ reply[c] # NoReply => reply[c] = ResultsOf(call[c])

(***************************************************************************)
(* The thread stops only after it has served everything that was ever      *)
(* sent, the buffers of clients that are gone included.                    *)
(***************************************************************************)
StopsDrained == thread = "stopped" => served = arrived

(***************************************************************************)
(* Every call ends: it is answered or it fails, whatever the load on the   *)
(* channel and wherever the thread panics.                                 *)
(***************************************************************************)
CallsEnd ==
  \A c \in Clients :
    client[c] \in {"sending", "waiting"} ~> client[c] \notin {"sending", "waiting"}

(***************************************************************************)
(* The thread ends once the handle and all clients are dropped: "dropping  *)
(* this handle is a requirement for shutdown", and enough for it.          *)
(***************************************************************************)
ShutsDown ==
  ~ handle /\ (\A c \in Clients : ~ HoldsSender(c)) ~> thread # "running"

(***************************************************************************)
(* The channel provides the service that CommandService describes.         *)
(***************************************************************************)
Service ==
  INSTANCE CommandService WITH
    latest <- call,
    calling <- {c \in Clients : client[c] \in {"sending", "waiting"}},
    pending <- ToSet(waiters) \cup ToSet(channel) \cup ToSet(batch),
    up <- thread # "panicked"

ImplementsService == Service!ServiceSpec
=============================================================================
