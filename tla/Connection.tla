----------------------------- MODULE Connection -----------------------------
(***************************************************************************)
(* The Python client (src/python_client/client.py), the connection tasks   *)
(* and the accept loop of the server (src/src/bin/exchange_server.rs), the *)
(* codec between them (src/src/util/mp_command_codec.rs) and the WebSocket *)
(* publisher.  The channel to the exchange thread is the CommandService    *)
(* that CommandChannel implements; its callers are the server's tasks.     *)
(*                                                                         *)
(* A frame of a client is a call, which it may send more than once.  TCP   *)
(* keeps frames in order.  A connection that the server drops ends with    *)
(* the stream (FIN), or with a reset if there was something left to read;  *)
(* what had arrived before stays readable, as on Linux.                    *)
(***************************************************************************)
EXTENDS Integers, SequencesExt, FiniteSets

CONSTANTS
  Clients,         \* Python programs with an ExchangeClient
  WebSocket,       \* the WebSocket task
  Kinds,           \* "plain", "undecodable" or "oversized" (its answer is) calls
  MaxCalls,        \* bound on the calls of a client
  MaxRestarts,     \* bound on the restarts of the server
  MaxEvents,       \* bound on what nobody has to do: timeouts, departures, failures,
                   \* restarts, WebSockets and rounds of their task together
  MaxConnections   \* bound on the connections of a client

Links == Clients \X (1 .. MaxConnections)

ASSUME ConnectionAssumption ==
  MaxCalls \in Nat /\ MaxConnections \in Nat /\ WebSocket \notin Links

VARIABLES
  client,     \* each client: state, call, kind, connection, late (its timeouts), answer
  sent,       \* history: the frames sent on each connection
  tcp,        \* each connection: state, and what is unread in each direction
  task,       \* the server's task for it
  frames,     \* history: the frames that the task decoded
  process,    \* TRUE while the server runs
  acceptor,   \* the select loop: waits for "both", or one listener failed and
              \* it waits for "clients" or "sockets", or a WebSocket "handshake"
  socket,     \* the WebSocket task: stage, the L1s it has read, its snapshots
  restarts,
  events,     \* see MaxEvents
  latest, calling, pending, served, up  \* the service

clientVars == <<client, sent>>
serviceVars == <<latest, calling, pending, served, up>>
vars == <<clientVars, tcp, task, frames, process, acceptor, socket, restarts, events,
          serviceVars>>

Service == INSTANCE CommandService WITH
             Clients <- Links \cup {WebSocket}, BufferSizes <- {1}

Current(p) == <<p, client[p].connection>>

\* Something happens that nobody has to do.
Event == events < MaxEvents /\ events' = events + 1

Enter(p, state) == client' = [client EXCEPT ![p].state = state]

Deserted(x) == client[x[1]].state = "gone" \/ client[x[1]].connection # x[2]

\* The server's end is closed; the frames still in Framed's buffer are lost too.
CloseLink(x) ==
  \E state \in IF tcp[x].requests = <<>> THEN {"closed"} ELSE {"closed", "reset"} :
    tcp' = [tcp EXCEPT ![x].state = state, ![x].requests = <<>>]

EndTask(x) == task' = [task EXCEPT ![x] = "ended"] /\ CloseLink(x)
-----------------------------------------------------------------------------
Init ==
  /\ client = [p \in Clients |-> [state |-> "starting", call |-> 0, kind |-> "plain",
                                  connection |-> 0, late |-> 0, answer |-> 0]]
  /\ sent = [x \in Links |-> <<>>]
  /\ tcp = [x \in Links |-> [state |-> "none", requests |-> <<>>, answers |-> <<>>]]
  /\ task = [x \in Links |-> "none"]
  /\ frames = [x \in Links |-> <<>>]
  /\ process = TRUE
  /\ acceptor = "both"
  /\ socket = [stage |-> "away", l1s |-> 0, snapshots |-> <<>>]
  /\ restarts = 0
  /\ events = 0
  /\ Service!ServiceInit

(***************************************************************************)
(* The Python client.                                                      *)
(***************************************************************************)
\* Nothing the server keeps changes in a step of a client.
ServerRests == UNCHANGED <<task, frames, process, acceptor, socket, restarts, serviceVars>>

\* create_connection succeeds as soon as the listener is bound.
Connect(p) ==
  /\ client[p].state \in {"starting", "reconnecting"}
  /\ process
  /\ client[p].connection < MaxConnections
  /\ client' = [client EXCEPT
       ![p].state = IF @ = "starting" THEN "idle" ELSE "ready",
       ![p].connection = @ + 1,
       ![p].late = 0]
  /\ tcp' = [tcp EXCEPT ![<<p, client[p].connection + 1>>].state = "queued"]
  /\ UNCHANGED sent
  /\ ServerRests
  /\ UNCHANGED events

SendCommands(p, kind) ==
  /\ client[p].state = "idle"
  /\ client[p].call < MaxCalls
  /\ client' = [client EXCEPT ![p].state = "ready", ![p].call = @ + 1, ![p].kind = kind]
  /\ UNCHANGED <<sent, tcp>>
  /\ ServerRests
  /\ UNCHANGED events

\* sendall; a connection that the server has closed answers with a reset.
Send(p) ==
  LET x == Current(p)
      frame == [call |-> client[p].call, kind |-> client[p].kind]
  IN  /\ client[p].state = "ready"
      /\ tcp[x].state # "reset"
      /\ Enter(p, "waiting")
      /\ sent' = [sent EXCEPT ![x] = Append(@, frame)]
      /\ tcp' = IF tcp[x].state = "closed"
                  THEN [tcp EXCEPT ![x].state = "reset"]
                  ELSE [tcp EXCEPT ![x].requests = Append(@, frame)]
      /\ ServerRests
      /\ UNCHANGED events

SendFails(p) ==
  /\ client[p].state = "ready"
  /\ tcp[Current(p)].state = "reset"
  /\ Enter(p, "sleeping")
  /\ UNCHANGED <<sent, tcp>>
  /\ ServerRests
  /\ UNCHANGED events

\* _recv_frame, whatever call the answer belongs to.
ReadAnswer(p) ==
  /\ client[p].state = "waiting"
  /\ tcp[Current(p)].answers # <<>>
  /\ client' = [client EXCEPT ![p].state = "idle",
                              ![p].answer = Head(tcp[Current(p)].answers)]
  /\ tcp' = [tcp EXCEPT ![Current(p)].answers = Tail(@)]
  /\ UNCHANGED sent
  /\ ServerRests
  /\ UNCHANGED events

\* recv returned fewer bytes than the answer has, and unpackb raises: the
\* caller does not catch that.
ShortRead(p) ==
  /\ client[p].state = "waiting"
  /\ tcp[Current(p)].answers # <<>>
  /\ Enter(p, "gone")
  /\ UNCHANGED <<sent, tcp>>
  /\ ServerRests
  /\ Event

\* recv returned nothing, and unpackb raises.
ReadEof(p) ==
  /\ client[p].state = "waiting"
  /\ tcp[Current(p)].answers = <<>>
  /\ tcp[Current(p)].state = "closed"
  /\ Enter(p, "gone")
  /\ UNCHANGED <<sent, tcp>>
  /\ ServerRests
  /\ UNCHANGED events

ReadReset(p) ==
  /\ client[p].state = "waiting"
  /\ tcp[Current(p)].answers = <<>>
  /\ tcp[Current(p)].state = "reset"
  /\ Enter(p, "sleeping")
  /\ UNCHANGED <<sent, tcp>>
  /\ ServerRests
  /\ UNCHANGED events

\* socket.timeout after 5 seconds.
Timeout(p) ==
  /\ client[p].state = "waiting"
  /\ tcp[Current(p)].answers = <<>>
  /\ client' = [client EXCEPT ![p].state = "sleeping", ![p].late = @ + 1]
  /\ UNCHANGED <<sent, tcp>>
  /\ ServerRests
  /\ Event

\* Mutations of SocketIsOpen: reconnect after every error, or never.
NeverOpen(x) == FALSE

AlwaysOpen(x) == TRUE

\* An answer that nobody has read makes a broken connection look open.
SocketIsOpen(x) == tcp[x].answers # <<>> \/ tcp[x].state \in {"queued", "open"}

\* Back from sleep: _reconnect, then the same commands again.
Resume(p) ==
  /\ client[p].state = "sleeping"
  /\ Enter(p, IF SocketIsOpen(Current(p)) THEN "ready" ELSE "reconnecting")
  /\ UNCHANGED <<sent, tcp>>
  /\ ServerRests
  /\ UNCHANGED events

\* The program ends, or is restarted by autoreload.py.
Quit(p) ==
  /\ client[p].state # "gone"
  /\ Enter(p, "gone")
  /\ UNCHANGED <<sent, tcp>>
  /\ ServerRests
  /\ Event

(***************************************************************************)
(* The connection tasks of the server.                                     *)
(***************************************************************************)
ClientsRest == UNCHANGED <<clientVars, process, acceptor, socket, restarts, events>>

\* Mutation of ReadFrame: the decoder does not advance its buffer.
ReadFrameAgain(x) ==
  /\ task[x] = "reading"
  /\ tcp[x].requests # <<>>
  /\ Head(tcp[x].requests).kind # "undecodable"
  /\ Len(frames[x]) < Len(tcp[x].requests) + 1
  /\ task' = [task EXCEPT ![x] = "calling"]
  /\ frames' = [frames EXCEPT ![x] = Append(@, Head(tcp[x].requests))]
  /\ Service!Request(x, 1)
  /\ ClientsRest
  /\ UNCHANGED tcp

ReadFrame(x) ==
  /\ task[x] = "reading"
  /\ tcp[x].requests # <<>>
  /\ Head(tcp[x].requests).kind # "undecodable"
  /\ task' = [task EXCEPT ![x] = "calling"]
  /\ frames' = [frames EXCEPT ![x] = Append(@, Head(tcp[x].requests))]
  /\ tcp' = [tcp EXCEPT ![x].requests = Tail(@)]
  /\ Service!Request(x, 1)
  /\ ClientsRest

\* Some(Err(..)): the task ends and drops the stream with all that is in it.
RejectFrame(x) ==
  /\ task[x] = "reading"
  /\ tcp[x].requests # <<>>
  /\ Head(tcp[x].requests).kind = "undecodable"
  /\ task' = [task EXCEPT ![x] = "ended"]
  /\ \E state \in IF Len(tcp[x].requests) = 1 THEN {"closed"} ELSE {"closed", "reset"} :
       tcp' = [tcp EXCEPT ![x].state = state, ![x].requests = <<>>]
  /\ ClientsRest
  /\ UNCHANGED <<frames, serviceVars>>

\* None: the client closed its end.
ReadEnd(x) ==
  /\ task[x] = "reading"
  /\ tcp[x].requests = <<>>
  /\ Deserted(x)
  /\ EndTask(x)
  /\ ClientsRest
  /\ UNCHANGED <<frames, serviceVars>>

Answer(x) ==
  /\ task[x] = "calling"
  /\ Service!Return(x)
  /\ Last(frames[x]).kind # "oversized"
  /\ tcp' = [tcp EXCEPT ![x].answers = Append(@, Last(frames[x]).call)]
  /\ task' = [task EXCEPT ![x] = "reading"]
  /\ ClientsRest
  /\ UNCHANGED frames

\* Mutation of AnswerFails: the error is logged, the loop left, the stream kept.
AnswerFailsQuietly(x) ==
  /\ task[x] = "calling"
  /\ Last(frames[x]).kind = "oversized" \/ Deserted(x)
  /\ Service!Return(x)
  /\ task' = [task EXCEPT ![x] = "ended"]
  /\ ClientsRest
  /\ UNCHANGED <<tcp, frames>>

\* `framed_stream.send(..).await.unwrap()`: "Message too long!", or nobody is there.
AnswerFails(x) ==
  /\ task[x] = "calling"
  /\ Last(frames[x]).kind = "oversized" \/ Deserted(x)
  /\ Service!Return(x)
  /\ EndTask(x)
  /\ ClientsRest
  /\ UNCHANGED frames

\* The exchange thread is gone: send_commands panics.
CallFails(x) ==
  /\ task[x] = "calling"
  /\ ~ up
  /\ latest[x] \notin ToSet(served)
  /\ Service!GiveUp(x)
  /\ pending' = pending \ {latest[x]}
  /\ EndTask(x)
  /\ ClientsRest
  /\ UNCHANGED frames

(***************************************************************************)
(* The accept loop, the WebSocket task, the exchange thread, the process.  *)
(***************************************************************************)
Accept(x) ==
  /\ acceptor \in {"both", "clients"}
  /\ process
  /\ tcp[x].state = "queued"
  /\ tcp' = [tcp EXCEPT ![x].state = "open"]
  /\ task' = [task EXCEPT ![x] = "reading"]
  /\ acceptor' = "both"
  /\ UNCHANGED <<clientVars, frames, process, socket, restarts, serviceVars>>
  /\ UNCHANGED events

AcceptWs ==
  /\ acceptor \in {"both", "sockets"}
  /\ process
  /\ socket.stage = "away"
  /\ latest[WebSocket].number = 0
  /\ acceptor' = "handshake"
  /\ UNCHANGED <<clientVars, tcp, task, frames, process, socket, restarts, serviceVars>>
  /\ Event

\* accept_async is awaited inside the arm: until it returns nobody is accepted.
HandshakeEnds ==
  /\ acceptor = "handshake"
  /\ process
  /\ acceptor' = "both"
  /\ \E stage \in {"away", "assets"} : socket' = [socket EXCEPT !.stage = stage]
  /\ UNCHANGED <<clientVars, tcp, task, frames, process, restarts, serviceVars>>
  /\ UNCHANGED events

\* An accept that fails does not match `Ok(..)`: select! goes on without that arm.
AcceptFails ==
  /\ acceptor = "both"
  /\ process
  /\ acceptor' \in {"clients", "sockets"}
  /\ UNCHANGED <<clientVars, tcp, task, frames, process, socket, restarts, serviceVars>>
  /\ Event

ServerTasksRest == UNCHANGED <<clientVars, tcp, task, frames, process, acceptor, restarts>>

WsCall ==
  /\ socket.stage # "away"
  /\ Service!Request(WebSocket, 1)
  /\ UNCHANGED socket
  /\ ServerTasksRest
  /\ IF socket.stage = "l1s" THEN Event ELSE UNCHANGED events

\* The buffers of clients that were executed before a request was.
SeenBy(request) ==
  Cardinality({i \in DOMAIN served : /\ served[i].client # WebSocket
                                     /\ \E j \in i .. Len(served) : served[j] = request})

\* Mutation of Published: the transactions are read first.
PublishedSwapped(seen) == [l1s |-> seen, transactions |-> socket.l1s]

Published(seen) == [l1s |-> socket.l1s, transactions |-> seen]

\* GetAssets once, then GetAllOrderbookL1 and GetLast100Transactions in turn.
WsReturn ==
  LET seen == SeenBy(latest[WebSocket])
  IN  /\ Service!Return(WebSocket)
      /\ socket' =
           CASE socket.stage = "assets" -> [socket EXCEPT !.stage = "l1s"]
             [] socket.stage = "l1s" ->
                  [socket EXCEPT !.stage = "transactions", !.l1s = seen]
             [] socket.stage = "transactions" ->
                  [socket EXCEPT !.stage = "l1s", !.snapshots = Append(@, Published(seen))]
      /\ ServerTasksRest
      /\ UNCHANGED events

WsCallFails ==
  /\ ~ up
  /\ latest[WebSocket] \notin ToSet(served)
  /\ Service!GiveUp(WebSocket)
  /\ pending' = pending \ {latest[WebSocket]}
  /\ socket' = [socket EXCEPT !.stage = "away"]
  /\ ServerTasksRest
  /\ UNCHANGED events

Execute ==
  /\ \E request \in pending : Service!Serve(request)
  /\ UNCHANGED socket
  /\ ServerTasksRest
  /\ UNCHANGED events

ThreadPanics ==
  /\ process
  /\ Service!Crash
  /\ pending' = {}
  /\ UNCHANGED socket
  /\ ServerTasksRest
  /\ Event

\* autoreload.py terminates the server, or both accepts failed and select! panics.
Die ==
  /\ process
  /\ restarts < MaxRestarts
  /\ process' = FALSE
  /\ \E reset \in SUBSET {x \in Links : tcp[x].requests # <<>> \/ tcp[x].state = "queued"} :
       tcp' = [x \in Links |->
                 IF tcp[x].state \in {"queued", "open"}
                   THEN [tcp[x] EXCEPT !.state = IF x \in reset THEN "reset" ELSE "closed",
                                       !.requests = <<>>]
                   ELSE tcp[x]]
  /\ task' = [x \in Links |-> IF task[x] = "none" THEN "none" ELSE "ended"]
  /\ socket' = [socket EXCEPT !.stage = "away"]
  /\ calling' = {}
  /\ pending' = {}
  /\ UNCHANGED <<clientVars, frames, acceptor, restarts, latest, served, up>>
  /\ Event

Start ==
  /\ ~ process
  /\ process' = TRUE
  /\ up' = TRUE
  /\ acceptor' = "both"
  /\ restarts' = restarts + 1
  /\ UNCHANGED <<clientVars, tcp, task, frames, socket, latest, calling, pending, served>>
  /\ UNCHANGED events

ClientStep(p) ==
  Connect(p) \/ Send(p) \/ SendFails(p) \/ ReadAnswer(p) \/ ReadEof(p) \/ ReadReset(p) \/ Resume(p)

TaskStep(x) ==
  ReadFrame(x) \/ RejectFrame(x) \/ ReadEnd(x) \/ Answer(x) \/ AnswerFails(x) \/ CallFails(x)

Next ==
  \/ \E p \in Clients :
       \/ ClientStep(p)
       \/ \E kind \in Kinds : SendCommands(p, kind)
       \/ ShortRead(p)
       \/ Timeout(p)
       \/ Quit(p)
  \/ \E x \in Links : Accept(x) \/ TaskStep(x)
  \/ AcceptWs \/ HandshakeEnds \/ AcceptFails
  \/ WsCall \/ WsReturn \/ WsCallFails
  \/ Execute \/ ThreadPanics \/ Die \/ Start

Spec == Init /\ [][Next]_vars

(***************************************************************************)
(* A client that is not asleep goes on, the runtime polls its tasks, the   *)
(* thread executes what it receives, and select! picks a ready arm at      *)
(* random.  Nobody has to make a call, to finish a handshake or to restart *)
(* the server, and nothing has to fail.                                    *)
(***************************************************************************)
FairSpec ==
  /\ Spec
  /\ \A p \in Clients : WF_vars(ClientStep(p))
  /\ \A x \in Links : WF_vars(TaskStep(x)) /\ SF_vars(Accept(x))
  /\ WF_vars(Execute)
-----------------------------------------------------------------------------
Frames == [call : 1 .. MaxCalls, kind : Kinds]

(***************************************************************************)
(* The variables keep their types; a connection is open as long as a task  *)
(* serves it, and only then has anything to read.                          *)
(***************************************************************************)
ConnectionTypeOK ==
  /\ \A p \in Clients :
       /\ client[p].state \in {"starting", "idle", "ready", "waiting", "sleeping",
                               "reconnecting", "gone"}
       /\ client[p].connection \in 0 .. MaxConnections
  /\ \A x \in Links :
       /\ task[x] \in {"reading", "calling"} <=> tcp[x].state = "open"
       /\ sent[x] \in Seq(Frames) /\ tcp[x].requests \in Seq(Frames)
       /\ tcp[x].state \notin {"queued", "open"} => tcp[x].requests = <<>>
       /\ tcp[x].answers \in Seq(1 .. MaxCalls)
  /\ acceptor \in {"both", "clients", "sockets", "handshake"}

\* The i-th buffer that the exchange executed, and those of a client.
ExecutedCall(i) == frames[served[i].client][served[i].number].call

Executed(p) == {i \in DOMAIN served : served[i].client # WebSocket /\ served[i].client[1] = p}

(***************************************************************************)
(* Retries do not reorder: on each connection the exchange executes what   *)
(* was sent, in that order, each frame once and none left out, and after   *)
(* it has executed something of a later connection nothing of an earlier   *)
(* one.  A call that timed out is executed again, but never after the      *)
(* client's next call.                                                     *)
(***************************************************************************)
ExecutedInOrder ==
  /\ \A x \in Links : IsPrefix(frames[x], sent[x])
  /\ \A p \in Clients : \A i, j \in Executed(p) :
       i < j => /\ \/ served[i].client[2] < served[j].client[2]
                   \/ /\ served[i].client[2] = served[j].client[2]
                      /\ served[i].number < served[j].number
                /\ ExecutedCall(i) <= ExecutedCall(j)
  /\ \A p \in Clients : \A j \in Executed(p) : \A n \in 1 .. served[j].number - 1 :
       \E i \in 1 .. j - 1 : served[i].client = served[j].client /\ served[i].number = n

(***************************************************************************)
(* The answer that send_commands returns is that of its own call if no     *)
(* call has timed out on this connection; after n timeouts it is that of   *)
(* the frame sent n frames earlier, until the connection breaks.           *)
(***************************************************************************)
AnswersLagBehind ==
  \A p \in Clients :
    client[p].state = "idle" /\ sent[Current(p)] # <<>> =>
      LET frame == Len(sent[Current(p)]) - client[p].late
      IN  frame >= 1 /\ client[p].answer = sent[Current(p)][frame].call

(***************************************************************************)
(* The transactions of a published state are not older than its L1s: they  *)
(* may show trades that the L1s do not reflect yet, never the other way    *)
(* round.  Nor is a later state older than an earlier one.                 *)
(***************************************************************************)
SnapshotsAdvance ==
  \A i \in DOMAIN socket.snapshots :
    /\ socket.snapshots[i].l1s <= socket.snapshots[i].transactions
    /\ i > 1 => socket.snapshots[i - 1].transactions <= socket.snapshots[i].l1s

InCall(p) == client[p].state \in {"ready", "waiting", "sleeping", "reconnecting"}

\* Sending fails and socket_is_open sees an answer: there is no way out.
LooksOpen(p) == tcp[Current(p)].state = "reset" /\ tcp[Current(p)].answers # <<>>

\* A task of the server serves the client's connection.
Attended(p) == tcp[Current(p)].state = "open"

(***************************************************************************)
(* Every call on a connection that a task serves returns or raises, or the *)
(* connection breaks, also while the select loop of the server waits for a *)
(* handshake or has lost an arm.  With a server that is up and accepts     *)
(* clients again and again, which the code does not promise, every call    *)
(* returns or raises, whatever else fails; unless the connection is reset  *)
(* while an answer to an earlier try is still unread.                      *)
(***************************************************************************)
CallsEnd ==
  /\ \A p \in Clients : InCall(p) /\ Attended(p) ~> ~ InCall(p) \/ ~ Attended(p)
  /\ []<>(process /\ acceptor \in {"both", "clients"}) =>
       \A p \in Clients : InCall(p) ~> ~ InCall(p) \/ LooksOpen(p)
=============================================================================
