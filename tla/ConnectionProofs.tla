-------------------------- MODULE ConnectionProofs --------------------------
(***************************************************************************)
(* The connections between Python clients and the server: types, and which *)
(* connections are open.                                                   *)
(***************************************************************************)
EXTENDS Connection, SequenceTheorems, TLAPS

CallStates == {"ready", "waiting", "sleeping", "reconnecting"}

Callers ==
  [state : CallStates \cup {"starting", "idle", "gone"}, call : 0 .. MaxCalls,
   kind : Kinds \cup {"plain"}, connection : 0 .. MaxConnections, late : Nat,
   answer : 0 .. MaxCalls]

TcpLinks ==
  [state : {"none", "queued", "open", "closed", "reset"}, requests : Seq(Frames),
   answers : Seq(1 .. MaxCalls)]

\* A client that goes on has connected, and in a call it knows what to send.
WellPlaced(c) ==
  /\ c.state \notin {"starting", "gone"} => c.connection # 0
  /\ c.state \in CallStates => c.call # 0 /\ c.kind \in Kinds

\* A task serves an open connection, and what it calls for is a frame it read.
Consistent(link, stage, decoded) ==
  /\ stage \in {"reading", "calling"} <=> link.state = "open"
  /\ link.state \notin {"queued", "open"} => link.requests = <<>>
  /\ stage = "calling" => decoded # <<>>

ClientsOK ==
  /\ client \in [Clients -> Callers]
  /\ \A p \in Clients : WellPlaced(client[p])

LinksOK ==
  /\ tcp \in [Links -> TcpLinks]
  /\ task \in [Links -> {"none", "reading", "calling", "ended"}]
  /\ frames \in [Links -> Seq(Frames)]
  /\ \A x \in Links : Consistent(tcp[x], task[x], frames[x])

\* The connections a client has opened are the first ones.
OpenedOK ==
  \A p \in Clients, k \in 1 .. MaxConnections :
    tcp[<<p, k>>].state = "none" <=> k > client[p].connection

ConnectionInv ==
  /\ ClientsOK
  /\ sent \in [Links -> Seq(Frames)]
  /\ LinksOK
  /\ OpenedOK
  /\ acceptor \in {"both", "clients", "sockets", "handshake"}

(***************************************************************************)
(* One client or one connection changes.                                   *)
(***************************************************************************)
LEMMA ClientUpdate ==
  ASSUME ClientsOK, NEW p \in Clients, NEW new \in Callers, WellPlaced(new),
         client' = [client EXCEPT ![p] = new]
  PROVE  ClientsOK'
<1>1. client' \in [Clients -> Callers]
  BY DEF ClientsOK
<1>2. ASSUME NEW q \in Clients PROVE WellPlaced(client'[q])
  <2>1. client'[q] = IF q = p THEN new ELSE client[q]
    BY DEF ClientsOK
  <2>2. CASE q = p
    BY <2>1, <2>2
  <2>3. CASE q # p
    <3>1. client'[q] = client[q] /\ WellPlaced(client[q])
      BY <2>1, <2>3 DEF ClientsOK
    <3> QED
      BY <3>1
  <2> QED
    BY <2>2, <2>3
<1>3. (\A q \in Clients : WellPlaced(client[q]))'
  BY <1>2 DEF WellPlaced
<1> QED
  BY <1>1, <1>3 DEF ClientsOK

LEMMA LinkUpdate ==
  ASSUME LinksOK, NEW x \in Links, NEW link \in TcpLinks,
         NEW stage \in {"none", "reading", "calling", "ended"},
         Consistent(link, stage, frames'[x]),
         tcp' = [tcp EXCEPT ![x] = link],
         task' = [task EXCEPT ![x] = stage],
         frames' \in [Links -> Seq(Frames)],
         \A y \in Links : y # x => frames'[y] = frames[y]
  PROVE  LinksOK'
<1>1. /\ tcp' \in [Links -> TcpLinks]
      /\ task' \in [Links -> {"none", "reading", "calling", "ended"}]
      /\ frames' \in [Links -> Seq(Frames)]
  BY DEF LinksOK
<1>2. ASSUME NEW y \in Links PROVE Consistent(tcp'[y], task'[y], frames'[y])
  <2>1. CASE y = x
    <3>1. tcp'[y] = link /\ task'[y] = stage
      BY <2>1 DEF LinksOK
    <3> QED
      BY <2>1, <3>1
  <2>2. CASE y # x
    <3>1. tcp'[y] = tcp[y] /\ task'[y] = task[y] /\ frames'[y] = frames[y]
      BY <2>2 DEF LinksOK
    <3> QED
      BY <3>1 DEF LinksOK
  <2> QED
    BY <2>1, <2>2
<1>3. (\A y \in Links : Consistent(tcp[y], task[y], frames[y]))'
  BY <1>2 DEF Consistent
<1> QED
  BY <1>1, <1>3 DEF LinksOK

LEMMA ClientsRemain ==
  ASSUME ClientsOK, UNCHANGED client
  PROVE  ClientsOK'
BY DEF ClientsOK, WellPlaced

LEMMA LinksRemain ==
  ASSUME LinksOK, UNCHANGED <<tcp, task, frames>>
  PROVE  LinksOK'
BY DEF LinksOK, Consistent

LEMMA OpenedRemain ==
  ASSUME OpenedOK,
         \A q \in Clients : client'[q].connection = client[q].connection,
         \A y \in Links : tcp'[y].state = "none" <=> tcp[y].state = "none"
  PROVE  OpenedOK'
<1> SUFFICES ASSUME NEW p \in Clients, NEW k \in 1 .. MaxConnections
             PROVE  tcp'[<<p, k>>].state = "none" <=> k > client'[p].connection
  BY DEF OpenedOK
<1>1. <<p, k>> \in Links
  BY DEF Links
<1> QED
  BY <1>1 DEF OpenedOK

(***************************************************************************)
(* Steps of a client that touch nothing but its own state, and steps of a  *)
(* connection.                                                             *)
(***************************************************************************)
LEMMA ClientStepKeeps ==
  ASSUME ConnectionInv, NEW p \in Clients, NEW new \in Callers, WellPlaced(new),
         new.connection = client[p].connection,
         client' = [client EXCEPT ![p] = new],
         UNCHANGED <<sent, tcp, task, frames, acceptor>>
  PROVE  ConnectionInv'
<1>1. ClientsOK'
  BY ClientUpdate DEF ConnectionInv
<1>2. LinksOK'
  BY LinksRemain DEF ConnectionInv
<1>3. \A q \in Clients : client'[q].connection = client[q].connection
  BY DEF ConnectionInv, ClientsOK
<1>4. OpenedOK'
  BY <1>3, OpenedRemain DEF ConnectionInv
<1> QED
  BY <1>1, <1>2, <1>4 DEF ConnectionInv

LEMMA EnterKeeps ==
  ASSUME ConnectionInv, NEW p \in Clients, NEW state,
         \/ state = "gone"
         \/ state \in CallStates /\ client[p].state \in CallStates,
         Enter(p, state),
         UNCHANGED <<sent, tcp, task, frames, acceptor>>
  PROVE  ConnectionInv'
<1> DEFINE new == [client[p] EXCEPT !.state = state]
<1>1. client[p] \in Callers /\ WellPlaced(client[p])
  BY DEF ConnectionInv, ClientsOK
<1>2. state \in CallStates \cup {"starting", "idle", "gone"}
  BY DEF CallStates
<1>3. /\ new \in Callers
      /\ new.connection = client[p].connection
      /\ new.call = client[p].call /\ new.kind = client[p].kind
      /\ new.state = state
  BY <1>1, <1>2 DEF Callers
<1>4. WellPlaced(new)
  <2>1. CASE state = "gone"
    BY <1>3, <2>1 DEF WellPlaced, CallStates
  <2>2. CASE state \in CallStates /\ client[p].state \in CallStates
    <3>1. client[p].state \notin {"starting", "gone"}
      BY <2>2 DEF CallStates
    <3> HIDE DEF new
    <3> QED
      BY <1>1, <1>3, <2>2, <3>1 DEF WellPlaced
  <2> QED
    BY <2>1, <2>2
<1>5. client' = [client EXCEPT ![p] = new]
  BY DEF Enter
<1> HIDE DEF new
<1> QED
  BY <1>3, <1>4, <1>5, ClientStepKeeps

LEMMA LinkStepKeeps ==
  ASSUME ConnectionInv, NEW x \in Links, NEW link \in TcpLinks,
         NEW stage \in {"none", "reading", "calling", "ended"},
         Consistent(link, stage, frames'[x]),
         link.state # "none", tcp[x].state # "none",
         tcp' = [tcp EXCEPT ![x] = link],
         task' = [task EXCEPT ![x] = stage],
         frames' \in [Links -> Seq(Frames)],
         \A y \in Links : y # x => frames'[y] = frames[y],
         UNCHANGED <<client, sent>>,
         acceptor' \in {"both", "clients", "sockets", "handshake"}
  PROVE  ConnectionInv'
<1>1. ClientsOK'
  BY ClientsRemain DEF ConnectionInv
<1>2. LinksOK'
  BY LinkUpdate DEF ConnectionInv
<1>3. \A y \in Links : tcp'[y].state = "none" <=> tcp[y].state = "none"
  BY DEF ConnectionInv, LinksOK
<1>4. OpenedOK'
  BY <1>3, OpenedRemain DEF ConnectionInv
<1> QED
  BY <1>1, <1>2, <1>4 DEF ConnectionInv

\* A step that changes no client, connection or task.
LEMMA OtherStepKeeps ==
  ASSUME ConnectionInv, UNCHANGED <<client, sent, tcp, task, frames>>,
         acceptor' \in {"both", "clients", "sockets", "handshake"}
  PROVE  ConnectionInv'
<1>1. ClientsOK' /\ LinksOK'
  BY ClientsRemain, LinksRemain DEF ConnectionInv
<1>2. OpenedOK'
  BY OpenedRemain DEF ConnectionInv
<1> QED
  BY <1>1, <1>2 DEF ConnectionInv

LEMMA CurrentLink ==
  ASSUME ConnectionInv, NEW p \in Clients, client[p].connection # 0
  PROVE  /\ Current(p) \in Links
         /\ Current(p)[1] = p /\ Current(p)[2] = client[p].connection
         /\ tcp[Current(p)] \in TcpLinks
         /\ tcp[Current(p)].state # "none"
<1>1. client[p].connection \in 1 .. MaxConnections
  BY ConnectionAssumption DEF ConnectionInv, ClientsOK, Callers
<1>2. Current(p) \in Links
  BY <1>1 DEF Current, Links
<1>3. tcp[Current(p)] \in TcpLinks
  BY <1>2 DEF ConnectionInv, LinksOK
<1>4. ~ (client[p].connection > client[p].connection)
  BY <1>1
<1>5. tcp[Current(p)].state # "none"
  BY <1>1, <1>4 DEF ConnectionInv, OpenedOK, Current
<1> QED
  BY <1>2, <1>3, <1>5 DEF Current

LEMMA TcpUpdate ==
  ASSUME LinksOK, NEW x \in Links, NEW link \in TcpLinks,
         link.state = "open" <=> tcp[x].state = "open",
         link.state \notin {"queued", "open"} => link.requests = <<>>,
         tcp' = [tcp EXCEPT ![x] = link],
         UNCHANGED <<task, frames>>
  PROVE  LinksOK'
<1>1. /\ tcp' \in [Links -> TcpLinks]
      /\ task' = task /\ frames' = frames
  BY DEF LinksOK
<1>2. ASSUME NEW y \in Links PROVE Consistent(tcp'[y], task[y], frames[y])
  <2>1. Consistent(tcp[y], task[y], frames[y])
    BY DEF LinksOK
  <2>2. CASE y = x
    <3>1. tcp'[y] = link
      BY <2>2 DEF LinksOK
    <3> QED
      BY <2>1, <2>2, <3>1 DEF Consistent
  <2>3. CASE y # x
    <3>1. tcp'[y] = tcp[y]
      BY <2>3 DEF LinksOK
    <3> QED
      BY <2>1, <3>1
  <2> QED
    BY <2>2, <2>3
<1>3. (\A y \in Links : Consistent(tcp[y], task[y], frames[y]))'
  BY <1>1, <1>2 DEF Consistent
<1> QED
  BY <1>1, <1>3 DEF LinksOK

(***************************************************************************)
(* The steps of a client.                                                  *)
(***************************************************************************)
LEMMA ConnectStep ==
  ASSUME ConnectionInv, NEW p \in Clients, Connect(p)
  PROVE  ConnectionInv'
<1> DEFINE k == client[p].connection + 1
           state == IF client[p].state = "starting" THEN "idle" ELSE "ready"
           new == [client[p] EXCEPT !.state = state, !.connection = k, !.late = 0]
           link == [tcp[<<p, k>>] EXCEPT !.state = "queued"]
<1>1. /\ client[p].state \in {"starting", "reconnecting"}
      /\ client[p].connection < MaxConnections
      /\ client' = [client EXCEPT ![p] = new]
      /\ tcp' = [tcp EXCEPT ![<<p, k>>] = link]
      /\ UNCHANGED <<sent, task, frames, acceptor>>
  BY DEF Connect, ServerRests
<1>2. client[p] \in Callers /\ WellPlaced(client[p])
  BY DEF ConnectionInv, ClientsOK
<1>3. k \in 1 .. MaxConnections /\ k = client[p].connection + 1
      /\ client[p].connection \in Nat
  BY <1>1, <1>2, ConnectionAssumption DEF Callers
<1>4. <<p, k>> \in Links
  BY <1>3 DEF Links
<1>5. state \in {"idle", "ready"} /\ (state = "ready" => client[p].state = "reconnecting")
  BY <1>1
<1>6. new \in Callers /\ new.connection = k /\ new.state = state
      /\ new.call = client[p].call /\ new.kind = client[p].kind
  <2>1. k \in 0 .. MaxConnections
    BY <1>3, ConnectionAssumption
  <2>2. state \in CallStates \cup {"starting", "idle", "gone"}
    BY <1>5 DEF CallStates
  <2> HIDE DEF k, state
  <2> QED
    BY <1>2, <2>1, <2>2 DEF Callers
<1>7. WellPlaced(new)
  <2>1. k # 0
    BY <1>3
  <2> HIDE DEF k, state, new
  <2> QED
    BY <1>2, <1>5, <1>6, <2>1 DEF WellPlaced, CallStates
<1>8. ClientsOK'
  <2> HIDE DEF new
  <2> QED
    BY <1>1, <1>6, <1>7, ClientUpdate DEF ConnectionInv
<1>9. tcp[<<p, k>>] \in TcpLinks /\ tcp[<<p, k>>].state = "none"
  <2>1. k > client[p].connection
    BY <1>3
  <2> HIDE DEF k
  <2>2. tcp[<<p, k>>] \in TcpLinks
    BY <1>4 DEF ConnectionInv, LinksOK
  <2> QED
    BY <1>3, <2>1, <2>2 DEF ConnectionInv, OpenedOK
<1>10. link \in TcpLinks /\ link.state = "queued"
  <2> HIDE DEF k
  <2> QED
    BY <1>9 DEF TcpLinks
<1>11. LinksOK'
  <2> HIDE DEF k, link
  <2> QED
    BY <1>1, <1>4, <1>9, <1>10, TcpUpdate DEF ConnectionInv
<1>12. OpenedOK'
  <2> SUFFICES ASSUME NEW q \in Clients, NEW j \in 1 .. MaxConnections
               PROVE  tcp'[<<q, j>>].state = "none" <=> j > client'[q].connection
    BY DEF OpenedOK
  <2>1. tcp[<<q, j>>].state = "none" <=> j > client[q].connection
    BY DEF ConnectionInv, OpenedOK
  <2>2. <<q, j>> \in Links
    BY DEF Links
  <2> HIDE DEF k, new, link
  <2>3. CASE q # p
    <3>1. client'[q] = client[q]
      BY <1>1, <2>3 DEF ConnectionInv, ClientsOK
    <3>2. tcp'[<<q, j>>] = tcp[<<q, j>>]
      BY <1>1, <2>2, <2>3 DEF ConnectionInv, LinksOK
    <3> QED
      BY <2>1, <3>1, <3>2
  <2>4. CASE q = p
    <3>1. client'[q].connection = k
      BY <1>1, <1>6, <2>4 DEF ConnectionInv, ClientsOK
    <3>2. CASE j = k
      <4>1. tcp'[<<q, j>>].state = "queued"
        BY <1>1, <1>4, <1>10, <2>4, <3>2 DEF ConnectionInv, LinksOK
      <4> QED
        BY <1>3, <3>1, <3>2, <4>1
    <3>3. CASE j # k
      <4>1. tcp'[<<q, j>>] = tcp[<<q, j>>]
        BY <1>1, <2>2, <3>3 DEF ConnectionInv, LinksOK
      <4> QED
        BY <1>3, <2>1, <2>4, <3>1, <3>3, <4>1
    <3> QED
      BY <3>2, <3>3
  <2> QED
    BY <2>3, <2>4
<1> QED
  BY <1>1, <1>8, <1>11, <1>12 DEF ConnectionInv

LEMMA SendCommandsStep ==
  ASSUME ConnectionInv, NEW p \in Clients, NEW kind \in Kinds, SendCommands(p, kind)
  PROVE  ConnectionInv'
<1> DEFINE new == [client[p] EXCEPT !.state = "ready", !.call = client[p].call + 1,
                                    !.kind = kind]
<1>1. /\ client[p].state = "idle" /\ client[p].call < MaxCalls
      /\ client' = [client EXCEPT ![p] = new]
      /\ UNCHANGED <<sent, tcp, task, frames, acceptor>>
  BY DEF SendCommands, ServerRests
<1>2. client[p] \in Callers /\ WellPlaced(client[p])
  BY DEF ConnectionInv, ClientsOK
<1>3. client[p].call + 1 \in 0 .. MaxCalls /\ client[p].call + 1 # 0
  BY <1>1, <1>2, ConnectionAssumption DEF Callers
<1>4. /\ new \in Callers
      /\ new.connection = client[p].connection /\ new.state = "ready"
      /\ new.call = client[p].call + 1 /\ new.kind = kind
  BY <1>2, <1>3 DEF Callers, CallStates
<1>5. WellPlaced(new)
  <2> HIDE DEF new
  <2> QED
    BY <1>1, <1>2, <1>3, <1>4 DEF WellPlaced
<1> HIDE DEF new
<1> QED
  BY <1>1, <1>4, <1>5, ClientStepKeeps

LEMMA TimeoutStep ==
  ASSUME ConnectionInv, NEW p \in Clients, Timeout(p)
  PROVE  ConnectionInv'
<1> DEFINE new == [client[p] EXCEPT !.state = "sleeping", !.late = client[p].late + 1]
<1>1. /\ client[p].state = "waiting"
      /\ client' = [client EXCEPT ![p] = new]
      /\ UNCHANGED <<sent, tcp, task, frames, acceptor>>
  BY DEF Timeout, ServerRests
<1>2. client[p] \in Callers /\ WellPlaced(client[p])
  BY DEF ConnectionInv, ClientsOK
<1>3. /\ new \in Callers
      /\ new.connection = client[p].connection /\ new.state = "sleeping"
      /\ new.call = client[p].call /\ new.kind = client[p].kind
  <2>1. client[p].late + 1 \in Nat
    BY <1>2 DEF Callers
  <2>2. "sleeping" \in CallStates \cup {"starting", "idle", "gone"}
    BY DEF CallStates
  <2> QED
    BY <1>2, <2>1, <2>2 DEF Callers
<1>4. WellPlaced(new)
  <2> HIDE DEF new
  <2> QED
    BY <1>1, <1>2, <1>3 DEF WellPlaced, CallStates
<1> HIDE DEF new
<1> QED
  BY <1>1, <1>3, <1>4, ClientStepKeeps

LEMMA SendStep ==
  ASSUME ConnectionInv, NEW p \in Clients, Send(p)
  PROVE  ConnectionInv'
<1> DEFINE x == Current(p)
           frame == [call |-> client[p].call, kind |-> client[p].kind]
           new == [client[p] EXCEPT !.state = "waiting"]
           link == IF tcp[x].state = "closed"
                     THEN [tcp[x] EXCEPT !.state = "reset"]
                     ELSE [tcp[x] EXCEPT !.requests = Append(tcp[x].requests, frame)]
<1>1. /\ client[p].state = "ready"
      /\ tcp[x].state # "reset"
      /\ client' = [client EXCEPT ![p] = new]
      /\ sent' = [sent EXCEPT ![x] = Append(@, frame)]
      /\ UNCHANGED <<task, frames, acceptor>>
  BY DEF Send, ServerRests, Enter
<1>2. tcp' = [tcp EXCEPT ![x] = link]
  BY DEF Send
<1>3. client[p] \in Callers /\ WellPlaced(client[p])
  BY DEF ConnectionInv, ClientsOK
<1>4. client[p].connection # 0 /\ client[p].call # 0 /\ client[p].kind \in Kinds
  BY <1>1, <1>3 DEF WellPlaced, CallStates
<1>5. /\ x \in Links /\ x[2] = client[p].connection
      /\ tcp[x] \in TcpLinks /\ tcp[x].state # "none"
  BY <1>4, CurrentLink
<1>6. frame \in Frames
  BY <1>3, <1>4, ConnectionAssumption DEF Frames, Callers
<1>7. new \in Callers /\ WellPlaced(new) /\ new.connection = client[p].connection
  <2>1. /\ new \in Callers
        /\ new.connection = client[p].connection /\ new.state = "waiting"
        /\ new.call = client[p].call /\ new.kind = client[p].kind
    BY <1>3 DEF Callers, CallStates
  <2> HIDE DEF new
  <2> QED
    BY <1>4, <2>1 DEF WellPlaced
<1>8. ClientsOK'
  <2> HIDE DEF new
  <2> QED
    BY <1>1, <1>7, ClientUpdate DEF ConnectionInv
<1>9. /\ link \in TcpLinks
      /\ link.state # "none"
      /\ link.state = "open" <=> tcp[x].state = "open"
      /\ link.state \notin {"queued", "open"} => link.requests = <<>>
  <2> HIDE DEF x, frame
  <2>1. CASE tcp[x].state = "closed"
    <3>1. tcp[x].requests = <<>>
      BY <1>5, <2>1 DEF ConnectionInv, LinksOK, Consistent
    <3> QED
      BY <1>5, <2>1, <3>1 DEF TcpLinks
  <2>2. CASE tcp[x].state # "closed"
    <3>1. tcp[x].state \in {"queued", "open"}
      BY <1>1, <1>5, <2>2 DEF TcpLinks
    <3>2. Append(tcp[x].requests, frame) \in Seq(Frames)
      BY <1>5, <1>6 DEF TcpLinks
    <3> QED
      BY <1>5, <2>2, <3>1, <3>2 DEF TcpLinks
  <2> QED
    BY <2>1, <2>2
<1>10. LinksOK'
  <2> HIDE DEF x, link
  <2> QED
    BY <1>1, <1>2, <1>5, <1>9, TcpUpdate DEF ConnectionInv
<1>11. OpenedOK'
  <2> HIDE DEF x, link, new
  <2>1. \A q \in Clients : client'[q].connection = client[q].connection
    BY <1>1, <1>7 DEF ConnectionInv, ClientsOK
  <2>2. \A y \in Links : tcp'[y].state = "none" <=> tcp[y].state = "none"
    BY <1>2, <1>5, <1>9 DEF ConnectionInv, LinksOK
  <2> QED
    BY <2>1, <2>2, OpenedRemain DEF ConnectionInv
<1>12. sent' \in [Links -> Seq(Frames)]
  <2> HIDE DEF x, frame
  <2>1. sent[x] \in Seq(Frames) /\ sent \in [Links -> Seq(Frames)]
    BY <1>5 DEF ConnectionInv
  <2>2. Append(sent[x], frame) \in Seq(Frames)
    BY <1>6, <2>1
  <2> QED
    BY <1>1, <2>1, <2>2
<1> QED
  BY <1>1, <1>8, <1>10, <1>11, <1>12 DEF ConnectionInv

LEMMA ReadAnswerStep ==
  ASSUME ConnectionInv, NEW p \in Clients, ReadAnswer(p)
  PROVE  ConnectionInv'
<1> DEFINE x == Current(p)
           new == [client[p] EXCEPT !.state = "idle", !.answer = Head(tcp[x].answers)]
           link == [tcp[x] EXCEPT !.answers = Tail(tcp[x].answers)]
<1>1. /\ client[p].state = "waiting"
      /\ tcp[x].answers # <<>>
      /\ client' = [client EXCEPT ![p] = new]
      /\ tcp' = [tcp EXCEPT ![x] = link]
      /\ UNCHANGED <<sent, task, frames, acceptor>>
  BY DEF ReadAnswer, ServerRests
<1>2. client[p] \in Callers /\ WellPlaced(client[p])
  BY DEF ConnectionInv, ClientsOK
<1>3. client[p].connection # 0
  BY <1>1, <1>2 DEF WellPlaced
<1>4. x \in Links /\ tcp[x] \in TcpLinks /\ tcp[x].state # "none"
  BY <1>3, CurrentLink
<1> HIDE DEF x
<1>5. /\ Head(tcp[x].answers) \in 1 .. MaxCalls
      /\ Tail(tcp[x].answers) \in Seq(1 .. MaxCalls)
  <2>1. tcp[x].answers \in Seq(1 .. MaxCalls)
    BY <1>4 DEF TcpLinks
  <2> QED
    BY <1>1, <2>1, HeadTailProperties
<1>6. Head(tcp[x].answers) \in 0 .. MaxCalls
  BY <1>5, ConnectionAssumption
<1>7. /\ new \in Callers /\ new.connection = client[p].connection /\ new.state = "idle"
  BY <1>2, <1>6 DEF Callers
<1>8. WellPlaced(new)
  <2> HIDE DEF new
  <2> QED
    BY <1>3, <1>7 DEF WellPlaced, CallStates
<1>9. /\ link \in TcpLinks /\ link.state = tcp[x].state /\ link.requests = tcp[x].requests
  BY <1>4, <1>5 DEF TcpLinks
<1> HIDE DEF new, link
<1>10. ClientsOK'
  BY <1>1, <1>7, <1>8, ClientUpdate DEF ConnectionInv
<1>11. LinksOK'
  <2>1. link.state \notin {"queued", "open"} => link.requests = <<>>
    BY <1>4, <1>9 DEF ConnectionInv, LinksOK, Consistent
  <2> QED
    BY <1>1, <1>4, <1>9, <2>1, TcpUpdate DEF ConnectionInv
<1>12. OpenedOK'
  <2>1. \A q \in Clients : client'[q].connection = client[q].connection
    BY <1>1, <1>7 DEF ConnectionInv, ClientsOK
  <2>2. \A y \in Links : tcp'[y].state = "none" <=> tcp[y].state = "none"
    BY <1>1, <1>4, <1>9 DEF ConnectionInv, LinksOK
  <2> QED
    BY <2>1, <2>2, OpenedRemain DEF ConnectionInv
<1> QED
  BY <1>1, <1>10, <1>11, <1>12 DEF ConnectionInv

\* The steps that only move a client on.
LEMMA EnteringSteps ==
  ASSUME ConnectionInv, NEW p \in Clients,
         SendFails(p) \/ ShortRead(p) \/ ReadEof(p) \/ ReadReset(p) \/ Resume(p) \/ Quit(p)
  PROVE  ConnectionInv'
<1>1. UNCHANGED <<sent, tcp, task, frames, acceptor>>
  BY DEF SendFails, ShortRead, ReadEof, ReadReset, Resume, Quit, ServerRests
<1>2. CASE SendFails(p)
  <2>1. client[p].state \in CallStates /\ Enter(p, "sleeping")
    BY <1>2 DEF SendFails, CallStates
  <2>2. "sleeping" \in CallStates
    BY DEF CallStates
  <2> QED
    BY <1>1, <2>1, <2>2, EnterKeeps
<1>3. CASE ShortRead(p) \/ ReadEof(p) \/ Quit(p)
  <2>1. Enter(p, "gone")
    BY <1>3 DEF ShortRead, ReadEof, Quit
  <2> QED
    BY <1>1, <2>1, EnterKeeps
<1>4. CASE ReadReset(p)
  <2>1. client[p].state \in CallStates /\ Enter(p, "sleeping")
    BY <1>4 DEF ReadReset, CallStates
  <2>2. "sleeping" \in CallStates
    BY DEF CallStates
  <2> QED
    BY <1>1, <2>1, <2>2, EnterKeeps
<1>5. CASE Resume(p)
  <2> DEFINE state == IF SocketIsOpen(Current(p)) THEN "ready" ELSE "reconnecting"
  <2>1. client[p].state \in CallStates /\ Enter(p, state)
    BY <1>5 DEF Resume, CallStates
  <2>2. state \in CallStates
    BY DEF CallStates
  <2> HIDE DEF state
  <2> QED
    BY <1>1, <2>1, <2>2, EnterKeeps
<1> QED
  BY <1>2, <1>3, <1>4, <1>5

(***************************************************************************)
(* The steps of a connection task.                                         *)
(***************************************************************************)
LEMMA LinkTypes ==
  ASSUME ConnectionInv, NEW x \in Links
  PROVE  /\ tcp[x] \in TcpLinks
         /\ task[x] \in {"none", "reading", "calling", "ended"}
         /\ frames[x] \in Seq(Frames)
         /\ Consistent(tcp[x], task[x], frames[x])
BY DEF ConnectionInv, LinksOK

LEMMA FramesRemain ==
  ASSUME ConnectionInv, UNCHANGED frames
  PROVE  /\ frames' \in [Links -> Seq(Frames)]
         /\ \A x, y \in Links : y # x => frames'[y] = frames[y]
BY DEF ConnectionInv, LinksOK

LEMMA ClosingStep ==
  ASSUME ConnectionInv, NEW x \in Links, tcp[x].state # "none",
         NEW state \in {"closed", "reset"},
         tcp' = [tcp EXCEPT ![x].state = state, ![x].requests = <<>>],
         task' = [task EXCEPT ![x] = "ended"],
         UNCHANGED <<client, sent, frames, acceptor>>
  PROVE  ConnectionInv'
<1> DEFINE link == [tcp[x] EXCEPT !.state = state, !.requests = <<>>]
<1>1. tcp' = [tcp EXCEPT ![x] = link]
  OBVIOUS
<1>2. link \in TcpLinks /\ link.state = state /\ link.requests = <<>>
  <2>1. <<>> \in Seq(Frames)
    OBVIOUS
  <2> QED
    BY <2>1, LinkTypes DEF TcpLinks
<1>3. Consistent(link, "ended", frames'[x])
  <2> HIDE DEF link
  <2> QED
    BY <1>2 DEF Consistent
<1>4. acceptor' \in {"both", "clients", "sockets", "handshake"}
  BY DEF ConnectionInv
<1> HIDE DEF link
<1> QED
  BY <1>1, <1>2, <1>3, <1>4, FramesRemain, LinkStepKeeps

LEMMA EndTaskStep ==
  ASSUME ConnectionInv, NEW x \in Links, task[x] \in {"reading", "calling"}, EndTask(x),
         UNCHANGED <<client, sent, frames, acceptor>>
  PROVE  ConnectionInv'
<1>1. tcp[x].state # "none"
  BY LinkTypes DEF Consistent
<1>2. PICK state \in {"closed", "reset"} :
        tcp' = [tcp EXCEPT ![x].state = state, ![x].requests = <<>>]
  BY DEF EndTask, CloseLink
<1>3. task' = [task EXCEPT ![x] = "ended"]
  BY DEF EndTask
<1> QED
  BY <1>1, <1>2, <1>3, ClosingStep

LEMMA EndingSteps ==
  ASSUME ConnectionInv, NEW x \in Links,
         ReadEnd(x) \/ AnswerFails(x) \/ CallFails(x)
  PROVE  ConnectionInv'
<1>1. /\ task[x] \in {"reading", "calling"} /\ EndTask(x)
      /\ UNCHANGED <<client, sent, frames, acceptor>>
  BY DEF ReadEnd, AnswerFails, CallFails, ClientsRest, clientVars
<1> QED
  BY <1>1, EndTaskStep

LEMMA RejectFrameStep ==
  ASSUME ConnectionInv, NEW x \in Links, RejectFrame(x)
  PROVE  ConnectionInv'
<1>1. /\ task[x] = "reading"
      /\ task' = [task EXCEPT ![x] = "ended"]
      /\ UNCHANGED <<client, sent, frames, acceptor>>
  BY DEF RejectFrame, ClientsRest, clientVars
<1>2. PICK state \in {"closed", "reset"} :
        tcp' = [tcp EXCEPT ![x].state = state, ![x].requests = <<>>]
  BY DEF RejectFrame
<1>3. tcp[x].state # "none"
  BY <1>1, LinkTypes DEF Consistent
<1> QED
  BY <1>1, <1>2, <1>3, ClosingStep

LEMMA ReadFrameStep ==
  ASSUME ConnectionInv, NEW x \in Links, ReadFrame(x)
  PROVE  ConnectionInv'
<1> DEFINE link == [tcp[x] EXCEPT !.requests = Tail(tcp[x].requests)]
           decoded == Append(frames[x], Head(tcp[x].requests))
<1>1. /\ task[x] = "reading" /\ tcp[x].requests # <<>>
      /\ task' = [task EXCEPT ![x] = "calling"]
      /\ frames' = [frames EXCEPT ![x] = decoded]
      /\ tcp' = [tcp EXCEPT ![x] = link]
      /\ UNCHANGED <<client, sent, acceptor>>
  BY DEF ReadFrame, ClientsRest, clientVars
<1>2. tcp[x] \in TcpLinks /\ frames[x] \in Seq(Frames) /\ tcp[x].state = "open"
  BY <1>1, LinkTypes DEF Consistent
<1>3. tcp[x].requests \in Seq(Frames)
  BY <1>2 DEF TcpLinks
<1>4. Head(tcp[x].requests) \in Frames /\ Tail(tcp[x].requests) \in Seq(Frames)
  BY <1>1, <1>3, HeadTailProperties
<1>5. decoded \in Seq(Frames) /\ decoded # <<>>
  BY <1>2, <1>4, AppendProperties
<1>6. link \in TcpLinks /\ link.state = "open"
  BY <1>2, <1>4 DEF TcpLinks
<1> HIDE DEF link, decoded
<1>7. /\ frames' \in [Links -> Seq(Frames)]
      /\ \A y \in Links : y # x => frames'[y] = frames[y]
      /\ frames'[x] = decoded
  BY <1>1, <1>5 DEF ConnectionInv, LinksOK
<1>8. Consistent(link, "calling", frames'[x])
  BY <1>5, <1>6, <1>7 DEF Consistent
<1>9. acceptor' \in {"both", "clients", "sockets", "handshake"}
  BY <1>1 DEF ConnectionInv
<1> QED
  BY <1>1, <1>2, <1>6, <1>7, <1>8, <1>9, LinkStepKeeps

LEMMA AnswerStep ==
  ASSUME ConnectionInv, NEW x \in Links, Answer(x)
  PROVE  ConnectionInv'
<1> DEFINE link == [tcp[x] EXCEPT !.answers = Append(tcp[x].answers, Last(frames[x]).call)]
<1>1. /\ task[x] = "calling"
      /\ tcp' = [tcp EXCEPT ![x] = link]
      /\ task' = [task EXCEPT ![x] = "reading"]
      /\ UNCHANGED <<client, sent, frames, acceptor>>
  BY DEF Answer, ClientsRest, clientVars
<1>2. /\ tcp[x] \in TcpLinks /\ frames[x] \in Seq(Frames) /\ tcp[x].state = "open"
      /\ frames[x] # <<>>
  BY <1>1, LinkTypes DEF Consistent
<1>3. Last(frames[x]) \in Frames
  <2>1. Len(frames[x]) \in 1 .. Len(frames[x])
    BY <1>2, LenProperties, EmptySeq
  <2> QED
    BY <1>2, <2>1, ElementOfSeq DEF Last
<1>4. Append(tcp[x].answers, Last(frames[x]).call) \in Seq(1 .. MaxCalls)
  <2>1. Last(frames[x]).call \in 1 .. MaxCalls /\ tcp[x].answers \in Seq(1 .. MaxCalls)
    BY <1>2, <1>3 DEF Frames, TcpLinks
  <2> QED
    BY <2>1
<1>5. link \in TcpLinks /\ link.state = "open"
  BY <1>2, <1>4 DEF TcpLinks
<1> HIDE DEF link
<1>6. Consistent(link, "reading", frames'[x])
  BY <1>5 DEF Consistent
<1>7. acceptor' \in {"both", "clients", "sockets", "handshake"}
  BY <1>1 DEF ConnectionInv
<1> QED
  BY <1>1, <1>2, <1>5, <1>6, <1>7, FramesRemain, LinkStepKeeps

(***************************************************************************)
(* The acceptor and the process.                                           *)
(***************************************************************************)
LEMMA AcceptStep ==
  ASSUME ConnectionInv, NEW x \in Links, Accept(x)
  PROVE  ConnectionInv'
<1> DEFINE link == [tcp[x] EXCEPT !.state = "open"]
<1>1. /\ tcp[x].state = "queued"
      /\ tcp' = [tcp EXCEPT ![x] = link]
      /\ task' = [task EXCEPT ![x] = "reading"]
      /\ acceptor' = "both"
      /\ UNCHANGED <<client, sent, frames>>
  BY DEF Accept, clientVars
<1>2. link \in TcpLinks /\ link.state = "open"
  BY LinkTypes DEF TcpLinks
<1> HIDE DEF link
<1>3. Consistent(link, "reading", frames'[x])
  BY <1>2 DEF Consistent
<1> QED
  BY <1>1, <1>2, <1>3, FramesRemain, LinkStepKeeps

LEMMA DieStep ==
  ASSUME ConnectionInv, Die
  PROVE  ConnectionInv'
<1> DEFINE Left(reset, y) == [tcp[y] EXCEPT !.state = IF y \in reset THEN "reset" ELSE "closed",
                                            !.requests = <<>>]
<1>1. PICK reset \in SUBSET {y \in Links : tcp[y].requests # <<>> \/ tcp[y].state = "queued"} :
        tcp' = [y \in Links |-> IF tcp[y].state \in {"queued", "open"}
                                  THEN Left(reset, y) ELSE tcp[y]]
  BY DEF Die
<1>2. /\ task' = [y \in Links |-> IF task[y] = "none" THEN "none" ELSE "ended"]
      /\ UNCHANGED <<client, sent, frames, acceptor>>
  BY DEF Die, clientVars
<1>3. ASSUME NEW y \in Links
      PROVE  /\ tcp'[y] \in TcpLinks
             /\ task'[y] \in {"none", "ended"}
             /\ tcp'[y].state \notin {"queued", "open"} /\ tcp'[y].requests = <<>>
             /\ tcp'[y].state = "none" <=> tcp[y].state = "none"
  <2>1. task'[y] \in {"none", "ended"}
    BY <1>2
  <2>2. CASE tcp[y].state \in {"queued", "open"}
    <3>1. tcp'[y] = Left(reset, y)
      BY <1>1, <2>2
    <3>2. /\ Left(reset, y) \in TcpLinks
          /\ Left(reset, y).state \in {"reset", "closed"} /\ Left(reset, y).requests = <<>>
      <4>1. <<>> \in Seq(Frames)
        OBVIOUS
      <4> QED
        BY <4>1, LinkTypes DEF TcpLinks
    <3> HIDE DEF Left
    <3> QED
      BY <2>1, <2>2, <3>1, <3>2
  <2>3. CASE tcp[y].state \notin {"queued", "open"}
    <3>1. tcp'[y] = tcp[y]
      BY <1>1, <2>3
    <3>2. tcp[y] \in TcpLinks /\ tcp[y].requests = <<>>
      BY <2>3, LinkTypes DEF Consistent
    <3> QED
      BY <2>1, <2>3, <3>1, <3>2
  <2> QED
    BY <2>2, <2>3
<1> HIDE DEF Left
<1>4. LinksOK'
  <2>1. tcp' \in [Links -> TcpLinks]
    BY <1>1, <1>3
  <2>2. task' \in [Links -> {"none", "reading", "calling", "ended"}]
    BY <1>2
  <2>3. ASSUME NEW y \in Links PROVE Consistent(tcp'[y], task'[y], frames'[y])
    BY <1>3 DEF Consistent
  <2>4. (\A y \in Links : Consistent(tcp[y], task[y], frames[y]))'
    BY <2>3 DEF Consistent
  <2> QED
    BY <1>2, <2>1, <2>2, <2>4 DEF LinksOK, ConnectionInv
<1>5. ClientsOK'
  BY <1>2, ClientsRemain DEF ConnectionInv
<1>6. OpenedOK'
  BY <1>2, <1>3, OpenedRemain DEF ConnectionInv
<1> QED
  BY <1>2, <1>4, <1>5, <1>6 DEF ConnectionInv

\* The steps that neither a client nor a connection takes part in.
LEMMA OtherSteps ==
  ASSUME ConnectionInv,
         \/ AcceptWs \/ HandshakeEnds \/ AcceptFails
         \/ WsCall \/ WsReturn \/ WsCallFails
         \/ Execute \/ ThreadPanics \/ Start
         \/ UNCHANGED vars
  PROVE  ConnectionInv'
<1>1. UNCHANGED <<client, sent, tcp, task, frames>>
  BY DEF AcceptWs, HandshakeEnds, AcceptFails, WsCall, WsReturn, WsCallFails, Execute,
         ThreadPanics, Start, ServerTasksRest, clientVars, vars
<1>2. acceptor' \in {"both", "clients", "sockets", "handshake"}
  BY DEF ConnectionInv, AcceptWs, HandshakeEnds, AcceptFails, WsCall, WsReturn, WsCallFails,
         Execute, ThreadPanics, Start, ServerTasksRest, clientVars, vars
<1> QED
  BY <1>1, <1>2, OtherStepKeeps

LEMMA ConnectionInitInv == Init => ConnectionInv
<1> SUFFICES ASSUME Init PROVE ConnectionInv
  OBVIOUS
<1> DEFINE first == [state |-> "starting", call |-> 0, kind |-> "plain", connection |-> 0,
                     late |-> 0, answer |-> 0]
           unused == [state |-> "none", requests |-> <<>>, answers |-> <<>>]
<1>1. /\ client = [p \in Clients |-> first]
      /\ sent = [x \in Links |-> <<>>]
      /\ tcp = [x \in Links |-> unused]
      /\ task = [x \in Links |-> "none"]
      /\ frames = [x \in Links |-> <<>>]
      /\ acceptor = "both"
  BY DEF Init
<1>2. first \in Callers /\ first.state = "starting" /\ first.connection = 0
  BY ConnectionAssumption DEF Callers
<1>3. WellPlaced(first)
  BY DEF WellPlaced, CallStates
<1>4. unused \in TcpLinks /\ unused.state = "none" /\ unused.requests = <<>>
  BY DEF TcpLinks
<1>5. Consistent(unused, "none", <<>>)
  BY DEF Consistent
<1> HIDE DEF first, unused
<1>6. ClientsOK
  BY <1>1, <1>2, <1>3 DEF ClientsOK
<1>7. LinksOK
  BY <1>1, <1>4, <1>5 DEF LinksOK
<1>8. OpenedOK
  <2> SUFFICES ASSUME NEW p \in Clients, NEW k \in 1 .. MaxConnections
               PROVE  tcp[<<p, k>>].state = "none" /\ k > client[p].connection
    BY DEF OpenedOK
  <2>1. <<p, k>> \in Links
    BY DEF Links
  <2> QED
    BY <1>1, <1>2, <1>4, <2>1
<1>9. sent \in [Links -> Seq(Frames)]
  BY <1>1
<1> QED
  BY <1>1, <1>6, <1>7, <1>8, <1>9 DEF ConnectionInv

LEMMA ConnectionStep ==
  ASSUME ConnectionInv, [Next]_vars
  PROVE  ConnectionInv'
<1>1. ASSUME NEW p \in Clients,
             \/ ClientStep(p)
             \/ \E kind \in Kinds : SendCommands(p, kind)
             \/ ShortRead(p)
             \/ Timeout(p)
             \/ Quit(p)
      PROVE  ConnectionInv'
  <2>1. CASE Connect(p)
    BY <2>1, ConnectStep
  <2>2. CASE Send(p)
    BY <2>2, SendStep
  <2>3. CASE ReadAnswer(p)
    BY <2>3, ReadAnswerStep
  <2>4. CASE SendFails(p) \/ ShortRead(p) \/ ReadEof(p) \/ ReadReset(p) \/ Resume(p) \/ Quit(p)
    BY <2>4, EnteringSteps
  <2>5. CASE Timeout(p)
    BY <2>5, TimeoutStep
  <2>6. CASE \E kind \in Kinds : SendCommands(p, kind)
    BY <2>6, SendCommandsStep
  <2> QED
    BY <1>1, <2>1, <2>2, <2>3, <2>4, <2>5, <2>6 DEF ClientStep
<1>2. ASSUME NEW x \in Links, Accept(x) \/ TaskStep(x)
      PROVE  ConnectionInv'
  <2>1. CASE Accept(x)
    BY <2>1, AcceptStep
  <2>2. CASE ReadFrame(x)
    BY <2>2, ReadFrameStep
  <2>3. CASE RejectFrame(x)
    BY <2>3, RejectFrameStep
  <2>4. CASE Answer(x)
    BY <2>4, AnswerStep
  <2>5. CASE ReadEnd(x) \/ AnswerFails(x) \/ CallFails(x)
    BY <2>5, EndingSteps
  <2> QED
    BY <1>2, <2>1, <2>2, <2>3, <2>4, <2>5 DEF TaskStep
<1>3. CASE Die
  BY <1>3, DieStep
<1>4. CASE \/ AcceptWs \/ HandshakeEnds \/ AcceptFails
           \/ WsCall \/ WsReturn \/ WsCallFails
           \/ Execute \/ ThreadPanics \/ Start
           \/ UNCHANGED vars
  BY <1>4, OtherSteps
<1> QED
  BY <1>1, <1>2, <1>3, <1>4 DEF Next

(***************************************************************************)
(* What is in transit on a connection.  The task has decoded the first of  *)
(* the frames that were sent; on a live connection the others are unread.  *)
(***************************************************************************)
InTransit(link, stage, out, decoded) ==
  /\ link.state = "none" => out = <<>>
  /\ link.state \in {"none", "queued"} => stage = "none"
  /\ stage = "none" => decoded = <<>> /\ link.answers = <<>>
  /\ Len(decoded) <= Len(out)
  /\ \A i \in 1 .. Len(decoded) : decoded[i] = out[i]
  /\ link.state \in {"queued", "open"} =>
       /\ Len(out) = Len(decoded) + Len(link.requests)
       /\ \A i \in 1 .. Len(link.requests) : link.requests[i] = out[Len(decoded) + i]

\* How many answers a client has read on its connection: it waits for the
\* next one, and c.late more have not been read when it stopped waiting.
AnswersRead(c, out) == Len(out) - c.late - (IF c.state = "waiting" THEN 1 ELSE 0)

\* What the client reads next answers the first frame it has no answer to.
Matched(c, link, stage, out, decoded) ==
  LET read == AnswersRead(c, out)
  IN  /\ read >= 0
      /\ read + Len(link.answers) <= Len(out)
      /\ \A i \in 1 .. Len(link.answers) : link.answers[i] = out[read + i].call
      /\ stage # "ended" =>
           read + Len(link.answers) + (IF stage = "calling" THEN 1 ELSE 0) = Len(decoded)
      /\ c.state = "idle" /\ out # <<>> => read >= 1 /\ c.answer = out[read].call

\* Unless the client is gone, or has seen the connection break.
Expected(c, link, stage, out, decoded) ==
  \/ c.state \in {"starting", "gone"}
  \/ c.state \in {"sleeping", "reconnecting"} /\ link.state = "reset" /\ link.answers = <<>>
  \/ Matched(c, link, stage, out, decoded)

TransitOK == \A x \in Links : InTransit(tcp[x], task[x], sent[x], frames[x])

AnswersOK ==
  \A p \in Clients : client[p].connection # 0 =>
    LET x == Current(p) IN Expected(client[p], tcp[x], task[x], sent[x], frames[x])

TransferInv == TransitOK /\ AnswersOK

LEMMA SentTypes ==
  ASSUME ConnectionInv, NEW x \in Links
  PROVE  /\ sent[x] \in Seq(Frames)
         /\ tcp[x].requests \in Seq(Frames)
         /\ tcp[x].answers \in Seq(1 .. MaxCalls)
         /\ Len(sent[x]) \in Nat /\ Len(frames[x]) \in Nat
         /\ Len(tcp[x].requests) \in Nat /\ Len(tcp[x].answers) \in Nat
<1>1. sent[x] \in Seq(Frames)
  BY DEF ConnectionInv
<1>2. tcp[x].requests \in Seq(Frames) /\ tcp[x].answers \in Seq(1 .. MaxCalls)
  BY LinkTypes DEF TcpLinks
<1> QED
  BY <1>1, <1>2, LinkTypes, LenProperties

LEMMA ClientTypes ==
  ASSUME ConnectionInv, NEW p \in Clients
  PROVE  client[p] \in Callers /\ WellPlaced(client[p])
BY DEF ConnectionInv, ClientsOK

LEMMA CurrentIsLink ==
  ASSUME ConnectionInv, NEW p \in Clients, client[p].connection # 0
  PROVE  Current(p) \in Links /\ Current(p)[1] = p
BY CurrentLink

LEMMA AnswersKept ==
  ASSUME ConnectionInv, AnswersOK, UNCHANGED client,
         \A x \in Links : \A c \in Callers :
           Expected(c, tcp[x], task[x], sent[x], frames[x]) =>
             Expected(c, tcp'[x], task'[x], sent'[x], frames'[x])
  PROVE  AnswersOK'
<1>1. ASSUME NEW p \in Clients, client'[p].connection # 0
      PROVE  LET y == <<p, client'[p].connection>>
             IN  Expected(client'[p], tcp'[y], task'[y], sent'[y], frames'[y])
  <2> DEFINE y == Current(p)
  <2>1. client' = client /\ <<p, client'[p].connection>> = y
    BY DEF Current
  <2>2. y \in Links
    BY <1>1, <2>1, CurrentIsLink
  <2>3. Expected(client[p], tcp[y], task[y], sent[y], frames[y])
    BY <1>1, <2>1 DEF AnswersOK
  <2> HIDE DEF y
  <2>4. Expected(client[p], tcp'[y], task'[y], sent'[y], frames'[y])
    BY <2>2, <2>3, ClientTypes
  <2> QED
    BY <2>1, <2>4
<1> QED
  BY <1>1 DEF AnswersOK, Current, Expected, Matched, AnswersRead

(***************************************************************************)
(* Only one connection changes: its task takes a step.                     *)
(***************************************************************************)
LEMMA TransferByTask ==
  ASSUME ConnectionInv, TransferInv, NEW x \in Links,
         UNCHANGED <<client, sent>>,
         \A y \in Links : y # x => /\ tcp'[y] = tcp[y] /\ task'[y] = task[y]
                                   /\ frames'[y] = frames[y],
         InTransit(tcp'[x], task'[x], sent[x], frames'[x]),
         \A c \in Callers : Expected(c, tcp[x], task[x], sent[x], frames[x]) =>
           Expected(c, tcp'[x], task'[x], sent[x], frames'[x])
  PROVE  TransferInv'
<1>1. ASSUME NEW y \in Links
      PROVE  InTransit(tcp'[y], task'[y], sent'[y], frames'[y])
  <2>1. CASE y = x
    BY <2>1
  <2>2. CASE y # x
    <3>1. InTransit(tcp[y], task[y], sent[y], frames[y])
      BY DEF TransferInv, TransitOK
    <3>2. /\ tcp'[y] = tcp[y] /\ task'[y] = task[y] /\ sent'[y] = sent[y]
          /\ frames'[y] = frames[y]
      BY <2>2
    <3> QED
      BY <3>1, <3>2
  <2> QED
    BY <2>1, <2>2
<1>2. ASSUME NEW y \in Links, NEW c \in Callers,
             Expected(c, tcp[y], task[y], sent[y], frames[y])
      PROVE  Expected(c, tcp'[y], task'[y], sent'[y], frames'[y])
  <2>1. CASE y = x
    <3>1. Expected(c, tcp'[x], task'[x], sent[x], frames'[x])
      BY <1>2, <2>1
    <3>2. sent'[y] = sent[y]
      OBVIOUS
    <3> QED
      BY <2>1, <3>1, <3>2
  <2>2. CASE y # x
    <3>1. /\ tcp'[y] = tcp[y] /\ task'[y] = task[y] /\ sent'[y] = sent[y]
          /\ frames'[y] = frames[y]
      BY <2>2
    <3> QED
      BY <1>2, <3>1
  <2> QED
    BY <2>1, <2>2
<1>3. TransitOK'
  BY <1>1 DEF TransitOK, InTransit
<1>4. AnswersOK'
  BY <1>2, AnswersKept DEF TransferInv
<1> QED
  BY <1>3, <1>4 DEF TransferInv

(***************************************************************************)
(* The steps of a connection task.                                         *)
(***************************************************************************)
LEMMA ReadFrameTransfer ==
  ASSUME ConnectionInv, TransferInv, NEW x \in Links, ReadFrame(x)
  PROVE  TransferInv'
<1> DEFINE queue == tcp[x].requests
           decoded == frames[x]
           link == [tcp[x] EXCEPT !.requests = Tail(queue)]
           more == Append(decoded, Head(queue))
<1>1. /\ task[x] = "reading" /\ queue # <<>>
      /\ task' = [task EXCEPT ![x] = "calling"]
      /\ frames' = [frames EXCEPT ![x] = more]
      /\ tcp' = [tcp EXCEPT ![x] = link]
      /\ UNCHANGED <<client, sent>>
  BY DEF ReadFrame, ClientsRest, clientVars
<1>2. /\ tcp[x] \in TcpLinks /\ tcp[x].state = "open"
      /\ tcp'[x] = link /\ task'[x] = "calling" /\ frames'[x] = more
      /\ \A y \in Links : y # x => /\ tcp'[y] = tcp[y] /\ task'[y] = task[y]
                                   /\ frames'[y] = frames[y]
  BY <1>1, LinkTypes DEF Consistent, ConnectionInv, LinksOK
<1>3. link.state = "open" /\ link.requests = Tail(queue) /\ link.answers = tcp[x].answers
  BY <1>2 DEF TcpLinks
<1>4. /\ decoded \in Seq(Frames) /\ queue \in Seq(Frames) /\ sent[x] \in Seq(Frames)
      /\ Len(decoded) \in Nat /\ Len(queue) \in Nat \ {0} /\ Len(sent[x]) \in Nat
  BY <1>1, SentTypes, LinkTypes, EmptySeq
<1>5. /\ Len(more) = Len(decoded) + 1
      /\ more[Len(decoded) + 1] = queue[1]
      /\ \A i \in 1 .. Len(decoded) : more[i] = decoded[i]
      /\ Len(Tail(queue)) = Len(queue) - 1
      /\ \A i \in 1 .. Len(Tail(queue)) : Tail(queue)[i] = queue[i + 1]
  <2>1. Head(queue) = queue[1] /\ Head(queue) \in Frames
    BY <1>1, <1>4, HeadTailProperties
  <2> QED
    BY <1>1, <1>4, <2>1, AppendProperties, HeadTailProperties
<1>6. /\ Len(sent[x]) = Len(decoded) + Len(queue)
      /\ \A i \in 1 .. Len(decoded) : decoded[i] = sent[x][i]
      /\ \A i \in 1 .. Len(queue) : queue[i] = sent[x][Len(decoded) + i]
  BY <1>2 DEF TransferInv, TransitOK, InTransit
<1> HIDE DEF queue, decoded, more, link
<1>7. InTransit(link, "calling", sent[x], more)
  <2>1. Len(sent[x]) = Len(more) + Len(Tail(queue)) /\ Len(more) <= Len(sent[x])
    BY <1>4, <1>5, <1>6
  <2>2. ASSUME NEW i \in 1 .. Len(more) PROVE more[i] = sent[x][i]
    <3>1. CASE i \in 1 .. Len(decoded)
      BY <1>5, <1>6, <3>1
    <3>2. CASE i = Len(decoded) + 1
      <4>1. queue[1] = sent[x][Len(decoded) + 1]
        BY <1>4, <1>6
      <4> QED
        BY <1>5, <3>2, <4>1
    <3> QED
      BY <1>4, <1>5, <3>1, <3>2
  <2>3. ASSUME NEW i \in 1 .. Len(Tail(queue))
        PROVE  Tail(queue)[i] = sent[x][Len(more) + i]
    <3>1. i + 1 \in 1 .. Len(queue)
      BY <1>4, <1>5
    <3>2. Tail(queue)[i] = sent[x][Len(decoded) + (i + 1)]
      BY <1>5, <1>6, <3>1
    <3>3. Len(decoded) + (i + 1) = Len(more) + i
      BY <1>4, <1>5
    <3> QED
      BY <3>2, <3>3
  <2> QED
    BY <1>3, <2>1, <2>2, <2>3 DEF InTransit
<1>8. ASSUME NEW c \in Callers, Expected(c, tcp[x], task[x], sent[x], frames[x])
      PROVE  Expected(c, link, "calling", sent[x], more)
  <2>1. CASE c.state \in {"starting", "gone"}
    BY <2>1 DEF Expected
  <2>2. CASE Matched(c, tcp[x], task[x], sent[x], frames[x])
    <3>1. Matched(c, tcp[x], "reading", sent[x], decoded)
      BY <1>1, <2>2 DEF decoded
    <3>2. AnswersRead(c, sent[x]) \in Int /\ Len(tcp[x].answers) \in Nat
      BY <1>4, SentTypes DEF AnswersRead, Callers
    <3>3. AnswersRead(c, sent[x]) + Len(tcp[x].answers) + 1 = Len(more)
      BY <1>4, <1>5, <3>1, <3>2 DEF Matched
    <3>4. Matched(c, link, "calling", sent[x], more)
      BY <1>3, <3>1, <3>3 DEF Matched
    <3> QED
      BY <3>4 DEF Expected
  <2> QED
    BY <1>2, <1>8, <2>1, <2>2 DEF Expected
<1> QED
  BY <1>1, <1>2, <1>7, <1>8, TransferByTask

LEMMA AnswerTransfer ==
  ASSUME ConnectionInv, TransferInv, NEW x \in Links, Answer(x)
  PROVE  TransferInv'
<1> DEFINE answers == tcp[x].answers
           decoded == frames[x]
           more == Append(answers, Last(decoded).call)
           link == [tcp[x] EXCEPT !.answers = more]
<1>1. /\ task[x] = "calling"
      /\ tcp' = [tcp EXCEPT ![x] = link]
      /\ task' = [task EXCEPT ![x] = "reading"]
      /\ UNCHANGED <<client, sent, frames>>
  BY DEF Answer, ClientsRest, clientVars
<1>2. /\ tcp[x] \in TcpLinks /\ tcp[x].state = "open" /\ decoded # <<>>
      /\ tcp'[x] = link /\ task'[x] = "reading" /\ frames'[x] = decoded
      /\ \A y \in Links : y # x => /\ tcp'[y] = tcp[y] /\ task'[y] = task[y]
                                   /\ frames'[y] = frames[y]
  BY <1>1, LinkTypes DEF Consistent, ConnectionInv, LinksOK
<1>3. link.state = "open" /\ link.requests = tcp[x].requests /\ link.answers = more
  BY <1>2 DEF TcpLinks
<1>4. /\ decoded \in Seq(Frames) /\ answers \in Seq(1 .. MaxCalls)
      /\ Len(decoded) \in Nat \ {0} /\ Len(answers) \in Nat /\ Len(sent[x]) \in Nat
  BY <1>2, SentTypes, LinkTypes, EmptySeq
<1>5. /\ Last(decoded) = decoded[Len(decoded)]
      /\ Last(decoded).call \in 1 .. MaxCalls
  <2>1. decoded[Len(decoded)] \in Frames
    <3>1. Len(decoded) \in 1 .. Len(decoded)
      BY <1>4
    <3> QED
      BY <1>4, <3>1, ElementOfSeq
  <2> QED
    BY <2>1 DEF Last, Frames
<1>6. /\ Len(more) = Len(answers) + 1
      /\ more[Len(answers) + 1] = decoded[Len(decoded)].call
      /\ \A i \in 1 .. Len(answers) : more[i] = answers[i]
  <2> HIDE DEF decoded, answers
  <2> QED
    BY <1>4, <1>5, AppendProperties
<1>7. /\ Len(decoded) <= Len(sent[x])
      /\ \A i \in 1 .. Len(decoded) : decoded[i] = sent[x][i]
  BY DEF TransferInv, TransitOK, InTransit
<1> HIDE DEF answers, decoded, more, link
<1>8. InTransit(link, "reading", sent[x], decoded)
  <2>1. InTransit(tcp[x], task[x], sent[x], decoded)
    BY DEF TransferInv, TransitOK, decoded
  <2> QED
    BY <1>2, <1>3, <2>1 DEF InTransit
<1>9. ASSUME NEW c \in Callers, Expected(c, tcp[x], task[x], sent[x], frames[x])
      PROVE  Expected(c, link, "reading", sent[x], decoded)
  <2>1. CASE c.state \in {"starting", "gone"}
    BY <2>1 DEF Expected
  <2>2. CASE Matched(c, tcp[x], task[x], sent[x], frames[x])
    <3> DEFINE read == AnswersRead(c, sent[x])
    <3>1. read \in Int
      BY <1>4 DEF AnswersRead, Callers
    <3>2. /\ read >= 0
          /\ \A i \in 1 .. Len(answers) : answers[i] = sent[x][read + i].call
          /\ read + Len(answers) + 1 = Len(decoded)
          /\ c.state = "idle" /\ sent[x] # <<>> => read >= 1 /\ c.answer = sent[x][read].call
      BY <1>1, <2>2 DEF Matched, answers, decoded
    <3> HIDE DEF read
    <3>3. ASSUME NEW i \in 1 .. Len(more) PROVE more[i] = sent[x][read + i].call
      <4>1. CASE i \in 1 .. Len(answers)
        BY <1>6, <3>2, <4>1
      <4>2. CASE i = Len(answers) + 1
        <5>1. read + i = Len(decoded)
          BY <1>4, <3>1, <3>2, <4>2
        <5>2. decoded[Len(decoded)] = sent[x][Len(decoded)]
          BY <1>4, <1>7
        <5> QED
          BY <1>6, <4>2, <5>1, <5>2
      <4> QED
        BY <1>4, <1>6, <4>1, <4>2
    <3>4. read + Len(more) = Len(decoded) /\ read + Len(more) <= Len(sent[x])
      BY <1>4, <1>6, <1>7, <3>1, <3>2
    <3>5. Matched(c, link, "reading", sent[x], decoded)
      <4>1. Len(more) \in Nat
        BY <1>4, <1>6
      <4>2. read + Len(more) + 0 = Len(decoded)
        BY <3>1, <3>4, <4>1
      <4> QED
        BY <1>3, <3>2, <3>3, <3>4, <4>2 DEF Matched, read
    <3> QED
      BY <3>5 DEF Expected
  <2> QED
    BY <1>2, <1>9, <2>1, <2>2 DEF Expected
<1> QED
  BY <1>1, <1>2, <1>8, <1>9, TransferByTask

LEMMA ClosingTransfer ==
  ASSUME ConnectionInv, TransferInv, NEW x \in Links, task[x] \in {"reading", "calling"},
         NEW state \in {"closed", "reset"},
         tcp' = [tcp EXCEPT ![x].state = state, ![x].requests = <<>>],
         task' = [task EXCEPT ![x] = "ended"],
         UNCHANGED <<client, sent, frames>>
  PROVE  TransferInv'
<1> DEFINE link == [tcp[x] EXCEPT !.state = state, !.requests = <<>>]
<1>1. /\ tcp[x] \in TcpLinks /\ tcp[x].state = "open"
      /\ tcp'[x] = link /\ task'[x] = "ended" /\ frames'[x] = frames[x]
      /\ \A y \in Links : y # x => /\ tcp'[y] = tcp[y] /\ task'[y] = task[y]
                                   /\ frames'[y] = frames[y]
  BY LinkTypes DEF Consistent, ConnectionInv, LinksOK
<1>2. link.state = state /\ link.answers = tcp[x].answers
  BY <1>1 DEF TcpLinks
<1> HIDE DEF link
<1>3. InTransit(link, "ended", sent[x], frames[x])
  <2>1. InTransit(tcp[x], task[x], sent[x], frames[x])
    BY DEF TransferInv, TransitOK
  <2> QED
    BY <1>2, <2>1 DEF InTransit
<1>4. ASSUME NEW c \in Callers, Expected(c, tcp[x], task[x], sent[x], frames[x])
      PROVE  Expected(c, link, "ended", sent[x], frames[x])
  BY <1>1, <1>2, <1>4 DEF Expected, Matched
<1> QED
  BY <1>1, <1>3, <1>4, TransferByTask

LEMMA EndingTransfers ==
  ASSUME ConnectionInv, TransferInv, NEW x \in Links,
         RejectFrame(x) \/ ReadEnd(x) \/ AnswerFails(x) \/ CallFails(x)
  PROVE  TransferInv'
<1>1. /\ task[x] \in {"reading", "calling"}
      /\ UNCHANGED <<client, sent, frames>>
      /\ task' = [task EXCEPT ![x] = "ended"]
  BY DEF RejectFrame, ReadEnd, AnswerFails, CallFails, EndTask, ClientsRest, clientVars
<1>2. PICK state \in {"closed", "reset"} :
        tcp' = [tcp EXCEPT ![x].state = state, ![x].requests = <<>>]
  BY DEF RejectFrame, ReadEnd, AnswerFails, CallFails, EndTask, CloseLink
<1> QED
  BY <1>1, <1>2, ClosingTransfer

LEMMA AcceptTransfer ==
  ASSUME ConnectionInv, TransferInv, NEW x \in Links, Accept(x)
  PROVE  TransferInv'
<1> DEFINE link == [tcp[x] EXCEPT !.state = "open"]
<1>1. /\ tcp[x].state = "queued"
      /\ tcp' = [tcp EXCEPT ![x] = link]
      /\ task' = [task EXCEPT ![x] = "reading"]
      /\ UNCHANGED <<client, sent, frames>>
  BY DEF Accept, clientVars
<1>2. /\ tcp[x] \in TcpLinks
      /\ tcp'[x] = link /\ task'[x] = "reading" /\ frames'[x] = frames[x]
      /\ \A y \in Links : y # x => /\ tcp'[y] = tcp[y] /\ task'[y] = task[y]
                                   /\ frames'[y] = frames[y]
  BY <1>1, LinkTypes DEF ConnectionInv, LinksOK
<1>3. link.state = "open" /\ link.answers = tcp[x].answers /\ link.requests = tcp[x].requests
  BY <1>2 DEF TcpLinks
<1> HIDE DEF link
<1>4. InTransit(tcp[x], task[x], sent[x], frames[x])
  BY DEF TransferInv, TransitOK
<1>5. task[x] = "none"
  BY <1>1, <1>4 DEF InTransit
<1>6. InTransit(link, "reading", sent[x], frames[x])
  BY <1>1, <1>3, <1>4 DEF InTransit
<1>7. ASSUME NEW c \in Callers, Expected(c, tcp[x], task[x], sent[x], frames[x])
      PROVE  Expected(c, link, "reading", sent[x], frames[x])
  <2>1. Expected(c, tcp[x], "none", sent[x], frames[x])
    BY <1>5, <1>7
  <2>2. CASE Matched(c, tcp[x], "none", sent[x], frames[x])
    <3>1. Matched(c, link, "reading", sent[x], frames[x])
      BY <1>3, <2>2 DEF Matched
    <3> QED
      BY <3>1 DEF Expected
  <2> QED
    BY <1>1, <2>1, <2>2 DEF Expected
<1> QED
  BY <1>1, <1>2, <1>6, <1>7, TransferByTask

LEMMA DieTransfer ==
  ASSUME ConnectionInv, TransferInv, Die
  PROVE  TransferInv'
<1> DEFINE Left(reset, y) == [tcp[y] EXCEPT !.state = IF y \in reset THEN "reset" ELSE "closed",
                                            !.requests = <<>>]
<1>1. PICK reset \in SUBSET {y \in Links : tcp[y].requests # <<>> \/ tcp[y].state = "queued"} :
        tcp' = [y \in Links |-> IF tcp[y].state \in {"queued", "open"}
                                  THEN Left(reset, y) ELSE tcp[y]]
  BY DEF Die
<1>2. /\ task' = [y \in Links |-> IF task[y] = "none" THEN "none" ELSE "ended"]
      /\ UNCHANGED <<client, sent, frames>>
  BY DEF Die, clientVars
<1>3. ASSUME NEW x \in Links
      PROVE  /\ tcp'[x].answers = tcp[x].answers
             /\ tcp'[x].state \in {"none", "closed", "reset"}
             /\ tcp'[x].state = "none" => tcp[x].state = "none"
             /\ tcp[x].state \notin {"queued", "open"} => tcp'[x].state = tcp[x].state
             /\ task'[x] = IF task[x] = "none" THEN "none" ELSE "ended"
  <2>1. task'[x] = IF task[x] = "none" THEN "none" ELSE "ended"
    BY <1>2
  <2>2. tcp[x] \in TcpLinks
    BY LinkTypes
  <2>3. CASE tcp[x].state \in {"queued", "open"}
    <3>1. tcp'[x] = Left(reset, x)
      BY <1>1, <2>3
    <3>2. /\ Left(reset, x).answers = tcp[x].answers
          /\ Left(reset, x).state \in {"closed", "reset"}
      BY <2>2 DEF TcpLinks
    <3> HIDE DEF Left
    <3> QED
      BY <2>1, <2>3, <3>1, <3>2
  <2>4. CASE tcp[x].state \notin {"queued", "open"}
    <3>1. tcp'[x] = tcp[x]
      BY <1>1, <2>4
    <3> QED
      BY <2>1, <2>2, <2>4, <3>1 DEF TcpLinks
  <2> QED
    BY <2>3, <2>4
<1> HIDE DEF Left
<1>4. ASSUME NEW x \in Links
      PROVE  InTransit(tcp'[x], task'[x], sent[x], frames[x])
  <2>1. InTransit(tcp[x], task[x], sent[x], frames[x])
    BY DEF TransferInv, TransitOK
  <2> QED
    BY <1>3, <2>1 DEF InTransit
<1>5. ASSUME NEW x \in Links, NEW c \in Callers,
             Expected(c, tcp[x], task[x], sent[x], frames[x])
      PROVE  Expected(c, tcp'[x], task'[x], sent[x], frames[x])
  <2>1. CASE c.state \in {"starting", "gone"}
    BY <2>1 DEF Expected
  <2>2. CASE tcp[x].state = "reset" /\ tcp[x].answers = <<>>
             /\ c.state \in {"sleeping", "reconnecting"}
    <3>1. tcp'[x].state = "reset" /\ tcp'[x].answers = <<>>
      BY <1>3, <2>2
    <3> QED
      BY <2>2, <3>1 DEF Expected
  <2>3. CASE Matched(c, tcp[x], task[x], sent[x], frames[x])
    <3>1. Matched(c, tcp'[x], task'[x], sent[x], frames[x])
      <4>1. CASE task[x] = "none"
        <5>1. task'[x] = task[x] /\ tcp'[x].answers = tcp[x].answers
          BY <1>3, <4>1
        <5> QED
          BY <2>3, <5>1 DEF Matched
      <4>2. CASE task[x] # "none"
        <5>1. task'[x] = "ended" /\ tcp'[x].answers = tcp[x].answers
          BY <1>3, <4>2
        <5> QED
          BY <2>3, <5>1 DEF Matched
      <4> QED
        BY <4>1, <4>2
    <3> QED
      BY <3>1 DEF Expected
  <2> QED
    BY <1>5, <2>1, <2>2, <2>3 DEF Expected
<1>6. TransitOK'
  <2>1. \A x \in Links : InTransit(tcp'[x], task'[x], sent'[x], frames'[x])
    BY <1>2, <1>4
  <2> QED
    BY <2>1 DEF TransitOK, InTransit
<1>7. AnswersOK'
  <2>1. sent' = sent /\ frames' = frames /\ client' = client
    BY <1>2
  <2> QED
    BY <1>5, <2>1, AnswersKept DEF TransferInv
<1> QED
  BY <1>6, <1>7 DEF TransferInv

(***************************************************************************)
(* The steps of a client.                                                  *)
(***************************************************************************)
LEMMA TransferByClient ==
  ASSUME ConnectionInv, TransferInv, NEW p \in Clients,
         UNCHANGED <<sent, tcp, task, frames>>,
         \A q \in Clients : q # p => client'[q] = client[q],
         client'[p].connection = client[p].connection,
         client[p].connection # 0 =>
           LET x == Current(p)
           IN  Expected(client[p], tcp[x], task[x], sent[x], frames[x]) =>
                 Expected(client'[p], tcp[x], task[x], sent[x], frames[x])
  PROVE  TransferInv'
<1>1. TransitOK'
  BY DEF TransferInv, TransitOK, InTransit
<1>2. ASSUME NEW q \in Clients, client'[q].connection # 0
      PROVE  LET y == <<q, client'[q].connection>>
             IN  Expected(client'[q], tcp'[y], task'[y], sent'[y], frames'[y])
  <2> DEFINE y == Current(q)
  <2>1. client'[q].connection = client[q].connection
    BY DEF ConnectionInv
  <2>2. <<q, client'[q].connection>> = y /\ client[q].connection # 0
    BY <1>2, <2>1 DEF Current
  <2>3. Expected(client[q], tcp[y], task[y], sent[y], frames[y])
    BY <2>2 DEF TransferInv, AnswersOK
  <2>4. CASE q = p
    <3>1. Expected(client'[p], tcp[y], task[y], sent[y], frames[y])
      BY <2>2, <2>3, <2>4
    <3> HIDE DEF y
    <3> QED
      BY <2>2, <2>4, <3>1
  <2>5. CASE q # p
    <3> HIDE DEF y
    <3>1. client'[q] = client[q]
      BY <2>5
    <3> QED
      BY <2>2, <2>3, <3>1
  <2> QED
    BY <2>4, <2>5
<1>3. AnswersOK'
  BY <1>2 DEF AnswersOK, Current, Expected, Matched, AnswersRead
<1> QED
  BY <1>1, <1>3 DEF TransferInv

LEMMA TransferByLink ==
  ASSUME ConnectionInv, TransferInv, NEW x \in Links,
         UNCHANGED <<task, frames>>,
         \A q \in Clients : q # x[1] => client'[q] = client[q],
         client'[x[1]].connection = x[2],
         \A y \in Links : y # x => tcp'[y] = tcp[y] /\ sent'[y] = sent[y],
         InTransit(tcp'[x], task[x], sent'[x], frames[x]),
         Expected(client'[x[1]], tcp'[x], task[x], sent'[x], frames[x])
  PROVE  TransferInv'
<1>1. ASSUME NEW y \in Links
      PROVE  InTransit(tcp'[y], task'[y], sent'[y], frames'[y])
  <2>1. CASE y = x
    BY <2>1
  <2>2. CASE y # x
    <3>1. InTransit(tcp[y], task[y], sent[y], frames[y])
      BY DEF TransferInv, TransitOK
    <3>2. /\ tcp'[y] = tcp[y] /\ task'[y] = task[y] /\ sent'[y] = sent[y]
          /\ frames'[y] = frames[y]
      BY <2>2
    <3> QED
      BY <3>1, <3>2
  <2> QED
    BY <2>1, <2>2
<1>2. TransitOK'
  BY <1>1 DEF TransitOK, InTransit
<1>3. ASSUME NEW q \in Clients, client'[q].connection # 0
      PROVE  LET y == <<q, client'[q].connection>>
             IN  Expected(client'[q], tcp'[y], task'[y], sent'[y], frames'[y])
  <2>1. CASE q = x[1]
    <3>1. <<q, client'[q].connection>> = x
      BY <2>1 DEF Links
    <3> QED
      BY <2>1, <3>1
  <2>2. CASE q # x[1]
    <3> DEFINE y == Current(q)
    <3>1. client'[q] = client[q] /\ <<q, client'[q].connection>> = y
      BY <2>2 DEF Current
    <3>2. y \in Links /\ y # x
      <4>1. y \in Links /\ y[1] = q
        BY <1>3, <3>1, CurrentIsLink
      <4> QED
        BY <2>2, <4>1
    <3>3. Expected(client[q], tcp[y], task[y], sent[y], frames[y])
      BY <1>3, <3>1 DEF TransferInv, AnswersOK
    <3> HIDE DEF y
    <3>4. tcp'[y] = tcp[y] /\ task'[y] = task[y] /\ sent'[y] = sent[y] /\ frames'[y] = frames[y]
      BY <3>2
    <3> QED
      BY <3>1, <3>3, <3>4
  <2> QED
    BY <2>1, <2>2
<1>4. AnswersOK'
  BY <1>3 DEF AnswersOK, Current, Expected, Matched, AnswersRead
<1> QED
  BY <1>2, <1>4 DEF TransferInv

LEMMA ConnectTransfer ==
  ASSUME ConnectionInv, TransferInv, NEW p \in Clients, Connect(p)
  PROVE  TransferInv'
<1> DEFINE k == client[p].connection + 1
           x == <<p, k>>
           state == IF client[p].state = "starting" THEN "idle" ELSE "ready"
           new == [client[p] EXCEPT !.state = state, !.connection = k, !.late = 0]
           link == [tcp[x] EXCEPT !.state = "queued"]
<1>1. /\ client[p].connection < MaxConnections
      /\ client' = [client EXCEPT ![p] = new]
      /\ tcp' = [tcp EXCEPT ![x] = link]
      /\ UNCHANGED <<sent, task, frames>>
  BY DEF Connect, ServerRests
<1>2. client[p] \in Callers
  BY ClientTypes
<1>3. k \in 1 .. MaxConnections /\ k > client[p].connection
  BY <1>1, <1>2, ConnectionAssumption DEF Callers
<1>4. x \in Links /\ x[1] = p /\ x[2] = k
  BY <1>3 DEF Links
<1>5. state \in {"idle", "ready"}
  OBVIOUS
<1>6. new.state = state /\ new.connection = k /\ new.late = 0
  <2> HIDE DEF k, state
  <2> QED
    BY <1>2 DEF Callers
<1>7. tcp[x] \in TcpLinks /\ tcp[x].state = "none"
  <2>1. tcp[x] \in TcpLinks
    BY <1>4, LinkTypes
  <2> HIDE DEF k
  <2> QED
    BY <1>3, <2>1 DEF ConnectionInv, OpenedOK
<1>8. link.state = "queued" /\ link.requests = <<>> /\ link.answers = tcp[x].answers
  <2>1. tcp[x].requests = <<>>
    BY <1>4, <1>7, LinkTypes DEF Consistent
  <2> HIDE DEF x
  <2> QED
    BY <1>7, <2>1 DEF TcpLinks
<1>9. task[x] = "none" /\ sent[x] = <<>> /\ frames[x] = <<>> /\ tcp[x].answers = <<>>
  <2>1. InTransit(tcp[x], task[x], sent[x], frames[x])
    BY <1>4 DEF TransferInv, TransitOK
  <2> HIDE DEF x
  <2> QED
    BY <1>7, <2>1 DEF InTransit
<1>10. /\ tcp'[x] = link /\ sent'[x] = sent[x]
       /\ \A y \in Links : y # x => tcp'[y] = tcp[y] /\ sent'[y] = sent[y]
  <2> HIDE DEF x, link
  <2> QED
    BY <1>1, <1>4 DEF ConnectionInv, LinksOK
<1>11. client'[p] = new /\ \A q \in Clients : q # p => client'[q] = client[q]
  <2> HIDE DEF new
  <2> QED
    BY <1>1 DEF ConnectionInv, ClientsOK
<1> HIDE DEF k, x, state, new, link
<1>12. InTransit(link, task[x], sent[x], frames[x])
  BY <1>8, <1>9 DEF InTransit
<1>13. Expected(new, link, task[x], sent[x], frames[x])
  <2>1. AnswersRead(new, sent[x]) = 0
    BY <1>5, <1>6, <1>9 DEF AnswersRead
  <2>2. Matched(new, link, task[x], sent[x], frames[x])
    BY <1>8, <1>9, <2>1 DEF Matched
  <2> QED
    BY <2>2 DEF Expected
<1>14. client'[x[1]].connection = x[2]
  BY <1>4, <1>6, <1>11
<1>15. /\ InTransit(tcp'[x], task[x], sent'[x], frames[x])
       /\ Expected(client'[x[1]], tcp'[x], task[x], sent'[x], frames[x])
  BY <1>4, <1>10, <1>11, <1>12, <1>13
<1> QED
  BY <1>1, <1>4, <1>10, <1>11, <1>14, <1>15, TransferByLink

LEMMA SendTransfer ==
  ASSUME ConnectionInv, TransferInv, NEW p \in Clients, Send(p)
  PROVE  TransferInv'
<1> DEFINE x == Current(p)
           frame == [call |-> client[p].call, kind |-> client[p].kind]
           new == [client[p] EXCEPT !.state = "waiting"]
           out == Append(sent[x], frame)
           queue == Append(tcp[x].requests, frame)
           link == IF tcp[x].state = "closed"
                     THEN [tcp[x] EXCEPT !.state = "reset"]
                     ELSE [tcp[x] EXCEPT !.requests = queue]
<1>1. /\ client[p].state = "ready"
      /\ tcp[x].state # "reset"
      /\ client' = [client EXCEPT ![p] = new]
      /\ sent' = [sent EXCEPT ![x] = out]
      /\ tcp' = [tcp EXCEPT ![x] = link]
      /\ UNCHANGED <<task, frames>>
  BY DEF Send, ServerRests, Enter
<1>2. client[p] \in Callers /\ WellPlaced(client[p])
  BY ClientTypes
<1>3. client[p].connection # 0 /\ client[p].call # 0 /\ client[p].kind \in Kinds
  BY <1>1, <1>2 DEF WellPlaced, CallStates
<1>4. /\ x \in Links /\ x[1] = p /\ x[2] = client[p].connection
      /\ tcp[x] \in TcpLinks /\ tcp[x].state # "none"
  BY <1>3, CurrentLink
<1>5. frame \in Frames
  BY <1>2, <1>3, ConnectionAssumption DEF Frames, Callers
<1>6. new.state = "waiting" /\ new.connection = client[p].connection /\ new.late = client[p].late
  BY <1>2 DEF Callers
<1>7. /\ tcp'[x] = link /\ sent'[x] = out
      /\ \A y \in Links : y # x => tcp'[y] = tcp[y] /\ sent'[y] = sent[y]
  <2> HIDE DEF x, link, out
  <2> QED
    BY <1>1, <1>4 DEF ConnectionInv, LinksOK
<1>8. client'[p] = new /\ \A q \in Clients : q # p => client'[q] = client[q]
  <2> HIDE DEF new
  <2> QED
    BY <1>1 DEF ConnectionInv, ClientsOK
<1> HIDE DEF x, frame, new
<1>9. /\ sent[x] \in Seq(Frames) /\ tcp[x].requests \in Seq(Frames) /\ frames[x] \in Seq(Frames)
      /\ Len(sent[x]) \in Nat /\ Len(tcp[x].requests) \in Nat /\ Len(frames[x]) \in Nat
      /\ Len(tcp[x].answers) \in Nat
  BY <1>4, SentTypes, LinkTypes
<1> DEFINE m == Len(sent[x])
           n == Len(frames[x])
           r == Len(tcp[x].requests)
<1>9a. m \in Nat /\ n \in Nat /\ r \in Nat
  BY <1>9
<1>10. /\ Len(out) = Len(sent[x]) + 1
       /\ out[Len(sent[x]) + 1] = frame
       /\ \A i \in 1 .. Len(sent[x]) : out[i] = sent[x][i]
       /\ Len(queue) = Len(tcp[x].requests) + 1
       /\ queue[Len(tcp[x].requests) + 1] = frame
       /\ \A i \in 1 .. Len(tcp[x].requests) : queue[i] = tcp[x].requests[i]
  BY <1>5, <1>9, AppendProperties
<1>11. link.answers = tcp[x].answers
       /\ IF tcp[x].state = "closed"
            THEN link.state = "reset"
            ELSE link.state = tcp[x].state /\ link.requests = queue
                 /\ tcp[x].state \in {"queued", "open"}
  <2> HIDE DEF queue
  <2>1. CASE tcp[x].state = "closed"
    BY <1>4, <2>1 DEF TcpLinks
  <2>2. CASE tcp[x].state # "closed"
    <3>1. link = [tcp[x] EXCEPT !.requests = queue]
      BY <2>2
    <3>2. tcp[x].state \in {"queued", "open"}
      BY <1>1, <1>4, <2>2 DEF TcpLinks
    <3> HIDE DEF link
    <3> QED
      BY <1>4, <2>2, <3>1, <3>2 DEF TcpLinks
  <2> QED
    BY <2>1, <2>2
<1> HIDE DEF link, out, queue
<1>12. InTransit(tcp[x], task[x], sent[x], frames[x])
  BY <1>4 DEF TransferInv, TransitOK
<1>13. InTransit(link, task[x], out, frames[x])
  <2>1. /\ Len(frames[x]) <= Len(out)
        /\ \A i \in 1 .. Len(frames[x]) : frames[x][i] = out[i]
    <3>1. Len(frames[x]) <= Len(sent[x]) /\ \A i \in 1 .. Len(frames[x]) : frames[x][i] = sent[x][i]
      BY <1>12 DEF InTransit
    <3>2. \A i \in 1 .. Len(frames[x]) : i \in 1 .. Len(sent[x])
      BY <1>9, <3>1
    <3> QED
      BY <1>9, <1>10, <3>1, <3>2
  <2>2. link.state \in {"queued", "open"} =>
          /\ Len(out) = n + Len(link.requests)
          /\ \A i \in 1 .. Len(link.requests) : link.requests[i] = out[n + i]
    <3> SUFFICES ASSUME link.state \in {"queued", "open"}
                 PROVE  /\ Len(out) = n + Len(link.requests)
                        /\ \A i \in 1 .. Len(link.requests) : link.requests[i] = out[n + i]
      OBVIOUS
    <3>1. link.requests = queue /\ tcp[x].state \in {"queued", "open"}
      BY <1>11
    <3>2. m = n + r /\ \A i \in 1 .. r : tcp[x].requests[i] = sent[x][n + i]
      BY <1>12, <3>1 DEF InTransit
    <3>3. /\ Len(out) = m + 1 /\ out[m + 1] = frame
          /\ \A i \in 1 .. m : out[i] = sent[x][i]
          /\ Len(queue) = r + 1 /\ queue[r + 1] = frame
          /\ \A i \in 1 .. r : queue[i] = tcp[x].requests[i]
      BY <1>10
    <3> HIDE DEF m, n, r
    <3>4. ASSUME NEW i \in 1 .. r + 1 PROVE queue[i] = out[n + i]
      <4>1. CASE i \in 1 .. r
        <5>1. n + i \in 1 .. m
          BY <1>9a, <3>2, <4>1
        <5> QED
          BY <3>2, <3>3, <4>1, <5>1
      <4>2. CASE i = r + 1
        <5>1. n + i = m + 1
          BY <1>9a, <3>2, <4>2
        <5> QED
          BY <3>3, <4>2, <5>1
      <4> QED
        BY <1>9a, <4>1, <4>2
    <3>5. Len(out) = n + Len(queue)
      BY <1>9a, <3>2, <3>3
    <3> QED
      BY <3>1, <3>3, <3>4, <3>5
  <2>3. /\ link.state \in {"none", "queued"} => task[x] = "none"
        /\ link.state = "none" => out = <<>>
        /\ task[x] = "none" => frames[x] = <<>> /\ link.answers = <<>>
    BY <1>4, <1>11, <1>12 DEF InTransit
  <2> QED
    BY <2>1, <2>2, <2>3 DEF InTransit
<1>14. Expected(new, link, task[x], out, frames[x])
  <2>1. Matched(client[p], tcp[x], task[x], sent[x], frames[x])
    BY <1>1, <1>3 DEF TransferInv, AnswersOK, Expected, x
  <2>2. AnswersRead(client[p], sent[x]) \in Int
        /\ AnswersRead(new, out) = AnswersRead(client[p], sent[x])
    <3>1. client[p].late \in Nat /\ Len(out) = m + 1
      BY <1>2, <1>10 DEF Callers
    <3>2. AnswersRead(client[p], sent[x]) = m - client[p].late - 0
      BY <1>1 DEF AnswersRead
    <3>3. AnswersRead(new, out) = Len(out) - client[p].late - 1
      BY <1>6 DEF AnswersRead
    <3> HIDE DEF m
    <3> QED
      BY <1>9a, <3>1, <3>2, <3>3
  <2> DEFINE read == AnswersRead(client[p], sent[x])
  <2>3. /\ read >= 0 /\ read + Len(link.answers) <= Len(sent[x])
        /\ \A i \in 1 .. Len(link.answers) : link.answers[i] = sent[x][read + i].call
        /\ task[x] # "ended" =>
             read + Len(link.answers) + (IF task[x] = "calling" THEN 1 ELSE 0) = Len(frames[x])
    BY <1>11, <2>1 DEF Matched
  <2>4. read \in Int /\ AnswersRead(new, out) = read /\ Len(link.answers) \in Nat
    BY <1>9, <1>11, <2>2
  <2> HIDE DEF read
  <2>5. ASSUME NEW i \in 1 .. Len(link.answers) PROVE link.answers[i] = out[read + i].call
    <3>1. read + i \in 1 .. Len(sent[x])
      BY <1>9, <2>3, <2>4
    <3> QED
      BY <1>10, <2>3, <3>1
  <2>6. read + Len(link.answers) <= Len(out)
    BY <1>9, <1>10, <2>3, <2>4
  <2>7. Matched(new, link, task[x], out, frames[x])
    BY <1>6, <2>3, <2>4, <2>5, <2>6 DEF Matched
  <2> QED
    BY <2>7 DEF Expected
<1>15. client'[x[1]].connection = x[2]
  BY <1>4, <1>6, <1>8
<1>16. /\ InTransit(tcp'[x], task[x], sent'[x], frames[x])
       /\ Expected(client'[x[1]], tcp'[x], task[x], sent'[x], frames[x])
  BY <1>4, <1>7, <1>8, <1>13, <1>14
<1> QED
  BY <1>1, <1>4, <1>7, <1>8, <1>15, <1>16, TransferByLink

LEMMA ReadAnswerTransfer ==
  ASSUME ConnectionInv, TransferInv, NEW p \in Clients, ReadAnswer(p)
  PROVE  TransferInv'
<1> DEFINE x == Current(p)
           answers == tcp[x].answers
           new == [client[p] EXCEPT !.state = "idle", !.answer = Head(answers)]
           link == [tcp[x] EXCEPT !.answers = Tail(answers)]
<1>1. /\ client[p].state = "waiting" /\ answers # <<>>
      /\ client' = [client EXCEPT ![p] = new]
      /\ tcp' = [tcp EXCEPT ![x] = link]
      /\ UNCHANGED <<sent, task, frames>>
  BY DEF ReadAnswer, ServerRests
<1>2. client[p] \in Callers /\ client[p].connection # 0
  BY <1>1, ClientTypes DEF WellPlaced
<1>3. /\ x \in Links /\ x[1] = p /\ x[2] = client[p].connection
      /\ tcp[x] \in TcpLinks
  BY <1>2, CurrentLink
<1>4. /\ new.state = "idle" /\ new.connection = client[p].connection
      /\ new.late = client[p].late /\ new.answer = Head(answers)
  <2> HIDE DEF answers
  <2> QED
    BY <1>2 DEF Callers
<1>5. /\ link.state = tcp[x].state /\ link.requests = tcp[x].requests
      /\ link.answers = Tail(answers)
  <2> HIDE DEF x
  <2> QED
    BY <1>3 DEF TcpLinks
<1>6. /\ tcp'[x] = link /\ sent'[x] = sent[x]
      /\ \A y \in Links : y # x => tcp'[y] = tcp[y] /\ sent'[y] = sent[y]
  <2> HIDE DEF x, link
  <2> QED
    BY <1>1, <1>3 DEF ConnectionInv, LinksOK
<1>7. client'[p] = new /\ \A q \in Clients : q # p => client'[q] = client[q]
  <2> HIDE DEF new
  <2> QED
    BY <1>1 DEF ConnectionInv, ClientsOK
<1>8. /\ answers \in Seq(1 .. MaxCalls) /\ Len(answers) \in Nat \ {0}
      /\ Len(sent[x]) \in Nat /\ Len(frames[x]) \in Nat
  BY <1>1, <1>3, SentTypes, EmptySeq
<1> HIDE DEF new, link
<1>9. InTransit(tcp[x], task[x], sent[x], frames[x])
  BY <1>3 DEF TransferInv, TransitOK
<1>10. InTransit(link, task[x], sent[x], frames[x])
  BY <1>1, <1>5, <1>9 DEF InTransit
<1>11. Matched(client[p], tcp[x], task[x], sent[x], frames[x])
  BY <1>1, <1>2 DEF TransferInv, AnswersOK, Expected
<1> HIDE DEF x, answers
<1>12. Expected(new, link, task[x], sent[x], frames[x])
  <2> DEFINE read == AnswersRead(client[p], sent[x])
  <2>1. read \in Int /\ AnswersRead(new, sent[x]) = read + 1
    BY <1>1, <1>2, <1>4, <1>8 DEF AnswersRead, Callers
  <2>2. /\ read >= 0 /\ read + Len(answers) <= Len(sent[x])
        /\ \A i \in 1 .. Len(answers) : answers[i] = sent[x][read + i].call
        /\ task[x] # "ended" =>
             read + Len(answers) + (IF task[x] = "calling" THEN 1 ELSE 0) = Len(frames[x])
    BY <1>11 DEF Matched, answers
  <2> HIDE DEF read
  <2>3. /\ Len(Tail(answers)) = Len(answers) - 1
        /\ \A i \in 1 .. Len(Tail(answers)) : Tail(answers)[i] = answers[i + 1]
        /\ Head(answers) = answers[1]
    BY <1>1, <1>8, HeadTailProperties
  <2>4. ASSUME NEW i \in 1 .. Len(Tail(answers))
        PROVE  Tail(answers)[i] = sent[x][(read + 1) + i].call
    <3>1. i + 1 \in 1 .. Len(answers) /\ read + (i + 1) = (read + 1) + i
      BY <1>8, <2>1, <2>3
    <3> QED
      BY <2>2, <2>3, <3>1
  <2>5. Head(answers) = sent[x][read + 1].call
    <3>1. 1 \in 1 .. Len(answers)
      BY <1>8
    <3> QED
      BY <2>2, <2>3, <3>1
  <2>6. /\ read + 1 >= 1 /\ read + 1 >= 0
        /\ (read + 1) + Len(Tail(answers)) = read + Len(answers)
    BY <1>8, <2>1, <2>2, <2>3
  <2>7. Matched(new, link, task[x], sent[x], frames[x])
    BY <1>4, <1>5, <2>1, <2>2, <2>4, <2>5, <2>6 DEF Matched
  <2> QED
    BY <2>7 DEF Expected
<1>13. client'[x[1]].connection = x[2]
  BY <1>3, <1>4, <1>7
<1>14. /\ InTransit(tcp'[x], task[x], sent'[x], frames[x])
       /\ Expected(client'[x[1]], tcp'[x], task[x], sent'[x], frames[x])
  BY <1>3, <1>6, <1>7, <1>10, <1>12
<1> QED
  BY <1>1, <1>3, <1>6, <1>7, <1>13, <1>14, TransferByLink

\* The steps that only move a client on, with or without a timeout.
LEMMA MovingTransfer ==
  ASSUME ConnectionInv, TransferInv, NEW p \in Clients,
         NEW new \in Callers, new.connection = client[p].connection,
         client' = [client EXCEPT ![p] = new],
         UNCHANGED <<sent, tcp, task, frames>>,
         NEW x, x = Current(p),
         client[p].connection # 0 =>
           \/ new.state = "gone"
           \/ new.state \in {"sleeping", "reconnecting"} /\ tcp[x].state = "reset"
              /\ tcp[x].answers = <<>>
           \/ /\ new.state # "idle"
              /\ AnswersRead(new, sent[x]) = AnswersRead(client[p], sent[x])
              /\ \/ client[p].state \notin {"starting", "gone", "sleeping", "reconnecting"}
                 \/ client[p].state = "sleeping"
                    /\ (tcp[x].state # "reset" \/ tcp[x].answers # <<>>)
  PROVE  TransferInv'
<1>1. client'[p] = new /\ \A q \in Clients : q # p => client'[q] = client[q]
  BY DEF ConnectionInv, ClientsOK
<1>2. ASSUME client[p].connection # 0,
             Expected(client[p], tcp[x], task[x], sent[x], frames[x])
      PROVE  Expected(new, tcp[x], task[x], sent[x], frames[x])
  <2>1. CASE new.state = "gone"
    BY <2>1 DEF Expected
  <2>2. CASE /\ new.state \in {"sleeping", "reconnecting"} /\ tcp[x].state = "reset"
             /\ tcp[x].answers = <<>>
    BY <2>2 DEF Expected
  <2>3. CASE /\ new.state # "idle"
             /\ AnswersRead(new, sent[x]) = AnswersRead(client[p], sent[x])
             /\ \/ client[p].state \notin {"starting", "gone", "sleeping", "reconnecting"}
                \/ client[p].state = "sleeping"
                   /\ (tcp[x].state # "reset" \/ tcp[x].answers # <<>>)
    <3>1. Matched(client[p], tcp[x], task[x], sent[x], frames[x])
      BY <1>2, <2>3 DEF Expected
    <3>2. Matched(new, tcp[x], task[x], sent[x], frames[x])
      BY <2>3, <3>1 DEF Matched
    <3> QED
      BY <3>2 DEF Expected
  <2> QED
    BY <1>2, <2>1, <2>2, <2>3
<1> QED
  BY <1>1, <1>2, TransferByClient

LEMMA EnteringTransfer ==
  ASSUME ConnectionInv, TransferInv, NEW p \in Clients,
         \/ SendFails(p) \/ ShortRead(p) \/ ReadEof(p) \/ ReadReset(p) \/ Resume(p) \/ Quit(p)
  PROVE  TransferInv'
<1> DEFINE x == Current(p)
<1>1. PICK state \in CallStates \cup {"gone"} :
        /\ client' = [client EXCEPT ![p].state = state]
        /\ \/ state = "gone"
           \/ SendFails(p) /\ state = "sleeping"
           \/ ReadReset(p) /\ state = "sleeping"
           \/ Resume(p) /\ state = IF SocketIsOpen(x) THEN "ready" ELSE "reconnecting"
  <2>1. CASE ShortRead(p) \/ ReadEof(p) \/ Quit(p)
    BY <2>1 DEF ShortRead, ReadEof, Quit, Enter
  <2>2. CASE SendFails(p) \/ ReadReset(p)
    BY <2>2 DEF SendFails, ReadReset, Enter, CallStates
  <2>3. CASE Resume(p)
    BY <2>3 DEF Resume, Enter, CallStates
  <2> QED
    BY <2>1, <2>2, <2>3
<1>2. UNCHANGED <<sent, tcp, task, frames>>
  BY DEF SendFails, ShortRead, ReadEof, ReadReset, Resume, Quit, ServerRests
<1> DEFINE new == [client[p] EXCEPT !.state = state]
<1>3. client[p] \in Callers /\ WellPlaced(client[p])
  BY ClientTypes
<1>4. /\ new \in Callers /\ new.connection = client[p].connection
      /\ new.late = client[p].late /\ new.state = state
  BY <1>3 DEF Callers, CallStates
<1>5. client' = [client EXCEPT ![p] = new]
  BY <1>1
<1> HIDE DEF new
<1>6. ASSUME client[p].connection # 0, state # "gone"
      PROVE  \/ new.state \in {"sleeping", "reconnecting"} /\ tcp[x].state = "reset"
                /\ tcp[x].answers = <<>>
             \/ /\ new.state # "idle"
                /\ AnswersRead(new, sent[x]) = AnswersRead(client[p], sent[x])
                /\ \/ client[p].state \notin {"starting", "gone", "sleeping", "reconnecting"}
                   \/ client[p].state = "sleeping"
                      /\ (tcp[x].state # "reset" \/ tcp[x].answers # <<>>)
  <2>1. new.state # "idle"
    BY <1>1, <1>4 DEF CallStates
  <2>2. CASE SendFails(p) /\ state = "sleeping"
    <3>1. client[p].state = "ready"
      BY <2>2 DEF SendFails
    <3>2. AnswersRead(new, sent[x]) = AnswersRead(client[p], sent[x])
      BY <1>4, <2>2, <3>1 DEF AnswersRead
    <3> QED
      BY <2>1, <3>1, <3>2
  <2>3. CASE ReadReset(p) /\ state = "sleeping"
    BY <1>4, <2>3 DEF ReadReset
  <2>4. CASE Resume(p) /\ state = IF SocketIsOpen(x) THEN "ready" ELSE "reconnecting"
    <3>1. client[p].state = "sleeping"
      BY <2>4 DEF Resume
    <3>2. AnswersRead(new, sent[x]) = AnswersRead(client[p], sent[x])
      <4>1. client[p].state # "waiting" /\ new.state # "waiting"
        BY <1>4, <2>4, <3>1
      <4> QED
        BY <1>4, <4>1 DEF AnswersRead
    <3>3. CASE tcp[x].state = "reset" /\ tcp[x].answers = <<>>
      <4>1. new.state = "reconnecting"
        BY <1>4, <2>4, <3>3 DEF SocketIsOpen
      <4> QED
        BY <3>3, <4>1
    <3> QED
      BY <2>1, <3>1, <3>2, <3>3
  <2> QED
    BY <1>1, <1>6, <2>2, <2>3, <2>4
<1> HIDE DEF x
<1>7. x = Current(p)
  BY DEF x
<1> QED
  BY <1>2, <1>4, <1>5, <1>6, <1>7, MovingTransfer

LEMMA TimeoutTransfer ==
  ASSUME ConnectionInv, TransferInv, NEW p \in Clients, Timeout(p)
  PROVE  TransferInv'
<1> DEFINE new == [client[p] EXCEPT !.state = "sleeping", !.late = client[p].late + 1]
           x == Current(p)
<1>1. /\ client[p].state = "waiting"
      /\ client' = [client EXCEPT ![p] = new]
      /\ UNCHANGED <<sent, tcp, task, frames>>
  BY DEF Timeout, ServerRests
<1>2. client[p] \in Callers /\ client[p].connection # 0 /\ client[p].late \in Nat
  BY <1>1, ClientTypes DEF WellPlaced, Callers
<1>3. /\ new \in Callers /\ new.state = "sleeping"
      /\ new.connection = client[p].connection /\ new.late = client[p].late + 1
  <2>1. "sleeping" \in CallStates \cup {"starting", "idle", "gone"}
    BY DEF CallStates
  <2>2. client[p].late + 1 \in Nat
    BY <1>2
  <2> QED
    BY <1>2, <2>1, <2>2 DEF Callers
<1> HIDE DEF new
<1>4. AnswersRead(new, sent[x]) = AnswersRead(client[p], sent[x])
  <2>1. x \in Links
    BY <1>2, CurrentIsLink
  <2>2. Len(sent[x]) \in Nat
    BY <2>1, SentTypes
  <2>3. AnswersRead(new, sent[x]) = Len(sent[x]) - (client[p].late + 1) - 0
    BY <1>3 DEF AnswersRead
  <2>4. AnswersRead(client[p], sent[x]) = Len(sent[x]) - client[p].late - 1
    BY <1>1 DEF AnswersRead
  <2> QED
    BY <1>2, <2>2, <2>3, <2>4
<1> HIDE DEF x
<1>5. x = Current(p)
  BY DEF x
<1> QED
  BY <1>1, <1>3, <1>4, <1>5, MovingTransfer

LEMMA SendCommandsTransfer ==
  ASSUME ConnectionInv, TransferInv, NEW p \in Clients, NEW kind \in Kinds,
         SendCommands(p, kind)
  PROVE  TransferInv'
<1> DEFINE new == [client[p] EXCEPT !.state = "ready", !.call = client[p].call + 1,
                                    !.kind = kind]
           x == Current(p)
<1>1. /\ client[p].state = "idle" /\ client[p].call < MaxCalls
      /\ client' = [client EXCEPT ![p] = new]
      /\ UNCHANGED <<sent, tcp, task, frames>>
  BY DEF SendCommands, ServerRests
<1>2. client[p] \in Callers
  BY ClientTypes
<1>3. client[p].call + 1 \in 0 .. MaxCalls
  BY <1>1, <1>2, ConnectionAssumption DEF Callers
<1>4. /\ new \in Callers /\ new.state = "ready"
      /\ new.connection = client[p].connection /\ new.late = client[p].late
  BY <1>2, <1>3 DEF Callers, CallStates
<1> HIDE DEF new
<1>5. AnswersRead(new, sent[x]) = AnswersRead(client[p], sent[x])
  BY <1>1, <1>4 DEF AnswersRead
<1> HIDE DEF x
<1>6. x = Current(p)
  BY DEF x
<1> QED
  BY <1>1, <1>4, <1>5, <1>6, MovingTransfer

LEMMA TransferRemains ==
  ASSUME ConnectionInv, TransferInv, UNCHANGED <<client, sent, tcp, task, frames>>
  PROVE  TransferInv'
<1>1. TransitOK'
  BY DEF TransferInv, TransitOK, InTransit
<1>2. AnswersOK'
  BY AnswersKept DEF TransferInv
<1> QED
  BY <1>1, <1>2 DEF TransferInv

LEMMA TransferInit == Init => TransferInv
<1> SUFFICES ASSUME Init PROVE TransferInv
  OBVIOUS
<1>1. TransitOK
  <2> SUFFICES ASSUME NEW x \in Links
               PROVE  InTransit(tcp[x], task[x], sent[x], frames[x])
    BY DEF TransitOK
  <2>1. /\ tcp[x].state = "none" /\ tcp[x].requests = <<>> /\ tcp[x].answers = <<>>
        /\ task[x] = "none" /\ sent[x] = <<>> /\ frames[x] = <<>>
    BY DEF Init
  <2> QED
    BY <2>1 DEF InTransit
<1>2. AnswersOK
  <2>1. \A p \in Clients : client[p].connection = 0
    BY DEF Init
  <2> QED
    BY <2>1 DEF AnswersOK
<1> QED
  BY <1>1, <1>2 DEF TransferInv

LEMMA TransferStep ==
  ASSUME ConnectionInv, TransferInv, [Next]_vars
  PROVE  TransferInv'
<1>1. ASSUME NEW p \in Clients,
             \/ ClientStep(p)
             \/ \E kind \in Kinds : SendCommands(p, kind)
             \/ ShortRead(p)
             \/ Timeout(p)
             \/ Quit(p)
      PROVE  TransferInv'
  <2>1. CASE Connect(p)
    BY <2>1, ConnectTransfer
  <2>2. CASE Send(p)
    BY <2>2, SendTransfer
  <2>3. CASE ReadAnswer(p)
    BY <2>3, ReadAnswerTransfer
  <2>4. CASE SendFails(p) \/ ShortRead(p) \/ ReadEof(p) \/ ReadReset(p) \/ Resume(p) \/ Quit(p)
    BY <2>4, EnteringTransfer
  <2>5. CASE Timeout(p)
    BY <2>5, TimeoutTransfer
  <2>6. CASE \E kind \in Kinds : SendCommands(p, kind)
    BY <2>6, SendCommandsTransfer
  <2> QED
    BY <1>1, <2>1, <2>2, <2>3, <2>4, <2>5, <2>6 DEF ClientStep
<1>2. ASSUME NEW x \in Links, Accept(x) \/ TaskStep(x)
      PROVE  TransferInv'
  <2>1. CASE Accept(x)
    BY <2>1, AcceptTransfer
  <2>2. CASE ReadFrame(x)
    BY <2>2, ReadFrameTransfer
  <2>3. CASE Answer(x)
    BY <2>3, AnswerTransfer
  <2>4. CASE RejectFrame(x) \/ ReadEnd(x) \/ AnswerFails(x) \/ CallFails(x)
    BY <2>4, EndingTransfers
  <2> QED
    BY <1>2, <2>1, <2>2, <2>3, <2>4 DEF TaskStep
<1>3. CASE Die
  BY <1>3, DieTransfer
<1>4. CASE \/ AcceptWs \/ HandshakeEnds \/ AcceptFails
           \/ WsCall \/ WsReturn \/ WsCallFails
           \/ Execute \/ ThreadPanics \/ Start
           \/ UNCHANGED vars
  <2>1. UNCHANGED <<client, sent, tcp, task, frames>>
    BY <1>4 DEF AcceptWs, HandshakeEnds, AcceptFails, WsCall, WsReturn, WsCallFails, Execute,
                ThreadPanics, Start, ServerTasksRest, clientVars, vars
  <2> QED
    BY <2>1, TransferRemains
<1> QED
  BY <1>1, <1>2, <1>3, <1>4 DEF Next

(***************************************************************************)
(* Whatever fails, a connection is open exactly while a task serves it,    *)
(* and a closed one has nothing left to read: no client waits on an        *)
(* accepted connection that nobody serves.                                 *)
(***************************************************************************)
THEOREM ConnectionTypeCorrect == Spec => []ConnectionTypeOK
<1>1. ConnectionInv => ConnectionTypeOK
  <2> SUFFICES ASSUME ConnectionInv PROVE ConnectionTypeOK
    OBVIOUS
  <2>1. ASSUME NEW p \in Clients
        PROVE  /\ client[p].state \in {"starting", "idle", "ready", "waiting", "sleeping",
                                       "reconnecting", "gone"}
               /\ client[p].connection \in 0 .. MaxConnections
    <3>1. client[p] \in Callers
      BY DEF ConnectionInv, ClientsOK
    <3> QED
      BY <3>1 DEF Callers, CallStates
  <2>2. ASSUME NEW x \in Links
        PROVE  /\ task[x] \in {"reading", "calling"} <=> tcp[x].state = "open"
               /\ sent[x] \in Seq(Frames) /\ tcp[x].requests \in Seq(Frames)
               /\ tcp[x].state \notin {"queued", "open"} => tcp[x].requests = <<>>
               /\ tcp[x].answers \in Seq(1 .. MaxCalls)
    BY LinkTypes DEF TcpLinks, Consistent, ConnectionInv
  <2> QED
    BY <2>1, <2>2 DEF ConnectionInv, ConnectionTypeOK
<1> QED
  BY <1>1, ConnectionInitInv, ConnectionStep, PTL DEF Spec

(***************************************************************************)
(* However calls time out, are sent again and overlap their answers: the   *)
(* answer that send_commands returns is the one to the frame that the      *)
(* connection sent as many frames earlier as calls have timed out on it.   *)
(***************************************************************************)
THEOREM AnswersLag == Spec => []AnswersLagBehind
<1>1. ASSUME ConnectionInv, TransferInv PROVE AnswersLagBehind
  <2> SUFFICES ASSUME NEW p \in Clients, client[p].state = "idle", sent[Current(p)] # <<>>
               PROVE  LET frame == Len(sent[Current(p)]) - client[p].late
                      IN  frame >= 1 /\ client[p].answer = sent[Current(p)][frame].call
    BY DEF AnswersLagBehind
  <2> DEFINE x == Current(p)
  <2>1. client[p] \in Callers /\ client[p].connection # 0
    BY <1>1, ClientTypes DEF WellPlaced
  <2>2. Matched(client[p], tcp[x], task[x], sent[x], frames[x])
    BY <1>1, <2>1 DEF TransferInv, AnswersOK, Expected
  <2>3. Len(sent[x]) \in Nat /\ client[p].late \in Nat
    <3>1. x \in Links
      BY <1>1, <2>1, CurrentIsLink
    <3> HIDE DEF x
    <3> QED
      BY <1>1, <2>1, <3>1, SentTypes DEF Callers
  <2>4. AnswersRead(client[p], sent[x]) = Len(sent[x]) - client[p].late
    <3>1. AnswersRead(client[p], sent[x]) = Len(sent[x]) - client[p].late - 0
      BY DEF AnswersRead
    <3> HIDE DEF x
    <3> QED
      BY <2>3, <3>1
  <2>5. /\ AnswersRead(client[p], sent[x]) >= 1
        /\ client[p].answer = sent[x][AnswersRead(client[p], sent[x])].call
    BY <2>2 DEF Matched
  <2> HIDE DEF x
  <2>6. LET frame == Len(sent[x]) - client[p].late
        IN  frame >= 1 /\ client[p].answer = sent[x][frame].call
    BY <2>4, <2>5
  <2> QED
    BY <2>6 DEF x
<1>2. Init => ConnectionInv /\ TransferInv
  BY ConnectionInitInv, TransferInit
<1>3. ConnectionInv /\ TransferInv /\ [Next]_vars => (ConnectionInv /\ TransferInv)'
  BY ConnectionStep, TransferStep
<1> QED
  BY <1>1, <1>2, <1>3, PTL DEF Spec
=============================================================================
