-------------------------- MODULE ExecutionProofs ---------------------------
(***************************************************************************)
(* What the exchange executes for the connections and for the WebSocket:   *)
(* the order of the calls of a client over all its connections, and what   *)
(* the published states show of it.                                        *)
(***************************************************************************)
EXTENDS ConnectionProofs, FiniteSetTheorems

Users == Links \cup {WebSocket}

Requests == [client : Users, number : Nat, size : Nat]

IsServed(c, n) == \E i \in 1 .. Len(served) : served[i].client = c /\ served[i].number = n

(***************************************************************************)
(* A call that may still be served is the latest of a user who waits for   *)
(* it, and was not served yet.                                             *)
(***************************************************************************)
LatestOK ==
  /\ latest \in [Users -> Requests]
  /\ \A c \in Users : latest[c].client = c

ServedOK ==
  /\ served \in Seq(Requests)
  /\ \A i \in 1 .. Len(served) :
       LET c == served[i].client
       IN  /\ 1 <= served[i].number /\ served[i].number <= latest[c].number
           /\ served[i].number = latest[c].number => served[i] = latest[c]

PendingOK ==
  \A r \in pending :
    /\ r.client \in Users /\ r.client \in calling
    /\ r = latest[r.client] /\ r.number >= 1
    /\ \A i \in 1 .. Len(served) : served[i] # r

ServiceOK == LatestOK /\ ServedOK /\ PendingOK

\* A task calls for the frame that it decoded last.
TasksCall ==
  \A x \in Links :
    /\ x \in calling <=> task[x] = "calling"
    /\ latest[x].number = Len(frames[x])

CallInv == ServiceOK /\ TasksCall

LEMMA ServedTypes ==
  ASSUME ServiceOK, NEW i \in 1 .. Len(served)
  PROVE  /\ served[i] \in Requests /\ served[i].client \in Users /\ served[i].number \in Nat
         /\ latest[served[i].client].number \in Nat
         /\ 1 <= served[i].number /\ served[i].number <= latest[served[i].client].number
         /\ served[i].number = latest[served[i].client].number =>
              served[i] = latest[served[i].client]
<1>1. served[i] \in Requests
  BY ElementOfSeq DEF ServiceOK, ServedOK
<1>2. served[i].client \in Users /\ served[i].number \in Nat
  BY <1>1 DEF Requests
<1>3. latest[served[i].client] \in Requests
  BY <1>2 DEF ServiceOK, LatestOK
<1>4. latest[served[i].client].number \in Nat
  BY <1>3 DEF Requests
<1> QED
  BY <1>1, <1>2, <1>4 DEF ServiceOK, ServedOK

LEMMA RequestService ==
  ASSUME ServiceOK, NEW c \in Users, Service!Request(c, 1)
  PROVE  /\ ServiceOK'
         /\ c \notin calling /\ calling' = calling \cup {c}
         /\ latest'[c].number = latest[c].number + 1
         /\ \A d \in Users : d # c => latest'[d] = latest[d]
         /\ served' = served
<1> DEFINE new == Service!CallOf(c, latest[c].number + 1, 1)
<1>1. /\ c \notin calling /\ calling' = calling \cup {c}
      /\ latest' = [latest EXCEPT ![c] = new]
      /\ pending' = pending \cup {latest'[c]}
      /\ served' = served
  BY DEF Service!Request
<1>2. latest[c] \in Requests /\ latest[c].number \in Nat
  BY DEF ServiceOK, LatestOK, Requests
<1>3. new \in Requests /\ new.client = c /\ new.number = latest[c].number + 1
  BY <1>2 DEF Requests, Service!CallOf
<1> HIDE DEF new
<1>4. latest'[c] = new /\ \A d \in Users : d # c => latest'[d] = latest[d]
  BY <1>1 DEF ServiceOK, LatestOK
<1>5. LatestOK'
  BY <1>1, <1>3, <1>4 DEF ServiceOK, LatestOK
<1>6. ASSUME NEW i \in 1 .. Len(served)
      PROVE  /\ 1 <= served[i].number
             /\ served[i].number <= latest'[served[i].client].number
             /\ served[i].number = latest'[served[i].client].number =>
                  served[i] = latest'[served[i].client]
             /\ served[i] # new
  <2>1. CASE served[i].client = c
    <3>1. /\ served[i].number \in Nat /\ 1 <= served[i].number
          /\ served[i].number <= latest[c].number
      BY <2>1, ServedTypes
    <3>2. latest'[c].number = latest[c].number + 1 /\ latest'[served[i].client] = latest'[c]
      BY <1>3, <1>4, <2>1
    <3>3. served[i].number <= latest'[c].number /\ served[i].number # latest'[c].number
      BY <1>2, <3>1, <3>2
    <3> QED
      BY <1>4, <3>1, <3>2, <3>3
  <2>2. CASE served[i].client # c
    <3>1. latest'[served[i].client] = latest[served[i].client]
      BY <1>4, <2>2, ServedTypes
    <3> QED
      BY <1>3, <2>2, <3>1, ServedTypes
  <2> QED
    BY <2>1, <2>2
<1>7. ServedOK'
  BY <1>1, <1>6 DEF ServiceOK, ServedOK
<1>8. PendingOK'
  <2> SUFFICES ASSUME NEW r \in pending'
               PROVE  /\ r.client \in Users /\ r.client \in calling'
                      /\ r = latest'[r.client] /\ r.number >= 1
                      /\ \A i \in 1 .. Len(served) : served[i] # r
    BY <1>1 DEF PendingOK
  <2>1. CASE r = new
    <3>1. r.number >= 1
      BY <1>2, <1>3, <2>1
    <3> QED
      BY <1>1, <1>3, <1>4, <1>6, <2>1, <3>1
  <2>2. CASE r # new
    <3>1. r \in pending
      BY <1>1, <1>4, <2>2
    <3>2. /\ r.client \in Users /\ r.client \in calling
          /\ r = latest[r.client] /\ r.number >= 1
          /\ \A i \in 1 .. Len(served) : served[i] # r
      BY <3>1 DEF ServiceOK, PendingOK
    <3>3. r.client # c
      BY <1>1, <3>2
    <3> QED
      BY <1>1, <1>4, <3>2, <3>3
  <2> QED
    BY <2>1, <2>2
<1> QED
  BY <1>1, <1>3, <1>4, <1>5, <1>7, <1>8 DEF ServiceOK

LEMMA ServeService ==
  ASSUME ServiceOK, NEW r \in pending, Service!Serve(r)
  PROVE  /\ ServiceOK'
         /\ served' = Append(served, r)
         /\ Len(served) \in Nat /\ Len(served') = Len(served) + 1
         /\ served'[Len(served) + 1] = r
         /\ \A i \in 1 .. Len(served) : served'[i] = served[i]
         /\ latest' = latest /\ calling' = calling
<1>1. /\ pending' = pending \ {r} /\ served' = Append(served, r)
      /\ latest' = latest /\ calling' = calling
  BY DEF Service!Serve
<1>2. /\ r.client \in Users /\ r = latest[r.client] /\ r.number >= 1
      /\ \A i \in 1 .. Len(served) : served[i] # r
  BY DEF ServiceOK, PendingOK
<1>3. r \in Requests /\ served \in Seq(Requests)
  BY <1>2 DEF ServiceOK, LatestOK, ServedOK
<1>4. /\ served' \in Seq(Requests) /\ Len(served) \in Nat /\ Len(served') = Len(served) + 1
      /\ served'[Len(served) + 1] = r
      /\ \A i \in 1 .. Len(served) : served'[i] = served[i]
  BY <1>1, <1>3, AppendProperties, LenProperties
<1>5. ASSUME NEW i \in 1 .. Len(served')
      PROVE  /\ 1 <= served'[i].number
             /\ served'[i].number <= latest[served'[i].client].number
             /\ served'[i].number = latest[served'[i].client].number =>
                  served'[i] = latest[served'[i].client]
  <2>1. CASE i \in 1 .. Len(served)
    BY <1>4, <2>1, ServedTypes
  <2>2. CASE i = Len(served) + 1
    <3>1. served'[i] = r /\ r.number \in Nat
      BY <1>3, <1>4, <2>2 DEF Requests
    <3> QED
      BY <1>2, <3>1
  <2> QED
    BY <1>4, <2>1, <2>2
<1>6. ServedOK'
  BY <1>1, <1>4, <1>5 DEF ServedOK
<1>7. PendingOK'
  <2> SUFFICES ASSUME NEW s \in pending'
               PROVE  /\ s.client \in Users /\ s.client \in calling
                      /\ s = latest[s.client] /\ s.number >= 1
                      /\ \A i \in 1 .. Len(served') : served'[i] # s
    BY <1>1 DEF PendingOK
  <2>1. s \in pending /\ s # r
    BY <1>1
  <2>2. /\ s.client \in Users /\ s.client \in calling
        /\ s = latest[s.client] /\ s.number >= 1
        /\ \A i \in 1 .. Len(served) : served[i] # s
    BY <2>1 DEF ServiceOK, PendingOK
  <2>3. ASSUME NEW i \in 1 .. Len(served') PROVE served'[i] # s
    <3>1. i \in 1 .. Len(served) \/ i = Len(served) + 1
      BY <1>4
    <3> QED
      BY <1>4, <2>1, <2>2, <3>1
  <2> QED
    BY <2>2, <2>3
<1>8. LatestOK'
  BY <1>1 DEF ServiceOK, LatestOK
<1> QED
  BY <1>1, <1>4, <1>6, <1>7, <1>8 DEF ServiceOK

\* A user who is answered, gives up or is stopped waits no more, and its call
\* is not pending; a call may also be lost.
LEMMA LeaveService ==
  ASSUME ServiceOK, latest' = latest, served' = served,
         \A r \in pending' : r \in pending /\ r.client \in calling'
  PROVE  ServiceOK'
<1>1. LatestOK' /\ ServedOK'
  BY DEF ServiceOK, LatestOK, ServedOK
<1>2. PendingOK'
  BY DEF ServiceOK, PendingOK
<1> QED
  BY <1>1, <1>2 DEF ServiceOK

LEMMA ReturnService ==
  ASSUME ServiceOK, NEW c \in Users, Service!Return(c)
  PROVE  /\ ServiceOK'
         /\ calling' = calling \ {c} /\ latest' = latest /\ served' = served
         /\ IsServed(c, latest[c].number)
         /\ latest[c] \in ToSet(served)
<1>1. /\ c \in calling /\ calling' = calling \ {c} /\ latest[c] \in ToSet(served)
      /\ latest' = latest /\ served' = served /\ pending' = pending
  BY DEF Service!Return, Service!ToSet, ToSet
<1>2. PICK i \in 1 .. Len(served) : served[i] = latest[c]
  BY <1>1 DEF ToSet, ServiceOK, ServedOK
<1>3. latest[c].client = c
  BY DEF ServiceOK, LatestOK
<1>4. ASSUME NEW r \in pending PROVE r.client # c
  BY <1>2, <1>4 DEF ServiceOK, PendingOK
<1>5. ServiceOK'
  <2>1. \A r \in pending' : r \in pending /\ r.client \in calling'
    BY <1>1, <1>4 DEF ServiceOK, PendingOK
  <2> QED
    BY <1>1, <2>1, LeaveService
<1> QED
  BY <1>1, <1>2, <1>3, <1>5 DEF IsServed

LEMMA GiveUpService ==
  ASSUME ServiceOK, NEW c \in Users, Service!GiveUp(c), pending' = pending \ {latest[c]}
  PROVE  ServiceOK' /\ calling' = calling \ {c} /\ latest' = latest /\ served' = served
<1>1. calling' = calling \ {c} /\ latest' = latest /\ served' = served
  BY DEF Service!GiveUp
<1>2. \A r \in pending' : r \in pending /\ r.client \in calling'
  BY <1>1 DEF ServiceOK, PendingOK
<1> QED
  BY <1>1, <1>2, LeaveService

LEMMA LinkIsUser ==
  ASSUME NEW x \in Links
  PROVE  x \in Users /\ x # WebSocket
BY ConnectionAssumption DEF Users

(***************************************************************************)
(* The steps of the tasks, the exchange thread and the process.            *)
(***************************************************************************)
LEMMA CallSame ==
  ASSUME CallInv, UNCHANGED <<task, frames, latest, calling, served>>,
         pending' \subseteq pending
  PROVE  CallInv'
<1>1. \A r \in pending' : r \in pending /\ r.client \in calling'
  BY DEF CallInv, ServiceOK, PendingOK
<1>2. ServiceOK'
  BY <1>1, LeaveService DEF CallInv
<1> QED
  BY <1>2 DEF CallInv, TasksCall

\* A task that is not in a call moves on without one.
LEMMA CallByTask ==
  ASSUME ConnectionInv, CallInv, NEW x \in Links, NEW stage, task[x] # "calling",
         stage \in {"reading", "ended"},
         task' = [task EXCEPT ![x] = stage],
         UNCHANGED <<frames, serviceVars>>
  PROVE  CallInv'
<1>1. UNCHANGED <<latest, calling, pending, served>>
  BY DEF serviceVars
<1>2. ServiceOK'
  BY <1>1 DEF CallInv, ServiceOK, LatestOK, ServedOK, PendingOK
<1>3. \A y \in Links : task'[y] = IF y = x THEN stage ELSE task[y]
  BY DEF ConnectionInv, LinksOK
<1> QED
  BY <1>1, <1>2, <1>3 DEF CallInv, TasksCall

\* A task that was in a call is not any more.
LEMMA CallEnds ==
  ASSUME ConnectionInv, CallInv, NEW x \in Links, NEW stage,
         stage \in {"reading", "ended"},
         task' = [task EXCEPT ![x] = stage],
         calling' = calling \ {x},
         UNCHANGED <<frames, latest>>,
         ServiceOK'
  PROVE  CallInv'
<1>1. \A y \in Links : task'[y] = IF y = x THEN stage ELSE task[y]
  BY DEF ConnectionInv, LinksOK
<1> QED
  BY <1>1 DEF CallInv, TasksCall

LEMMA ReadFrameCall ==
  ASSUME ConnectionInv, CallInv, NEW x \in Links, ReadFrame(x)
  PROVE  CallInv'
<1>1. /\ task[x] = "reading" /\ tcp[x].requests # <<>>
      /\ task' = [task EXCEPT ![x] = "calling"]
      /\ frames' = [frames EXCEPT ![x] = Append(@, Head(tcp[x].requests))]
      /\ Service!Request(x, 1)
  BY DEF ReadFrame
<1>2. /\ ServiceOK'
      /\ calling' = calling \cup {x}
      /\ latest'[x].number = latest[x].number + 1
      /\ \A d \in Users : d # x => latest'[d] = latest[d]
  BY <1>1, RequestService, LinkIsUser DEF CallInv
<1>3. Len(frames'[x]) = Len(frames[x]) + 1
  <2>1. frames[x] \in Seq(Frames) /\ tcp[x].requests \in Seq(Frames)
    BY LinkTypes, SentTypes
  <2>2. Head(tcp[x].requests) \in Frames
    BY <1>1, <2>1, HeadTailProperties
  <2>3. frames'[x] = Append(frames[x], Head(tcp[x].requests))
    BY <1>1 DEF ConnectionInv, LinksOK
  <2> QED
    BY <2>1, <2>2, <2>3, AppendProperties
<1>4. ASSUME NEW y \in Links
      PROVE  /\ y \in calling' <=> task'[y] = "calling"
             /\ latest'[y].number = Len(frames'[y])
  <2>1. CASE y = x
    <3>1. task'[x] = "calling"
      BY <1>1 DEF ConnectionInv, LinksOK
    <3>2. latest[x].number = Len(frames[x])
      BY DEF CallInv, TasksCall
    <3> QED
      BY <1>2, <1>3, <2>1, <3>1, <3>2
  <2>2. CASE y # x
    <3>1. task'[y] = task[y] /\ frames'[y] = frames[y]
      BY <1>1, <2>2 DEF ConnectionInv, LinksOK
    <3>2. latest'[y] = latest[y]
      BY <1>2, <2>2, LinkIsUser
    <3> QED
      BY <1>2, <2>2, <3>1, <3>2 DEF CallInv, TasksCall
  <2> QED
    BY <2>1, <2>2
<1> QED
  BY <1>2, <1>4 DEF CallInv, TasksCall

LEMMA AnsweringCall ==
  ASSUME ConnectionInv, CallInv, NEW x \in Links, Answer(x) \/ AnswerFails(x)
  PROVE  /\ CallInv'
         /\ IsServed(x, Len(frames[x]))
         /\ UNCHANGED <<frames, latest, served>>
<1>1. PICK stage \in {"reading", "ended"} : task' = [task EXCEPT ![x] = stage]
  BY DEF Answer, AnswerFails, EndTask
<1>2. Service!Return(x) /\ UNCHANGED frames
  BY DEF Answer, AnswerFails
<1>3. /\ ServiceOK' /\ calling' = calling \ {x} /\ latest' = latest /\ served' = served
      /\ IsServed(x, latest[x].number)
  BY <1>2, ReturnService, LinkIsUser DEF CallInv
<1>4. latest[x].number = Len(frames[x])
  BY DEF CallInv, TasksCall
<1> QED
  BY <1>1, <1>2, <1>3, <1>4, CallEnds

LEMMA CallFailsCall ==
  ASSUME ConnectionInv, CallInv, NEW x \in Links, CallFails(x)
  PROVE  CallInv' /\ UNCHANGED <<frames, latest, served>>
<1>1. /\ task' = [task EXCEPT ![x] = "ended"]
      /\ Service!GiveUp(x) /\ pending' = pending \ {latest[x]}
      /\ UNCHANGED frames
  BY DEF CallFails, EndTask
<1>2. ServiceOK' /\ calling' = calling \ {x} /\ latest' = latest /\ served' = served
  BY <1>1, GiveUpService, LinkIsUser DEF CallInv
<1> QED
  BY <1>1, <1>2, CallEnds

LEMMA RestingCall ==
  ASSUME ConnectionInv, CallInv, NEW x \in Links,
         RejectFrame(x) \/ ReadEnd(x) \/ Accept(x)
  PROVE  CallInv' /\ UNCHANGED <<frames, latest, served>>
<1>1. PICK stage \in {"reading", "ended"} : task' = [task EXCEPT ![x] = stage]
  BY DEF RejectFrame, ReadEnd, Accept, EndTask
<1>2. UNCHANGED <<frames, serviceVars>>
  BY DEF RejectFrame, ReadEnd, Accept
<1>3. task[x] # "calling"
  <2>1. CASE RejectFrame(x) \/ ReadEnd(x)
    BY <2>1 DEF RejectFrame, ReadEnd
  <2>2. CASE Accept(x)
    <3>1. tcp[x].state = "queued"
      BY <2>2 DEF Accept
    <3> QED
      BY <3>1, LinkTypes DEF Consistent
  <2> QED
    BY <2>1, <2>2
<1> QED
  BY <1>1, <1>2, <1>3, CallByTask DEF serviceVars

LEMMA ExecuteCall ==
  ASSUME CallInv, Execute
  PROVE  CallInv'
<1>1. PICK r \in pending : Service!Serve(r)
  BY DEF Execute
<1>2. ServiceOK' /\ latest' = latest /\ calling' = calling
  BY <1>1, ServeService DEF CallInv
<1>3. UNCHANGED <<task, frames>>
  BY DEF Execute, ServerTasksRest
<1> QED
  BY <1>2, <1>3 DEF CallInv, TasksCall

\* The calls of the WebSocket.
LEMMA SocketCall ==
  ASSUME CallInv, WsCall \/ WsReturn \/ WsCallFails
  PROVE  CallInv' /\ UNCHANGED <<task, frames, served>>
<1>1. UNCHANGED <<task, frames>>
  BY DEF WsCall, WsReturn, WsCallFails, ServerTasksRest
<1>2. WebSocket \in Users /\ \A x \in Links : x \in Users /\ x # WebSocket
  BY LinkIsUser DEF Users
<1>3. CASE WsCall
  <2>1. /\ ServiceOK' /\ calling' = calling \cup {WebSocket} /\ served' = served
        /\ \A d \in Users : d # WebSocket => latest'[d] = latest[d]
    BY <1>2, <1>3, RequestService DEF WsCall, CallInv
  <2> QED
    BY <1>1, <1>2, <2>1 DEF CallInv, TasksCall
<1>4. CASE WsReturn \/ WsCallFails
  <2>1. /\ ServiceOK' /\ calling' = calling \ {WebSocket} /\ latest' = latest
        /\ served' = served
    BY <1>2, <1>4, ReturnService, GiveUpService DEF WsReturn, WsCallFails, CallInv
  <2> QED
    BY <1>1, <1>2, <2>1 DEF CallInv, TasksCall
<1> QED
  BY <1>3, <1>4

LEMMA DieCall ==
  ASSUME ConnectionInv, CallInv, Die
  PROVE  CallInv'
<1>1. /\ calling' = {} /\ pending' = {}
      /\ task' = [x \in Links |-> IF task[x] = "none" THEN "none" ELSE "ended"]
      /\ UNCHANGED <<frames, latest, served>>
  BY DEF Die
<1>2. ServiceOK'
  BY <1>1, LeaveService DEF CallInv
<1>3. \A x \in Links : task'[x] # "calling"
  BY <1>1
<1> QED
  BY <1>1, <1>2, <1>3 DEF CallInv, TasksCall

LEMMA OtherCall ==
  ASSUME CallInv,
         \/ AcceptWs \/ HandshakeEnds \/ AcceptFails
         \/ ThreadPanics \/ Start
         \/ UNCHANGED vars
         \/ \E p \in Clients :
              \/ ClientStep(p) \/ ShortRead(p) \/ Timeout(p) \/ Quit(p)
              \/ \E kind \in Kinds : SendCommands(p, kind)
  PROVE  CallInv' /\ UNCHANGED <<task, frames, latest, served>>
<1>1. /\ UNCHANGED <<task, frames, latest, calling, served>>
      /\ pending' \subseteq pending
  <2>1. CASE AcceptWs \/ HandshakeEnds \/ AcceptFails \/ Start \/ UNCHANGED vars
    BY <2>1 DEF AcceptWs, HandshakeEnds, AcceptFails, Start, ServerTasksRest, serviceVars, vars
  <2>2. CASE ThreadPanics
    BY <2>2 DEF ThreadPanics, ServerTasksRest, Service!Crash
  <2>3. ASSUME NEW p \in Clients,
               \/ ClientStep(p) \/ ShortRead(p) \/ Timeout(p) \/ Quit(p)
               \/ \E kind \in Kinds : SendCommands(p, kind)
        PROVE  UNCHANGED <<task, frames, serviceVars>>
    BY <2>3 DEF ClientStep, Connect, Send, SendFails, ReadAnswer, ReadEof, ReadReset, Resume,
                ShortRead, Timeout, Quit, SendCommands, ServerRests
  <2> QED
    BY <2>1, <2>2, <2>3 DEF serviceVars
<1> QED
  BY <1>1, CallSame

LEMMA CallInit == Init => CallInv
<1> SUFFICES ASSUME Init PROVE CallInv
  OBVIOUS
<1>1. /\ latest = [c \in Users |-> Service!CallOf(c, 0, 0)]
      /\ calling = {} /\ pending = {} /\ served = <<>>
      /\ task = [x \in Links |-> "none"]
      /\ frames = [x \in Links |-> <<>>]
  BY DEF Init, Service!ServiceInit, Users
<1>2. \A c \in Users : Service!CallOf(c, 0, 0) = [client |-> c, number |-> 0, size |-> 0]
  BY DEF Service!CallOf
<1>3. LatestOK
  BY <1>1, <1>2 DEF LatestOK, Requests
<1>4. ServedOK /\ PendingOK
  BY <1>1 DEF ServedOK, PendingOK
<1>5. TasksCall
  <2> SUFFICES ASSUME NEW x \in Links
               PROVE  (x \in calling <=> task[x] = "calling") /\ latest[x].number = Len(frames[x])
    BY DEF TasksCall
  <2>1. x \in Users
    BY LinkIsUser
  <2> QED
    BY <1>1, <1>2, <2>1
<1> QED
  BY <1>3, <1>4, <1>5 DEF CallInv, ServiceOK

LEMMA CallStep ==
  ASSUME ConnectionInv, CallInv, [Next]_vars
  PROVE  CallInv'
<1>1. ASSUME NEW x \in Links, Accept(x) \/ TaskStep(x)
      PROVE  CallInv'
  <2>1. CASE ReadFrame(x)
    BY <2>1, ReadFrameCall
  <2>2. CASE Answer(x) \/ AnswerFails(x)
    BY <2>2, AnsweringCall
  <2>3. CASE CallFails(x)
    BY <2>3, CallFailsCall
  <2>4. CASE RejectFrame(x) \/ ReadEnd(x) \/ Accept(x)
    BY <2>4, RestingCall
  <2> QED
    BY <1>1, <2>1, <2>2, <2>3, <2>4 DEF TaskStep
<1>2. CASE Execute
  BY <1>2, ExecuteCall
<1>3. CASE WsCall \/ WsReturn \/ WsCallFails
  BY <1>3, SocketCall
<1>4. CASE Die
  BY <1>4, DieCall
<1>5. CASE \/ AcceptWs \/ HandshakeEnds \/ AcceptFails
           \/ ThreadPanics \/ Start
           \/ UNCHANGED vars
           \/ \E p \in Clients :
                \/ ClientStep(p) \/ ShortRead(p) \/ Timeout(p) \/ Quit(p)
                \/ \E kind \in Kinds : SendCommands(p, kind)
  BY <1>5, OtherCall
<1> QED
  BY <1>1, <1>2, <1>3, <1>4, <1>5 DEF Next

(***************************************************************************)
(* The frames of a client are in the order of its calls, within a          *)
(* connection and from one connection to the next.                         *)
(***************************************************************************)
SentBefore(x, i, y, j) == x[1] = y[1] /\ (x[2] < y[2] \/ (x = y /\ i <= j))

CallsBounded ==
  \A x \in Links : \A i \in 1 .. Len(sent[x]) : sent[x][i].call <= client[x[1]].call

CallsOrdered ==
  \A x, y \in Links : \A i \in 1 .. Len(sent[x]), j \in 1 .. Len(sent[y]) :
    SentBefore(x, i, y, j) => sent[x][i].call <= sent[y][j].call

SentOK == CallsBounded /\ CallsOrdered

LEMMA SentCallTypes ==
  ASSUME ConnectionInv, NEW x \in Links, NEW i \in 1 .. Len(sent[x])
  PROVE  sent[x][i].call \in Nat /\ client[x[1]].call \in Nat
<1>1. sent[x][i] \in Frames
  BY SentTypes, ElementOfSeq
<1>2. x[1] \in Clients
  BY DEF Links
<1>3. client[x[1]].call \in 0 .. MaxCalls
  BY <1>2, ClientTypes DEF Callers
<1> QED
  BY <1>1, <1>3, ConnectionAssumption DEF Frames

LEMMA SentRemains ==
  ASSUME ConnectionInv, SentOK, UNCHANGED sent,
         \A p \in Clients : client'[p].call \in Nat /\ client[p].call <= client'[p].call
  PROVE  SentOK'
<1>1. ASSUME NEW x \in Links, NEW i \in 1 .. Len(sent[x])
      PROVE  sent[x][i].call <= client'[x[1]].call
  <2>1. x[1] \in Clients
    BY DEF Links
  <2>2. client[x[1]].call <= client'[x[1]].call /\ client'[x[1]].call \in Nat
    BY <2>1
  <2>3. sent[x][i].call <= client[x[1]].call
    BY DEF SentOK, CallsBounded
  <2> QED
    BY <2>2, <2>3, SentCallTypes
<1>2. CallsBounded'
  BY <1>1 DEF CallsBounded
<1>3. CallsOrdered'
  BY DEF SentOK, CallsOrdered, SentBefore
<1> QED
  BY <1>2, <1>3 DEF SentOK

LEMMA SendKeepsOrder ==
  ASSUME ConnectionInv, TransferInv, SentOK, NEW p \in Clients, Send(p)
  PROVE  SentOK'
<1> DEFINE x == Current(p)
           frame == [call |-> client[p].call, kind |-> client[p].kind]
           n == Len(sent[x])
<1>1. /\ client[p].state = "ready"
      /\ client' = [client EXCEPT ![p].state = "waiting"]
      /\ sent' = [sent EXCEPT ![x] = Append(sent[x], frame)]
  BY DEF Send, Enter
<1>2. client[p] \in Callers /\ WellPlaced(client[p])
  BY ClientTypes
<1>3. client[p].connection # 0 /\ client[p].call # 0 /\ client[p].kind \in Kinds
  BY <1>1, <1>2 DEF WellPlaced, CallStates
<1>4. x \in Links /\ x[1] = p /\ x[2] = client[p].connection
  BY <1>3, CurrentLink
<1>5. frame \in Frames /\ frame.call = client[p].call /\ client[p].call \in Nat
  BY <1>2, <1>3, ConnectionAssumption DEF Frames, Callers
<1> HIDE DEF x, frame
<1>6. /\ sent[x] \in Seq(Frames) /\ sent'[x] = Append(sent[x], frame)
      /\ \A y \in Links : y # x => sent'[y] = sent[y]
  BY <1>1, <1>4 DEF ConnectionInv
<1>7. /\ n \in Nat /\ Len(sent'[x]) = n + 1 /\ sent'[x][n + 1] = frame
      /\ \A i \in 1 .. n : sent'[x][i] = sent[x][i]
  BY <1>5, <1>6, AppendProperties, LenProperties
<1> HIDE DEF n
<1>8. \A q \in Clients : client'[q].call = client[q].call
  BY <1>1, <1>2 DEF ConnectionInv, ClientsOK, Callers
\* A frame that is on a connection now was there before, or it is the new one.
<1>9. ASSUME NEW y \in Links, NEW i \in 1 .. Len(sent'[y])
      PROVE  \/ i \in 1 .. Len(sent[y]) /\ sent'[y][i] = sent[y][i]
             \/ y = x /\ i = n + 1 /\ sent'[y][i].call = client[p].call
  <2>1. CASE y # x
    BY <1>6, <2>1
  <2>2. CASE y = x /\ i \in 1 .. n
    BY <1>7, <2>2 DEF n
  <2>3. CASE y = x /\ i = n + 1
    BY <1>5, <1>7, <2>3
  <2> QED
    BY <1>7, <2>1, <2>2, <2>3
<1>10. ASSUME NEW y \in Links, y[1] = p, NEW i \in 1 .. Len(sent[y])
       PROVE  sent[y][i].call <= client[p].call
  BY <1>10 DEF SentOK, CallsBounded
<1>11. CallsBounded'
  <2> SUFFICES ASSUME NEW y \in Links, NEW i \in 1 .. Len(sent'[y])
               PROVE  sent'[y][i].call <= client'[y[1]].call
    BY DEF CallsBounded
  <2>1. y[1] \in Clients
    BY DEF Links
  <2>2. client'[y[1]].call = client[y[1]].call
    BY <1>8, <2>1
  <2>3. CASE i \in 1 .. Len(sent[y]) /\ sent'[y][i] = sent[y][i]
    BY <2>2, <2>3 DEF SentOK, CallsBounded
  <2>4. CASE y = x /\ sent'[y][i].call = client[p].call
    BY <1>4, <1>5, <2>2, <2>4
  <2> QED
    BY <1>9, <2>3, <2>4
<1>12. CallsOrdered'
  <2> SUFFICES ASSUME NEW y \in Links, NEW z \in Links,
                      NEW i \in 1 .. Len(sent'[y]), NEW j \in 1 .. Len(sent'[z]),
                      SentBefore(y, i, z, j)
               PROVE  sent'[y][i].call <= sent'[z][j].call
    BY DEF CallsOrdered, SentBefore
  <2>1. CASE j \in 1 .. Len(sent[z]) /\ sent'[z][j] = sent[z][j]
    <3>1. CASE i \in 1 .. Len(sent[y]) /\ sent'[y][i] = sent[y][i]
      BY <2>1, <3>1 DEF SentOK, CallsOrdered
    <3>2. CASE y = x /\ i = n + 1
      <4>1. z # x
        <5>1. SUFFICES ASSUME z = x PROVE FALSE
          OBVIOUS
        <5>2. j \in 1 .. n
          BY <2>1, <5>1 DEF n
        <5>3. i <= j
          <6>1. x[2] \in Nat
            BY <1>2, <1>4 DEF Callers
          <6> QED
            BY <3>2, <5>1, <6>1 DEF SentBefore
        <5> QED
          BY <1>7, <3>2, <5>2, <5>3
      <4>2. z[1] = p /\ z[2] > x[2]
        <5>1. z[1] = p /\ x[2] < z[2]
          BY <1>4, <3>2, <4>1 DEF SentBefore
        <5> QED
          BY <5>1
      <4>3. z = <<p, z[2]>> /\ z[2] \in 1 .. MaxConnections
        BY <4>2 DEF Links
      <4>4. tcp[z].state = "none"
        BY <1>4, <4>2, <4>3 DEF ConnectionInv, OpenedOK
      <4>5. sent[z] = <<>>
        BY <4>4 DEF TransferInv, TransitOK, InTransit
      <4>6. Len(sent[z]) = 0
        BY <4>5
      <4> QED
        BY <2>1, <4>6
    <3> QED
      BY <1>9, <3>1, <3>2
  <2>2. CASE z = x /\ j = n + 1 /\ sent'[z][j].call = client[p].call
    <3>1. y[1] = p
      BY <1>4, <2>2 DEF SentBefore
    <3>2. CASE i \in 1 .. Len(sent[y]) /\ sent'[y][i] = sent[y][i]
      BY <1>10, <2>2, <3>1, <3>2
    <3>3. CASE sent'[y][i].call = client[p].call
      BY <1>5, <2>2, <3>3
    <3> QED
      BY <1>9, <3>2, <3>3
  <2> QED
    BY <1>9, <2>1, <2>2
<1> QED
  BY <1>11, <1>12 DEF SentOK

\* The steps of a client other than Send keep its calls, or begin the next one.
LEMMA CallsGrow ==
  ASSUME ConnectionInv, NEW p \in Clients,
         \/ Connect(p) \/ SendFails(p) \/ ReadAnswer(p) \/ ReadEof(p) \/ ReadReset(p)
         \/ Resume(p) \/ ShortRead(p) \/ Timeout(p) \/ Quit(p)
         \/ \E kind \in Kinds : SendCommands(p, kind)
  PROVE  /\ UNCHANGED sent
         /\ \A q \in Clients : client'[q].call \in Nat /\ client[q].call <= client'[q].call
<1>1. UNCHANGED sent
  BY DEF Connect, SendFails, ReadAnswer, ReadEof, ReadReset, Resume, ShortRead, Timeout, Quit,
         SendCommands
<1>2. \A q \in Clients : client[q] \in Callers /\ client[q].call \in Nat
  BY ClientTypes, ConnectionAssumption DEF Callers
<1>3. \A q \in Clients : client'[q].call = client[q].call \/ client'[q].call = client[q].call + 1
  <2>1. client \in [Clients -> Callers]
    BY DEF ConnectionInv, ClientsOK
  <2>2. CASE SendFails(p) \/ ReadEof(p) \/ ReadReset(p) \/ Resume(p) \/ ShortRead(p) \/ Quit(p)
    <3>1. PICK state : client' = [client EXCEPT ![p] = [client[p] EXCEPT !.state = state]]
      BY <2>2 DEF SendFails, ReadEof, ReadReset, Resume, ShortRead, Quit, Enter
    <3> QED
      BY <2>1, <3>1 DEF Callers
  <2>3. CASE Connect(p)
    <3>1. PICK state, k : client' = [client EXCEPT ![p] = [client[p] EXCEPT
             !.state = state, !.connection = k, !.late = 0]]
      BY <2>3 DEF Connect
    <3> QED
      BY <2>1, <3>1 DEF Callers
  <2>4. CASE ReadAnswer(p)
    <3>1. PICK a : client' = [client EXCEPT ![p] = [client[p] EXCEPT
             !.state = "idle", !.answer = a]]
      BY <2>4 DEF ReadAnswer
    <3> QED
      BY <2>1, <3>1 DEF Callers
  <2>5. CASE Timeout(p)
    <3>1. PICK n : client' = [client EXCEPT ![p] = [client[p] EXCEPT
             !.state = "sleeping", !.late = n]]
      BY <2>5 DEF Timeout
    <3> QED
      BY <2>1, <3>1 DEF Callers
  <2>6. CASE \E kind \in Kinds : SendCommands(p, kind)
    <3>1. PICK kind : client' = [client EXCEPT ![p] = [client[p] EXCEPT
             !.state = "ready", !.call = client[p].call + 1, !.kind = kind]]
      BY <2>6 DEF SendCommands
    <3> QED
      BY <2>1, <3>1 DEF Callers
  <2> QED
    BY <2>2, <2>3, <2>4, <2>5, <2>6
<1>4. \A q \in Clients : client'[q].call \in Nat /\ client[q].call <= client'[q].call
  BY <1>2, <1>3
<1> QED
  BY <1>1, <1>4

LEMMA SentStep ==
  ASSUME ConnectionInv, TransferInv, SentOK, [Next]_vars
  PROVE  SentOK'
<1>1. ASSUME NEW p \in Clients, Send(p) PROVE SentOK'
  BY <1>1, SendKeepsOrder
<1>2. ASSUME NEW p \in Clients,
             \/ Connect(p) \/ SendFails(p) \/ ReadAnswer(p) \/ ReadEof(p) \/ ReadReset(p)
             \/ Resume(p) \/ ShortRead(p) \/ Timeout(p) \/ Quit(p)
             \/ \E kind \in Kinds : SendCommands(p, kind)
      PROVE  SentOK'
  BY <1>2, CallsGrow, SentRemains
<1>3. CASE UNCHANGED <<client, sent>>
  <2>1. \A p \in Clients : client[p].call \in Nat
    BY ClientTypes, ConnectionAssumption DEF Callers
  <2>2. \A p \in Clients : client'[p].call \in Nat /\ client[p].call <= client'[p].call
    BY <1>3, <2>1
  <2> QED
    BY <1>3, <2>2, SentRemains
<1>4. CASE \/ \E x \in Links : Accept(x) \/ TaskStep(x)
           \/ AcceptWs \/ HandshakeEnds \/ AcceptFails
           \/ WsCall \/ WsReturn \/ WsCallFails
           \/ Execute \/ ThreadPanics \/ Die \/ Start
           \/ UNCHANGED vars
  <2>1. UNCHANGED clientVars
    BY <1>4 DEF Accept, TaskStep, ReadFrame, RejectFrame, ReadEnd, Answer, AnswerFails, CallFails,
                ClientsRest, AcceptWs, HandshakeEnds, AcceptFails, WsCall, WsReturn, WsCallFails,
                Execute, ThreadPanics, Die, Start, ServerTasksRest, vars
  <2> QED
    BY <1>3, <2>1 DEF clientVars
<1> QED
  BY <1>1, <1>2, <1>4 DEF Next, ClientStep

(***************************************************************************)
(* A client has left only broken connections behind, and it connects again *)
(* only when it finds its connection broken.                               *)
(***************************************************************************)
Broken(x) == tcp[x].state \in {"closed", "reset"}

OldLinksOK ==
  /\ \A x \in Links : x[2] < client[x[1]].connection => Broken(x)
  /\ \A p \in Clients :
       /\ client[p].state = "starting" => client[p].connection = 0
       /\ client[p].state = "reconnecting" => client[p].connection # 0 /\ Broken(Current(p))

LEMMA BrokenStays ==
  ASSUME ConnectionInv, [Next]_vars, NEW x \in Links, Broken(x)
  PROVE  tcp'[x].state \in {"closed", "reset"}
<1>1. /\ tcp[x].state \in {"closed", "reset"} /\ tcp[x] \in TcpLinks
      /\ tcp \in [Links -> TcpLinks]
      /\ \A y \in Links : task[y] \in {"reading", "calling"} => y # x
  <2>1. \A y \in Links : task[y] \in {"reading", "calling"} => tcp[y].state = "open"
    BY LinkTypes DEF Consistent
  <2> QED
    BY <2>1, LinkTypes DEF Broken, ConnectionInv, LinksOK
<1>2. ASSUME NEW p \in Clients, Connect(p) PROVE tcp'[x].state \in {"closed", "reset"}
  <2> DEFINE k == client[p].connection + 1
             link == [tcp[<<p, k>>] EXCEPT !.state = "queued"]
  <2>1. /\ client[p].connection < MaxConnections
        /\ tcp' = [tcp EXCEPT ![<<p, k>>] = link]
    BY <1>2 DEF Connect
  <2>2. k \in 1 .. MaxConnections /\ k > client[p].connection
    BY <2>1, ClientTypes, ConnectionAssumption DEF Callers
  <2>3. tcp[<<p, k>>].state = "none"
    BY <2>2 DEF ConnectionInv, OpenedOK
  <2> HIDE DEF k, link
  <2> QED
    BY <1>1, <2>1, <2>3
<1>3. ASSUME NEW p \in Clients, Send(p) PROVE tcp'[x].state \in {"closed", "reset"}
  <2> DEFINE y == Current(p)
  <2>1. PICK queue : tcp' = IF tcp[y].state = "closed"
                              THEN [tcp EXCEPT ![y] = [tcp[y] EXCEPT !.state = "reset"]]
                              ELSE [tcp EXCEPT ![y] = [tcp[y] EXCEPT !.requests = queue]]
    BY <1>3 DEF Send
  <2> HIDE DEF y
  <2> QED
    BY <1>1, <2>1 DEF TcpLinks
<1>4. ASSUME NEW p \in Clients, ReadAnswer(p) PROVE tcp'[x].state \in {"closed", "reset"}
  <2> DEFINE y == Current(p)
  <2>1. PICK answers : tcp' = [tcp EXCEPT ![y] = [tcp[y] EXCEPT !.answers = answers]]
    BY <1>4 DEF ReadAnswer
  <2> HIDE DEF y
  <2> QED
    BY <1>1, <2>1 DEF TcpLinks
<1>5. ASSUME NEW y \in Links, Accept(y) \/ TaskStep(y)
      PROVE  tcp'[x].state \in {"closed", "reset"}
  <2>1. y # x
    <3>1. CASE Accept(y)
      BY <1>1, <3>1 DEF Accept
    <3>2. CASE TaskStep(y)
      BY <1>1, <3>2 DEF TaskStep, ReadFrame, RejectFrame, ReadEnd, Answer, AnswerFails, CallFails
    <3> QED
      BY <1>5, <3>1, <3>2
  <2>2. PICK link : tcp' = [tcp EXCEPT ![y] = link]
    <3>1. CASE Accept(y)
      BY <3>1 DEF Accept
    <3>2. CASE ReadFrame(y)
      BY <3>2 DEF ReadFrame
    <3>3. CASE Answer(y)
      BY <3>3 DEF Answer
    <3>4. CASE RejectFrame(y)
      BY <3>4 DEF RejectFrame
    <3>5. CASE ReadEnd(y) \/ AnswerFails(y) \/ CallFails(y)
      BY <3>5 DEF ReadEnd, AnswerFails, CallFails, EndTask, CloseLink
    <3> QED
      BY <1>5, <3>1, <3>2, <3>3, <3>4, <3>5 DEF TaskStep
  <2> QED
    BY <1>1, <2>1, <2>2
<1>6. CASE Die
  <2> DEFINE Left(reset, y) == [tcp[y] EXCEPT !.state = IF y \in reset THEN "reset" ELSE "closed",
                                              !.requests = <<>>]
  <2>1. PICK reset : tcp' = [y \in Links |-> IF tcp[y].state \in {"queued", "open"}
                                               THEN Left(reset, y) ELSE tcp[y]]
    BY <1>6 DEF Die
  <2> HIDE DEF Left
  <2> QED
    BY <1>1, <2>1
<1>7. ASSUME NEW p \in Clients,
             \/ SendFails(p) \/ ReadEof(p) \/ ReadReset(p) \/ Resume(p)
             \/ ShortRead(p) \/ Timeout(p) \/ Quit(p)
             \/ \E kind \in Kinds : SendCommands(p, kind)
      PROVE  UNCHANGED tcp
  BY <1>7 DEF SendFails, ReadEof, ReadReset, Resume, ShortRead, Timeout, Quit, SendCommands
<1>8. CASE \/ AcceptWs \/ HandshakeEnds \/ AcceptFails
           \/ WsCall \/ WsReturn \/ WsCallFails
           \/ Execute \/ ThreadPanics \/ Start \/ UNCHANGED vars
  <2>1. UNCHANGED tcp
    BY <1>8 DEF AcceptWs, HandshakeEnds, AcceptFails, WsCall, WsReturn, WsCallFails,
                Execute, ThreadPanics, Start, ServerTasksRest, vars
  <2> QED
    BY <1>1, <2>1
<1> QED
  BY <1>1, <1>2, <1>3, <1>4, <1>5, <1>6, <1>7, <1>8 DEF Next, ClientStep

LEMMA OldLinksRemain ==
  ASSUME ConnectionInv, OldLinksOK, [Next]_vars,
         \A p \in Clients :
           /\ client'[p].connection = client[p].connection
           /\ client'[p].state \in {"starting", "reconnecting"} =>
                client'[p].state = client[p].state
  PROVE  OldLinksOK'
<1>1. ASSUME NEW x \in Links, x[2] < client'[x[1]].connection
      PROVE  tcp'[x].state \in {"closed", "reset"}
  <2>1. x[1] \in Clients
    BY DEF Links
  <2> QED
    BY <1>1, <2>1, BrokenStays DEF OldLinksOK
<1>2. ASSUME NEW p \in Clients
      PROVE  /\ client'[p].state = "starting" => client'[p].connection = 0
             /\ client'[p].state = "reconnecting" =>
                  /\ client'[p].connection # 0
                  /\ tcp'[<<p, client'[p].connection>>].state \in {"closed", "reset"}
  <2>1. CASE client'[p].state = "reconnecting"
    <3>1. client[p].connection # 0 /\ Broken(Current(p))
      BY <2>1 DEF OldLinksOK
    <3>2. tcp'[Current(p)].state \in {"closed", "reset"}
      BY <3>1, CurrentIsLink, BrokenStays
    <3> QED
      BY <2>1, <3>1, <3>2 DEF Current
  <2>2. CASE client'[p].state = "starting"
    BY <2>2 DEF OldLinksOK
  <2> QED
    BY <2>1, <2>2
<1> QED
  BY <1>1, <1>2 DEF OldLinksOK, Broken, Current

LEMMA ConnectLeaves ==
  ASSUME ConnectionInv, OldLinksOK, [Next]_vars, NEW p \in Clients, Connect(p)
  PROVE  OldLinksOK'
<1> DEFINE k == client[p].connection
<1>1. /\ client[p].state \in {"starting", "reconnecting"}
      /\ client[p] \in Callers /\ k \in Nat
  BY ClientTypes, ConnectionAssumption DEF Connect, Callers
<1>2. PICK state \in {"idle", "ready"} :
        client' = [client EXCEPT ![p] = [client[p] EXCEPT
                     !.state = state, !.connection = k + 1, !.late = 0]]
  BY DEF Connect
<1>3. /\ client'[p].state \in {"idle", "ready"} /\ client'[p].connection = k + 1
      /\ \A q \in Clients : q # p => client'[q] = client[q]
  BY <1>1, <1>2 DEF Callers, ConnectionInv, ClientsOK
<1>4. ASSUME NEW x \in Links, x[2] < client'[x[1]].connection
      PROVE  tcp'[x].state \in {"closed", "reset"}
  <2>1. x[1] \in Clients /\ x[2] \in 1 .. MaxConnections /\ x = <<x[1], x[2]>>
    BY DEF Links
  <2>2. CASE x[1] # p \/ x[2] < k
    <3>1. x[2] < client[x[1]].connection
      BY <1>3, <1>4, <2>1, <2>2
    <3> QED
      BY <3>1, BrokenStays DEF OldLinksOK
  <2>3. CASE x[1] = p /\ x[2] = k
    <3>1. client[p].state = "reconnecting"
      BY <1>1, <2>1, <2>3 DEF OldLinksOK
    <3>2. x = Current(p)
      BY <2>1, <2>3 DEF Current
    <3> QED
      BY <3>1, <3>2, BrokenStays DEF OldLinksOK
  <2>4. x[1] # p \/ x[2] < k \/ x[2] = k
    <3>1. x[1] = p => x[2] < k + 1
      BY <1>3, <1>4
    <3> HIDE DEF k
    <3> QED
      BY <1>1, <2>1, <3>1, ConnectionAssumption
  <2> QED
    BY <2>2, <2>3, <2>4
<1>5. ASSUME NEW q \in Clients
      PROVE  /\ client'[q].state = "starting" => client'[q].connection = 0
             /\ client'[q].state = "reconnecting" =>
                  /\ client'[q].connection # 0
                  /\ tcp'[<<q, client'[q].connection>>].state \in {"closed", "reset"}
  <2>1. CASE q = p
    BY <1>3, <2>1
  <2>2. CASE q # p
    <3>1. client'[q] = client[q]
      BY <1>3, <2>2
    <3>2. CASE client[q].state = "reconnecting"
      <4>1. client[q].connection # 0 /\ Broken(Current(q))
        BY <3>2 DEF OldLinksOK
      <4>2. tcp'[Current(q)].state \in {"closed", "reset"}
        BY <4>1, CurrentIsLink, BrokenStays
      <4> QED
        BY <3>1, <3>2, <4>1, <4>2 DEF Current
    <3> QED
      BY <3>1, <3>2 DEF OldLinksOK
  <2> QED
    BY <2>1, <2>2
<1> QED
  BY <1>4, <1>5 DEF OldLinksOK, Broken, Current

LEMMA ResumeLeaves ==
  ASSUME ConnectionInv, OldLinksOK, [Next]_vars, NEW p \in Clients, Resume(p)
  PROVE  OldLinksOK'
<1> DEFINE state == IF SocketIsOpen(Current(p)) THEN "ready" ELSE "reconnecting"
<1>1. /\ client[p].state = "sleeping" /\ client[p] \in Callers /\ client[p].connection # 0
      /\ client' = [client EXCEPT ![p] = [client[p] EXCEPT !.state = state]]
      /\ tcp' = tcp
  BY ClientTypes DEF Resume, Enter, WellPlaced
<1>2. /\ client'[p].state = state /\ client'[p].connection = client[p].connection
      /\ \A q \in Clients : q # p => client'[q] = client[q]
  <2> HIDE DEF state
  <2> QED
    BY <1>1 DEF Callers, ConnectionInv, ClientsOK
<1>3. ASSUME state = "reconnecting" PROVE Broken(Current(p))
  <2>1. tcp[Current(p)].state \notin {"queued", "open"}
    BY <1>3 DEF SocketIsOpen
  <2>2. tcp[Current(p)] \in TcpLinks /\ tcp[Current(p)].state # "none"
    BY <1>1, CurrentLink
  <2> QED
    BY <2>1, <2>2 DEF Broken, TcpLinks
<1>4. state \in {"ready", "reconnecting"}
  OBVIOUS
<1> HIDE DEF state
<1>5. ASSUME NEW x \in Links, x[2] < client'[x[1]].connection
      PROVE  tcp'[x].state \in {"closed", "reset"}
  <2>1. x[1] \in Clients
    BY DEF Links
  <2>2. client'[x[1]].connection = client[x[1]].connection
    BY <1>2, <2>1
  <2> QED
    BY <1>1, <1>5, <2>2 DEF OldLinksOK, Broken
<1>6. ASSUME NEW q \in Clients
      PROVE  /\ client'[q].state = "starting" => client'[q].connection = 0
             /\ client'[q].state = "reconnecting" =>
                  /\ client'[q].connection # 0
                  /\ tcp'[<<q, client'[q].connection>>].state \in {"closed", "reset"}
  <2>1. CASE q = p
    BY <1>1, <1>2, <1>3, <1>4, <2>1 DEF Broken, Current
  <2>2. CASE q # p
    BY <1>1, <1>2, <2>2 DEF OldLinksOK, Broken, Current
  <2> QED
    BY <2>1, <2>2
<1> QED
  BY <1>5, <1>6 DEF OldLinksOK, Broken, Current

LEMMA OldLinksStep ==
  ASSUME ConnectionInv, OldLinksOK, [Next]_vars
  PROVE  OldLinksOK'
<1>1. ASSUME NEW p \in Clients, Connect(p) PROVE OldLinksOK'
  BY <1>1, ConnectLeaves
<1>2. ASSUME NEW p \in Clients, Resume(p) PROVE OldLinksOK'
  BY <1>2, ResumeLeaves
<1>3. ASSUME NEW p \in Clients,
             \/ Send(p) \/ SendFails(p) \/ ReadAnswer(p) \/ ReadEof(p) \/ ReadReset(p)
             \/ ShortRead(p) \/ Timeout(p) \/ Quit(p)
             \/ \E kind \in Kinds : SendCommands(p, kind)
      PROVE  OldLinksOK'
  <2>1. client \in [Clients -> Callers]
    BY DEF ConnectionInv, ClientsOK
  <2>2. \A q \in Clients :
          /\ client'[q].connection = client[q].connection
          /\ client'[q].state \in {"starting", "reconnecting"} => client'[q].state = client[q].state
    <3>1. CASE \/ Send(p) \/ SendFails(p) \/ ReadEof(p) \/ ReadReset(p)
               \/ ShortRead(p) \/ Quit(p)
      <4>1. PICK state \in {"waiting", "sleeping", "gone"} :
              client' = [client EXCEPT ![p] = [client[p] EXCEPT !.state = state]]
        BY <3>1 DEF Send, SendFails, ReadEof, ReadReset, ShortRead, Quit, Enter
      <4> QED
        BY <2>1, <4>1 DEF Callers
    <3>2. CASE ReadAnswer(p)
      <4>1. PICK a : client' = [client EXCEPT ![p] = [client[p] EXCEPT
               !.state = "idle", !.answer = a]]
        BY <3>2 DEF ReadAnswer
      <4> QED
        BY <2>1, <4>1 DEF Callers
    <3>3. CASE Timeout(p)
      <4>1. PICK n : client' = [client EXCEPT ![p] = [client[p] EXCEPT
               !.state = "sleeping", !.late = n]]
        BY <3>3 DEF Timeout
      <4> QED
        BY <2>1, <4>1 DEF Callers
    <3>4. CASE \E kind \in Kinds : SendCommands(p, kind)
      <4>1. PICK kind : client' = [client EXCEPT ![p] = [client[p] EXCEPT
               !.state = "ready", !.call = client[p].call + 1, !.kind = kind]]
        BY <3>4 DEF SendCommands
      <4> QED
        BY <2>1, <4>1 DEF Callers
    <3> QED
      BY <1>3, <3>1, <3>2, <3>3, <3>4
  <2> QED
    BY <2>2, OldLinksRemain
<1>4. CASE \/ \E x \in Links : Accept(x) \/ TaskStep(x)
           \/ AcceptWs \/ HandshakeEnds \/ AcceptFails
           \/ WsCall \/ WsReturn \/ WsCallFails
           \/ Execute \/ ThreadPanics \/ Die \/ Start
           \/ UNCHANGED vars
  <2>1. UNCHANGED client
    BY <1>4 DEF Accept, TaskStep, ReadFrame, RejectFrame, ReadEnd, Answer, AnswerFails, CallFails,
                ClientsRest, AcceptWs, HandshakeEnds, AcceptFails, WsCall, WsReturn, WsCallFails,
                Execute, ThreadPanics, Die, Start, ServerTasksRest, vars, clientVars
  <2> QED
    BY <2>1, OldLinksRemain
<1> QED
  BY <1>1, <1>2, <1>3, <1>4 DEF Next, ClientStep

(***************************************************************************)
(* What was executed, in order, and that nothing is left out: a task reads *)
(* its next frame when the one before was executed.                        *)
(***************************************************************************)
Precedes(r, s) ==
  \/ r.client[2] < s.client[2]
  \/ r.client[2] = s.client[2] /\ r.number < s.number

OrderOK ==
  \A i, j \in 1 .. Len(served) :
    /\ i < j
    /\ served[i].client \in Links /\ served[j].client \in Links
    /\ served[i].client[1] = served[j].client[1]
    => Precedes(served[i], served[j])

GaplessOK ==
  \A j \in 1 .. Len(served) : served[j].client \in Links =>
    \A n \in 1 .. served[j].number - 1 :
      \E i \in 1 .. j - 1 : served[i].client = served[j].client /\ served[i].number = n

Done(stage, n, last) == stage \in {"none", "reading"} \/ (stage = "calling" /\ n < last)

AnsweredOK ==
  \A x \in Links : \A n \in 1 .. Len(frames[x]) :
    Done(task[x], n, Len(frames[x])) => IsServed(x, n)

ExecutedOK == OrderOK /\ GaplessOK /\ AnsweredOK

\* A request is executed on the client's present connection.
LEMMA ExecutesOnCurrent ==
  ASSUME ConnectionInv, TransferInv, CallInv, OldLinksOK, NEW x \in Links, x \in calling,
         NEW i \in 1 .. Len(served), served[i].client \in Links, served[i].client[1] = x[1]
  PROVE  served[i].client[2] < x[2] \/ served[i].client = x
<1> DEFINE y == served[i].client
           p == x[1]
           k == client[p].connection
<1>1. /\ x \in Links /\ y \in Links /\ p \in Clients /\ y[1] = p
      /\ x = <<p, x[2]>> /\ y = <<p, y[2]>>
      /\ x[2] \in 1 .. MaxConnections /\ y[2] \in 1 .. MaxConnections
  BY DEF Links
<1>2. k \in Nat
  BY <1>1, ClientTypes, ConnectionAssumption DEF Callers
<1>3. tcp[x].state = "open"
  BY LinkTypes DEF CallInv, TasksCall, Consistent
<1>4. Len(frames[y]) # 0
  <2>1. latest[y].number = Len(frames[y])
    BY DEF CallInv, TasksCall
  <2>2. 1 <= served[i].number /\ served[i].number <= latest[y].number
        /\ served[i].number \in Nat /\ latest[y].number \in Nat
    BY ServedTypes DEF CallInv
  <2> HIDE DEF y
  <2> QED
    BY <2>1, <2>2
<1> HIDE DEF p, k, y
<1>5. tcp[y].state # "none"
  <2>1. SUFFICES ASSUME tcp[y].state = "none" PROVE FALSE
    OBVIOUS
  <2>2. InTransit(tcp[y], task[y], sent[y], frames[y])
    BY <1>1 DEF TransferInv, TransitOK
  <2>3. frames[y] = <<>>
    BY <2>1, <2>2 DEF InTransit
  <2> QED
    BY <1>4, <2>3
<1>6. y[2] <= k
  <2>1. ~ (y[2] > k)
    BY <1>1, <1>5 DEF ConnectionInv, OpenedOK, k
  <2> QED
    BY <1>1, <1>2, <2>1
<1>7. ~ (x[2] < k)
  BY <1>1, <1>3 DEF OldLinksOK, Broken, k, p
<1>8. y[2] < x[2] \/ y[2] = x[2]
  BY <1>1, <1>2, <1>6, <1>7
<1> QED
  BY <1>1, <1>8 DEF y

LEMMA ExecuteInOrder ==
  ASSUME ConnectionInv, TransferInv, CallInv, OldLinksOK, ExecutedOK, Execute
  PROVE  ExecutedOK'
<1> DEFINE n == Len(served)
<1>1. PICK r \in pending : Service!Serve(r)
  BY DEF Execute
<1>2. /\ ServiceOK' /\ n \in Nat /\ Len(served') = n + 1 /\ served'[n + 1] = r
      /\ \A i \in 1 .. n : served'[i] = served[i]
  BY <1>1, ServeService DEF CallInv
<1>3. UNCHANGED <<task, frames>>
  BY DEF Execute, ServerTasksRest
<1>4. /\ r.client \in calling /\ r = latest[r.client] /\ r.client \in Users
      /\ \A i \in 1 .. n : served[i] # r
  BY DEF CallInv, ServiceOK, PendingOK
<1> HIDE DEF n
<1>5. OrderOK'
  <2> SUFFICES ASSUME NEW i \in 1 .. n + 1, NEW j \in 1 .. n + 1, i < j,
                      served'[i].client \in Links, served'[j].client \in Links,
                      served'[i].client[1] = served'[j].client[1]
               PROVE  Precedes(served'[i], served'[j])
    BY <1>2 DEF OrderOK, Precedes
  <2>1. i \in 1 .. n /\ served'[i] = served[i]
    BY <1>2
  <2>2. CASE j \in 1 .. n
    <3>1. served'[j] = served[j]
      BY <1>2, <2>2
    <3> QED
      BY <2>1, <2>2, <3>1 DEF ExecutedOK, OrderOK, n
  <2>3. CASE j = n + 1
    <3>1. served'[j] = r
      BY <1>2, <2>3
    <3>2. served[i].client[2] < r.client[2] \/ served[i].client = r.client
      BY <1>4, <2>1, <3>1, ExecutesOnCurrent DEF n
    <3>3. ASSUME served[i].client = r.client PROVE served[i].number < r.number
      <4>1. /\ served[i].number \in Nat /\ latest[served[i].client].number \in Nat
            /\ served[i].number <= latest[served[i].client].number
            /\ served[i].number = latest[served[i].client].number =>
                 served[i] = latest[served[i].client]
        BY <2>1, ServedTypes DEF CallInv, n
      <4>2. served[i] # r /\ latest[served[i].client] = r
        BY <1>4, <2>1, <3>3
      <4> QED
        BY <4>1, <4>2
    <3> QED
      BY <2>1, <3>1, <3>2, <3>3 DEF Precedes
  <2> QED
    BY <1>2, <2>2, <2>3
<1>6. GaplessOK'
  <2> SUFFICES ASSUME NEW j \in 1 .. n + 1, served'[j].client \in Links,
                      NEW m \in 1 .. served'[j].number - 1
               PROVE  \E i \in 1 .. j - 1 : /\ served'[i].client = served'[j].client
                                            /\ served'[i].number = m
    BY <1>2 DEF GaplessOK
  <2>1. CASE j \in 1 .. n
    <3>1. served'[j] = served[j]
      BY <1>2, <2>1
    <3>2. PICK i \in 1 .. j - 1 : served[i].client = served[j].client /\ served[i].number = m
      BY <2>1, <3>1 DEF ExecutedOK, GaplessOK, n
    <3>3. i \in 1 .. n
      BY <1>2, <2>1
    <3>4. served'[i] = served[i]
      BY <1>2, <3>3
    <3> QED
      BY <3>1, <3>2, <3>4
  <2>2. CASE j = n + 1
    <3> DEFINE x == r.client
    <3>1. served'[j] = r /\ x \in Links
      BY <1>2, <2>2
    <3>2. r.number = Len(frames[x]) /\ task[x] = "calling"
      BY <1>4, <3>1 DEF CallInv, TasksCall
    <3>3. Len(frames[x]) \in Nat
      BY <3>1, SentTypes
    <3> HIDE DEF x
    <3>4. m \in 1 .. Len(frames[x]) /\ m < Len(frames[x])
      BY <3>1, <3>2, <3>3
    <3>5. PICK i \in 1 .. Len(served) : served[i].client = x /\ served[i].number = m
      BY <3>1, <3>2, <3>4 DEF ExecutedOK, AnsweredOK, Done, IsServed
    <3>6. i \in 1 .. n /\ i \in 1 .. j - 1 /\ served'[i] = served[i]
      BY <1>2, <2>2, <3>5 DEF n
    <3> QED
      BY <3>1, <3>5, <3>6 DEF x
  <2> QED
    BY <1>2, <2>1, <2>2
<1>7. AnsweredOK'
  <2> SUFFICES ASSUME NEW x \in Links, NEW m \in 1 .. Len(frames[x]),
                      Done(task[x], m, Len(frames[x]))
               PROVE  \E i \in 1 .. n + 1 : served'[i].client = x /\ served'[i].number = m
    BY <1>2, <1>3 DEF AnsweredOK, IsServed, Done
  <2>1. PICK i \in 1 .. Len(served) : served[i].client = x /\ served[i].number = m
    BY DEF ExecutedOK, AnsweredOK, IsServed
  <2>2. i \in 1 .. n /\ i \in 1 .. n + 1 /\ served'[i] = served[i]
    BY <1>2, <2>1 DEF n
  <2> QED
    BY <2>1, <2>2
<1> QED
  BY <1>5, <1>6, <1>7 DEF ExecutedOK

\* The other steps execute nothing; a task asks for a frame to be executed
\* when those before it were.
LEMMA ExecutedRemains ==
  ASSUME ExecutedOK, UNCHANGED served,
         \A x \in Links : \A n \in 1 .. Len(frames'[x]) :
           Done(task'[x], n, Len(frames'[x])) =>
             \/ n \in 1 .. Len(frames[x]) /\ Done(task[x], n, Len(frames[x]))
             \/ IsServed(x, n)
  PROVE  ExecutedOK'
<1>1. OrderOK' /\ GaplessOK'
  BY DEF ExecutedOK, OrderOK, GaplessOK, Precedes
<1>2. AnsweredOK'
  <2> SUFFICES ASSUME NEW x \in Links, NEW n \in 1 .. Len(frames'[x]),
                      Done(task'[x], n, Len(frames'[x]))
               PROVE  IsServed(x, n)
    BY DEF AnsweredOK, IsServed, Done
  <2> QED
    BY DEF ExecutedOK, AnsweredOK
<1> QED
  BY <1>1, <1>2 DEF ExecutedOK

LEMMA ExecutedByTask ==
  ASSUME ConnectionInv, TransferInv, CallInv, ExecutedOK, NEW x \in Links,
         Accept(x) \/ TaskStep(x)
  PROVE  ExecutedOK'
<1> DEFINE last == Len(frames[x])
<1>1. last \in Nat
  BY SentTypes
<1>2. ASSUME UNCHANGED served,
             \A y \in Links : y # x => task'[y] = task[y] /\ frames'[y] = frames[y],
             \A n \in 1 .. Len(frames'[x]) : Done(task'[x], n, Len(frames'[x])) =>
               (n \in 1 .. last /\ Done(task[x], n, last)) \/ IsServed(x, n)
      PROVE  ExecutedOK'
  <2> SUFFICES ASSUME NEW y \in Links, NEW n \in 1 .. Len(frames'[y]),
                      Done(task'[y], n, Len(frames'[y]))
               PROVE  \/ n \in 1 .. Len(frames[y]) /\ Done(task[y], n, Len(frames[y]))
                      \/ IsServed(y, n)
    BY <1>2, ExecutedRemains
  <2>1. CASE y = x
    BY <1>2, <2>1
  <2>2. CASE y # x
    <3>1. task'[y] = task[y] /\ frames'[y] = frames[y]
      BY <1>2, <2>2
    <3> QED
      BY <3>1
  <2> QED
    BY <2>1, <2>2
<1>3. CASE ReadFrame(x)
  <2>1. /\ task[x] = "reading" /\ tcp[x].requests # <<>>
        /\ task' = [task EXCEPT ![x] = "calling"]
        /\ frames' = [frames EXCEPT ![x] = Append(@, Head(tcp[x].requests))]
        /\ Service!Request(x, 1)
    BY <1>3 DEF ReadFrame
  <2>2. served' = served
    BY <2>1, RequestService, LinkIsUser DEF CallInv
  <2>3. /\ task'[x] = "calling" /\ frames'[x] = Append(frames[x], Head(tcp[x].requests))
        /\ \A y \in Links : y # x => task'[y] = task[y] /\ frames'[y] = frames[y]
    BY <2>1 DEF ConnectionInv, LinksOK
  <2>4. Len(frames'[x]) = last + 1
    <3>1. frames[x] \in Seq(Frames) /\ tcp[x].requests \in Seq(Frames)
      BY LinkTypes, SentTypes
    <3>2. Head(tcp[x].requests) \in Frames
      BY <2>1, <3>1, HeadTailProperties
    <3> QED
      BY <2>3, <3>1, <3>2, AppendProperties
  <2> HIDE DEF last
  <2>5. ASSUME NEW n \in 1 .. last + 1, Done("calling", n, last + 1)
        PROVE  n \in 1 .. last /\ Done("reading", n, last)
    <3>1. n < last + 1
      BY <2>5 DEF Done
    <3> QED
      BY <1>1, <3>1 DEF Done
  <2> QED
    BY <1>2, <2>1, <2>2, <2>3, <2>4, <2>5
<1>4. CASE Answer(x)
  <2>1. IsServed(x, last) /\ frames' = frames /\ served' = served
    BY <1>4, AnsweringCall
  <2>2. /\ task[x] = "calling" /\ task'[x] = "reading"
        /\ \A y \in Links : y # x => task'[y] = task[y]
    BY <1>4 DEF Answer, ConnectionInv, LinksOK
  <2> HIDE DEF last
  <2>3. ASSUME NEW n \in 1 .. last
        PROVE  Done("calling", n, last) \/ IsServed(x, n)
    <3>1. n < last \/ n = last
      BY <1>1
    <3> QED
      BY <2>1, <3>1 DEF Done
  <2>4. Len(frames'[x]) = last
    BY <2>1 DEF last
  <2> QED
    BY <1>2, <2>1, <2>2, <2>3, <2>4
<1>5. CASE AnswerFails(x) \/ CallFails(x) \/ RejectFrame(x) \/ ReadEnd(x)
  <2>1. UNCHANGED <<frames, served>>
    BY <1>5, AnsweringCall, CallFailsCall, RestingCall
  <2>2. task' = [task EXCEPT ![x] = "ended"]
    BY <1>5 DEF AnswerFails, CallFails, RejectFrame, ReadEnd, EndTask
  <2>3. task'[x] = "ended" /\ \A y \in Links : y # x => task'[y] = task[y]
    BY <2>2 DEF ConnectionInv, LinksOK
  <2>4. \A n : ~ Done("ended", n, Len(frames'[x]))
    BY DEF Done
  <2> QED
    BY <1>2, <2>1, <2>3, <2>4
<1>6. CASE Accept(x)
  <2>1. /\ tcp[x].state = "queued" /\ task' = [task EXCEPT ![x] = "reading"]
        /\ frames' = frames /\ served' = served
    BY <1>6, RestingCall DEF Accept
  <2>2. task[x] = "none"
    BY <2>1 DEF TransferInv, TransitOK, InTransit
  <2>3. task'[x] = "reading" /\ \A y \in Links : y # x => task'[y] = task[y]
    BY <2>1 DEF ConnectionInv, LinksOK
  <2>4. \A n \in 1 .. Len(frames'[x]) : n \in 1 .. last /\ Done("none", n, last)
    BY <2>1 DEF Done
  <2> QED
    BY <1>2, <2>1, <2>2, <2>3, <2>4
<1> QED
  BY <1>3, <1>4, <1>5, <1>6 DEF TaskStep

LEMMA ExecutedStep ==
  ASSUME ConnectionInv, TransferInv, CallInv, OldLinksOK, ExecutedOK, [Next]_vars
  PROVE  ExecutedOK'
<1>1. CASE Execute
  BY <1>1, ExecuteInOrder
<1>2. ASSUME NEW x \in Links, Accept(x) \/ TaskStep(x) PROVE ExecutedOK'
  BY <1>2, ExecutedByTask
<1>3. CASE UNCHANGED <<task, frames, served>>
  BY <1>3, ExecutedRemains
<1>4. CASE WsCall \/ WsReturn \/ WsCallFails
  BY <1>3, <1>4, SocketCall
<1>5. CASE Die
  <2>1. /\ task' = [x \in Links |-> IF task[x] = "none" THEN "none" ELSE "ended"]
        /\ UNCHANGED <<frames, served>>
    BY <1>5 DEF Die
  <2>2. ASSUME NEW x \in Links, NEW n, Done(task'[x], n, Len(frames[x]))
        PROVE  Done(task[x], n, Len(frames[x]))
    BY <2>1, <2>2 DEF Done
  <2> QED
    BY <2>1, <2>2, ExecutedRemains
<1>6. CASE \/ AcceptWs \/ HandshakeEnds \/ AcceptFails
           \/ ThreadPanics \/ Start
           \/ UNCHANGED vars
           \/ \E p \in Clients :
                \/ ClientStep(p) \/ ShortRead(p) \/ Timeout(p) \/ Quit(p)
                \/ \E kind \in Kinds : SendCommands(p, kind)
  BY <1>3, <1>6, OtherCall
<1> QED
  BY <1>1, <1>2, <1>4, <1>5, <1>6 DEF Next

(***************************************************************************)
(* What the WebSocket sees: the buffers of clients that were executed      *)
(* before its latest call, or all of them while that is not executed.      *)
(***************************************************************************)
SeenIn(s, r) ==
  {i \in DOMAIN s : s[i].client # WebSocket /\ \E j \in i .. Len(s) : s[j] = r}

VisibleIn(s, r) ==
  IF \E i \in 1 .. Len(s) : s[i] = r
    THEN SeenIn(s, r)
    ELSE {i \in DOMAIN s : s[i].client # WebSocket}

Visible == VisibleIn(served, latest[WebSocket])

Sockets ==
  [stage : {"away", "assets", "l1s", "transactions"}, l1s : Nat,
   snapshots : Seq([l1s : Nat, transactions : Nat])]

\* A WebSocket that waits for the exchange has been through its handshake.
SocketOK ==
  /\ socket \in Sockets
  /\ WebSocket \in calling => socket.stage # "away"
  /\ acceptor = "handshake" => socket.stage = "away"

RecordedOK ==
  \A i \in DOMAIN socket.snapshots :
    /\ socket.snapshots[i].transactions <= Cardinality(Visible)
    /\ socket.stage = "transactions" => socket.snapshots[i].transactions <= socket.l1s

SnapshotsOK ==
  /\ SocketOK
  /\ SnapshotsAdvance
  /\ RecordedOK
  /\ socket.stage = "transactions" => socket.l1s <= Cardinality(Visible)

LEMMA VisibleCounts ==
  ASSUME NEW s \in Seq(Requests), NEW r
  PROVE  /\ VisibleIn(s, r) \subseteq 1 .. Len(s)
         /\ IsFiniteSet(VisibleIn(s, r)) /\ Cardinality(VisibleIn(s, r)) \in Nat
<1>1. Len(s) \in Nat /\ DOMAIN s = 1 .. Len(s)
  BY LenProperties
<1>2. VisibleIn(s, r) \subseteq 1 .. Len(s)
  BY <1>1 DEF VisibleIn, SeenIn
<1>3. IsFiniteSet(1 .. Len(s))
  BY <1>1, FS_Interval
<1> QED
  BY <1>2, <1>3, FS_Subset, FS_CardinalityType

\* A call sees no less when another one is executed after it or before it.
LEMMA VisibleExtends ==
  ASSUME NEW s \in Seq(Requests), NEW t \in Seq(Requests), NEW r,
         Len(t) = Len(s) + 1, \A i \in 1 .. Len(s) : t[i] = s[i]
  PROVE  VisibleIn(s, r) \subseteq VisibleIn(t, r)
<1> DEFINE n == Len(s)
<1>1. n \in Nat /\ DOMAIN s = 1 .. n /\ DOMAIN t = 1 .. n + 1 /\ Len(t) = n + 1
  BY LenProperties
<1> SUFFICES ASSUME NEW i \in VisibleIn(s, r) PROVE i \in VisibleIn(t, r)
  OBVIOUS
<1>2. /\ i \in 1 .. n /\ i \in 1 .. n + 1 /\ n + 1 \in i .. n + 1 /\ n + 1 \in 1 .. n + 1
      /\ t[i].client # WebSocket
  BY <1>1 DEF VisibleIn, SeenIn
<1>3. CASE \E j \in 1 .. n : s[j] = r
  <2>1. PICK j \in i .. n : s[j] = r
    BY <1>3 DEF VisibleIn, SeenIn
  <2>2. j \in i .. n + 1 /\ j \in 1 .. n + 1 /\ t[j] = r
    BY <1>1, <1>2, <2>1
  <2> QED
    BY <1>1, <1>2, <2>2 DEF VisibleIn, SeenIn
<1>4. CASE t[n + 1] = r
  BY <1>1, <1>2, <1>4 DEF VisibleIn, SeenIn
<1>5. CASE (\A j \in 1 .. n : s[j] # r) /\ t[n + 1] # r
  <2>1. \A j \in 1 .. n + 1 : t[j] # r
    <3>1. \A j \in 1 .. n + 1 : j \in 1 .. n \/ j = n + 1
      BY <1>1
    <3> QED
      BY <1>5, <3>1
  <2> QED
    BY <1>1, <1>2, <2>1 DEF VisibleIn
<1> QED
  BY <1>3, <1>4, <1>5

LEMMA VisibleGrows ==
  ASSUME CallInv, CallInv', [Next]_vars
  PROVE  /\ Cardinality(Visible) \in Nat /\ Cardinality(Visible') \in Nat
         /\ Cardinality(Visible) <= Cardinality(Visible')
<1>1. /\ WebSocket \in Users /\ \A x \in Links : x \in Users /\ x # WebSocket
      /\ latest[WebSocket].number \in Nat
      /\ latest'[WebSocket].client = WebSocket
      /\ served \in Seq(Requests) /\ served' \in Seq(Requests)
  BY LinkIsUser DEF Users, CallInv, ServiceOK, LatestOK, ServedOK, Requests
<1>2. /\ IsFiniteSet(Visible') /\ Cardinality(Visible') \in Nat
      /\ Cardinality(Visible) \in Nat
  BY <1>1, VisibleCounts DEF Visible
<1> SUFFICES Visible \subseteq Visible'
  BY <1>2, FS_Subset
<1>3. CASE UNCHANGED served /\ latest'[WebSocket] = latest[WebSocket]
  BY <1>3 DEF Visible
<1>4. CASE WsCall
  <2>1. /\ served' = served
        /\ latest'[WebSocket].number = latest[WebSocket].number + 1
    BY <1>1, <1>4, RequestService DEF WsCall, CallInv
  <2>2. ASSUME NEW i \in 1 .. Len(served) PROVE served[i] # latest'[WebSocket]
    <3>1. CASE served[i].client = WebSocket
      <4>1. served[i].number \in Nat /\ served[i].number <= latest[WebSocket].number
        BY <3>1, ServedTypes DEF CallInv
      <4> QED
        BY <1>1, <2>1, <4>1
    <3> QED
      BY <1>1, <3>1
  <2> QED
    BY <2>1, <2>2 DEF Visible, VisibleIn, SeenIn
<1>5. CASE Execute
  <2>1. PICK r \in pending : Service!Serve(r)
    BY <1>5 DEF Execute
  <2>2. /\ Len(served') = Len(served) + 1
        /\ \A i \in 1 .. Len(served) : served'[i] = served[i]
        /\ latest' = latest
    BY <2>1, ServeService DEF CallInv
  <2> QED
    BY <1>1, <2>2, VisibleExtends DEF Visible
<1>6. ASSUME NEW x \in Links, TaskStep(x) \/ Accept(x)
      PROVE  UNCHANGED served /\ latest'[WebSocket] = latest[WebSocket]
  <2>1. CASE ReadFrame(x)
    BY <1>1, <2>1, RequestService DEF ReadFrame, CallInv
  <2>2. CASE Answer(x) \/ AnswerFails(x) \/ CallFails(x)
    BY <2>2 DEF Answer, AnswerFails, CallFails, Service!Return, Service!GiveUp
  <2>3. CASE RejectFrame(x) \/ ReadEnd(x) \/ Accept(x)
    BY <2>3 DEF RejectFrame, ReadEnd, Accept, serviceVars
  <2> QED
    BY <1>6, <2>1, <2>2, <2>3 DEF TaskStep
<1>7. CASE WsReturn \/ WsCallFails \/ Die
  BY <1>3, <1>7 DEF WsReturn, WsCallFails, Die, Service!Return, Service!GiveUp
<1>8. CASE \/ AcceptWs \/ HandshakeEnds \/ AcceptFails
           \/ ThreadPanics \/ Start
           \/ UNCHANGED vars
           \/ \E p \in Clients :
                \/ ClientStep(p) \/ ShortRead(p) \/ Timeout(p) \/ Quit(p)
                \/ \E kind \in Kinds : SendCommands(p, kind)
  <2>1. UNCHANGED <<latest, served>>
    BY <1>8, OtherCall
  <2> QED
    BY <1>3, <2>1
<1> QED
  BY <1>3, <1>4, <1>5, <1>6, <1>7, <1>8 DEF Next

(***************************************************************************)
(* The steps of the WebSocket.                                             *)
(***************************************************************************)
LEMMA SnapshotTypes ==
  ASSUME SnapshotsOK
  PROVE  /\ socket.l1s \in Nat
         /\ socket.snapshots \in Seq([l1s : Nat, transactions : Nat])
         /\ Len(socket.snapshots) \in Nat
         /\ DOMAIN socket.snapshots = 1 .. Len(socket.snapshots)
         /\ \A i \in DOMAIN socket.snapshots :
              socket.snapshots[i].l1s \in Nat /\ socket.snapshots[i].transactions \in Nat
<1>1. socket.l1s \in Nat /\ socket.snapshots \in Seq([l1s : Nat, transactions : Nat])
  BY DEF SnapshotsOK, SocketOK, Sockets
<1>2. /\ Len(socket.snapshots) \in Nat
      /\ DOMAIN socket.snapshots = 1 .. Len(socket.snapshots)
  BY <1>1, LenProperties
<1>3. ASSUME NEW i \in DOMAIN socket.snapshots
      PROVE  socket.snapshots[i] \in [l1s : Nat, transactions : Nat]
  BY <1>1, <1>2, ElementOfSeq
<1> QED
  BY <1>1, <1>2, <1>3

\* Nothing is recorded.
LEMMA SnapshotsRemain ==
  ASSUME CallInv, CallInv', [Next]_vars, SnapshotsOK, SocketOK',
         socket'.l1s = socket.l1s, socket'.snapshots = socket.snapshots,
         socket'.stage = "transactions" => socket.stage = "transactions"
  PROVE  SnapshotsOK'
<1>1. /\ Cardinality(Visible) \in Nat /\ Cardinality(Visible') \in Nat
      /\ Cardinality(Visible) <= Cardinality(Visible')
  BY VisibleGrows
<1>2. SnapshotsAdvance'
  BY DEF SnapshotsOK, SnapshotsAdvance
<1>3. RecordedOK'
  <2> SUFFICES ASSUME NEW i \in DOMAIN socket.snapshots
               PROVE  /\ socket.snapshots[i].transactions <= Cardinality(Visible')
                      /\ socket'.stage = "transactions" =>
                           socket.snapshots[i].transactions <= socket.l1s
    BY DEF RecordedOK
  <2>1. /\ socket.snapshots[i].transactions \in Nat
        /\ socket.snapshots[i].transactions <= Cardinality(Visible)
        /\ socket.stage = "transactions" => socket.snapshots[i].transactions <= socket.l1s
    BY SnapshotTypes DEF SnapshotsOK, RecordedOK
  <2> QED
    BY <1>1, <2>1
<1>4. socket'.stage = "transactions" => socket'.l1s <= Cardinality(Visible')
  BY <1>1, SnapshotTypes DEF SnapshotsOK
<1> QED
  BY <1>2, <1>3, <1>4 DEF SnapshotsOK

LEMMA SeenIsVisible ==
  ASSUME CallInv, WsReturn
  PROVE  /\ SeenBy(latest[WebSocket]) = Cardinality(Visible)
         /\ Visible' = Visible
         /\ WebSocket \in calling /\ calling' = calling \ {WebSocket}
<1>1. WebSocket \in Users
  BY DEF Users
<1>2. /\ IsServed(WebSocket, latest[WebSocket].number)
      /\ latest' = latest /\ served' = served
      /\ WebSocket \in calling /\ calling' = calling \ {WebSocket}
  BY <1>1, ReturnService DEF WsReturn, CallInv, Service!Return
<1>3. \E i \in 1 .. Len(served) : served[i] = latest[WebSocket]
  BY <1>2, ServedTypes DEF IsServed, CallInv
<1>4. SeenBy(latest[WebSocket]) = Cardinality(SeenIn(served, latest[WebSocket]))
  BY DEF SeenBy, SeenIn
<1> QED
  BY <1>2, <1>3, <1>4 DEF Visible, VisibleIn

LEMMA WsReturnRecords ==
  ASSUME CallInv, CallInv', [Next]_vars, SnapshotsOK, WsReturn
  PROVE  SnapshotsOK'
<1> DEFINE seen == Cardinality(Visible)
           old == socket.snapshots
<1>1. /\ SeenBy(latest[WebSocket]) = seen
      /\ Visible' = Visible
      /\ WebSocket \in calling /\ calling' = calling \ {WebSocket}
      /\ acceptor' = acceptor
  BY SeenIsVisible DEF WsReturn, ServerTasksRest
<1>2. seen \in Nat
  BY VisibleGrows
<1>3. /\ socket \in Sockets /\ socket.stage \in {"assets", "l1s", "transactions"}
      /\ acceptor # "handshake"
  BY <1>1 DEF SnapshotsOK, SocketOK, Sockets
<1>4. /\ socket' =
           CASE socket.stage = "assets" -> [socket EXCEPT !.stage = "l1s"]
             [] socket.stage = "l1s" -> [socket EXCEPT !.stage = "transactions", !.l1s = seen]
             [] socket.stage = "transactions" ->
                  [socket EXCEPT !.stage = "l1s",
                                 !.snapshots = Append(socket.snapshots, Published(seen))]
  BY <1>1 DEF WsReturn
<1> HIDE DEF seen
<1>5. CASE socket.stage = "assets"
  <2>1. socket' = [socket EXCEPT !.stage = "l1s"]
    BY <1>4, <1>5
  <2>2. /\ socket' \in Sockets /\ socket'.stage = "l1s"
        /\ socket'.l1s = socket.l1s /\ socket'.snapshots = socket.snapshots
    BY <1>3, <2>1 DEF Sockets
  <2>3. SocketOK'
    BY <1>1, <1>3, <2>2 DEF SocketOK
  <2> QED
    BY <2>2, <2>3, SnapshotsRemain
<1>6. CASE socket.stage = "l1s"
  <2>1. socket' = [socket EXCEPT !.stage = "transactions", !.l1s = seen]
    BY <1>4, <1>6
  <2>2. /\ socket' \in Sockets /\ socket'.stage = "transactions"
        /\ socket'.l1s = seen /\ socket'.snapshots = socket.snapshots
    BY <1>2, <1>3, <2>1 DEF Sockets
  <2>3. SocketOK'
    BY <1>1, <1>3, <2>2 DEF SocketOK
  <2>4. SnapshotsAdvance'
    BY <2>2 DEF SnapshotsOK, SnapshotsAdvance
  <2>5. RecordedOK'
    BY <1>1, <2>2 DEF SnapshotsOK, RecordedOK, seen
  <2> QED
    BY <1>1, <1>2, <2>2, <2>3, <2>4, <2>5 DEF SnapshotsOK, seen
<1>7. CASE socket.stage = "transactions"
  <2> DEFINE new == [l1s |-> socket.l1s, transactions |-> seen]
             n == Len(old)
  <2>1. /\ socket.l1s \in Nat /\ socket.l1s <= seen
        /\ old \in Seq([l1s : Nat, transactions : Nat]) /\ n \in Nat
        /\ DOMAIN old = 1 .. n
        /\ \A i \in 1 .. n : /\ old[i].transactions <= seen
                             /\ old[i].transactions <= socket.l1s
                             /\ old[i].l1s <= old[i].transactions
                             /\ i > 1 => old[i - 1].transactions <= old[i].l1s
    BY <1>7, SnapshotTypes DEF SnapshotsOK, RecordedOK, SnapshotsAdvance, seen
  <2>2. socket' = [socket EXCEPT !.stage = "l1s", !.snapshots = Append(old, new)]
    BY <1>4, <1>7 DEF Published
  <2>3. new \in [l1s : Nat, transactions : Nat] /\ new.l1s = socket.l1s /\ new.transactions = seen
    BY <1>2, <2>1
  <2> HIDE DEF new, old, n
  <2>4. Append(old, new) \in Seq([l1s : Nat, transactions : Nat])
    BY <2>1, <2>3
  <2>5. /\ socket' \in Sockets /\ socket'.stage = "l1s" /\ socket'.snapshots = Append(old, new)
    BY <1>3, <2>2, <2>4 DEF Sockets
  <2>6. /\ Len(Append(old, new)) = n + 1 /\ Append(old, new)[n + 1] = new
        /\ \A i \in 1 .. n : Append(old, new)[i] = old[i]
        /\ DOMAIN socket'.snapshots = 1 .. n + 1
    BY <2>1, <2>3, <2>4, <2>5, AppendProperties, LenProperties DEF n
  <2>7. SocketOK'
    BY <1>1, <1>3, <2>5 DEF SocketOK
  <2>8. ASSUME NEW i \in 1 .. n + 1
        PROVE  /\ socket'.snapshots[i].l1s <= socket'.snapshots[i].transactions
               /\ socket'.snapshots[i].transactions <= seen
               /\ i > 1 => socket'.snapshots[i - 1].transactions <= socket'.snapshots[i].l1s
    <3>1. CASE i \in 1 .. n
      <4>1. socket'.snapshots[i] = old[i]
        BY <2>5, <2>6, <3>1
      <4>2. i > 1 => i - 1 \in 1 .. n /\ socket'.snapshots[i - 1] = old[i - 1]
        BY <2>1, <2>5, <2>6, <3>1
      <4> QED
        BY <2>1, <3>1, <4>1, <4>2
    <3>2. CASE i = n + 1
      <4>1. socket'.snapshots[i] = new
        BY <2>5, <2>6, <3>2
      <4>2. i > 1 => i - 1 \in 1 .. n /\ socket'.snapshots[i - 1] = old[i - 1]
        <5>1. i > 1 => i - 1 \in 1 .. n
          BY <2>1, <3>2
        <5> QED
          BY <2>5, <2>6, <5>1
      <4>3. seen <= seen
        BY <1>2
      <4> QED
        BY <2>1, <2>3, <4>1, <4>2, <4>3
    <3> QED
      BY <2>1, <3>1, <3>2
  <2>9. SnapshotsAdvance' /\ RecordedOK'
    BY <1>1, <2>5, <2>6, <2>8 DEF SnapshotsAdvance, RecordedOK, seen
  <2> QED
    BY <2>5, <2>7, <2>9 DEF SnapshotsOK
<1> QED
  BY <1>3, <1>5, <1>6, <1>7

LEMMA SnapshotsStep ==
  ASSUME CallInv, CallInv', [Next]_vars, SnapshotsOK
  PROVE  SnapshotsOK'
<1>1. /\ socket \in Sockets
      /\ WebSocket \in calling => socket.stage # "away"
      /\ acceptor = "handshake" => socket.stage = "away"
      /\ \A x \in Links : x # WebSocket
  BY LinkIsUser DEF SnapshotsOK, SocketOK
<1>2. CASE WsReturn
  BY <1>2, WsReturnRecords
\* The socket rests, and the WebSocket starts no call.
<1>3. ASSUME socket' = socket, WebSocket \in calling' => WebSocket \in calling,
             acceptor' = "handshake" => acceptor = "handshake"
      PROVE  SnapshotsOK'
  <2>1. SocketOK'
    BY <1>1, <1>3 DEF SocketOK
  <2> QED
    BY <1>3, <2>1, SnapshotsRemain
<1>4. CASE AcceptWs
  <2>1. socket' = socket /\ socket.stage = "away" /\ calling' = calling
    BY <1>4 DEF AcceptWs, serviceVars
  <2>2. SocketOK'
    BY <1>1, <2>1 DEF SocketOK
  <2> QED
    BY <2>1, <2>2, SnapshotsRemain
<1>5. CASE WsCall
  <2>1. socket' = socket /\ socket.stage # "away" /\ acceptor' = acceptor
    BY <1>5 DEF WsCall, ServerTasksRest
  <2>2. SocketOK'
    BY <1>1, <2>1 DEF SocketOK
  <2> QED
    BY <2>1, <2>2, SnapshotsRemain
<1>6. CASE HandshakeEnds
  <2>1. PICK stage \in {"away", "assets"} : socket' = [socket EXCEPT !.stage = stage]
    BY <1>6 DEF HandshakeEnds
  <2>2. /\ socket' \in Sockets /\ socket'.stage = stage
        /\ socket'.l1s = socket.l1s /\ socket'.snapshots = socket.snapshots
    BY <1>1, <2>1 DEF Sockets
  <2>3. WebSocket \notin calling' /\ acceptor' = "both"
    BY <1>1, <1>6 DEF HandshakeEnds, serviceVars
  <2>4. SocketOK'
    BY <2>2, <2>3 DEF SocketOK
  <2> QED
    BY <2>2, <2>4, SnapshotsRemain
<1>7. CASE WsCallFails \/ Die
  <2>1. socket' = [socket EXCEPT !.stage = "away"] /\ acceptor' = acceptor
    BY <1>7 DEF WsCallFails, Die, ServerTasksRest
  <2>2. /\ socket' \in Sockets /\ socket'.stage = "away"
        /\ socket'.l1s = socket.l1s /\ socket'.snapshots = socket.snapshots
    BY <1>1, <2>1 DEF Sockets
  <2>3. WebSocket \notin calling'
    BY <1>7 DEF WsCallFails, Die, Service!GiveUp
  <2>4. SocketOK'
    BY <2>1, <2>2, <2>3 DEF SocketOK
  <2> QED
    BY <2>2, <2>4, SnapshotsRemain
<1>8. ASSUME NEW x \in Links, Accept(x) \/ TaskStep(x)
      PROVE  SnapshotsOK'
  <2>1. /\ socket' = socket
        /\ acceptor' = "handshake" => acceptor = "handshake"
    BY <1>8 DEF Accept, TaskStep, ReadFrame, RejectFrame, ReadEnd, Answer, AnswerFails, CallFails,
                ClientsRest
  <2>2. WebSocket \in calling' => WebSocket \in calling
    <3>1. CASE ReadFrame(x)
      BY <1>1, <3>1 DEF ReadFrame, Service!Request
    <3>2. CASE Answer(x) \/ AnswerFails(x) \/ CallFails(x)
      BY <3>2 DEF Answer, AnswerFails, CallFails, Service!Return, Service!GiveUp
    <3>3. CASE RejectFrame(x) \/ ReadEnd(x) \/ Accept(x)
      BY <3>3 DEF RejectFrame, ReadEnd, Accept, serviceVars
    <3> QED
      BY <1>8, <3>1, <3>2, <3>3 DEF TaskStep
  <2> QED
    BY <1>3, <2>1, <2>2
<1>9. ASSUME NEW p \in Clients,
             \/ ClientStep(p) \/ ShortRead(p) \/ Timeout(p) \/ Quit(p)
             \/ \E kind \in Kinds : SendCommands(p, kind)
      PROVE  SnapshotsOK'
  <2>1. ServerRests
    BY <1>9 DEF ClientStep, Connect, Send, SendFails, ReadAnswer, ReadEof, ReadReset, Resume,
                ShortRead, Timeout, Quit, SendCommands
  <2> QED
    BY <1>3, <2>1 DEF ServerRests, serviceVars
<1>10. CASE AcceptFails \/ Execute \/ ThreadPanics \/ Start \/ UNCHANGED vars
  <2>1. /\ socket' = socket /\ calling' = calling
        /\ acceptor' = "handshake" => acceptor = "handshake"
    BY <1>10 DEF AcceptFails, Execute, ThreadPanics, Start, vars, serviceVars, ServerTasksRest,
                 Service!Serve, Service!Crash
  <2> QED
    BY <1>3, <2>1
<1> QED
  BY <1>2, <1>4, <1>5, <1>6, <1>7, <1>8, <1>9, <1>10 DEF Next

(***************************************************************************)
(* The inductive invariant and the theorems.                               *)
(***************************************************************************)
ExecutionInv ==
  /\ ConnectionInv
  /\ TransferInv
  /\ CallInv
  /\ SentOK
  /\ OldLinksOK
  /\ ExecutedOK
  /\ SnapshotsOK

LEMMA ExecutionInit == Init => ExecutionInv
<1> SUFFICES ASSUME Init PROVE ExecutionInv
  OBVIOUS
<1>1. ConnectionInv /\ TransferInv /\ CallInv
  BY ConnectionInitInv, TransferInit, CallInit
<1>2. /\ client = [p \in Clients |-> [state |-> "starting", call |-> 0, kind |-> "plain",
                                      connection |-> 0, late |-> 0, answer |-> 0]]
      /\ sent = [x \in Links |-> <<>>] /\ frames = [x \in Links |-> <<>>]
      /\ socket = [stage |-> "away", l1s |-> 0, snapshots |-> <<>>]
      /\ acceptor = "both" /\ served = <<>> /\ calling = {}
  BY DEF Init, Service!ServiceInit
<1>3. SentOK
  BY <1>2 DEF SentOK, CallsBounded, CallsOrdered
<1>4. OldLinksOK
  <2>1. \A p \in Clients : client[p].state = "starting" /\ client[p].connection = 0
    BY <1>2
  <2>2. ASSUME NEW x \in Links PROVE ~ (x[2] < client[x[1]].connection)
    <3>1. x[1] \in Clients /\ x[2] \in 1 .. MaxConnections
      BY DEF Links
    <3> QED
      BY <2>1, <3>1, ConnectionAssumption
  <2> QED
    BY <2>1, <2>2 DEF OldLinksOK
<1>5. ExecutedOK
  BY <1>2 DEF ExecutedOK, OrderOK, GaplessOK, AnsweredOK
<1>6. SnapshotsOK
  <2>1. socket \in Sockets /\ socket.stage = "away" /\ DOMAIN socket.snapshots = {}
    BY <1>2 DEF Sockets
  <2> QED
    BY <1>2, <2>1 DEF SnapshotsOK, SocketOK, SnapshotsAdvance, RecordedOK
<1> QED
  BY <1>1, <1>3, <1>4, <1>5, <1>6 DEF ExecutionInv

LEMMA ExecutionStep ==
  ASSUME ExecutionInv, [Next]_vars
  PROVE  ExecutionInv'
<1>1. ConnectionInv' /\ TransferInv' /\ CallInv'
  BY ConnectionStep, TransferStep, CallStep DEF ExecutionInv
<1>2. SentOK' /\ OldLinksOK' /\ ExecutedOK'
  BY SentStep, OldLinksStep, ExecutedStep DEF ExecutionInv
<1>3. SnapshotsOK'
  BY <1>1, SnapshotsStep DEF ExecutionInv
<1> QED
  BY <1>1, <1>2, <1>3 DEF ExecutionInv

LEMMA ExecutionInvariant == Spec => []ExecutionInv
BY ExecutionInit, ExecutionStep, PTL DEF Spec

LEMMA PrefixByElements ==
  ASSUME NEW S, NEW s \in Seq(S), NEW t \in Seq(S), Len(s) <= Len(t),
         \A i \in 1 .. Len(s) : s[i] = t[i]
  PROVE  IsPrefix(s, t)
<1>1. SubSeq(s, 1, Len(s)) = SubSeq(t, 1, Len(s))
  OBVIOUS
<1> QED
  BY <1>1 DEF IsPrefix

(***************************************************************************)
(* Whatever times out, breaks or is restarted, and however often a client  *)
(* sends a call again: its buffers are executed in the order in which it   *)
(* sent them, connection after connection, each once and none left out;    *)
(* a call is never executed after the client's next call.                  *)
(***************************************************************************)
THEOREM ExecutionInOrder == Spec => []ExecutedInOrder
<1>1. ASSUME ExecutionInv PROVE ExecutedInOrder
  <2>1. ASSUME NEW x \in Links
        PROVE  /\ IsPrefix(frames[x], sent[x])
               /\ \A n \in 1 .. Len(frames[x]) :
                    n \in 1 .. Len(sent[x]) /\ frames[x][n] = sent[x][n]
    <3>1. /\ frames[x] \in Seq(Frames) /\ sent[x] \in Seq(Frames)
          /\ Len(frames[x]) \in Nat /\ Len(sent[x]) \in Nat
      BY <1>1, LinkTypes, SentTypes DEF ExecutionInv
    <3>2. /\ Len(frames[x]) <= Len(sent[x])
          /\ \A i \in 1 .. Len(frames[x]) : frames[x][i] = sent[x][i]
      BY <1>1 DEF ExecutionInv, TransferInv, TransitOK, InTransit
    <3> QED
      BY <3>1, <3>2, PrefixByElements
  <2>2. ASSUME NEW p \in Clients, NEW i \in Executed(p)
        PROVE  LET x == served[i].client
                   n == served[i].number
               IN  /\ i \in 1 .. Len(served) /\ x \in Links /\ x[1] = p
                   /\ n \in 1 .. Len(sent[x]) /\ ExecutedCall(i) = sent[x][n].call
    <3> DEFINE x == served[i].client
               n == served[i].number
    <3>1. served \in Seq(Requests)
      BY <1>1 DEF ExecutionInv, CallInv, ServiceOK, ServedOK
    <3>2. i \in 1 .. Len(served) /\ x # WebSocket /\ x[1] = p
      BY <3>1, LenProperties DEF Executed
    <3>3. x \in Links
      BY <1>1, <3>2, ServedTypes DEF ExecutionInv, CallInv, Users
    <3>4. n \in Nat /\ 1 <= n /\ n <= latest[x].number /\ latest[x].number = Len(frames[x])
      BY <1>1, <3>2, <3>3, ServedTypes DEF ExecutionInv, CallInv, TasksCall
    <3>5. Len(frames[x]) \in Nat
      BY <1>1, <3>3, SentTypes DEF ExecutionInv
    <3> HIDE DEF x, n
    <3>6. n \in 1 .. Len(frames[x])
      BY <3>4, <3>5
    <3>7. n \in 1 .. Len(sent[x]) /\ frames[x][n] = sent[x][n]
      BY <2>1, <3>3, <3>6
    <3>8. ExecutedCall(i) = frames[x][n].call
      BY DEF ExecutedCall, x, n
    <3> QED
      BY <3>2, <3>3, <3>7, <3>8 DEF x, n
  <2>3. ASSUME NEW p \in Clients, NEW i \in Executed(p), NEW j \in Executed(p), i < j
        PROVE  /\ \/ served[i].client[2] < served[j].client[2]
                  \/ /\ served[i].client[2] = served[j].client[2]
                     /\ served[i].number < served[j].number
               /\ ExecutedCall(i) <= ExecutedCall(j)
    <3> DEFINE x == served[i].client
               y == served[j].client
    <3>1. /\ i \in 1 .. Len(served) /\ j \in 1 .. Len(served)
          /\ x \in Links /\ y \in Links /\ x[1] = p /\ y[1] = p
          /\ served[i].number \in 1 .. Len(sent[x]) /\ served[j].number \in 1 .. Len(sent[y])
          /\ ExecutedCall(i) = sent[x][served[i].number].call
          /\ ExecutedCall(j) = sent[y][served[j].number].call
      BY <2>2
    <3>2. Precedes(served[i], served[j])
      BY <1>1, <2>3, <3>1 DEF ExecutionInv, ExecutedOK, OrderOK
    <3>3. SentBefore(x, served[i].number, y, served[j].number)
      <4>1. CASE x[2] < y[2]
        BY <3>1, <4>1 DEF SentBefore
      <4>2. CASE x[2] = y[2] /\ served[i].number < served[j].number
        <5>1. x = y
          BY <3>1, <4>2 DEF Links
        <5>2. served[i].number <= served[j].number
          BY <3>1, <4>2
        <5> QED
          BY <3>1, <5>1, <5>2 DEF SentBefore
      <4> QED
        BY <3>2, <4>1, <4>2 DEF Precedes
    <3> HIDE DEF x, y
    <3>4. ExecutedCall(i) <= ExecutedCall(j)
      BY <1>1, <3>1, <3>3 DEF ExecutionInv, SentOK, CallsOrdered
    <3> QED
      BY <3>2, <3>4 DEF Precedes
  <2>4. ASSUME NEW p \in Clients, NEW j \in Executed(p), NEW n \in 1 .. served[j].number - 1
        PROVE  \E i \in 1 .. j - 1 : served[i].client = served[j].client /\ served[i].number = n
    BY <1>1, <2>2 DEF ExecutionInv, ExecutedOK, GaplessOK
  <2> QED
    BY <2>1, <2>3, <2>4 DEF ExecutedInOrder
<1> QED
  BY <1>1, ExecutionInvariant, PTL

(***************************************************************************)
(* The two reads that the WebSocket publishes together are separate calls, *)
(* between which clients trade: the transactions are never older than the  *)
(* L1s, and what it publishes later is never older than what it published. *)
(***************************************************************************)
THEOREM SnapshotsNeverRegress == Spec => []SnapshotsAdvance
<1>1. ExecutionInv => SnapshotsAdvance
  BY DEF ExecutionInv, SnapshotsOK
<1> QED
  BY <1>1, ExecutionInvariant, PTL
=============================================================================
