--------------------------- MODULE CommandService ---------------------------
(***************************************************************************)
(* What ExchangeClient::send_commands promises its callers: a call is      *)
(* served at most once, as a whole, at one moment between the call and its *)
(* return, and only a call that was served returns.  The service may crash *)
(* once; a call that was not served by then is lost, and its caller, like  *)
(* one that goes away, gives up.                                           *)
(***************************************************************************)
EXTENDS Integers, SequencesExt

CONSTANTS Clients, BufferSizes

VARIABLES
  latest,   \* the latest call of each client
  calling,  \* clients that wait for their latest call to return
  pending,  \* calls that may still be served
  served,   \* the calls that were served, in order
  up        \* FALSE once the service has crashed

serviceVars == <<latest, calling, pending, served, up>>

CallOf(c, number, size) == [client |-> c, number |-> number, size |-> size]

ServiceInit ==
  /\ latest = [c \in Clients |-> CallOf(c, 0, 0)]
  /\ calling = {}
  /\ pending = {}
  /\ served = <<>>
  /\ up = TRUE

Request(c, size) ==
  /\ c \notin calling
  /\ latest' = [latest EXCEPT ![c] = CallOf(c, @.number + 1, size)]
  /\ calling' = calling \cup {c}
  /\ pending' = pending \cup {latest'[c]}
  /\ UNCHANGED <<served, up>>

Serve(request) ==
  /\ up
  /\ pending' = pending \ {request}
  /\ served' = Append(served, request)
  /\ UNCHANGED <<latest, calling, up>>

Return(c) ==
  /\ c \in calling
  /\ latest[c] \in ToSet(served)
  /\ calling' = calling \ {c}
  /\ UNCHANGED <<latest, pending, served, up>>

\* The call of a client that is gone is served, or it never gets that far.
GiveUp(c) ==
  /\ c \in calling
  /\ calling' = calling \ {c}
  /\ pending' \in {pending, pending \ {latest[c]}}
  /\ UNCHANGED <<latest, served, up>>

Crash ==
  /\ up
  /\ up' = FALSE
  /\ pending' \in SUBSET pending
  /\ UNCHANGED <<latest, calling, served>>

ServiceNext ==
  \/ \E c \in Clients, size \in BufferSizes : Request(c, size)
  \/ \E request \in pending : Serve(request)
  \/ \E c \in Clients : Return(c) \/ GiveUp(c)
  \/ Crash

ServiceSpec == ServiceInit /\ [][ServiceNext]_serviceVars
=============================================================================
