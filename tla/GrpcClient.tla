----------------------------- MODULE GrpcClient -----------------------------
(***************************************************************************)
(* The Resolver of the gRPC client of each connection.  Callers push a     *)
(* pending entry, send the request and wait; the receiver task gives each  *)
(* response to the oldest pending call it fits; the timeout monitor solves *)
(* the calls that waited too long.                                         *)
(***************************************************************************)
EXTENDS GrpcStream

VARIABLES client,   \* the connection as Resolver::connect and shutdown see it
          call,     \* of each call: "idle", "pushed", "sent" or "failed"
          answer,   \* what the oneshot channel of each call got
          pending,  \* pending_calls
          monitor, receiver,   \* the two tasks: "off", "running" or "stopped"
          stoppable \* handle_stop_notify, as the server stated it

clientVars == <<client, call, answer, pending, monitor, receiver, stoppable>>

Timeout == [call |-> None, op |-> "Timeout", arg |-> None]

ClientInit ==
  /\ client = [c \in Conns |-> "off"]
  /\ call = [k \in Calls |-> "idle"]
  /\ answer = [k \in Calls |-> None]
  /\ pending = [c \in Conns |-> <<>>]
  /\ monitor = [c \in Conns |-> "off"]
  /\ receiver = [c \in Conns |-> "off"]
  /\ stoppable = [c \in Conns |-> FALSE]
-----------------------------------------------------------------------------
(* connect: GetInfo opens the stream, and its answer is awaited before the *)
(* tasks start.                                                            *)

Connect(c) ==
  /\ client[c] = "off"
  /\ client' = [client EXCEPT ![c] = "connecting"]
  /\ link' = [link EXCEPT ![c] = "open"]
  /\ up' = [up EXCEPT ![c] = <<GetInfo>>]
  /\ UNCHANGED <<down, call, answer, pending, monitor, receiver, stoppable>>

Connected(c) ==
  /\ client[c] = "connecting" /\ down[c] # <<>>
  /\ client' = [client EXCEPT ![c] = "up"]
  /\ stoppable' = [stoppable EXCEPT ![c] = (Head(down[c]).op = "GetInfo")]
  /\ monitor' = [monitor EXCEPT ![c] = "running"]
  /\ receiver' = [receiver EXCEPT ![c] = "running"]
  /\ down' = [down EXCEPT ![c] = Tail(@)]
  /\ UNCHANGED <<link, up, call, answer, pending>>

ConnectFails(c) ==
  /\ client[c] = "connecting" /\ link[c] = "closed"
  /\ client' = [client EXCEPT ![c] = "down"]
  /\ UNCHANGED <<streamVars, call, answer, pending, monitor, receiver, stoppable>>
-----------------------------------------------------------------------------
(* call, and the subscriptions that are calls                              *)

\* stop_notify is refused where the server does not support it.
Allowed(k) == request[k].op = "Notify" /\ request[k].arg = "stop" => stoppable[request[k].conn]

Push(k) ==
  LET c == request[k].conn
  IN /\ call[k] = "idle" /\ client[c] = "up" /\ Allowed(k)
     /\ call' = [call EXCEPT ![k] = "pushed"]
     /\ pending' = [pending EXCEPT ![c] = Append(@, k)]
     /\ UNCHANGED <<streamVars, client, answer, monitor, receiver, stoppable>>

\* The request goes into the channel after the pending entry was unlocked; a
\* closed channel fails the call, whose entry stays.
Send(k) ==
  LET c == request[k].conn
  IN /\ call[k] = "pushed"
     /\ IF link[c] = "closed"
        THEN call' = [call EXCEPT ![k] = "failed"] /\ UNCHANGED up
        ELSE /\ Len(up[c]) < ReqCap
             /\ call' = [call EXCEPT ![k] = "sent"]
             /\ up' = [up EXCEPT ![c] = Append(@, RequestOf(k))]
     /\ UNCHANGED <<link, down, client, answer, pending, monitor, receiver, stoppable>>

Returned(k) == call[k] = "failed" \/ (call[k] = "sent" /\ answer[k] # None)
-----------------------------------------------------------------------------
(* spawn_request_timeout_monitor                                           *)

Waiting(c) == {pending[c][i] : i \in DOMAIN pending[c]}

BugTick(c, expired) ==   \* the monitor ends with the stream
  /\ monitor[c] = "running" /\ link[c] = "open"
  /\ pending' = [pending EXCEPT ![c] = SelectSeq(@, LAMBDA k : k \notin expired)]
  /\ answer' = [k \in Calls |-> IF k \in expired THEN Timeout ELSE answer[k]]
  /\ UNCHANGED <<streamVars, client, call, monitor, receiver, stoppable>>

\* The calls that have waited longer than the timeout by now.
Tick(c, expired) ==
  /\ monitor[c] = "running"
  /\ pending' = [pending EXCEPT ![c] = SelectSeq(@, LAMBDA k : k \notin expired)]
  /\ answer' = [k \in Calls |-> IF k \in expired THEN Timeout ELSE answer[k]]
  /\ UNCHANGED <<streamVars, client, call, monitor, receiver, stoppable>>
-----------------------------------------------------------------------------
(* The receiver task                                                       *)

BugIsMatching(k, response) == request[k].op = response.op   \* whatever the hash

\* The operation, and for GetBlock the hash of the block or in the error.
is_matching(k, response) ==
  /\ request[k].op = response.op
  /\ response.op = "GetBlock" => request[k].arg = response.arg

handle_response(c, response) ==
  LET fits == {i \in DOMAIN pending[c] : is_matching(pending[c][i], response)}
  IN IF response.op = "Notification" \/ fits = {} THEN UNCHANGED <<pending, answer>>
     ELSE LET i == Min(fits)
          IN /\ pending' = [pending EXCEPT ![c] = RemoveAt(@, i)]
             /\ answer' = [answer EXCEPT ![pending[c][i]] = response]

Receive(c) ==
  /\ receiver[c] = "running" /\ down[c] # <<>>
  /\ handle_response(c, Head(down[c]))
  /\ down' = [down EXCEPT ![c] = Tail(@)]
  /\ UNCHANGED <<link, up, client, call, monitor, receiver, stoppable>>

\* The stream is closed, which nobody is told of.
StreamEnds(c) ==
  /\ receiver[c] = "running" /\ link[c] = "closed"
  /\ receiver' = [receiver EXCEPT ![c] = "stopped"]
  /\ UNCHANGED <<streamVars, client, call, answer, pending, monitor, stoppable>>
-----------------------------------------------------------------------------
(* shutdown: the monitor first, then the receiver where it still runs      *)

Shutdown(c) ==
  /\ c \in Closing /\ client[c] = "up"
  /\ client' = [client EXCEPT ![c] = "stopping"]
  /\ UNCHANGED <<streamVars, call, answer, pending, monitor, receiver, stoppable>>

StopMonitor(c) ==
  /\ client[c] = "stopping" /\ monitor[c] = "running"
  /\ monitor' = [monitor EXCEPT ![c] = "stopped"]
  /\ UNCHANGED <<streamVars, client, call, answer, pending, receiver, stoppable>>

StopReceiver(c) ==
  /\ client[c] = "stopping" /\ monitor[c] = "stopped" /\ receiver[c] = "running"
  /\ receiver' = [receiver EXCEPT ![c] = "stopped"]
  /\ UNCHANGED <<streamVars, client, call, answer, pending, monitor, stoppable>>

ShutdownEnds(c) ==
  /\ client[c] = "stopping" /\ monitor[c] = "stopped" /\ receiver[c] = "stopped"
  /\ client' = [client EXCEPT ![c] = "down"]
  /\ UNCHANGED <<streamVars, call, answer, pending, monitor, receiver, stoppable>>

ClientTask(c) ==
  \/ Connected(c) \/ ConnectFails(c) \/ Receive(c) \/ StreamEnds(c)
  \/ StopMonitor(c) \/ StopReceiver(c) \/ ShutdownEnds(c)
=============================================================================
