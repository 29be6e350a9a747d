----------------------------- MODULE GrpcServer -----------------------------
(***************************************************************************)
(* The gRPC server: for each connection the request handler and the        *)
(* forwarder that message_stream spawns, and the task that collects the    *)
(* notifications of its listener; and the connection manager, behind a     *)
(* lock that is held while an unregistered connection stops.               *)
(*                                                                         *)
(* The notifier (Notifier) is reduced to the listeners that are subscribed *)
(* and the channel of each.                                                *)
(***************************************************************************)
EXTENDS GrpcStream

VARIABLES handler,     \* where the request handler is, and what it holds
          forwarder,   \* where the forwarder is, and what it holds
          collector,   \* where the collecting task is, and what it holds
          stopRequest, \* the shutdown triggers of the collecting tasks
          sendq,       \* send_channel of each connection
          notes,       \* the channel of each listener
          subscribed,  \* the connections whose listeners get notifications
          connections, \* of the manager
          lock,        \* the task that has its write guard
          events       \* bound

serverVars == <<handler, forwarder, collector, stopRequest, sendq, notes, subscribed, connections, lock, events>>

At(pc) == [pc |-> pc, msg |-> None]
Holds(pc, msg) == [pc |-> pc, msg |-> msg]
Notification == [call |-> None, op |-> "Notification", arg |-> None]
StreamError == [call |-> None, op |-> "Error", arg |-> None]

ServerInit ==
  /\ handler = [c \in Conns |-> At("off")]
  /\ forwarder = [c \in Conns |-> At("off")]
  /\ collector = [c \in Conns |-> At("off")]
  /\ stopRequest = {}
  /\ sendq = [c \in Conns |-> <<>>]
  /\ notes = [c \in Conns |-> 0]
  /\ subscribed = {} /\ connections = {} /\ lock = None /\ events = 0

\* message_stream: register under the lock, and spawn the three tasks.  A
\* connection with the same address is replaced and goes on.
Accept(c) ==
  /\ link[c] # "new" /\ handler[c].pc = "off" /\ lock = None
  /\ connections' = {d \in connections : Address[d] # Address[c]} \union {c}
  /\ handler' = [handler EXCEPT ![c] = At("read")]
  /\ forwarder' = [forwarder EXCEPT ![c] = At("receive")]
  /\ collector' = [collector EXCEPT ![c] = At("receive")]
  /\ UNCHANGED <<streamVars, stopRequest, sendq, notes, subscribed, lock, events>>
-----------------------------------------------------------------------------
(* Notifications                                                           *)

\* Each subscribed listener gets it, even after its connection has ended: that
\* does not unregister the listener, and the listener keeps its receiver alive.
Gone(c) == collector[c].pc = "end"
Broadcast ==
  /\ notes' = [c \in Conns |-> IF c \in subscribed THEN notes[c] + 1 ELSE notes[c]]
  /\ UNCHANGED subscribed

\* An event of the node, such as a block submitted on another connection.
Event ==
  /\ events < MaxEvents /\ subscribed # {}
  /\ events' = events + 1
  /\ Broadcast
  /\ UNCHANGED <<streamVars, handler, forwarder, collector, stopRequest, sendq, connections, lock>>

CollectTake(c) ==
  /\ collector[c].pc = "receive" /\ notes[c] > 0
  /\ notes' = [notes EXCEPT ![c] = @ - 1]
  /\ collector' = [collector EXCEPT ![c] = Holds("send", Notification)]
  /\ UNCHANGED <<streamVars, handler, forwarder, stopRequest, sendq, subscribed, connections, lock, events>>

CollectSend(c) ==
  /\ collector[c].pc = "send" /\ Len(sendq[c]) < SendCap
  /\ sendq' = [sendq EXCEPT ![c] = Append(@, collector[c].msg)]
  /\ collector' = [collector EXCEPT ![c] = At("receive")]
  /\ UNCHANGED <<streamVars, handler, forwarder, stopRequest, notes, subscribed, connections, lock, events>>

\* The shutdown trigger is only waited for where the next one is received.
CollectStop(c) ==
  /\ collector[c].pc = "receive" /\ c \in stopRequest
  /\ collector' = [collector EXCEPT ![c] = At("end")]
  /\ UNCHANGED <<streamVars, handler, forwarder, stopRequest, sendq, notes, subscribed, connections, lock, events>>
-----------------------------------------------------------------------------
(* The request handler                                                     *)

\* Every operation has a response of its own but the ones that are not
\* implemented, which get an error of GetBlock.
get_block_call(q) == [q EXCEPT !.arg = IF q.arg \in Missing THEN q.arg ELSE Dummy]
respond(q) ==
  CASE q.op \in {"SubmitBlock", "GetInfo", "Notify"} -> q
    [] q.op = "GetBlock" -> get_block_call(q)
    [] OTHER -> [q EXCEPT !.op = "GetBlock", !.arg = None]

\* A submitted block is announced, whatever consensus made of it.
HandlerServe(c) ==
  /\ handler[c].pc = "read" /\ up[c] # <<>>
  /\ LET q == Head(up[c])
     IN /\ handler' = [handler EXCEPT ![c] = Holds("reply", respond(q))]
        /\ CASE q.op = "SubmitBlock" -> Broadcast
             [] q.op = "Notify" /\ q.arg = "start" -> subscribed' = subscribed \union {c} /\ UNCHANGED notes
             [] q.op = "Notify" /\ q.arg = "stop" -> subscribed' = subscribed \ {c} /\ UNCHANGED notes
             [] OTHER -> UNCHANGED <<notes, subscribed>>
  /\ up' = [up EXCEPT ![c] = Tail(@)]
  /\ UNCHANGED <<link, down, forwarder, collector, stopRequest, sendq, connections, lock, events>>

\* A failed stream ends after its error was passed on.
HandlerReply(c) ==
  /\ handler[c].pc = "reply" /\ Len(sendq[c]) < SendCap
  /\ sendq' = [sendq EXCEPT ![c] = Append(@, handler[c].msg)]
  /\ handler' = [handler EXCEPT ![c] = At(IF handler[c].msg = StreamError THEN "unregister" ELSE "read")]
  /\ UNCHANGED <<streamVars, forwarder, collector, stopRequest, notes, subscribed, connections, lock, events>>

\* Ok(None) or a broken pipe, or another error.
HandlerEnds(c) ==
  /\ handler[c].pc = "read" /\ link[c] = "closed"
  /\ handler' \in {[handler EXCEPT ![c] = At("unregister")], [handler EXCEPT ![c] = Holds("reply", StreamError)]}
  /\ UNCHANGED <<streamVars, forwarder, collector, stopRequest, sendq, notes, subscribed, connections, lock, events>>
-----------------------------------------------------------------------------
(* The forwarder                                                           *)

ForwardTake(c) ==
  /\ forwarder[c].pc = "receive" /\ sendq[c] # <<>>
  /\ forwarder' = [forwarder EXCEPT ![c] = Holds("send", Head(sendq[c]))]
  /\ sendq' = [sendq EXCEPT ![c] = Tail(@)]
  /\ UNCHANGED <<streamVars, handler, collector, stopRequest, notes, subscribed, connections, lock, events>>

ForwardSend(c) ==
  /\ forwarder[c].pc = "send"
  /\ IF link[c] = "closed" THEN forwarder' = [forwarder EXCEPT ![c] = At("unregister")] /\ UNCHANGED down
     ELSE /\ Len(down[c]) < StreamCap
          /\ forwarder' = [forwarder EXCEPT ![c] = At("receive")]
          /\ down' = [down EXCEPT ![c] = Append(@, forwarder[c].msg)]
  /\ UNCHANGED <<link, up, handler, collector, stopRequest, sendq, notes, subscribed, connections, lock, events>>

\* recv gives None when the handler, the collecting task and the manager have
\* dropped the connection's senders.
ForwardEnds(c) ==
  /\ forwarder[c].pc = "receive" /\ sendq[c] = <<>>
  /\ handler[c].pc = "end" /\ Gone(c) /\ c \notin connections
  /\ forwarder' = [forwarder EXCEPT ![c] = At("end")]
  /\ UNCHANGED <<streamVars, handler, collector, stopRequest, sendq, notes, subscribed, connections, lock, events>>
-----------------------------------------------------------------------------
(* unregister, by the handler or by the forwarder, which then goes on.     *)
(* The lock is held until the collecting task has stopped.                 *)

Task(c, t) == IF t = "handler" THEN handler[c] ELSE forwarder[c]
GoTo(c, t, place) ==
  IF t = "handler" THEN handler' = [handler EXCEPT ![c] = place] /\ UNCHANGED forwarder
  ELSE forwarder' = [forwarder EXCEPT ![c] = place] /\ UNCHANGED handler
After(t) == IF t = "handler" THEN "end" ELSE "receive"

\* The connection with the address of c, usually c.
Named(c) == {d \in connections : Address[d] = Address[c]}

BugUnregister(c, t) ==   \* the collecting task is waited for but not told to stop
  /\ Task(c, t).pc = "unregister" /\ lock = None
  /\ connections' = connections \ Named(c)
  /\ lock' = IF Named(c) = {} THEN None ELSE <<c, t>>
  /\ GoTo(c, t, IF Named(c) = {} THEN At(After(t)) ELSE Holds("stop", Named(c)))
  /\ UNCHANGED <<streamVars, collector, stopRequest, sendq, notes, subscribed, events>>

Unregister(c, t) ==
  /\ Task(c, t).pc = "unregister" /\ lock = None
  /\ connections' = connections \ Named(c)
  /\ stopRequest' = stopRequest \union Named(c)
  /\ lock' = IF Named(c) = {} THEN None ELSE <<c, t>>
  /\ GoTo(c, t, IF Named(c) = {} THEN At(After(t)) ELSE Holds("stop", Named(c)))
  /\ UNCHANGED <<streamVars, collector, sendq, notes, subscribed, events>>

Stopped(c, t) ==
  /\ Task(c, t).pc = "stop" /\ \A d \in Task(c, t).msg : Gone(d)
  /\ lock' = None
  /\ GoTo(c, t, At(After(t)))
  /\ UNCHANGED <<streamVars, collector, stopRequest, sendq, notes, subscribed, connections, events>>

ServerTask(c) ==
  \/ CollectTake(c) \/ CollectSend(c) \/ CollectStop(c)
  \/ HandlerServe(c) \/ HandlerReply(c) \/ HandlerEnds(c)
  \/ ForwardTake(c) \/ ForwardSend(c) \/ ForwardEnds(c)
  \/ \E t \in {"handler", "forwarder"} : Stopped(c, t)
=============================================================================
