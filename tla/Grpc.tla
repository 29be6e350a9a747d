-------------------------------- MODULE Grpc --------------------------------
(* The gRPC clients and the server over their streams.                     *)
EXTENDS GrpcClient, GrpcServer

vars == <<request, streamVars, clientVars, serverVars>>

ServerIdle == UNCHANGED <<request, serverVars>>
ClientIdle == UNCHANGED <<request, clientVars>>

Init == StreamInit /\ ClientInit /\ ServerInit

TimesOut(k) ==
  LET c == request[k].conn IN \E expired \in SUBSET Waiting(c) : k \in expired /\ Tick(c, expired)

\* The receiver task owns the client's end of the stream.
Dropped(c) == receiver[c] = "stopped" /\ Lose(c)

(* What the tasks of tokio do when they are ready, and time passing.       *)
Progress ==
  \/ \E c \in Conns : ClientTask(c) /\ ServerIdle
  \/ \E c \in Conns : Dropped(c) /\ UNCHANGED <<request, clientVars, serverVars>>
  \/ \E k \in Calls : (Send(k) \/ TimesOut(k)) /\ ServerIdle
  \/ \E c \in Conns : (Accept(c) \/ ServerTask(c) \/ \E t \in {"handler", "forwarder"} : Unregister(c, t)) /\ ClientIdle

(* Clients connect, call, shut down and leave as they like.                *)
Environment ==
  \/ \E c \in Conns : (Connect(c) \/ Shutdown(c)) /\ ServerIdle
  \/ \E k \in Calls : Push(k) /\ ServerIdle
  \/ \E c \in Conns : Lose(c) /\ UNCHANGED <<request, clientVars, serverVars>>
  \/ Event /\ ClientIdle

Next == Progress \/ Environment

(* The runtime does not stop while a task is ready.                        *)
Spec == Init /\ [][Next]_vars /\ WF_vars(Progress)
-----------------------------------------------------------------------------
Answered(k) == answer[k] \notin {None, Timeout}
SameKind(j, k) == request[j].conn = request[k].conn /\ request[j].op = request[k].op
                  /\ (request[k].op = "GetBlock" => request[j].arg = request[k].arg)

(* Responses carry no id, yet each is given to one call at most, and to the *)
(* call it answers unless another call of the same kind is concurrent with  *)
(* it or has timed out; a block is never given to a call for another one.   *)
AnswersFit ==
  /\ \A k \in Calls : Answered(k) =>
       LET j == answer[k].call
       IN /\ j # None /\ SameKind(j, k)
          /\ request[k].op = "GetBlock" => answer[k].arg = request[k].arg
          /\ j # k => answer[j] = Timeout \/ call[j] = "failed" \/ answer[j] = None \/ answer[j].call # j
  /\ \A j, k \in Calls : j # k /\ Answered(j) /\ Answered(k) => answer[j].call # answer[k].call

(* Every call returns, with a response, an error or a timeout, even when    *)
(* the link is lost, when its response fits no call, or when another call   *)
(* was given its response; unless the client is shut down meanwhile.        *)
CallsReturn ==
  \A k \in Calls : call[k] = "pushed" ~> (Returned(k) \/ client[request[k].conn] \in {"stopping", "down"})

(* When the link is lost or the client's receiver task has ended, the       *)
(* connection is removed from the manager, its three tasks end, and         *)
(* the manager's lock is free again, whichever task notices first and       *)
(* whatever is still to be sent, as long as the channel has room for it.    *)
ConnectionsEnd ==
  \A c \in Conns : (link[c] = "closed" \/ receiver[c] = "stopped") ~>
    (c \notin connections /\ handler[c].pc = "end" /\ forwarder[c].pc = "end" /\ collector[c].pc = "end" /\ lock = None)

(* "If sending failed, then remove the connection from connection manager". *)
SendFailureRemoves == \A c \in Conns : (forwarder[c].pc = "unregister") ~> (c \notin connections)
=============================================================================
