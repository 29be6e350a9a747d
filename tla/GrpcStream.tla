----------------------------- MODULE GrpcStream -----------------------------
(***************************************************************************)
(* The message streams between gRPC clients and the server, one for each   *)
(* connection, as tonic provides them: requests flow up and responses and  *)
(* notifications flow down, in order, until the link is lost.              *)
(***************************************************************************)
EXTENDS Naturals, FiniteSets, SequencesExt

CONSTANTS Conns,
          Address,    \* the remote address of each connection
          Calls,      \* the calls that clients may make
          Plans,      \* what the calls may ask, and on which connections
          Dummy,      \* the hash of the one block the server has
          Missing,    \* the hashes it does not find
          ReqCap,     \* room for requests: mpsc::channel(16)
          SendCap,    \* for the responses and notifications of a connection: mpsc::channel(128)
          StreamCap,  \* between the forwarder and tonic: mpsc::channel(10)
          MaxEvents,  \* bound on the events of the node
          Closing,    \* bound: the connections whose clients may be shut down
          None

VARIABLES link, up, down,
          request     \* what each call asks, one of Plans

streamVars == <<link, up, down>>

\* What a client sends: the call is a history entry, only properties read it.
RequestOf(k) == [call |-> k, op |-> request[k].op, arg |-> request[k].arg]
GetInfo == [call |-> None, op |-> "GetInfo", arg |-> None]

StreamInit ==
  /\ request \in Plans
  /\ link = [c \in Conns |-> "new"]
  /\ up = [c \in Conns |-> <<>>]
  /\ down = [c \in Conns |-> <<>>]

\* The client drops its end, or the network fails: what is under way is lost.
Lose(c) ==
  /\ link[c] = "open"
  /\ link' = [link EXCEPT ![c] = "closed"]
  /\ up' = [up EXCEPT ![c] = <<>>]
  /\ down' = [down EXCEPT ![c] = <<>>]
=============================================================================
