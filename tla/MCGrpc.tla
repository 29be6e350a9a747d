-------------------------------- MODULE MCGrpc ------------------------------
(* One client that makes several calls at once; and two connections with   *)
(* channels that fill up.                                                  *)
EXTENDS Grpc, TLC

Q(conn, op, arg) == [conn |-> conn, op |-> op, arg |-> arg]

MCAddress == [c \in Conns |-> c]
Submit == Q("c1", "SubmitBlock", None)
GetBlock(h) == Q("c1", "GetBlock", h)
Notify(command) == Q("c1", "Notify", command)
Network == Q("c1", "GetCurrentNetwork", None)

MCPlans == {<<Submit, Submit>>, <<GetBlock("h1"), GetBlock("h2")>>, <<Notify("start"), Notify("stop")>>, <<Submit, Network>>}
FullPlans == {<<Notify("start")>>}
=============================================================================
