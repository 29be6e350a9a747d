----------------------------- MODULE MCNotifier -----------------------------
(* Small instances of the notification layer for TLC.  A passing instance  *)
(* has two families of behaviours: "listeners", where clients come and go  *)
(* while the services stay up and one event is used, and "shutdown", where *)
(* one client uses all events and the exit may be signalled at any time.   *)
EXTENDS Notifier

CONSTANTS Lone,   \* the client of the shutdown family
          Bounds  \* per family, the bounds on calls and on notifications

VARIABLE family

UtxosChangedOnly == <<"UtxosChanged">>
AllEvents        == <<"BlockAdded", "UtxosChanged">>

MCBounds       == [listeners |-> [calls |-> 3, sent |-> 1], shutdown |-> [calls |-> 2, sent |-> 1]]
MutationBounds == [shutdown |-> [calls |-> 2, sent |-> 1]]

\* What clients, the node and the exit signal may do in a family.
Allowed ==
    /\ calls' <= Bounds[family].calls
    /\ sent' <= Bounds[family].sent
    /\ family = "listeners" =>
          /\ stopping'["grpc"] \in {<<"new">>, <<"up">>}
          /\ \A c \in Clients : "UtxosChanged" \in Events => ~ listener'[c].active["UtxosChanged"]
          /\ "UtxosChanged" \in Events => dispatch'[<<"core", "UtxosChanged">>] = <<>>
    /\ family = "shutdown" => \A c \in Clients \ {Lone} : listener'[c].state = "unknown"

MCInit == Init /\ family \in DOMAIN Bounds
MCNext == Next /\ Allowed /\ UNCHANGED family
MCSpec == MCInit /\ [][MCNext]_<<vars, family>> /\ Fairness
=============================================================================
