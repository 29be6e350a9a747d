------------------------------ MODULE Notifier ------------------------------
(***************************************************************************)
(* The notification layer of the RPC services: two notifiers in a row.     *)
(* The core notifier is fed by the node and serves, among others, the gRPC *)
(* service.  The gRPC notifier is fed, through its collector, by what the  *)
(* core notifier sends it, serves the clients, and through its subscriber  *)
(* asks the core notifier for exactly the events its clients listen to.    *)
(*                                                                         *)
(* Every notifier has one dispatcher task per event type, with a channel   *)
(* of its own and a private table of the listeners to serve.  Of the nine  *)
(* event types the code tells one apart, UtxosChanged, whose listeners     *)
(* choose addresses; the others are one event here, BlockAdded.            *)
(***************************************************************************)
EXTENDS Naturals, Sequences, Functions

CONSTANTS EventArray,       \* EVENT_TYPE_ARRAY, or a part of it
          Clients,          \* listener ids of the gRPC notifier
          Grpc,             \* the listener id of the gRPC service in the core notifier
          Addresses,        \* UTXO addresses
          MaxCalls,         \* bound on start_notify and stop_notify calls of clients
          MaxNotifications  \* bound on notifications of the node

ASSUME NotifierAssumption ==
    /\ Grpc \notin Clients
    /\ EventArray # <<>>
    /\ Range(EventArray) \subseteq {"BlockAdded", "UtxosChanged"}
    /\ {MaxCalls, MaxNotifications} \subseteq Nat

Events      == Range(EventArray)
Ids         == Clients \cup {Grpc}
Notifiers   == {"core", "grpc"}
Dispatchers == Notifiers \X Events

VARIABLES
    listener,   \* listeners: registration state, events and addresses of an id
    channel,    \* what was sent to the channel of an id and not yet collected
    dispatch,   \* dispatcher_channel, one per notifier and event
    table,      \* the dispatcher's map: the addresses its listeners are served
    dispatcher, \* "new", "running" or "ended"
    subscribe,  \* subscribe_channel of the gRPC notifier's subscriber
    subscriber, \* "new", "running" or "ended"
    collector,  \* per notifier: "new", "running", "asked" or "ended"
    stopping,   \* per notifier: where its stop is
    calls,      \* calls of clients so far
    sent        \* notifications of the node so far

tasks == <<dispatcher, subscriber, collector, stopping>>
vars  == <<listener, channel, dispatch, table, subscribe, tasks, calls, sent>>

----------------------------------------------------------------------------
(* Messages *)

Send(n)        == [type |-> "Send", notification |-> n]
AddListener(i, side) == [type |-> "AddListener", id |-> i, side |-> side]
RemoveListener(i)    == [type |-> "RemoveListener", id |-> i]
Shutdown       == [type |-> "Shutdown"]
StartEvent(e)  == [type |-> "StartEvent", event |-> e]
StopEvent(e)   == [type |-> "StopEvent", event |-> e]

----------------------------------------------------------------------------
(* Listeners *)

Home(i) == IF i = Grpc THEN "core" ELSE "grpc"

NewListener == [state |-> "registered", active |-> [e \in Events |-> FALSE], addresses |-> {}]

\* What the sender side of a listener lets through: the core notifier
\* is set to All, the gRPC notifier to FilteredByAddress.
ListenerSenderSide(i, l, e) ==
    IF e = "UtxosChanged" /\ Home(i) = "grpc" THEN l.addresses ELSE Addresses

\* Listener::toggle: the new listener, and whether it reports a change.
Toggle(l, e, addresses, active) ==
    IF e = "UtxosChanged"
      THEN [listener |-> [l EXCEPT !.active[e] = active, !.addresses = addresses],
            changed  |-> addresses # l.addresses]
      ELSE [listener |-> [l EXCEPT !.active[e] = active],
            changed  |-> active # l.active[e]]

\* stop_notify tells nothing to the dispatcher.
BugSetNotify(i, e, addresses, active) ==
    LET t == Toggle(listener[i], e, addresses, active)
    IN  /\ listener' = [listener EXCEPT ![i] = t.listener]
        /\ dispatch' = IF t.changed /\ active
             THEN [dispatch EXCEPT ![<<Home(i), e>>] =
                     Append(@, AddListener(i, ListenerSenderSide(i, t.listener, e)))]
             ELSE dispatch

\* start_notify and stop_notify under the lock of the listeners.
SetNotify(i, e, addresses, active) ==
    LET t == Toggle(listener[i], e, addresses, active)
    IN  IF listener[i].state # "registered"
          THEN UNCHANGED <<listener, dispatch>>
          ELSE /\ listener' = [listener EXCEPT ![i] = t.listener]
               /\ dispatch' = IF t.changed
                    THEN [dispatch EXCEPT ![<<Home(i), e>>] = Append(@,
                            IF active
                              THEN AddListener(i, ListenerSenderSide(i, t.listener, e))
                              ELSE RemoveListener(i))]
                    ELSE dispatch

AddressChoices(e) == IF e = "UtxosChanged" THEN SUBSET Addresses ELSE {{}}

----------------------------------------------------------------------------
(* Calls of clients, and notifications of the node *)

RegisterNewListener(c) ==
    /\ listener[c].state = "unknown"
    /\ listener' = [listener EXCEPT ![c] = NewListener]
    /\ UNCHANGED <<channel, dispatch, table, subscribe, tasks, calls, sent>>

StartNotify(c, e, addresses) ==
    /\ calls < MaxCalls
    /\ listener[c].state = "registered"
    /\ SetNotify(c, e, addresses, TRUE)
    /\ calls' = calls + 1
    /\ UNCHANGED <<channel, table, subscribe, tasks, sent>>

StopNotify(c, e, addresses) ==
    /\ calls < MaxCalls
    /\ listener[c].state = "registered"
    /\ SetNotify(c, e, addresses, FALSE)
    /\ calls' = calls + 1
    /\ UNCHANGED <<channel, table, subscribe, tasks, sent>>

\* unregister_listener removes the listener under the lock.  The calls of
\* stop_notify that follow look it up again, do not find it, and do nothing;
\* then the channel is closed.
UnregisterListener(i) ==
    /\ listener[i].state = "registered"
    /\ listener' = [listener EXCEPT ![i].state = "removed"]
    /\ UNCHANGED <<channel, dispatch, table, subscribe, tasks, calls, sent>>

CloseListener(i) ==
    /\ listener[i].state = "removed"
    /\ listener' = [listener EXCEPT ![i].state = "closed"]
    /\ UNCHANGED <<channel, dispatch, table, subscribe, tasks, calls, sent>>

Notify(e, a) ==
    /\ sent < MaxNotifications
    /\ sent' = sent + 1
    /\ dispatch' = [dispatch EXCEPT ![<<"core", e>>] =
            Append(@, Send([event |-> e, number |-> sent + 1, address |-> a]))]
    /\ UNCHANGED <<listener, channel, table, subscribe, tasks, calls>>

----------------------------------------------------------------------------
(* The dispatcher task of a notifier and an event *)

NextMessage(d, type) ==
    /\ dispatcher[d] = "running"
    /\ dispatch[d] # <<>>
    /\ Head(dispatch[d]).type = type
    /\ dispatch' = [dispatch EXCEPT ![d] = Tail(@)]

ReportAllChanges(d) == d = <<"grpc", "UtxosChanged">>

\* The last listener's leaving is not passed on.
BugFeedback(d, needed) ==
    subscribe' = IF needed /\ d[1] = "grpc" /\ DOMAIN table'[d] # {}
                   THEN Append(subscribe, StartEvent(d[2])) ELSE subscribe

\* What the top of the loop sends to the subscriber, if there is one.
Feedback(d, needed) ==
    subscribe' = IF d[1] = "grpc" /\ (needed \/ ReportAllChanges(d))
                   THEN Append(subscribe, IF DOMAIN table'[d] # {} THEN StartEvent(d[2])
                                                                   ELSE StopEvent(d[2]))
                   ELSE subscribe

\* A listener that is gone ends the round before the others are served.
BugDispatchSend(d) ==
    LET n       == Head(dispatch[d]).notification
        matches == {i \in DOMAIN table[d] : n.address \in table[d][i]}
        purge   == {i \in matches : listener[i].state = "closed"}
    IN  /\ NextMessage(d, "Send")
        /\ channel' = [i \in Ids |-> IF purge = {} /\ i \in matches THEN Append(channel[i], n)
                                                                    ELSE channel[i]]
        /\ table' = [table EXCEPT ![d] = Restrict(@, DOMAIN @ \ purge)]
        /\ Feedback(d, purge # {} /\ purge = DOMAIN table[d])
        /\ UNCHANGED <<listener, tasks, calls, sent>>

DispatchSend(d) ==
    LET n       == Head(dispatch[d]).notification
        matches == {i \in DOMAIN table[d] : n.address \in table[d][i]}
        purge   == {i \in matches : listener[i].state = "closed"}
    IN  /\ NextMessage(d, "Send")
        /\ channel' = [i \in Ids |-> IF i \in matches \ purge THEN Append(channel[i], n)
                                                              ELSE channel[i]]
        /\ table' = [table EXCEPT ![d] = Restrict(@, DOMAIN @ \ purge)]
        /\ Feedback(d, purge # {} /\ purge = DOMAIN table[d])
        /\ UNCHANGED <<listener, tasks, calls, sent>>

DispatchAddListener(d) ==
    LET m == Head(dispatch[d])
    IN  /\ NextMessage(d, "AddListener")
        /\ table' = [table EXCEPT ![d] = [i \in DOMAIN @ \cup {m.id} |->
                                            IF i = m.id THEN m.side ELSE @[i]]]
        /\ Feedback(d, DOMAIN table[d] = {})
        /\ UNCHANGED <<listener, channel, tasks, calls, sent>>

DispatchRemoveListener(d) ==
    /\ NextMessage(d, "RemoveListener")
    /\ table' = [table EXCEPT ![d] = Restrict(@, DOMAIN @ \ {Head(dispatch[d]).id})]
    /\ Feedback(d, DOMAIN table'[d] = {})
    /\ UNCHANGED <<listener, channel, tasks, calls, sent>>

DispatchShutdown(d) ==
    /\ NextMessage(d, "Shutdown")
    /\ dispatcher' = [dispatcher EXCEPT ![d] = "ended"]
    /\ UNCHANGED <<listener, channel, table, subscribe, subscriber, collector,
                   stopping, calls, sent>>

Dispatch(d) ==
    \/ DispatchSend(d)
    \/ DispatchAddListener(d)
    \/ DispatchRemoveListener(d)
    \/ DispatchShutdown(d)

----------------------------------------------------------------------------
(* The collecting task, and the subscription receiver *)

\* Only the collector of the gRPC notifier has a source that anything is
\* sent to.  The task selects among what is ready, so it may still forward
\* after its shutdown was asked for.
Collect ==
    /\ collector["grpc"] \in {"running", "asked"}
    /\ channel[Grpc] # <<>>
    /\ channel' = [channel EXCEPT ![Grpc] = Tail(@)]
    /\ LET n == Head(channel[Grpc])
       IN  dispatch' = [dispatch EXCEPT ![<<"grpc", n.event>>] = Append(@, Send(n))]
    /\ UNCHANGED <<listener, table, subscribe, tasks, calls, sent>>

EndCollector(n) ==
    /\ collector[n] = "asked"
    /\ collector' = [collector EXCEPT ![n] = "ended"]
    /\ UNCHANGED <<listener, channel, dispatch, table, dispatcher, subscribe, subscriber,
                   stopping, calls, sent>>

\* The event travels up as a notification type with no addresses.
Subscribe ==
    LET m == Head(subscribe)
    IN  /\ subscriber = "running"
        /\ subscribe # <<>>
        /\ m.type \in {"StartEvent", "StopEvent"}
        /\ SetNotify(Grpc, m.event, {}, m.type = "StartEvent")
        /\ subscribe' = Tail(subscribe)
        /\ UNCHANGED <<channel, table, tasks, calls, sent>>

EndSubscriber ==
    /\ subscriber = "running"
    /\ subscribe # <<>>
    /\ Head(subscribe) = Shutdown
    /\ subscribe' = Tail(subscribe)
    /\ subscriber' = "ended"
    /\ UNCHANGED <<listener, channel, dispatch, table, dispatcher, collector, stopping,
                   calls, sent>>

----------------------------------------------------------------------------
(* Starting and stopping the services.  Both are stopped at once, after   *)
(* both were started.                                                      *)

Start(n) ==
    /\ stopping[n] = <<"new">>
    /\ stopping' = [stopping EXCEPT ![n] = <<"up">>]
    /\ dispatcher' = [d \in Dispatchers |-> IF d[1] = n THEN "running" ELSE dispatcher[d]]
    /\ collector' = [collector EXCEPT ![n] = "running"]
    /\ subscriber' = IF n = "grpc" THEN "running" ELSE subscriber
    /\ UNCHANGED <<listener, channel, dispatch, table, subscribe, calls, sent>>

Exit ==
    /\ stopping = [n \in Notifiers |-> <<"up">>]
    /\ stopping' = [n \in Notifiers |-> IF n = "grpc" THEN <<"unsubscribe", 1>> ELSE <<"collector">>]
    /\ UNCHANGED <<listener, channel, dispatch, table, dispatcher, subscribe, subscriber,
                   collector, calls, sent>>

Stopping(n, from, to) == stopping[n] = from /\ stopping' = [stopping EXCEPT ![n] = to]

\* GrpcService::stop first withdraws every event from the core notifier.
StopUnsubscribe(k) ==
    /\ Stopping("grpc", <<"unsubscribe", k>>,
                IF k < Len(EventArray) THEN <<"unsubscribe", k + 1>> ELSE <<"collector">>)
    /\ SetNotify(Grpc, EventArray[k], {}, FALSE)
    /\ UNCHANGED <<channel, table, dispatcher, subscribe, subscriber, collector, calls, sent>>

StopCollector(n) ==
    /\ Stopping(n, <<"collector">>, <<"collecting">>)
    /\ collector' = [collector EXCEPT ![n] = "asked"]
    /\ UNCHANGED <<listener, channel, dispatch, table, dispatcher, subscribe, subscriber,
                   calls, sent>>

\* Every Shutdown goes to the dispatcher of the first event.
BugStopDispatcher(n, k) ==
    /\ IF k = 1 THEN collector[n] = "ended" ELSE dispatcher[<<n, EventArray[k - 1]>>] = "ended"
    /\ Stopping(n, IF k = 1 THEN <<"collecting">> ELSE <<"dispatcher", k - 1>>, <<"dispatcher", k>>)
    /\ dispatch' = [dispatch EXCEPT ![<<n, EventArray[1]>>] = Append(@, Shutdown)]
    /\ UNCHANGED <<listener, channel, table, dispatcher, subscribe, subscriber, collector,
                   calls, sent>>

\* stop_dispatcher_task: a Shutdown to the dispatcher of one event, and the
\* wait for it, before the next.
StopDispatcher(n, k) ==
    /\ IF k = 1 THEN collector[n] = "ended" ELSE dispatcher[<<n, EventArray[k - 1]>>] = "ended"
    /\ Stopping(n, IF k = 1 THEN <<"collecting">> ELSE <<"dispatcher", k - 1>>, <<"dispatcher", k>>)
    /\ dispatch' = [dispatch EXCEPT ![<<n, EventArray[k]>>] = Append(@, Shutdown)]
    /\ UNCHANGED <<listener, channel, table, dispatcher, subscribe, subscriber, collector,
                   calls, sent>>

StopSubscriber ==
    /\ dispatcher[<<"grpc", EventArray[Len(EventArray)]>>] = "ended"
    /\ Stopping("grpc", <<"dispatcher", Len(EventArray)>>, <<"subscriber">>)
    /\ subscribe' = Append(subscribe, Shutdown)
    /\ UNCHANGED <<listener, channel, dispatch, table, dispatcher, subscriber, collector,
                   calls, sent>>

\* GrpcService::finalize unregisters the service from the core notifier and
\* closes its channel.
Finalize ==
    /\ subscriber = "ended"
    /\ Stopping("grpc", <<"subscriber">>, <<"down">>)
    /\ listener' = [listener EXCEPT ![Grpc].state = "closed"]
    /\ UNCHANGED <<channel, dispatch, table, dispatcher, subscribe, subscriber, collector,
                   calls, sent>>

CoreStopped ==
    /\ dispatcher[<<"core", EventArray[Len(EventArray)]>>] = "ended"
    /\ Stopping("core", <<"dispatcher", Len(EventArray)>>, <<"down">>)
    /\ UNCHANGED <<listener, channel, dispatch, table, dispatcher, subscribe, subscriber,
                   collector, calls, sent>>

Stop ==
    \/ StopSubscriber \/ Finalize \/ CoreStopped
    \/ \E k \in DOMAIN EventArray : StopUnsubscribe(k) \/ \E n \in Notifiers : StopDispatcher(n, k)
    \/ \E n \in Notifiers : StopCollector(n)

----------------------------------------------------------------------------

Init ==
    /\ listener = [i \in Ids |-> IF i = Grpc THEN NewListener
                                             ELSE [NewListener EXCEPT !.state = "unknown"]]
    /\ channel = [i \in Ids |-> <<>>]
    /\ dispatch = [d \in Dispatchers |-> <<>>]
    /\ table = [d \in Dispatchers |-> <<>>]
    /\ dispatcher = [d \in Dispatchers |-> "new"]
    /\ subscribe = <<>>
    /\ subscriber = "new"
    /\ collector = [n \in Notifiers |-> "new"]
    /\ stopping = [n \in Notifiers |-> <<"new">>]
    /\ calls = 0
    /\ sent = 0

Next ==
    \/ \E c \in Clients : \/ RegisterNewListener(c)
                          \/ UnregisterListener(c)
                          \/ CloseListener(c)
                          \/ \E e \in Events : \E a \in AddressChoices(e) :
                                StartNotify(c, e, a) \/ StopNotify(c, e, a)
    \/ \E e \in Events, a \in Addresses : Notify(e, a)
    \/ \E d \in Dispatchers : Dispatch(d)
    \/ Collect
    \/ Subscribe
    \/ EndSubscriber
    \/ \E n \in Notifiers : Start(n) \/ EndCollector(n)
    \/ Exit
    \/ Stop

Spec == Init /\ [][Next]_vars

\* What the runtime does without being asked: it polls its tasks, and what was
\* begun goes on.
Progress ==
    \/ \E d \in Dispatchers : Dispatch(d)
    \/ \E n \in Notifiers : Start(n) \/ EndCollector(n)
    \/ Collect \/ Subscribe \/ EndSubscriber \/ Stop
    \/ \E i \in Ids : CloseListener(i)

\* As long as a task can go on, some task does.  This is less than the runtime
\* gives, which polls each of them.
Fairness == WF_vars(Progress)

----------------------------------------------------------------------------
(* Properties *)

\* A dispatcher that has worked off its channel serves exactly the listeners
\* that are registered for its event, whatever order the calls of clients,
\* the purges of closed listeners and the messages took (start_notify,
\* stop_notify and spawn_dispatcher_task).  Not claimed for UtxosChanged.
TableExact ==
    \A d \in Dispatchers, i \in Ids :
        (/\ d = <<Home(i), "BlockAdded">>
         /\ dispatch[d] = <<>>
         /\ listener[i].state = "registered")
        => (i \in DOMAIN table[d] <=> listener[i].active[d[2]])

\* While the service is up and its subscriber has worked off its messages,
\* the gRPC service is registered in the core notifier for an event exactly
\* when its own dispatcher of that event has listeners: the feedback sent on
\* the first and the last listener is neither lost nor reordered.
FeedbackExact ==
    \A d \in {<<"grpc", "BlockAdded">>} \cap Dispatchers :
        (/\ stopping["grpc"] = <<"up">>
         /\ \A k \in DOMAIN subscribe : subscribe[k].event # d[2])
        => (listener[Grpc].active[d[2]] <=> DOMAIN table[d] # {})

\* The comment in start_notify: "Any mutation in the listener will trigger a
\* dispatch of a brand new ListenerSenderSide eventually creating or
\* replacing this listener in the matching dispatcher."
MutationDispatched ==
    [][\A i \in Ids, e \in Events :
         (/\ listener[i].state = "registered"
          /\ ~ listener[i].active[e]
          /\ listener'[i].active[e])
         => Len(dispatch'[<<Home(i), e>>]) = Len(dispatch[<<Home(i), e>>]) + 1]_vars

\* The whole way from the node to a client is open for an event, and nothing
\* on it is about to close it.
Linked(c, e) ==
    /\ c \in DOMAIN table[<<"grpc", e>>]
    /\ Grpc \in DOMAIN table[<<"core", e>>]
    /\ listener[c].active[e]
    /\ \A n \in Notifiers : \A k \in DOMAIN dispatch[<<n, e>>] :
            dispatch[<<n, e>>][k].type # "RemoveListener"
    /\ StopEvent(e) \notin Range(subscribe)

Leaving(c, e) ==
    \/ ~ listener[c].active[e]
    \/ listener[c].state # "registered"
    \/ stopping["grpc"] # <<"up">>

\* A notification that the node hands to the core notifier while a client is
\* linked reaches that client, unless the client itself leaves or the
\* service stops: no call of another client can cut it off on the way.
Delivered ==
    \A c \in Clients, k \in 1..MaxNotifications :
        \A e \in {"BlockAdded"} \cap Events :
            (/\ Linked(c, e)
             /\ \E m \in Range(dispatch[<<"core", e>>]) : m.type = "Send" /\ m.notification.number = k)
            ~> (\/ \E n \in Range(channel[c]) : n.number = k
                \/ Leaving(c, e))

\* Once the exit was signalled both services stop, whatever is still queued:
\* no task waits for one that is waiting for it (Inner::stop).
StopsCleanly == stopping["grpc"] = <<"unsubscribe", 1>>
                ~> (stopping = [n \in Notifiers |-> <<"down">>])
=============================================================================
