--------------------------- MODULE NotifierProofs ---------------------------
(***************************************************************************)
(* The tables of the dispatchers follow the listeners, and what the gRPC   *)
(* service asks of the core notifier follows its own tables: for any       *)
(* clients, addresses and events, and any number of calls and              *)
(* notifications.  The argument is the same for both.  A sender tells a    *)
(* receiver of every change of a flag; the last message about it that is   *)
(* still in the channel, or the receiver when there is none, says what the *)
(* flag is.                                                                *)
(***************************************************************************)
EXTENDS Notifier, TLAPS

BA == "BlockAdded"

Notes == [event : Events, number : Nat, address : Addresses]
Adds(i) == [type : {"AddListener"}, id : {i}, side : SUBSET Addresses]
About(i) == Adds(i) \cup [type : {"RemoveListener"}, id : {i}]
Messages ==
  [type : {"Send"}, notification : Notes] \cup {Shutdown} \cup UNION {About(i) : i \in Ids}

Starts == {StartEvent(BA)}
AboutEvent == {StartEvent(BA), StopEvent(BA)}
EventMessages == [type : {"StartEvent", "StopEvent"}, event : Events]

Listeners ==
  [state : {"unknown", "registered", "removed", "closed"},
   active : [Events -> BOOLEAN], addresses : SUBSET Addresses]

TypeInv ==
  /\ listener \in [Ids -> Listeners]
  /\ channel \in [Ids -> Seq(Notes)]
  /\ dispatch \in [Dispatchers -> Seq(Messages)]
  /\ DOMAIN table = Dispatchers
  /\ subscribe \in Seq(EventMessages \cup {Shutdown})
  /\ sent \in Nat
  /\ DOMAIN stopping = Notifiers

(* The messages q lead the receiver's flag to the sender's: about are the  *)
(* messages that set it, yes those that set it to TRUE.                    *)
Tracks(q, about, yes, receiver, sender) ==
  /\ (\A k \in DOMAIN q : q[k] \notin about) => receiver = sender
  /\ \A k \in DOMAIN q :
       q[k] \in about /\ (\A j \in DOMAIN q : j > k => q[j] \notin about)
         => sender = (q[k] \in yes)

Of(i) == <<Home(i), BA>>
TableInv ==
  \A i \in Ids :
    /\ listener[i].state = "unknown" => ~listener[i].active[BA]
    /\ listener[i].state \in {"unknown", "registered"} =>
         Tracks(dispatch[Of(i)], About(i), Adds(i), i \in DOMAIN table[Of(i)],
                listener[i].active[BA])

Up == stopping["grpc"] \in {<<"new">>, <<"up">>}
Served == table[<<"grpc", BA>>]
FeedbackInv ==
  Up => /\ listener[Grpc].state = "registered"
        /\ subscribe \in Seq(EventMessages)
        /\ Tracks(subscribe, AboutEvent, Starts, listener[Grpc].active[BA], DOMAIN Served # {})

Inv == TypeInv /\ (BA \in Events => TableInv /\ FeedbackInv)

----------------------------------------------------------------------------
(* Channels *)

(* A message that is not about the flag changes nothing.                   *)
LEMMA AppendOther ==
  ASSUME NEW S, NEW q \in Seq(S), NEW m \in S, NEW A, NEW Y, NEW r, NEW s,
         Tracks(q, A, Y, r, s), m \notin A
  PROVE  Tracks(Append(q, m), A, Y, r, s)
BY DEF Tracks

(* A message about the flag that tells its new value is the last one.      *)
LEMMA AppendOwn ==
  ASSUME NEW S, NEW q \in Seq(S), NEW m \in S, NEW A, NEW Y, NEW r, NEW s,
         m \in A, s = (m \in Y)
  PROVE  Tracks(Append(q, m), A, Y, r, s)
<1>1. Len(q) \in Nat /\ DOMAIN Append(q, m) = 1..Len(q) + 1 /\ Append(q, m)[Len(q) + 1] = m
  OBVIOUS
<1>2. ~\A k \in DOMAIN Append(q, m) : Append(q, m)[k] \notin A
  BY <1>1
<1>3. ASSUME NEW k \in DOMAIN Append(q, m),
             \A j \in DOMAIN Append(q, m) : j > k => Append(q, m)[j] \notin A
      PROVE  k = Len(q) + 1
  BY <1>1, <1>3
<1> QED BY <1>1, <1>2, <1>3 DEF Tracks

(* Receiving a message that is not about the flag changes nothing.         *)
LEMMA TailOther ==
  ASSUME NEW S, NEW q \in Seq(S), q # <<>>, NEW A, NEW Y, NEW r, NEW s,
         Tracks(q, A, Y, r, s), Head(q) \notin A
  PROVE  Tracks(Tail(q), A, Y, r, s)
<1>1. Len(q) \in Nat /\ Len(q) > 0 /\ Len(Tail(q)) = Len(q) - 1
  OBVIOUS
<1>2. \A k \in 1..Len(q) - 1 : Tail(q)[k] = q[k + 1]
  OBVIOUS
<1>3. DOMAIN q = 1..Len(q) /\ DOMAIN Tail(q) = 1..Len(q) - 1 /\ Head(q) = q[1]
  OBVIOUS
<1>4. \A k \in DOMAIN q : q[k] \in A => k - 1 \in DOMAIN Tail(q) /\ Tail(q)[k - 1] = q[k]
  BY <1>1, <1>2, <1>3
<1>5. ASSUME \A k \in DOMAIN Tail(q) : Tail(q)[k] \notin A
      PROVE  r = s
  BY <1>4, <1>5 DEF Tracks
<1>6. ASSUME NEW k \in DOMAIN Tail(q), Tail(q)[k] \in A,
             \A j \in DOMAIN Tail(q) : j > k => Tail(q)[j] \notin A
      PROVE  s = (Tail(q)[k] \in Y)
  <2>1. k + 1 \in DOMAIN q /\ q[k + 1] = Tail(q)[k]
    BY <1>1, <1>2, <1>3
  <2>2. \A j \in DOMAIN q : j > k + 1 => q[j] \notin A
    BY <1>1, <1>3, <1>4, <1>6
  <2> QED BY <1>6, <2>1, <2>2 DEF Tracks
<1> QED BY <1>5, <1>6 DEF Tracks

(* Receiving one that is about it gives the receiver the value it tells.   *)
LEMMA TailOwn ==
  ASSUME NEW S, NEW q \in Seq(S), q # <<>>, NEW A, NEW Y, NEW r, NEW s, NEW t,
         Tracks(q, A, Y, r, s), Head(q) \in A, t = (Head(q) \in Y)
  PROVE  Tracks(Tail(q), A, Y, t, s)
<1>1. Len(q) \in Nat /\ Len(q) > 0 /\ Len(Tail(q)) = Len(q) - 1
  OBVIOUS
<1>2. \A k \in 1..Len(q) - 1 : Tail(q)[k] = q[k + 1]
  OBVIOUS
<1>3. DOMAIN q = 1..Len(q) /\ DOMAIN Tail(q) = 1..Len(q) - 1 /\ Head(q) = q[1]
  OBVIOUS
<1>4. \A k \in DOMAIN q : k > 1 => k - 1 \in DOMAIN Tail(q) /\ Tail(q)[k - 1] = q[k]
  BY <1>1, <1>2, <1>3
<1>5. ASSUME \A k \in DOMAIN Tail(q) : Tail(q)[k] \notin A
      PROVE  t = s
  <2>1. 1 \in DOMAIN q /\ \A j \in DOMAIN q : j > 1 => q[j] \notin A
    BY <1>1, <1>3, <1>4, <1>5
  <2> QED BY <1>3, <2>1 DEF Tracks
<1>6. ASSUME NEW k \in DOMAIN Tail(q), Tail(q)[k] \in A,
             \A j \in DOMAIN Tail(q) : j > k => Tail(q)[j] \notin A
      PROVE  s = (Tail(q)[k] \in Y)
  <2>1. k + 1 \in DOMAIN q /\ q[k + 1] = Tail(q)[k]
    BY <1>1, <1>2, <1>3
  <2>2. ASSUME NEW j \in DOMAIN q, j > k + 1
        PROVE  q[j] \notin A
    <3>1. j > 1 /\ j - 1 > k
      BY <1>1, <1>3, <2>2
    <3> QED BY <1>4, <1>6, <3>1
  <2> QED BY <1>6, <2>1, <2>2 DEF Tracks
<1> QED BY <1>5, <1>6 DEF Tracks

----------------------------------------------------------------------------
(* Messages and listeners *)

(* Which messages are about which listener.                                *)
LEMMA MessageFacts ==
  /\ \A n \in Notes : Send(n) \in Messages
  /\ Shutdown \in Messages
  /\ \A i \in Ids, side \in SUBSET Addresses :
       AddListener(i, side) \in Messages /\ AddListener(i, side) \in Adds(i)
  /\ \A i \in Ids : RemoveListener(i) \in Messages /\ RemoveListener(i) \in About(i)
  /\ \A i : RemoveListener(i) \notin Adds(i)
  /\ \A i : Adds(i) \subseteq About(i)
  /\ \A i, j : i # j => About(i) \cap About(j) = {}
  /\ \A i, m : m \in About(i) => m.type \in {"AddListener", "RemoveListener"} /\ m.id = i
  /\ \A i, m : m \in About(i) => (m \in Adds(i) <=> m.type = "AddListener")
  /\ \A m \in Messages : m.type \in {"AddListener", "RemoveListener"} => m.id \in Ids /\ m \in About(m.id)
  /\ \A m \in Messages : m.type = "Send" => m.notification \in Notes
BY DEF Messages, About, Adds, Send, Shutdown, AddListener, RemoveListener

(* Which messages are about the event.                                     *)
LEMMA EventFacts ==
  /\ \A e \in Events : StartEvent(e) \in EventMessages /\ StopEvent(e) \in EventMessages
  /\ Shutdown \notin EventMessages
  /\ \A m \in EventMessages : m.event \in Events /\ m.type \in {"StartEvent", "StopEvent"}
  /\ \A m \in EventMessages : m \in AboutEvent <=> m.event = BA
  /\ \A m \in AboutEvent : m \in Starts <=> m.type = "StartEvent"
  /\ StartEvent(BA) # StopEvent(BA)
BY DEF EventMessages, AboutEvent, Starts, StartEvent, StopEvent, Shutdown, BA

(* What start_notify and stop_notify may do to the listeners and channels. *)
LEMMA SetNotifyEffect ==
  ASSUME TypeInv, NEW i \in Ids, NEW e \in Events, NEW as \in SUBSET Addresses,
         NEW a \in BOOLEAN, SetNotify(i, e, as, a)
  PROVE  /\ listener' \in [Ids -> Listeners]
         /\ dispatch' \in [Dispatchers -> Seq(Messages)]
         /\ \A j \in Ids : listener'[j].state = listener[j].state
         /\ \A j \in Ids : j # i => listener'[j] = listener[j]
         /\ e # BA /\ BA \in Events =>
              \A j \in Ids : listener'[j].active[BA] = listener[j].active[BA]
         /\ e = BA /\ listener[i].state = "registered" => listener'[i].active[BA] = a
         /\ BA \in Events /\ TableInv /\ UNCHANGED table => TableInv'
<1> DEFINE t == Toggle(listener[i], e, as, a)
           m == IF a THEN AddListener(i, ListenerSenderSide(i, t.listener, e))
                     ELSE RemoveListener(i)
           d == <<Home(i), e>>
<1>0. listener[i] \in Listeners /\ d \in Dispatchers /\ dispatch[d] \in Seq(Messages)
  BY DEF TypeInv, Dispatchers, Notifiers, Home
<1>1. /\ t.listener \in Listeners
      /\ t.listener.state = listener[i].state
      /\ t.listener.active[e] = a
      /\ \A f \in Events \ {e} : t.listener.active[f] = listener[i].active[f]
      /\ e = BA => (t.changed <=> a # listener[i].active[BA])
  BY <1>0 DEF Toggle, Listeners, BA
<1>2. m \in Messages /\ m \in About(i) /\ (m \in Adds(i)) = a
  <2>1. ListenerSenderSide(i, t.listener, e) \in SUBSET Addresses
    BY <1>1 DEF ListenerSenderSide, Listeners
  <2> HIDE DEF t
  <2>2. CASE a
    <3> DEFINE n == AddListener(i, ListenerSenderSide(i, t.listener, e))
    <3>1. n \in Messages /\ n \in Adds(i) /\ n \in About(i)
      BY <2>1, MessageFacts
    <3> QED BY <2>2, <3>1
  <2>3. CASE ~a
    <3>1. m = RemoveListener(i)
      BY <2>3
    <3> QED BY <2>3, <3>1, MessageFacts
  <2> QED BY <2>2, <2>3
<1>3. \/ UNCHANGED <<listener, dispatch>> /\ listener[i].state # "registered"
      \/ /\ listener' = [listener EXCEPT ![i] = t.listener]
         /\ dispatch' = IF t.changed THEN [dispatch EXCEPT ![d] = Append(dispatch[d], m)] ELSE dispatch
         /\ listener[i].state = "registered"
  BY DEF SetNotify, TypeInv
<1>4. CASE UNCHANGED <<listener, dispatch>> /\ listener[i].state # "registered"
  BY <1>4 DEF TypeInv, TableInv
<1>5. ASSUME listener' = [listener EXCEPT ![i] = t.listener],
             dispatch' = IF t.changed THEN [dispatch EXCEPT ![d] = Append(dispatch[d], m)] ELSE dispatch,
             listener[i].state = "registered"
      PROVE  /\ listener' \in [Ids -> Listeners]
             /\ dispatch' \in [Dispatchers -> Seq(Messages)]
             /\ \A j \in Ids : listener'[j].state = listener[j].state
             /\ \A j \in Ids : j # i => listener'[j] = listener[j]
             /\ e # BA /\ BA \in Events =>
                  \A j \in Ids : listener'[j].active[BA] = listener[j].active[BA]
             /\ e = BA => listener'[i].active[BA] = a
             /\ BA \in Events /\ TableInv /\ UNCHANGED table => TableInv'
  <2> HIDE DEF t, m, d
  <2>0. listener \in [Ids -> Listeners] /\ dispatch \in [Dispatchers -> Seq(Messages)]
    BY DEF TypeInv
  <2>1. listener' \in [Ids -> Listeners]
    BY <1>1, <1>5, <2>0
  <2>2. dispatch' \in [Dispatchers -> Seq(Messages)]
    <3>1. Append(dispatch[d], m) \in Seq(Messages)
      BY <1>0, <1>2
    <3> QED BY <1>5, <2>0, <3>1
  <2>3. \A j \in Ids : listener'[j] = IF j = i THEN t.listener ELSE listener[j]
    BY <1>5, <2>0
  <2>4. \A j \in Ids : listener'[j].state = listener[j].state
    BY <1>1, <2>3
  <2>5. \A j \in Ids : j # i => listener'[j] = listener[j]
    BY <2>3
  <2>6. e # BA /\ BA \in Events =>
          \A j \in Ids : listener'[j].active[BA] = listener[j].active[BA]
    BY <1>1, <2>3
  <2>7. e = BA => listener'[i].active[BA] = a
    BY <1>1, <2>3
  <2>8. ASSUME BA \in Events, TableInv, UNCHANGED table PROVE TableInv'
    <3> SUFFICES ASSUME NEW j \in Ids
                 PROVE  /\ listener'[j].state = "unknown" => ~listener'[j].active[BA]
                        /\ listener'[j].state \in {"unknown", "registered"} =>
                             Tracks(dispatch'[Of(j)], About(j), Adds(j), j \in DOMAIN table[Of(j)],
                                    listener'[j].active[BA])
      BY <2>8 DEF TableInv
    <3>0. Of(j) \in Dispatchers /\ dispatch[Of(j)] \in Seq(Messages)
      BY <2>0, <2>8 DEF Of, Home, Dispatchers, Notifiers
    <3>1. CASE j # i
      <4>1. m \notin About(j)
        BY <1>2, <3>1, MessageFacts
      <4>2. \/ dispatch'[Of(j)] = dispatch[Of(j)]
            \/ dispatch'[Of(j)] = Append(dispatch[Of(j)], m)
        BY <1>5, <2>0, <3>0
      <4>3. ASSUME NEW r, NEW s, Tracks(dispatch[Of(j)], About(j), Adds(j), r, s)
            PROVE  Tracks(dispatch'[Of(j)], About(j), Adds(j), r, s)
        BY <1>2, <3>0, <4>1, <4>2, <4>3, AppendOther
      <4> QED BY <2>5, <2>8, <3>1, <4>3 DEF TableInv
    <3>2. CASE j = i /\ e # BA
      <4>1. dispatch'[Of(i)] = dispatch[Of(i)]
        BY <1>5, <2>0, <3>0, <3>2 DEF Of, d
      <4> QED BY <2>4, <2>6, <2>8, <3>2, <4>1 DEF TableInv
    <3>3. CASE j = i /\ e = BA
      <4>1. Of(i) = d
        BY <3>3 DEF Of, d
      <4>2. CASE t.changed
        <5>1. dispatch'[d] = Append(dispatch[d], m)
          BY <1>0, <1>5, <2>0, <4>2
        <5>2. listener'[i].active[BA] = (m \in Adds(i))
          BY <1>2, <2>7, <3>3
        <5>3. Tracks(dispatch'[d], About(i), Adds(i), i \in DOMAIN table[d], listener'[i].active[BA])
          BY <1>0, <1>2, <5>1, <5>2, AppendOwn
        <5> QED BY <1>5, <2>4, <3>3, <4>1, <5>3
      <4>3. CASE ~t.changed
        <5>1. dispatch' = dispatch /\ listener'[i].active[BA] = listener[i].active[BA]
          <6>1. listener[i].active[BA] \in BOOLEAN
            BY <1>0, <2>8 DEF Listeners
          <6> QED BY <1>1, <1>5, <2>7, <3>3, <4>3, <6>1
        <5> QED BY <1>5, <2>4, <2>8, <3>3, <5>1 DEF TableInv
      <4> QED BY <4>2, <4>3
    <3> QED BY <3>1, <3>2, <3>3
  <2> QED BY <2>1, <2>2, <2>4, <2>5, <2>6, <2>7, <2>8
<1> QED BY <1>3, <1>4, <1>5

----------------------------------------------------------------------------
(* Types *)

(* Toggling a listener keeps the types, the states and the tables.         *)
LEMMA SetNotifyTypes ==
  ASSUME TypeInv, NEW i \in Ids, NEW e \in Events, NEW as \in SUBSET Addresses,
         SetNotify(i, e, as, TRUE) \/ SetNotify(i, e, as, FALSE)
  PROVE  /\ listener' \in [Ids -> Listeners]
         /\ dispatch' \in [Dispatchers -> Seq(Messages)]
         /\ \A j \in Ids : listener'[j].state = listener[j].state
         /\ BA \in Events /\ TableInv /\ UNCHANGED table => TableInv'
<1>1. CASE SetNotify(i, e, as, TRUE)
  BY <1>1, SetNotifyEffect
<1>2. CASE SetNotify(i, e, as, FALSE)
  BY <1>2, SetNotifyEffect
<1> QED BY <1>1, <1>2

(* What a dispatcher takes from its channel.                               *)
LEMMA NextMessageFacts ==
  ASSUME TypeInv, NEW d \in Dispatchers, NEW ty, NextMessage(d, ty)
  PROVE  /\ dispatch[d] \in Seq(Messages) /\ dispatch[d] # <<>>
         /\ Head(dispatch[d]) \in Messages /\ Head(dispatch[d]).type = ty
         /\ dispatch' \in [Dispatchers -> Seq(Messages)]
         /\ dispatch'[d] = Tail(dispatch[d])
         /\ \A f \in Dispatchers \ {d} : dispatch'[f] = dispatch[f]
<1>1. dispatch[d] \in Seq(Messages) /\ dispatch[d] # <<>>
  BY DEF TypeInv, NextMessage
<1>2. Head(dispatch[d]) \in Messages /\ Tail(dispatch[d]) \in Seq(Messages)
  BY <1>1
<1> QED BY <1>1, <1>2 DEF TypeInv, NextMessage

(* What the subscriber takes from its channel.                             *)
LEMMA SubscribeFacts ==
  ASSUME TypeInv, Subscribe
  PROVE  /\ Head(subscribe) \in EventMessages /\ Head(subscribe).event \in Events
         /\ subscribe # <<>> /\ subscribe' = Tail(subscribe)
         /\ \/ /\ Head(subscribe).type = "StartEvent"
               /\ SetNotify(Grpc, Head(subscribe).event, {}, TRUE)
            \/ /\ Head(subscribe).type = "StopEvent"
               /\ SetNotify(Grpc, Head(subscribe).event, {}, FALSE)
<1>1. Head(subscribe) \in EventMessages \cup {Shutdown} /\ subscribe # <<>>
  BY DEF TypeInv, Subscribe
<1>2. Head(subscribe) \in EventMessages
  BY <1>1 DEF Subscribe, Shutdown
<1>3. Head(subscribe).type = "StartEvent" => (Head(subscribe).type = "StartEvent") = TRUE
  OBVIOUS
<1>4. Head(subscribe).type = "StopEvent" => (Head(subscribe).type = "StartEvent") = FALSE
  OBVIOUS
<1> QED BY <1>1, <1>2, <1>3, <1>4, EventFacts DEF Subscribe

(* The feedback of a dispatcher is about its event.                        *)
LEMMA FeedbackFacts ==
  ASSUME TypeInv, NEW d \in Dispatchers, NEW needed, Feedback(d, needed)
  PROVE  /\ subscribe' \in Seq(EventMessages \cup {Shutdown})
         /\ subscribe \in Seq(EventMessages) => subscribe' \in Seq(EventMessages)
<1>1. StartEvent(d[2]) \in EventMessages /\ StopEvent(d[2]) \in EventMessages
  BY EventFacts DEF Dispatchers
<1>2. \/ subscribe' = subscribe
      \/ subscribe' = Append(subscribe, StartEvent(d[2]))
      \/ subscribe' = Append(subscribe, StopEvent(d[2]))
  BY DEF Feedback
<1>3. \A S : \A q \in Seq(S), m \in S : Append(q, m) \in Seq(S)
  OBVIOUS
<1>4. subscribe' \in Seq(EventMessages \cup {Shutdown})
  <2>1. subscribe \in Seq(EventMessages \cup {Shutdown})
    BY DEF TypeInv
  <2>2. StartEvent(d[2]) \in EventMessages \cup {Shutdown} /\ StopEvent(d[2]) \in EventMessages \cup {Shutdown}
    BY <1>1
  <2> QED BY <1>2, <1>3, <2>1, <2>2
<1>5. subscribe \in Seq(EventMessages) => subscribe' \in Seq(EventMessages)
  BY <1>1, <1>2, <1>3
<1> QED BY <1>4, <1>5

(* The calls and steps that toggle a listener.                             *)
Toggles ==
  \E i \in Ids, e \in Events, as \in SUBSET Addresses :
    SetNotify(i, e, as, TRUE) \/ SetNotify(i, e, as, FALSE)

LEMMA TogglingSteps ==
  ASSUME TypeInv
  PROVE  /\ \A c \in Clients, e \in Events : \A a \in AddressChoices(e) :
              StartNotify(c, e, a) \/ StopNotify(c, e, a) => Toggles
         /\ \A k \in DOMAIN EventArray : StopUnsubscribe(k) => Toggles
         /\ Subscribe => Toggles
<1>1. ASSUME NEW c \in Clients, NEW e \in Events, NEW a \in AddressChoices(e),
             StartNotify(c, e, a) \/ StopNotify(c, e, a)
      PROVE  Toggles
  <2>1. a \in SUBSET Addresses /\ c \in Ids
    BY DEF AddressChoices, Ids
  <2> QED BY <1>1, <2>1 DEF Toggles, StartNotify, StopNotify
<1>2. ASSUME NEW k \in DOMAIN EventArray, StopUnsubscribe(k) PROVE Toggles
  <2>1. EventArray[k] \in Events /\ Grpc \in Ids /\ {} \in SUBSET Addresses
    BY DEF Events, Range, Ids
  <2> QED BY <1>2, <2>1 DEF Toggles, StopUnsubscribe
<1>3. ASSUME Subscribe PROVE Toggles
  <2>1. Grpc \in Ids /\ {} \in SUBSET Addresses
    BY DEF Ids
  <2> QED BY <1>3, <2>1, SubscribeFacts DEF Toggles
<1> QED BY <1>1, <1>2, <1>3

(* TypeInv holds initially.                                                *)
LEMMA TypeInit == Init => TypeInv
<1> SUFFICES ASSUME Init PROVE TypeInv
  OBVIOUS
<1>1. listener \in [Ids -> Listeners]
  <2>1. NewListener \in Listeners /\ [NewListener EXCEPT !.state = "unknown"] \in Listeners
    BY DEF NewListener, Listeners
  <2> QED BY <2>1 DEF Init
<1>2. channel \in [Ids -> Seq(Notes)] /\ dispatch \in [Dispatchers -> Seq(Messages)]
  BY DEF Init
<1>3. subscribe \in Seq(EventMessages \cup {Shutdown})
  BY DEF Init
<1> QED BY <1>1, <1>2, <1>3 DEF Init, TypeInv

(* Every step keeps TypeInv.                                               *)
LEMMA TypeStep == TypeInv /\ [Next]_vars => TypeInv'
<1> SUFFICES ASSUME TypeInv, [Next]_vars PROVE TypeInv'
  OBVIOUS
<1>0. /\ listener \in [Ids -> Listeners]
      /\ channel \in [Ids -> Seq(Notes)]
      /\ dispatch \in [Dispatchers -> Seq(Messages)]
      /\ DOMAIN table = Dispatchers
      /\ subscribe \in Seq(EventMessages \cup {Shutdown})
      /\ sent \in Nat
      /\ DOMAIN stopping = Notifiers
  BY DEF TypeInv
<1>1. CASE UNCHANGED vars
  BY <1>1 DEF TypeInv, vars, tasks
<1>2. ASSUME Toggles, DOMAIN stopping' = Notifiers, UNCHANGED <<channel, table, sent>>,
             subscribe' \in Seq(EventMessages \cup {Shutdown})
      PROVE  TypeInv'
  BY <1>0, <1>2, SetNotifyTypes DEF TypeInv, Toggles
<1>3. ASSUME NEW c \in Clients,
             RegisterNewListener(c) \/ UnregisterListener(c) \/ CloseListener(c)
      PROVE  TypeInv'
  <2>1. c \in Ids /\ NewListener \in Listeners
    BY DEF Ids, NewListener, Listeners
  <2>2. listener' \in [Ids -> Listeners]
    <3>1. CASE RegisterNewListener(c)
      BY <1>0, <2>1, <3>1 DEF RegisterNewListener
    <3>2. ASSUME NEW s \in {"removed", "closed"}, listener' = [listener EXCEPT ![c].state = s]
          PROVE  listener' \in [Ids -> Listeners]
      BY <1>0, <2>1, <3>2 DEF Listeners
    <3> QED BY <1>3, <3>1, <3>2 DEF UnregisterListener, CloseListener
  <2> QED BY <1>0, <1>3, <2>2 DEF TypeInv, tasks, RegisterNewListener, UnregisterListener, CloseListener
<1>4. ASSUME NEW c \in Clients, NEW e \in Events, NEW a \in AddressChoices(e),
             StartNotify(c, e, a) \/ StopNotify(c, e, a)
      PROVE  TypeInv'
  BY <1>0, <1>2, <1>4, TogglingSteps DEF StartNotify, StopNotify, tasks
<1>5. ASSUME NEW e \in Events, NEW a \in Addresses, Notify(e, a) PROVE TypeInv'
  <2> DEFINE n == [event |-> e, number |-> sent + 1, address |-> a]
  <2>1. n \in Notes /\ <<"core", e>> \in Dispatchers
    BY <1>0 DEF Notes, Dispatchers, Notifiers
  <2>2. Send(n) \in Messages
    BY <2>1, MessageFacts
  <2>3. Append(dispatch[<<"core", e>>], Send(n)) \in Seq(Messages)
    BY <1>0, <2>1, <2>2
  <2>4. dispatch' = [dispatch EXCEPT ![<<"core", e>>] = Append(dispatch[<<"core", e>>], Send(n))]
    BY <1>0, <1>5, <2>1 DEF Notify
  <2> HIDE DEF n
  <2>5. dispatch' \in [Dispatchers -> Seq(Messages)]
    BY <1>0, <2>3, <2>4
  <2> QED BY <1>0, <1>5, <2>5 DEF TypeInv, Notify, tasks
<1>6. ASSUME NEW d \in Dispatchers, Dispatch(d) PROVE TypeInv'
  <2>1. CASE DispatchSend(d)
    <3> DEFINE n == Head(dispatch[d]).notification
    <3>1. n \in Notes /\ dispatch' \in [Dispatchers -> Seq(Messages)]
      BY <2>1, NextMessageFacts, MessageFacts DEF DispatchSend
    <3>2. \A i \in Ids : channel'[i] \in {channel[i], Append(channel[i], n)}
      BY <2>1 DEF DispatchSend
    <3>3. DOMAIN channel' = Ids
      BY <2>1 DEF DispatchSend
    <3> HIDE DEF n
    <3>4. \A i \in Ids : Append(channel[i], n) \in Seq(Notes)
      BY <1>0, <3>1
    <3>5. channel' = [i \in Ids |-> channel'[i]]
      BY <2>1 DEF DispatchSend
    <3>6. channel' \in [Ids -> Seq(Notes)]
      BY <1>0, <3>2, <3>4, <3>5
    <3>7. DOMAIN table' = Dispatchers /\ subscribe' \in Seq(EventMessages \cup {Shutdown})
      BY <1>0, <2>1, FeedbackFacts DEF DispatchSend
    <3> QED BY <1>0, <2>1, <3>1, <3>6, <3>7 DEF TypeInv, DispatchSend, tasks
  <2>2. CASE DispatchAddListener(d)
    <3>1. dispatch' \in [Dispatchers -> Seq(Messages)]
      BY <2>2, NextMessageFacts DEF DispatchAddListener
    <3>2. DOMAIN table' = Dispatchers /\ subscribe' \in Seq(EventMessages \cup {Shutdown})
      BY <1>0, <2>2, FeedbackFacts DEF DispatchAddListener
    <3> QED BY <1>0, <2>2, <3>1, <3>2 DEF TypeInv, DispatchAddListener, tasks
  <2>3. CASE DispatchRemoveListener(d)
    <3>1. dispatch' \in [Dispatchers -> Seq(Messages)]
      BY <2>3, NextMessageFacts DEF DispatchRemoveListener
    <3>2. DOMAIN table' = Dispatchers /\ subscribe' \in Seq(EventMessages \cup {Shutdown})
      BY <1>0, <2>3, FeedbackFacts DEF DispatchRemoveListener
    <3> QED BY <1>0, <2>3, <3>1, <3>2 DEF TypeInv, DispatchRemoveListener, tasks
  <2>4. CASE DispatchShutdown(d)
    BY <1>0, <2>4, NextMessageFacts DEF TypeInv, DispatchShutdown
  <2> QED BY <1>6, <2>1, <2>2, <2>3, <2>4 DEF Dispatch
<1>7. CASE Collect
  <2> DEFINE n == Head(channel[Grpc])
  <2>1. Grpc \in Ids /\ channel[Grpc] \in Seq(Notes) /\ channel[Grpc] # <<>>
    BY <1>0, <1>7 DEF Ids, Collect
  <2>2. n \in Notes /\ Tail(channel[Grpc]) \in Seq(Notes)
    BY <2>1
  <2>3. <<"grpc", n.event>> \in Dispatchers /\ Send(n) \in Messages
    BY <2>2, MessageFacts DEF Notes, Dispatchers, Notifiers
  <2>4. dispatch' = [dispatch EXCEPT ![<<"grpc", n.event>>] = Append(dispatch[<<"grpc", n.event>>], Send(n))]
    BY <1>0, <1>7, <2>3 DEF Collect
  <2>5. channel' = [channel EXCEPT ![Grpc] = Tail(channel[Grpc])]
    BY <1>0, <1>7, <2>1 DEF Collect
  <2> HIDE DEF n
  <2>6. Append(dispatch[<<"grpc", n.event>>], Send(n)) \in Seq(Messages)
    BY <1>0, <2>3
  <2>7. dispatch' \in [Dispatchers -> Seq(Messages)] /\ channel' \in [Ids -> Seq(Notes)]
    BY <1>0, <2>2, <2>4, <2>5, <2>6
  <2> QED BY <1>0, <1>7, <2>7 DEF TypeInv, Collect, tasks
<1>8. CASE Subscribe
  <2>1. subscribe' \in Seq(EventMessages \cup {Shutdown})
    <3>1. subscribe # <<>> /\ subscribe' = Tail(subscribe)
      BY <1>8 DEF Subscribe
    <3> QED BY <1>0, <3>1
  <2> QED BY <1>0, <1>2, <1>8, <2>1, TogglingSteps DEF Subscribe, tasks
<1>9. CASE EndSubscriber
  <2>1. subscribe' \in Seq(EventMessages \cup {Shutdown})
    <3>1. subscribe # <<>> /\ subscribe' = Tail(subscribe)
      BY <1>9 DEF EndSubscriber
    <3> QED BY <1>0, <3>1
  <2> QED BY <1>0, <1>9, <2>1 DEF TypeInv, EndSubscriber
<1>10. ASSUME NEW n \in Notifiers, Start(n) \/ EndCollector(n) \/ StopCollector(n) PROVE TypeInv'
  BY <1>0, <1>10 DEF TypeInv, Start, EndCollector, StopCollector, Stopping
<1>11. CASE Exit
  BY <1>0, <1>11 DEF TypeInv, Exit
<1>12. ASSUME NEW k \in DOMAIN EventArray, StopUnsubscribe(k) PROVE TypeInv'
  BY <1>0, <1>2, <1>12, TogglingSteps DEF StopUnsubscribe, Stopping
<1>13. ASSUME NEW n \in Notifiers, NEW k \in DOMAIN EventArray, StopDispatcher(n, k) PROVE TypeInv'
  <2> DEFINE d == <<n, EventArray[k]>>
  <2>1. d \in Dispatchers /\ Shutdown \in Messages
    BY MessageFacts DEF Dispatchers, Events, Range
  <2>2. dispatch' = [dispatch EXCEPT ![d] = Append(dispatch[d], Shutdown)]
    BY <1>0, <1>13, <2>1 DEF StopDispatcher
  <2> HIDE DEF d
  <2>3. Append(dispatch[d], Shutdown) \in Seq(Messages)
    BY <1>0, <2>1
  <2>4. dispatch' \in [Dispatchers -> Seq(Messages)]
    BY <1>0, <2>2, <2>3
  <2> QED BY <1>0, <1>13, <2>4 DEF TypeInv, StopDispatcher, Stopping
<1>14. CASE StopSubscriber
  <2>1. subscribe' \in Seq(EventMessages \cup {Shutdown})
    BY <1>0, <1>14 DEF StopSubscriber
  <2> QED BY <1>0, <1>14, <2>1 DEF TypeInv, StopSubscriber, Stopping
<1>15. CASE Finalize
  <2>1. listener' \in [Ids -> Listeners]
    BY <1>0, <1>15 DEF Finalize, Listeners, Ids
  <2> QED BY <1>0, <1>15, <2>1 DEF TypeInv, Finalize, Stopping
<1>16. CASE CoreStopped
  BY <1>0, <1>16 DEF TypeInv, CoreStopped, Stopping
<1> QED BY <1>1, <1>3, <1>4, <1>5, <1>6, <1>7, <1>8, <1>9, <1>10, <1>11, <1>12, <1>13, <1>14,
           <1>15, <1>16 DEF Next, Stop

----------------------------------------------------------------------------
(* The tables *)

(* A message about no listener, at the end of a channel.                   *)
LEMMA QuietMessage ==
  ASSUME TypeInv, BA \in Events, TableInv, NEW d \in Dispatchers, NEW m \in Messages,
         m.type \in {"Send", "Shutdown"}, UNCHANGED <<listener, table>>,
         dispatch' = [dispatch EXCEPT ![d] = Append(@, m)]
  PROVE  TableInv'
<1> SUFFICES ASSUME NEW i \in Ids, NEW r, NEW s,
                    Tracks(dispatch[Of(i)], About(i), Adds(i), r, s)
             PROVE  Tracks(dispatch'[Of(i)], About(i), Adds(i), r, s)
  BY DEF TableInv
<1>1. Of(i) \in Dispatchers /\ dispatch \in [Dispatchers -> Seq(Messages)]
  BY DEF TypeInv, Of, Home, Dispatchers, Notifiers
<1>2. m \notin About(i)
  BY MessageFacts
<1>3. dispatch'[Of(i)] \in {dispatch[Of(i)], Append(dispatch[Of(i)], m)}
  BY <1>1
<1> QED BY <1>1, <1>2, <1>3, AppendOther

(* A dispatcher that takes a message and does to its table what it says.   *)
LEMMA TakenMessage ==
  ASSUME TypeInv, BA \in Events, TableInv, NEW d \in Dispatchers, NEW ty, NextMessage(d, ty),
         UNCHANGED listener, \A f \in Dispatchers \ {d} : table'[f] = table[f],
         \A i \in Ids : listener[i].state \in {"unknown", "registered"} =>
            /\ Head(dispatch[d]) \in About(i) =>
                 (i \in DOMAIN table'[d] <=> Head(dispatch[d]) \in Adds(i))
            /\ Head(dispatch[d]) \notin About(i) =>
                 (i \in DOMAIN table'[d] <=> i \in DOMAIN table[d])
  PROVE  TableInv'
<1> SUFFICES ASSUME NEW i \in Ids, listener[i].state \in {"unknown", "registered"}
             PROVE  Tracks(dispatch'[Of(i)], About(i), Adds(i), i \in DOMAIN table'[Of(i)],
                           listener[i].active[BA])
  BY DEF TableInv
<1>1. Of(i) \in Dispatchers
  BY DEF TypeInv, Of, Home, Dispatchers, Notifiers
<1>2. Tracks(dispatch[Of(i)], About(i), Adds(i), i \in DOMAIN table[Of(i)], listener[i].active[BA])
  BY DEF TableInv
<1>3. CASE Of(i) # d
  BY <1>1, <1>2, <1>3, NextMessageFacts
<1>4. CASE Of(i) = d /\ Head(dispatch[d]) \in About(i)
  <2>1. (i \in DOMAIN table'[d]) = (Head(dispatch[d]) \in Adds(i))
    BY <1>4
  <2> QED BY <1>2, <1>4, <2>1, NextMessageFacts, TailOwn
<1>5. CASE Of(i) = d /\ Head(dispatch[d]) \notin About(i)
  <2>1. (i \in DOMAIN table'[d]) = (i \in DOMAIN table[d])
    BY <1>5
  <2> QED BY <1>2, <1>5, <2>1, NextMessageFacts, TailOther
<1> QED BY <1>3, <1>4, <1>5

(* Every message taken is done: TableInv through the dispatchers.          *)
LEMMA DispatchTable ==
  ASSUME TypeInv, BA \in Events, TableInv, NEW d \in Dispatchers, Dispatch(d)
  PROVE  TableInv'
<1>0. DOMAIN table = Dispatchers
  BY DEF TypeInv
<1>1. CASE DispatchSend(d)
  <2>1. \A i \in Ids : Head(dispatch[d]) \notin About(i)
    <3>1. NextMessage(d, "Send")
      BY <1>1 DEF DispatchSend
    <3>2. Head(dispatch[d]).type = "Send"
      BY <3>1, NextMessageFacts
    <3> QED BY <3>2, MessageFacts
  <2>2. \A i \in Ids : listener[i].state \in {"unknown", "registered"} =>
           (i \in DOMAIN table'[d] <=> i \in DOMAIN table[d])
    BY <1>0, <1>1 DEF DispatchSend, Restrict
  <2>3. \A f \in Dispatchers \ {d} : table'[f] = table[f]
    BY <1>0, <1>1 DEF DispatchSend
  <2>4. NextMessage(d, "Send") /\ UNCHANGED listener
    BY <1>1 DEF DispatchSend
  <2> QED BY <2>1, <2>2, <2>3, <2>4, TakenMessage
<1>2. CASE DispatchAddListener(d)
  <2> DEFINE m == Head(dispatch[d])
  <2>1. NextMessage(d, "AddListener") /\ UNCHANGED listener
    BY <1>2 DEF DispatchAddListener
  <2>2. m \in Messages /\ m.type = "AddListener"
    BY <2>1, NextMessageFacts
  <2>3. DOMAIN table'[d] = DOMAIN table[d] \cup {m.id}
    BY <1>0, <1>2 DEF DispatchAddListener
  <2>4. \A f \in Dispatchers \ {d} : table'[f] = table[f]
    BY <1>0, <1>2 DEF DispatchAddListener
  <2> HIDE DEF m
  <2>5. \A i \in Ids : m \in About(i) => m.id = i /\ m \in Adds(i)
    BY <2>2, MessageFacts
  <2>6. \A i \in Ids : m \notin About(i) => m.id # i
    BY <2>2, MessageFacts
  <2>7. \A i \in Ids : /\ m \in About(i) => (i \in DOMAIN table'[d] <=> m \in Adds(i))
                       /\ m \notin About(i) => (i \in DOMAIN table'[d] <=> i \in DOMAIN table[d])
    BY <2>3, <2>5, <2>6
  <2> QED BY <2>1, <2>4, <2>7, TakenMessage DEF m
<1>3. CASE DispatchRemoveListener(d)
  <2> DEFINE m == Head(dispatch[d])
  <2>1. NextMessage(d, "RemoveListener") /\ UNCHANGED listener
    BY <1>3 DEF DispatchRemoveListener
  <2>2. m \in Messages /\ m.type = "RemoveListener"
    BY <2>1, NextMessageFacts
  <2>3. DOMAIN table'[d] = DOMAIN table[d] \ {m.id}
    BY <1>0, <1>3 DEF DispatchRemoveListener, Restrict
  <2>4. \A f \in Dispatchers \ {d} : table'[f] = table[f]
    BY <1>0, <1>3 DEF DispatchRemoveListener
  <2> HIDE DEF m
  <2>5. \A i \in Ids : m \in About(i) => m.id = i /\ m \notin Adds(i)
    BY <2>2, MessageFacts
  <2>6. \A i \in Ids : m \notin About(i) => m.id # i
    BY <2>2, MessageFacts
  <2>7. \A i \in Ids : /\ m \in About(i) => (i \in DOMAIN table'[d] <=> m \in Adds(i))
                       /\ m \notin About(i) => (i \in DOMAIN table'[d] <=> i \in DOMAIN table[d])
    BY <2>3, <2>5, <2>6
  <2> QED BY <2>1, <2>4, <2>7, TakenMessage DEF m
<1>4. CASE DispatchShutdown(d)
  <2>1. \A i \in Ids : Head(dispatch[d]) \notin About(i)
    <3>1. NextMessage(d, "Shutdown")
      BY <1>4 DEF DispatchShutdown
    <3>2. Head(dispatch[d]).type = "Shutdown"
      BY <3>1, NextMessageFacts
    <3> QED BY <3>2, MessageFacts
  <2> QED BY <1>4, <2>1, TakenMessage DEF DispatchShutdown
<1> QED BY <1>1, <1>2, <1>3, <1>4 DEF Dispatch

(* Every step keeps TableInv.                                              *)
LEMMA TableStep ==
  ASSUME TypeInv, BA \in Events, TableInv, [Next]_vars
  PROVE  TableInv'
<1>0. /\ listener \in [Ids -> Listeners]
      /\ channel \in [Ids -> Seq(Notes)]
      /\ dispatch \in [Dispatchers -> Seq(Messages)]
      /\ sent \in Nat
  BY DEF TypeInv
<1>1. ASSUME UNCHANGED <<listener, dispatch, table>> PROVE TableInv'
  BY <1>1 DEF TableInv
<1>2. ASSUME Toggles, UNCHANGED table PROVE TableInv'
  BY <1>2, SetNotifyTypes DEF Toggles
<1>3. ASSUME NEW i \in Ids, listener' = [listener EXCEPT ![i] = listener'[i]],
             \/ listener[i].state = "unknown" /\ listener'[i] = NewListener
             \/ listener'[i].state \in {"removed", "closed"},
             UNCHANGED <<dispatch, table>>
      PROVE  TableInv'
  <2>1. \A j \in Ids \ {i} : listener'[j] = listener[j]
    BY <1>0, <1>3
  <2>2. CASE listener[i].state = "unknown" /\ listener'[i] = NewListener
    <3>1. listener'[i].state = "registered" /\ listener'[i].active[BA] = FALSE
      BY <2>2 DEF NewListener
    <3>2. listener[i].active[BA] = FALSE
      BY <1>0, <2>2 DEF TableInv, Listeners
    <3> QED BY <1>3, <2>1, <2>2, <3>1, <3>2 DEF TableInv
  <2>3. CASE listener'[i].state \in {"removed", "closed"}
    BY <1>3, <2>1, <2>3 DEF TableInv
  <2> QED BY <1>3, <2>2, <2>3
<1>4. ASSUME NEW c \in Clients,
             RegisterNewListener(c) \/ UnregisterListener(c) \/ CloseListener(c)
      PROVE  TableInv'
  <2>1. c \in Ids
    BY DEF Ids
  <2>2. CASE RegisterNewListener(c)
    BY <1>0, <1>3, <2>1, <2>2 DEF RegisterNewListener
  <2>3. CASE UnregisterListener(c)
    BY <1>0, <1>3, <2>1, <2>3 DEF UnregisterListener, Listeners
  <2>4. CASE CloseListener(c)
    BY <1>0, <1>3, <2>1, <2>4 DEF CloseListener, Listeners
  <2> QED BY <1>4, <2>2, <2>3, <2>4
<1>5. CASE Finalize
  BY <1>0, <1>3, <1>5 DEF Finalize, Listeners, Ids
<1>6. ASSUME NEW e \in Events, NEW a \in Addresses, Notify(e, a) PROVE TableInv'
  <2> DEFINE n == [event |-> e, number |-> sent + 1, address |-> a]
  <2>1. n \in Notes /\ <<"core", e>> \in Dispatchers
    BY <1>0 DEF Notes, Dispatchers, Notifiers
  <2>2. dispatch' = [dispatch EXCEPT ![<<"core", e>>] = Append(@, Send(n))]
    BY <1>6 DEF Notify
  <2> HIDE DEF n
  <2>3. Send(n) \in Messages /\ Send(n).type = "Send"
    BY <2>1, MessageFacts DEF Send
  <2> QED BY <1>6, <2>1, <2>2, <2>3, QuietMessage DEF Notify
<1>7. CASE Collect
  <2> DEFINE n == Head(channel[Grpc])
  <2>1. n \in Notes
    BY <1>0, <1>7 DEF Ids, Collect
  <2>2. dispatch' = [dispatch EXCEPT ![<<"grpc", n.event>>] = Append(@, Send(n))]
    BY <1>7 DEF Collect
  <2> HIDE DEF n
  <2>3. <<"grpc", n.event>> \in Dispatchers /\ Send(n) \in Messages /\ Send(n).type = "Send"
    BY <2>1, MessageFacts DEF Notes, Dispatchers, Notifiers, Send
  <2> QED BY <1>7, <2>2, <2>3, QuietMessage DEF Collect
<1>8. ASSUME NEW n \in Notifiers, NEW k \in DOMAIN EventArray, StopDispatcher(n, k) PROVE TableInv'
  <2>1. <<n, EventArray[k]>> \in Dispatchers /\ Shutdown \in Messages /\ Shutdown.type = "Shutdown"
    BY MessageFacts DEF Dispatchers, Events, Range, Shutdown
  <2> QED BY <1>8, <2>1, QuietMessage DEF StopDispatcher
<1>9. ASSUME NEW c \in Clients, NEW e \in Events, NEW a \in AddressChoices(e),
             StartNotify(c, e, a) \/ StopNotify(c, e, a)
      PROVE  TableInv'
  BY <1>2, <1>9, TogglingSteps DEF StartNotify, StopNotify
<1>10. CASE Subscribe
  BY <1>2, <1>10, TogglingSteps DEF Subscribe
<1>11. ASSUME NEW k \in DOMAIN EventArray, StopUnsubscribe(k) PROVE TableInv'
  BY <1>2, <1>11, TogglingSteps DEF StopUnsubscribe
<1>12. ASSUME \/ UNCHANGED vars \/ EndSubscriber \/ Exit \/ StopSubscriber \/ CoreStopped
              \/ \E n \in Notifiers : Start(n) \/ EndCollector(n) \/ StopCollector(n)
       PROVE  TableInv'
  BY <1>1, <1>12 DEF vars, EndSubscriber, Exit, StopSubscriber, CoreStopped, Start, EndCollector,
                     StopCollector
<1> QED BY <1>4, <1>5, <1>6, <1>7, <1>8, <1>9, <1>10, <1>11, <1>12, DispatchTable DEF Next, Stop

----------------------------------------------------------------------------
(* The feedback *)

(* A dispatcher tells the subscriber whenever its table becomes empty or   *)
(* ceases to be.                                                           *)
LEMMA Told ==
  ASSUME TypeInv, BA \in Events, FeedbackInv, NEW d \in Dispatchers,
         UNCHANGED <<listener, stopping>>, \A f \in Dispatchers \ {d} : table'[f] = table[f],
         \/ /\ subscribe' = subscribe
            /\ d = <<"grpc", BA>> => (DOMAIN table'[d] = {} <=> DOMAIN table[d] = {})
         \/ /\ d[1] = "grpc"
            /\ subscribe' = Append(subscribe, IF DOMAIN table'[d] # {} THEN StartEvent(d[2])
                                                                       ELSE StopEvent(d[2]))
  PROVE  FeedbackInv'
<1> SUFFICES ASSUME Up PROVE /\ listener[Grpc].state = "registered"
                             /\ subscribe' \in Seq(EventMessages)
                             /\ Tracks(subscribe', AboutEvent, Starts, listener[Grpc].active[BA],
                                       DOMAIN Served' # {})
  BY DEF FeedbackInv, Up
<1> DEFINE g == <<"grpc", BA>>
           m == IF DOMAIN table'[d] # {} THEN StartEvent(d[2]) ELSE StopEvent(d[2])
<1>0. g \in Dispatchers /\ d = <<d[1], d[2]>> /\ d[2] \in Events
  BY DEF Dispatchers, Notifiers
<1>1. /\ listener[Grpc].state = "registered"
      /\ subscribe \in Seq(EventMessages)
      /\ Tracks(subscribe, AboutEvent, Starts, listener[Grpc].active[BA], DOMAIN table[g] # {})
  BY DEF FeedbackInv, Served
<1>2. m \in EventMessages /\ (m \in AboutEvent <=> d[2] = BA)
  BY <1>0, EventFacts DEF EventMessages, StartEvent, StopEvent
<1>3. DOMAIN table'[d] # {} => m \in EventMessages /\ (d[2] = BA => m \in Starts)
  BY <1>0, <1>2 DEF Starts
<1>4. DOMAIN table'[d] = {} /\ d[2] = BA => m \notin Starts
  BY <1>0, EventFacts DEF Starts
<1>5. CASE d # g
  <2>1. table'[g] = table[g]
    BY <1>0, <1>5
  <2>2. d[1] = "grpc" => m \notin AboutEvent
    BY <1>0, <1>2, <1>5
  <2>3. subscribe' = subscribe \/ (d[1] = "grpc" /\ subscribe' = Append(subscribe, m))
    OBVIOUS
  <2> HIDE DEF m
  <2>4. subscribe' \in Seq(EventMessages)
    BY <1>1, <1>2, <2>3
  <2>5. Tracks(subscribe', AboutEvent, Starts, listener[Grpc].active[BA], DOMAIN table[g] # {})
    <3>1. CASE subscribe' = subscribe
      BY <1>1, <3>1
    <3>2. CASE d[1] = "grpc" /\ subscribe' = Append(subscribe, m)
      BY <1>1, <1>2, <2>2, <3>2, AppendOther
    <3> QED BY <2>3, <3>1, <3>2
  <2> QED BY <1>1, <2>1, <2>4, <2>5 DEF Served
<1>6. CASE d = g
  <2>1. CASE subscribe' = subscribe /\ (DOMAIN table'[g] = {} <=> DOMAIN table[g] = {})
    <3>1. (DOMAIN table'[g] # {}) = (DOMAIN table[g] # {})
      BY <2>1
    <3> QED BY <1>1, <2>1, <3>1 DEF Served
  <2>2. CASE subscribe' = Append(subscribe, m)
    <3>1. (DOMAIN table'[g] # {}) = (m \in Starts) /\ m \in AboutEvent
      BY <1>2, <1>3, <1>4, <1>6
    <3> HIDE DEF m
    <3>2. Tracks(subscribe', AboutEvent, Starts, listener[Grpc].active[BA], DOMAIN table'[g] # {})
      BY <1>1, <1>2, <2>2, <3>1, AppendOwn
    <3>3. subscribe' \in Seq(EventMessages)
      BY <1>1, <1>2, <2>2
    <3> QED BY <1>1, <3>2, <3>3 DEF Served
  <2> QED BY <1>6, <2>1, <2>2
<1> QED BY <1>5, <1>6

(* FeedbackInv through the dispatchers.                                    *)
LEMMA DispatchFeedback ==
  ASSUME TypeInv, BA \in Events, FeedbackInv, NEW d \in Dispatchers, Dispatch(d)
  PROVE  FeedbackInv'
<1>0. DOMAIN table = Dispatchers /\ BA # "UtxosChanged"
  BY DEF TypeInv, BA
<1>1. CASE DispatchSend(d)
  <2> DEFINE n == Head(dispatch[d]).notification
             purge == {i \in {j \in DOMAIN table[d] : n.address \in table[d][j]} :
                         listener[i].state = "closed"}
  <2>1. table' = [table EXCEPT ![d] = Restrict(@, DOMAIN @ \ purge)] /\ purge \subseteq DOMAIN table[d]
    BY <1>1 DEF DispatchSend
  <2>2. Feedback(d, purge # {} /\ purge = DOMAIN table[d]) /\ UNCHANGED <<listener, stopping>>
    BY <1>1 DEF DispatchSend, tasks
  <2> HIDE DEF purge
  <2>3. DOMAIN table'[d] = DOMAIN table[d] \ purge
    BY <1>0, <2>1 DEF Restrict
  <2>4. \A f \in Dispatchers \ {d} : table'[f] = table[f]
    BY <1>0, <2>1
  <2>5. CASE purge # {} /\ purge = DOMAIN table[d]
    <3>1. \/ subscribe' = subscribe /\ d[1] # "grpc"
          \/ /\ d[1] = "grpc"
             /\ subscribe' = Append(subscribe, IF DOMAIN table'[d] # {} THEN StartEvent(d[2])
                                                                        ELSE StopEvent(d[2]))
      BY <2>2, <2>5 DEF Feedback
    <3>2. d[1] # "grpc" => d # <<"grpc", BA>>
      OBVIOUS
    <3> QED BY <2>2, <2>4, <3>1, <3>2, Told
  <2>6. CASE ~(purge # {} /\ purge = DOMAIN table[d])
    <3>1. DOMAIN table'[d] = {} <=> DOMAIN table[d] = {}
      BY <2>1, <2>3, <2>6
    <3>2. \/ subscribe' = subscribe
          \/ /\ d[1] = "grpc"
             /\ subscribe' = Append(subscribe, IF DOMAIN table'[d] # {} THEN StartEvent(d[2])
                                                                        ELSE StopEvent(d[2]))
      BY <2>2, <2>6 DEF Feedback
    <3> QED BY <2>2, <2>4, <3>1, <3>2, Told
  <2> QED BY <2>5, <2>6
<1>2. CASE DispatchAddListener(d)
  <2>1. \A f \in Dispatchers \ {d} : table'[f] = table[f]
    BY <1>0, <1>2 DEF DispatchAddListener
  <2>2. DOMAIN table'[d] # {}
    BY <1>0, <1>2 DEF DispatchAddListener
  <2>3. Feedback(d, DOMAIN table[d] = {}) /\ UNCHANGED <<listener, stopping>>
    BY <1>2 DEF DispatchAddListener, tasks
  <2>4. \/ /\ subscribe' = subscribe
           /\ d = <<"grpc", BA>> => (DOMAIN table'[d] = {} <=> DOMAIN table[d] = {})
        \/ /\ d[1] = "grpc"
           /\ subscribe' = Append(subscribe, IF DOMAIN table'[d] # {} THEN StartEvent(d[2])
                                                                      ELSE StopEvent(d[2]))
    BY <2>2, <2>3 DEF Feedback
  <2> QED BY <2>1, <2>3, <2>4, Told
<1>3. CASE DispatchRemoveListener(d)
  <2>1. \A f \in Dispatchers \ {d} : table'[f] = table[f]
    BY <1>0, <1>3 DEF DispatchRemoveListener
  <2>2. DOMAIN table'[d] \subseteq DOMAIN table[d]
    BY <1>0, <1>3 DEF DispatchRemoveListener, Restrict
  <2>3. Feedback(d, DOMAIN table'[d] = {}) /\ UNCHANGED <<listener, stopping>>
    BY <1>3 DEF DispatchRemoveListener, tasks
  <2>4. \/ /\ subscribe' = subscribe
           /\ d = <<"grpc", BA>> => (DOMAIN table'[d] = {} <=> DOMAIN table[d] = {})
        \/ /\ d[1] = "grpc"
           /\ subscribe' = Append(subscribe, IF DOMAIN table'[d] # {} THEN StartEvent(d[2])
                                                                      ELSE StopEvent(d[2]))
    BY <2>2, <2>3 DEF Feedback
  <2> QED BY <2>1, <2>3, <2>4, Told
<1>4. CASE DispatchShutdown(d)
  BY <1>4, Told DEF DispatchShutdown
<1> QED BY <1>1, <1>2, <1>3, <1>4 DEF Dispatch

(* The subscriber does what it is told: FeedbackInv through Subscribe.     *)
LEMMA SubscribeFeedback ==
  ASSUME TypeInv, BA \in Events, FeedbackInv, Subscribe
  PROVE  FeedbackInv'
<1> DEFINE m == Head(subscribe)
           s == DOMAIN Served # {}
<1>0. Up' = Up /\ Served' = Served
  BY DEF Subscribe, tasks, Up, Served
<1> SUFFICES ASSUME Up PROVE /\ listener'[Grpc].state = "registered"
                             /\ subscribe' \in Seq(EventMessages)
                             /\ Tracks(subscribe', AboutEvent, Starts, listener'[Grpc].active[BA], s)
  BY <1>0 DEF FeedbackInv
<1>1. /\ listener[Grpc].state = "registered"
      /\ subscribe \in Seq(EventMessages)
      /\ Tracks(subscribe, AboutEvent, Starts, listener[Grpc].active[BA], s)
  BY DEF FeedbackInv
<1>2. Grpc \in Ids /\ {} \in SUBSET Addresses
  BY DEF Ids
<1>3. /\ m \in EventMessages /\ m.event \in Events
      /\ subscribe # <<>> /\ subscribe' = Tail(subscribe)
      /\ \/ m.type = "StartEvent" /\ SetNotify(Grpc, m.event, {}, TRUE)
         \/ m.type = "StopEvent" /\ SetNotify(Grpc, m.event, {}, FALSE)
  BY SubscribeFacts
<1> HIDE DEF m, s
<1>4. /\ listener'[Grpc].state = "registered"
      /\ m.event # BA => listener'[Grpc].active[BA] = listener[Grpc].active[BA]
      /\ m.event = BA => listener'[Grpc].active[BA] = (m.type = "StartEvent")
  <2>1. CASE m.type = "StartEvent" /\ SetNotify(Grpc, m.event, {}, TRUE)
    <3>1. m.event = BA => listener'[Grpc].active[BA] = TRUE
      BY <1>1, <1>2, <1>3, <2>1, SetNotifyEffect
    <3>2. /\ listener'[Grpc].state = listener[Grpc].state
          /\ m.event # BA => listener'[Grpc].active[BA] = listener[Grpc].active[BA]
      BY <1>2, <1>3, <2>1, SetNotifyEffect
    <3> QED BY <1>1, <2>1, <3>1, <3>2
  <2>2. CASE m.type = "StopEvent" /\ SetNotify(Grpc, m.event, {}, FALSE)
    <3>1. m.event = BA => listener'[Grpc].active[BA] = FALSE
      BY <1>1, <1>2, <1>3, <2>2, SetNotifyEffect
    <3>2. /\ listener'[Grpc].state = listener[Grpc].state
          /\ m.event # BA => listener'[Grpc].active[BA] = listener[Grpc].active[BA]
      BY <1>2, <1>3, <2>2, SetNotifyEffect
    <3> QED BY <1>1, <2>2, <3>1, <3>2
  <2> QED BY <1>3, <2>1, <2>2
<1>5. subscribe' \in Seq(EventMessages)
  BY <1>1, <1>3
<1>6. CASE m.event = BA
  <2>1. m \in AboutEvent /\ listener'[Grpc].active[BA] = (m \in Starts)
    BY <1>3, <1>4, <1>6, EventFacts
  <2>2. Tracks(Tail(subscribe), AboutEvent, Starts, listener'[Grpc].active[BA], s)
    BY <1>1, <1>3, <2>1, TailOwn DEF m
  <2> QED BY <1>3, <1>4, <1>5, <2>2
<1>7. CASE m.event # BA
  <2>1. m \notin AboutEvent
    BY <1>3, <1>7, EventFacts
  <2>2. Tracks(Tail(subscribe), AboutEvent, Starts, listener[Grpc].active[BA], s)
    BY <1>1, <1>3, <2>1, TailOther DEF m
  <2> QED BY <1>3, <1>4, <1>5, <1>7, <2>2
<1> QED BY <1>6, <1>7

(* Every step keeps FeedbackInv.                                           *)
LEMMA FeedbackStep ==
  ASSUME TypeInv, BA \in Events, FeedbackInv, [Next]_vars
  PROVE  FeedbackInv'
<1>0. DOMAIN stopping = Notifiers /\ "grpc" \in Notifiers /\ Grpc \notin Clients /\ Clients \subseteq Ids
  BY NotifierAssumption DEF TypeInv, Notifiers, Ids
<1>1. ASSUME Up' => Up, UNCHANGED <<subscribe, table>>, listener'[Grpc] = listener[Grpc]
      PROVE  FeedbackInv'
  BY <1>1 DEF FeedbackInv, Served
<1>2. ASSUME ~Up' PROVE FeedbackInv'
  BY <1>2 DEF FeedbackInv
<1>3. ASSUME NEW c \in Clients,
             RegisterNewListener(c) \/ UnregisterListener(c) \/ CloseListener(c)
      PROVE  FeedbackInv'
  <2>1. listener'[Grpc] = listener[Grpc]
    BY <1>0, <1>3 DEF TypeInv, Ids, RegisterNewListener, UnregisterListener, CloseListener
  <2> QED BY <1>1, <1>3, <2>1 DEF RegisterNewListener, UnregisterListener, CloseListener, tasks, Up
<1>4. ASSUME NEW c \in Clients, NEW e \in Events, NEW a \in AddressChoices(e),
             StartNotify(c, e, a) \/ StopNotify(c, e, a)
      PROVE  FeedbackInv'
  <2>1. c \in Ids /\ Grpc \in Ids /\ c # Grpc /\ a \in SUBSET Addresses
    BY <1>0 DEF AddressChoices, Ids
  <2>2. SetNotify(c, e, a, TRUE) \/ SetNotify(c, e, a, FALSE)
    BY <1>4 DEF StartNotify, StopNotify
  <2>3. CASE SetNotify(c, e, a, TRUE)
    <3>1. listener'[Grpc] = listener[Grpc]
      BY <2>1, <2>3, SetNotifyEffect
    <3> QED BY <1>1, <1>4, <3>1 DEF StartNotify, StopNotify, tasks, Up
  <2>4. CASE SetNotify(c, e, a, FALSE)
    <3>1. listener'[Grpc] = listener[Grpc]
      BY <2>1, <2>4, SetNotifyEffect
    <3> QED BY <1>1, <1>4, <3>1 DEF StartNotify, StopNotify, tasks, Up
  <2> QED BY <2>2, <2>3, <2>4
<1>5. CASE EndSubscriber
  <2>1. ASSUME Up PROVE FALSE
    <3>1. subscribe \in Seq(EventMessages) /\ subscribe # <<>> /\ Head(subscribe) = Shutdown
      BY <1>5, <2>1 DEF FeedbackInv, EndSubscriber
    <3>2. Head(subscribe) \in EventMessages
      BY <3>1
    <3> QED BY <3>1, <3>2, EventFacts
  <2>2. Up' = Up
    BY <1>5 DEF EndSubscriber, Up
  <2> QED BY <1>2, <2>1, <2>2
<1>6. ASSUME NEW n \in Notifiers, Start(n) \/ EndCollector(n) PROVE FeedbackInv'
  <2>1. Up' => Up
    BY <1>0, <1>6 DEF Start, EndCollector, Up
  <2> QED BY <1>1, <1>6, <2>1 DEF Start, EndCollector
<1>7. CASE Exit
  <2>1. stopping'["grpc"] = <<"unsubscribe", 1>>
    BY <1>0, <1>7 DEF Exit
  <2> QED BY <1>2, <2>1 DEF Up
<1>8. CASE StopSubscriber \/ Finalize
  <2>1. stopping'["grpc"] \in {<<"subscriber">>, <<"down">>}
    BY <1>0, <1>8 DEF StopSubscriber, Finalize, Stopping
  <2> QED BY <1>2, <2>1 DEF Up
<1>9. ASSUME NEW k \in DOMAIN EventArray, StopUnsubscribe(k) PROVE FeedbackInv'
  <2>1. stopping'["grpc"] = <<"unsubscribe", k + 1>> \/ stopping'["grpc"] = <<"collector">>
    BY <1>0, <1>9 DEF StopUnsubscribe, Stopping
  <2> QED BY <1>2, <2>1 DEF Up
<1>10. ASSUME NEW n \in Notifiers, StopCollector(n) PROVE FeedbackInv'
  <2>1. Up' => Up
    BY <1>0, <1>10 DEF StopCollector, Stopping, Up
  <2> QED BY <1>1, <1>10, <2>1 DEF StopCollector
<1>11. ASSUME NEW n \in Notifiers, NEW k \in DOMAIN EventArray, StopDispatcher(n, k)
       PROVE  FeedbackInv'
  <2>1. Up' => Up
    BY <1>0, <1>11 DEF StopDispatcher, Stopping, Up
  <2> QED BY <1>1, <1>11, <2>1 DEF StopDispatcher
<1>12. CASE CoreStopped
  <2>1. Up' => Up
    BY <1>0, <1>12 DEF CoreStopped, Stopping, Up
  <2> QED BY <1>1, <1>12, <2>1 DEF CoreStopped
<1>13. ASSUME \/ UNCHANGED vars \/ Collect \/ \E e \in Events, a \in Addresses : Notify(e, a)
       PROVE  FeedbackInv'
  BY <1>1, <1>13 DEF vars, tasks, Collect, Notify, Up
<1> QED BY <1>3, <1>4, <1>5, <1>6, <1>7, <1>8, <1>9, <1>10, <1>11, <1>12, <1>13,
           DispatchFeedback, SubscribeFeedback DEF Next, Stop

----------------------------------------------------------------------------
(* The theorems *)

(* The invariant holds initially: nothing is registered, served or sent.   *)
LEMMA InvInit == Init => Inv
<1> SUFFICES ASSUME Init PROVE Inv
  OBVIOUS
<1>1. TypeInv
  BY TypeInit
<1>2. ASSUME BA \in Events PROVE TableInv
  <2>1. \A i \in Ids : listener[i].active[BA] = FALSE
    BY <1>2 DEF Init, NewListener
  <2>2. \A i \in Ids : Of(i) \in Dispatchers /\ dispatch[Of(i)] = <<>> /\ table[Of(i)] = <<>>
    BY <1>2 DEF Init, Of, Home, Dispatchers, Notifiers
  <2>3. DOMAIN <<>> = {}
    OBVIOUS
  <2>4. \A A, Y : Tracks(<<>>, A, Y, FALSE, FALSE)
    BY DEF Tracks
  <2>5. ASSUME NEW i \in Ids
        PROVE  Tracks(dispatch[Of(i)], About(i), Adds(i), i \in DOMAIN table[Of(i)],
                      listener[i].active[BA])
    <3>1. (i \in DOMAIN table[Of(i)]) = FALSE
      BY <2>2, <2>3
    <3> QED BY <2>1, <2>2, <2>4, <3>1
  <2> QED BY <2>1, <2>5 DEF TableInv
<1>3. ASSUME BA \in Events PROVE FeedbackInv
  <2>1. listener[Grpc].active[BA] = FALSE /\ listener[Grpc].state = "registered"
    BY <1>3 DEF Init, NewListener, Ids
  <2>2. DOMAIN Served = {} /\ subscribe = <<>>
    BY <1>3 DEF Init, Served, Dispatchers, Notifiers
  <2>3. (DOMAIN Served # {}) = FALSE
    BY <2>2
  <2>4. \A A, Y : Tracks(<<>>, A, Y, FALSE, FALSE)
    BY DEF Tracks
  <2>5. <<>> \in Seq(EventMessages)
    OBVIOUS
  <2> QED BY <2>1, <2>2, <2>3, <2>4, <2>5 DEF FeedbackInv
<1> QED BY <1>1, <1>2, <1>3 DEF Inv

(* The channels lead every table to its listeners, and the gRPC service's  *)
(* registration to its tables, in every reachable state.                   *)
THEOREM NotifierInvariant == Spec => []Inv
<1>1. Inv /\ [Next]_vars => Inv'
  BY TypeStep, TableStep, FeedbackStep DEF Inv
<1> QED BY <1>1, InvInit, PTL DEF Spec

(* A dispatcher that has worked off its channel serves exactly the         *)
(* registered listeners that want its event, for any number of clients,    *)
(* calls and notifications (start_notify, stop_notify,                     *)
(* spawn_dispatcher_task).                                                 *)
THEOREM TablesAreExact == Spec => []TableExact
<1>1. Inv => TableExact
  <2> SUFFICES ASSUME Inv, NEW d \in Dispatchers, NEW i \in Ids, d = <<Home(i), "BlockAdded">>,
                      dispatch[d] = <<>>, listener[i].state = "registered"
               PROVE  i \in DOMAIN table[d] <=> listener[i].active[d[2]]
    BY DEF TableExact
  <2>1. BA \in Events /\ d = Of(i) /\ d[2] = BA
    BY DEF Dispatchers, BA, Of
  <2>2. Tracks(dispatch[d], About(i), Adds(i), i \in DOMAIN table[d], listener[i].active[BA])
    BY <2>1 DEF Inv, TableInv
  <2>3. (i \in DOMAIN table[d]) = listener[i].active[BA]
    BY <2>2 DEF Tracks
  <2> QED BY <2>1, <2>3
<1> QED BY <1>1, NotifierInvariant, PTL

(* While the gRPC service is up and no message about the event is on its   *)
(* way to the subscriber, the service is registered with the core notifier *)
(* for the event exactly when it serves somebody (the feedback of          *)
(* spawn_dispatcher_task and spawn_subscription_receiver_task).            *)
THEOREM FeedbackIsExact == Spec => []FeedbackExact
<1>1. Inv => FeedbackExact
  <2> SUFFICES ASSUME Inv, <<"grpc", "BlockAdded">> \in Dispatchers, stopping["grpc"] = <<"up">>,
                      \A k \in DOMAIN subscribe : subscribe[k].event # "BlockAdded"
               PROVE  listener[Grpc].active["BlockAdded"] <=> DOMAIN Served # {}
    BY DEF FeedbackExact, Served, BA
  <2>1. BA \in Events /\ Up
    BY DEF Dispatchers, BA, Up
  <2>2. /\ subscribe \in Seq(EventMessages)
        /\ Tracks(subscribe, AboutEvent, Starts, listener[Grpc].active[BA], DOMAIN Served # {})
    BY <2>1 DEF Inv, FeedbackInv
  <2>3. \A k \in DOMAIN subscribe : subscribe[k] \notin AboutEvent
    BY <2>2, EventFacts DEF BA
  <2>4. listener[Grpc].active[BA] = (DOMAIN Served # {})
    BY <2>2, <2>3 DEF Tracks
  <2> QED BY <2>4 DEF BA
<1> QED BY <1>1, NotifierInvariant, PTL
=============================================================================
