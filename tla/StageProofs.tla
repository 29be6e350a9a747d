----------------------------- MODULE StageProofs -----------------------------
(***************************************************************************)
(* The safety invariants of Stage hold for every set of hashes and         *)
(* callers, every parent relation and every number of pool threads.        *)
(***************************************************************************)
EXTENDS Stage, DepsManagerProofs, SequenceTheorems, TLAPS

(* The parents a task awaits are pending direct parents of it.             *)
AwaitsPending == \A h \in Hashes : awaits[h] \subseteq Parents[h] \cap Pending

IsProcess(m) == m.type = "Process"

(* A queued message carries the hash and content its callers submitted.    *)
QueuedAsSubmitted ==
  \A i \in DOMAIN inbox : IsProcess(inbox[i]) =>
    \A c \in inbox[i].txs : /\ sub[c] # None
                            /\ sub[c].hash = inbox[i].hash
                            /\ sub[c].block = inbox[i].block

(* A pending task holds transmitters of callers of its hash only, and has  *)
(* transactions if one of them submitted any.                              *)
HeldAsSubmitted ==
  \A h \in Pending : \A c \in pending[h].result_transmitters :
    /\ sub[c] # None
    /\ sub[c].hash = h
    /\ sub[c].block \in Bodies => pending[h].block \in Bodies

Queued(c) == \E i \in DOMAIN inbox : IsProcess(inbox[i]) /\ c \in inbox[i].txs
Held(c) == \E h \in Pending : c \in pending[h].result_transmitters

QueuedOnce ==
  \A c \in Callers : \A i, j \in DOMAIN inbox :
    IsProcess(inbox[i]) /\ IsProcess(inbox[j]) /\ c \in inbox[i].txs /\ c \in inbox[j].txs
      => i = j

(* A transmitter is in one place: on its way, held by a task, or used.     *)
OnePlace ==
  \A c \in Callers :
    \/ sub[c] = None /\ ~Queued(c) /\ ~Held(c) /\ delivered[c] = <<>>
    \/ sub[c] # None /\ Queued(c) /\ ~Held(c) /\ delivered[c] = <<>>
    \/ sub[c] # None /\ ~Queued(c) /\ Held(c) /\ delivered[c] = <<>>
    \/ sub[c] # None /\ ~Queued(c) /\ ~Held(c) /\ Len(delivered[c]) = 1

(* Exit is sent once; what is queued behind it was submitted after it.     *)
ExitOrder ==
  /\ ~exitSent => /\ worker = "receive"
                  /\ \A i \in DOMAIN inbox : IsProcess(inbox[i])
                  /\ \A c \in Callers : sub[c] # None => sub[c].early
  /\ \A i, j \in DOMAIN inbox : ~IsProcess(inbox[i]) /\ i < j =>
       IsProcess(inbox[j]) /\ \A c \in inbox[j].txs : ~sub[c].early
  /\ worker # "receive" =>
       \A i \in DOMAIN inbox : IsProcess(inbox[i]) /\ \A c \in inbox[i].txs : ~sub[c].early

Drained == worker \in {"idle", "done"} => Pending = {}

MailInv ==
  QueuedAsSubmitted /\ HeldAsSubmitted /\ QueuedOnce /\ OnePlace /\ ExitOrder /\ BodyKept /\ Drained
-----------------------------------------------------------------------------
USE DEF WorkerStates

(* The first message of a non-empty channel is a message, and the rest of  *)
(* the channel is again a channel of messages.                             *)
LEMMA InboxMessage ==
  ASSUME TypeOK, inbox # <<>>
  PROVE  /\ Head(inbox) \in Messages
         /\ Tail(inbox) \in Seq(Messages)
         /\ Head(inbox).type = "Process" =>
              /\ Head(inbox).hash \in Hashes
              /\ Head(inbox).block \in Contents
              /\ Head(inbox).txs \in SUBSET Callers
<1>1. inbox \in Seq(Messages) BY DEF TypeOK
<1>2. Head(inbox) \in Messages /\ Tail(inbox) \in Seq(Messages)
  BY <1>1, HeadTailProperties
<1>3. ASSUME Head(inbox).type = "Process"
      PROVE  Head(inbox) \in [type : {"Process"}, hash : Hashes, block : Contents,
                              txs : SUBSET Callers]
  BY <1>2, <1>3 DEF Messages, Exit
<1> QED BY <1>2, <1>3

(* The initial states are well-typed.                                      *)
LEMMA TypeOKInit == Init => TypeOK
<1> SUFFICES ASSUME Init PROVE TypeOK
  OBVIOUS
<1>1. ManagerTypeOK
  BY DEF Init, ManagerInit, ManagerTypeOK, NoDependents
<1>2. \A S : <<>> \in Seq(S)
  OBVIOUS
<1>3. delivered \in [Callers -> Seq([hash : Hashes, block : Contents])]
  BY <1>2 DEF Init
<1> QED BY <1>1, <1>2, <1>3 DEF Init, TypeOK

(* Every step keeps the types.                                             *)
LEMMA TypeOKStep == TypeOK /\ [Next]_vars => TypeOK'
<1> SUFFICES ASSUME TypeOK, [Next]_vars PROVE TypeOK'
  OBVIOUS
<1>1. ASSUME NEW c \in Callers, NEW h \in Hashes, NEW b \in Contents, Submit(c, h, b)
      PROVE  TypeOK'
  <2>1. Process(h, b, {c}) \in Messages
    BY DEF Process, Messages
  <2>2. inbox' \in Seq(Messages)
    BY <1>1, <2>1, AppendProperties DEF Submit, TypeOK
  <2>3. sub' \in [Callers -> Submissions \cup {None}]
    BY <1>1 DEF Submit, TypeOK, Submissions
  <2> QED BY <1>1, <2>2, <2>3 DEF Submit, TypeOK, ManagerTypeOK, managerVars
<1>2. CASE SignalExit
  <2>1. inbox' \in Seq(Messages)
    BY <1>2, AppendProperties DEF SignalExit, TypeOK, Messages
  <2> QED BY <1>2, <2>1 DEF SignalExit, TypeOK, ManagerTypeOK, managerVars
<1>3. CASE WorkerRegister
  <2> DEFINE m == Head(inbox)
  <2>1. m.hash \in Hashes /\ m.block \in Contents /\ m.txs \in SUBSET Callers
    BY <1>3, InboxMessage DEF WorkerRegister
  <2>2. ManagerTypeOK'
    BY <1>3, <2>1, RegisterType DEF WorkerRegister, TypeOK
  <2>3. inbox' \in Seq(Messages)
    BY <1>3, InboxMessage DEF WorkerRegister
  <2>4. awaits' \in [Hashes -> SUBSET Hashes]
    BY <1>3, <2>1 DEF WorkerRegister, TypeOK, Pending
  <2> QED BY <1>3, <2>2, <2>3, <2>4 DEF WorkerRegister, TypeOK
<1>4. CASE WorkerExit
  <2>1. inbox' \in Seq(Messages)
    BY <1>4, InboxMessage DEF WorkerExit
  <2> QED BY <1>4, <2>1 DEF WorkerExit, ReceiveExit, TypeOK, ManagerTypeOK
<1>5. CASE WorkerWait
  BY <1>5 DEF WorkerWait, WaitForIdle, TypeOK, ManagerTypeOK
<1>6. CASE WorkerForward
  BY <1>6 DEF WorkerForward, ForwardExit, TypeOK, ManagerTypeOK
<1>7. ASSUME NEW h \in Hashes, Defer(h) PROVE TypeOK'
  BY <1>7, DeferType DEF Defer, TypeOK
<1>8. ASSUME NEW h \in Hashes, Begin(h) PROVE TypeOK'
  <2>1. ManagerTypeOK'
    BY <1>8 DEF Begin, TryBegin, TypeOK, ManagerTypeOK
  <2> QED BY <1>8, <2>1 DEF Begin, TypeOK
<1>9. ASSUME NEW h \in Hashes, Finish(h) PROVE TypeOK'
  <2>1. ManagerTypeOK'
    BY <1>9, EndType DEF Finish, TypeOK
  <2>2. pending[h] \in Task
    BY <1>9 DEF Finish, End, TypeOK, ManagerTypeOK
  <2> DEFINE r == [hash |-> h, block |-> pending[h].block]
  <2>3. r \in [hash : Hashes, block : Contents]
    BY <2>2 DEF Task
  <2>4. \A c \in Callers : Append(delivered[c], r) \in Seq([hash : Hashes, block : Contents])
    BY <2>3, AppendProperties DEF TypeOK
  <2> HIDE DEF r
  <2>5. delivered' \in [Callers -> Seq([hash : Hashes, block : Contents])]
    BY <1>9, <2>4 DEF Finish, TypeOK, r
  <2> QED BY <1>9, <2>1, <2>5 DEF Finish, TypeOK
<1>10. CASE UNCHANGED vars
  BY <1>10 DEF vars, managerVars, TypeOK, ManagerTypeOK
<1> QED BY <1>1, <1>2, <1>3, <1>4, <1>5, <1>6, <1>7, <1>8, <1>9, <1>10
    DEF Next, Terminated

(* The variables of a stage keep their types: in particular no count of    *)
(* closures goes below zero.                                               *)
THEOREM TypeCorrect == Spec => []TypeOK
BY TypeOKInit, TypeOKStep, PTL DEF Spec
-----------------------------------------------------------------------------
(* OneHome holds initially, with nothing pending.                          *)
LEMMA HomeInit == Init => OneHome
<1> SUFFICES ASSUME Init, NEW h \in Hashes PROVE Home(h)
  BY DEF OneHome
<1>1. \A p \in Hashes : pending[p] = None
  BY DEF Init, ManagerInit
<1>2. \A p \in Hashes : Deps(p, h) = 0
  BY <1>1 DEF Deps
<1>3. spawned[h] = 0 /\ running[h] = 0
  BY DEF Init, ManagerInit, NoDependents
<1> QED BY <1>1, <1>2, <1>3 DEF Home

(* OneHome is inductive given the types.                                   *)
LEMMA HomeStep == TypeOK /\ OneHome /\ [Next]_vars => OneHome'
<1> SUFFICES ASSUME TypeOK, OneHome, [Next]_vars PROVE OneHome'
  OBVIOUS
<1>0. ManagerTypeOK
  BY DEF TypeOK
<1>1. ASSUME UNCHANGED <<pending, spawned, running>> PROVE OneHome'
  BY <1>1 DEF OneHome, Home, Deps
<1>2. CASE WorkerRegister
  BY <1>0, <1>2, InboxMessage, RegisterHome DEF WorkerRegister
<1>3. ASSUME NEW h \in Hashes, Defer(h) PROVE OneHome'
  BY <1>0, <1>3, DeferHome DEF Defer
<1>4. ASSUME NEW h \in Hashes, Begin(h) PROVE OneHome'
  BY <1>0, <1>4, BeginHome DEF Begin
<1>5. ASSUME NEW h \in Hashes, Finish(h) PROVE OneHome'
  BY <1>0, <1>5, EndHome DEF Finish
<1>6. ASSUME NEW c \in Callers, NEW h \in Hashes, NEW b \in Contents, Submit(c, h, b)
      PROVE  UNCHANGED <<pending, spawned, running>>
  BY <1>6 DEF Submit, managerVars
<1>7. SignalExit \/ WorkerExit \/ WorkerWait \/ WorkerForward \/ Terminated \/ UNCHANGED vars
        => UNCHANGED <<pending, spawned, running>>
  BY DEF SignalExit, WorkerExit, ReceiveExit, WorkerWait, WaitForIdle, WorkerForward,
         ForwardExit, Terminated, vars, managerVars
<1> QED BY <1>1, <1>2, <1>3, <1>4, <1>5, <1>6, <1>7 DEF Next

(* Every pending task has exactly one closure, in every execution of every *)
(* stage: none is lost between try_begin and end and none runs twice.      *)
THEOREM NoTaskLost == Spec => []OneHome
BY TypeOKInit, TypeOKStep, HomeInit, HomeStep, PTL DEF Spec

-----------------------------------------------------------------------------
(* Initially no task awaits anything.                                      *)
LEMMA AwaitsInit == Init => AwaitsPending /\ ParentsFirst
BY DEF Init, AwaitsPending, ParentsFirst

(* ParentsFirst is inductive together with AwaitsPending.                  *)
LEMMA AwaitsStep ==
  TypeOK /\ OneHome /\ AwaitsPending /\ ParentsFirst /\ [Next]_vars
    => (AwaitsPending /\ ParentsFirst)'
<1> SUFFICES ASSUME TypeOK, OneHome, AwaitsPending, ParentsFirst, [Next]_vars
             PROVE  AwaitsPending' /\ ParentsFirst'
  OBVIOUS
<1> USE DEF TypeOK, ManagerTypeOK
<1>0. \A h \in Hashes : running[h] > 0 => pending[h] # None
  BY DEF OneHome, Home
<1>1. ASSUME UNCHANGED <<pending, running, awaits>>
      PROVE  AwaitsPending' /\ ParentsFirst'
  BY <1>1 DEF AwaitsPending, ParentsFirst, Pending
<1>2. CASE WorkerRegister
  <2> DEFINE m == Head(inbox)
  <2>1. /\ m.hash \in Hashes /\ m.block \in Contents /\ m.txs \in SUBSET Callers
        /\ Register(m.hash, m.block, m.txs)
    BY <1>2, InboxMessage DEF WorkerRegister
  <2>2. awaits' = IF pending[m.hash] = None
                  THEN [awaits EXCEPT ![m.hash] = Parents[m.hash] \cap Pending] ELSE awaits
    BY <1>2 DEF WorkerRegister
  <2> HIDE DEF m
  <2>3. Pending \subseteq Pending'
    <3>2. \A k \in Hashes \ {m.hash} : pending'[k] = pending[k]
      BY <2>1 DEF Register
    <3>3. pending'[m.hash] # None
      <4> HIDE DEF TypeOK, ManagerTypeOK
      <4>1. ManagerTypeOK
        BY DEF TypeOK
      <4>2. pending'[m.hash] \in Task
        BY <2>1, <4>1, RegisterEffect
      <4> QED BY <4>2, NoneAssumption
    <3> QED BY <2>1, <3>2, <3>3 DEF Pending
  <2>4. AwaitsPending'
    BY <2>1, <2>2, <2>3 DEF AwaitsPending
  <2>5. ParentsFirst'
    BY <1>0, <2>1, <2>2 DEF ParentsFirst, Register
  <2> QED BY <2>4, <2>5
<1>3. ASSUME NEW h \in Hashes, Defer(h) PROVE AwaitsPending' /\ ParentsFirst'
  <2> PICK p \in Hashes : TryBeginDeferred(h, p)
    BY <1>3 DEF Defer
  <2>2. pending'[p] # None /\ \A k \in Hashes \ {p} : pending'[k] = pending[k]
    BY DeferEffect, NoneAssumption
  <2>3. Pending \subseteq Pending'
    BY <2>2 DEF Pending
  <2>4. awaits' = awaits /\ running' = running
    BY <1>3 DEF Defer, TryBeginDeferred
  <2> QED BY <2>3, <2>4 DEF AwaitsPending, ParentsFirst
<1>4. ASSUME NEW h \in Hashes, Begin(h) PROVE AwaitsPending' /\ ParentsFirst'
  <2>1. awaits' = awaits /\ pending' = pending /\ Parents[h] \cap Pending = {}
    BY <1>4 DEF Begin, TryBegin
  <2>2. awaits[h] = {}
    BY <2>1 DEF AwaitsPending
  <2>3. \A k \in Hashes \ {h} : running'[k] = running[k]
    BY <1>4 DEF Begin, TryBegin
  <2> QED BY <2>1, <2>2, <2>3 DEF AwaitsPending, ParentsFirst, Pending
<1>5. ASSUME NEW h \in Hashes, Finish(h) PROVE AwaitsPending' /\ ParentsFirst'
  <2>1. awaits' = [k \in Hashes |-> IF k = h THEN {} ELSE awaits[k] \ {h}]
    BY <1>5 DEF Finish
  <2>2. Pending' = Pending \ {h}
    BY <1>5 DEF Finish, End, Pending
  <2>3. \A k \in Hashes \ {h} : running'[k] = running[k]
    BY <1>5 DEF Finish, End
  <2>4. AwaitsPending'
    BY <2>1, <2>2 DEF AwaitsPending
  <2>5. ParentsFirst'
    BY <2>1, <2>3 DEF ParentsFirst
  <2> QED BY <2>4, <2>5
<1>6. ASSUME NEW c \in Callers, NEW h \in Hashes, NEW b \in Contents, Submit(c, h, b)
      PROVE  UNCHANGED <<pending, running, awaits>>
  BY <1>6 DEF Submit, managerVars
<1>7. SignalExit \/ WorkerExit \/ WorkerWait \/ WorkerForward \/ Terminated \/ UNCHANGED vars
        => UNCHANGED <<pending, running, awaits>>
  BY DEF SignalExit, WorkerExit, ReceiveExit, WorkerWait, WaitForIdle, WorkerForward,
         ForwardExit, Terminated, vars, managerVars
<1> QED BY <1>1, <1>2, <1>3, <1>4, <1>5, <1>6, <1>7 DEF Next

(* A block registered while a parent is pending never runs before that     *)
(* parent's task has ended: try_begin's test of the pending map, repeated  *)
(* whenever a dependency ends, is enough.                                  *)
THEOREM ParentsProcessedFirst == Spec => []ParentsFirst
<1>1. TypeOK /\ OneHome /\ AwaitsPending /\ ParentsFirst /\ [Next]_vars
        => (TypeOK /\ OneHome /\ AwaitsPending /\ ParentsFirst)'
  BY TypeOKStep, HomeStep, AwaitsStep
<1> QED BY <1>1, TypeOKInit, HomeInit, AwaitsInit, PTL DEF Spec

-----------------------------------------------------------------------------
(* The channel as a function on positions.                                 *)
LEMMA InboxPositions ==
  ASSUME TypeOK
  PROVE  /\ Len(inbox) \in Nat
         /\ DOMAIN inbox = 1..Len(inbox)
         /\ \A i \in DOMAIN inbox : inbox[i] \in Messages
         /\ \A i \in DOMAIN inbox : IsProcess(inbox[i]) =>
              /\ inbox[i].hash \in Hashes
              /\ inbox[i].block \in Contents
              /\ inbox[i].txs \in SUBSET Callers
<1>1. inbox \in Seq(Messages)
  BY DEF TypeOK
<1>2. /\ Len(inbox) \in Nat
      /\ DOMAIN inbox = 1..Len(inbox)
      /\ \A i \in DOMAIN inbox : inbox[i] \in Messages
  BY <1>1, LenProperties, ElementOfSeq
<1>3. ASSUME NEW m \in Messages, IsProcess(m)
      PROVE  m \in [type : {"Process"}, hash : Hashes, block : Contents, txs : SUBSET Callers]
  BY <1>3 DEF Messages, Exit, IsProcess
<1> QED BY <1>2, <1>3

(* Appending a message keeps every position and adds the last one.         *)
LEMMA AppendInbox ==
  ASSUME TypeOK, NEW m \in Messages, inbox' = Append(inbox, m)
  PROVE  /\ DOMAIN inbox' = 1..(Len(inbox) + 1)
         /\ \A i \in 1..Len(inbox) : inbox'[i] = inbox[i]
         /\ inbox'[Len(inbox) + 1] = m
<1>1. inbox \in Seq(Messages)
  BY DEF TypeOK
<1>2. /\ inbox' \in Seq(Messages) /\ Len(inbox') = Len(inbox) + 1
      /\ \A i \in 1..Len(inbox) : inbox'[i] = inbox[i]
      /\ inbox'[Len(inbox) + 1] = m
  BY <1>1, AppendProperties
<1> QED BY <1>2, LenProperties

(* Taking the first message shifts every position by one.                  *)
LEMMA TailInbox ==
  ASSUME TypeOK, inbox # <<>>, inbox' = Tail(inbox)
  PROVE  /\ 1 \in DOMAIN inbox /\ Head(inbox) = inbox[1]
         /\ DOMAIN inbox' = 1..(Len(inbox) - 1)
         /\ \A i \in DOMAIN inbox' : i + 1 \in DOMAIN inbox /\ inbox'[i] = inbox[i + 1]
<1>1. inbox \in Seq(Messages) /\ Len(inbox) \in Nat \ {0} /\ DOMAIN inbox = 1..Len(inbox)
  BY EmptySeq, LenProperties DEF TypeOK
<1>2. /\ inbox' \in Seq(Messages) /\ Len(inbox') = Len(inbox) - 1
      /\ \A i \in 1..Len(inbox') : inbox'[i] = inbox[i + 1]
  BY <1>1, HeadTailProperties
<1>3. DOMAIN inbox' = 1..Len(inbox')
  BY <1>2, LenProperties
<1>4. Head(inbox) = inbox[1]
  BY <1>1
<1> QED BY <1>1, <1>2, <1>3, <1>4

(* Initially the mail invariant holds: nothing has been sent.              *)
LEMMA MailInit == Init => MailInv
<1> SUFFICES ASSUME Init PROVE MailInv
  OBVIOUS
<1>1. inbox = <<>> /\ DOMAIN inbox = {} /\ Pending = {}
  BY DEF Init, ManagerInit, Pending
<1>2. \A c \in Callers : sub[c] = None /\ delivered[c] = <<>> /\ DOMAIN delivered[c] = {}
  BY DEF Init
<1>3. ~exitSent /\ worker = "receive"
  BY DEF Init, ManagerInit
<1> QED BY <1>1, <1>2, <1>3
    DEF MailInv, QueuedAsSubmitted, HeldAsSubmitted, QueuedOnce, OnePlace, Queued, Held,
        ExitOrder, BodyKept, Drained

(* A new submission is queued behind everything else.                      *)
LEMMA SubmitMail ==
  ASSUME TypeOK, MailInv, NEW c0 \in Callers, NEW h \in Hashes, NEW b \in Contents,
         Submit(c0, h, b)
  PROVE  MailInv'
<1> USE DEF MailInv
<1> DEFINE n == Len(inbox)
           m == Process(h, b, {c0})
<1>1. /\ m \in Messages /\ IsProcess(m)
      /\ m.hash = h /\ m.block = b /\ m.txs = {c0}
  BY DEF Process, Messages, IsProcess
<1>2. inbox' = Append(inbox, m)
  BY DEF Submit
<1> HIDE DEF m
<1>3. /\ n \in Nat /\ DOMAIN inbox = 1..n /\ DOMAIN inbox' = 1..(n + 1)
      /\ \A i \in 1..n : inbox'[i] = inbox[i]
      /\ inbox'[n + 1] = m
  BY <1>1, <1>2, AppendInbox, InboxPositions
<1>4. /\ sub[c0] = None
      /\ \A c \in Callers \ {c0} : sub'[c] = sub[c]
      /\ sub'[c0] = [hash |-> h, block |-> b, early |-> ~exitSent]
      /\ sub'[c0] # None
  <2>1. [hash |-> h, block |-> b, early |-> ~exitSent] \in Submissions
    BY DEF Submissions, TypeOK
  <2> QED BY <2>1, NoSubmissionAssumption DEF Submit, TypeOK
<1>5. /\ sub'[c0].hash = h /\ sub'[c0].block = b /\ sub'[c0].early = ~exitSent
  BY <1>4
<1>6. UNCHANGED <<pending, worker, delivered, exitSent>>
  BY DEF Submit, managerVars
<1>7. /\ \A i \in 1..n : IsProcess(inbox[i]) => c0 \notin inbox[i].txs
      /\ \A k \in Pending : c0 \notin pending[k].result_transmitters
      /\ delivered[c0] = <<>>
  BY <1>3, <1>4 DEF QueuedAsSubmitted, HeldAsSubmitted, OnePlace
<1>8. \A i \in 1..n : IsProcess(inbox[i]) => inbox[i].txs \subseteq Callers \ {c0}
  BY <1>3, <1>7, InboxPositions
<1>9. \A k \in Pending : pending[k].result_transmitters \subseteq Callers \ {c0}
  BY <1>7 DEF Pending, TypeOK, ManagerTypeOK, Task
<1>10. QueuedAsSubmitted'
  BY <1>1, <1>3, <1>4, <1>5, <1>8 DEF QueuedAsSubmitted
<1>11. HeldAsSubmitted'
  BY <1>4, <1>6, <1>9 DEF HeldAsSubmitted, Pending
<1>12. QueuedOnce'
  BY <1>1, <1>3, <1>7 DEF QueuedOnce
<1>13. \A c \in Callers \ {c0} : Queued(c)' = Queued(c)
  BY <1>1, <1>3 DEF Queued
<1>14. Queued(c0)'
  BY <1>1, <1>3 DEF Queued
<1>15. \A c \in Callers : Held(c)' = Held(c)
  BY <1>6 DEF Held, Pending
<1>16. OnePlace'
  BY <1>4, <1>6, <1>7, <1>13, <1>14, <1>15 DEF OnePlace, Held
<1>17. ExitOrder'
  <2>1. ~exitSent => \A c \in Callers : sub'[c] # None => sub'[c].early
    BY <1>4, <1>5 DEF ExitOrder
  <2>2. \A i, j \in DOMAIN inbox' : ~IsProcess(inbox'[i]) /\ i < j =>
          IsProcess(inbox'[j]) /\ \A c \in inbox'[j].txs : ~sub'[c].early
    <3> SUFFICES ASSUME NEW i \in 1..(n+1), NEW j \in 1..(n+1), ~IsProcess(inbox'[i]), i < j
                 PROVE  IsProcess(inbox'[j]) /\ \A c \in inbox'[j].txs : ~sub'[c].early
      BY <1>3
    <3>1. i \in 1..n /\ ~IsProcess(inbox[i])
      BY <1>1, <1>3
    <3>2. exitSent
      BY <1>3, <3>1 DEF ExitOrder
    <3>3. CASE j = n + 1
      BY <1>1, <1>3, <1>5, <3>2, <3>3
    <3>4. CASE j \in 1..n
      BY <1>3, <1>4, <1>8, <3>1, <3>4 DEF ExitOrder
    <3> QED BY <1>3, <3>3, <3>4
  <2>3. worker # "receive" => \A i \in DOMAIN inbox' :
          IsProcess(inbox'[i]) /\ \A c \in inbox'[i].txs : ~sub'[c].early
    <3> SUFFICES ASSUME worker # "receive", NEW i \in 1..(n+1)
                 PROVE  IsProcess(inbox'[i]) /\ \A c \in inbox'[i].txs : ~sub'[c].early
      BY <1>3
    <3>1. exitSent
      BY DEF ExitOrder
    <3>2. CASE i = n + 1
      BY <1>1, <1>3, <1>5, <3>1, <3>2
    <3>3. CASE i \in 1..n
      BY <1>3, <1>4, <1>8, <3>3 DEF ExitOrder
    <3> QED BY <1>3, <3>2, <3>3
  <2>4. ~exitSent => worker = "receive" /\ \A i \in DOMAIN inbox' : IsProcess(inbox'[i])
    BY <1>1, <1>3 DEF ExitOrder
  <2> QED BY <1>6, <2>1, <2>2, <2>3, <2>4 DEF ExitOrder
<1>18. BodyKept'
  <2>1. DOMAIN delivered[c0] = {}
    BY <1>7
  <2> QED BY <1>4, <1>6, <2>1 DEF BodyKept
<1>19. Drained'
  BY <1>6 DEF Drained, Pending
<1> QED BY <1>10, <1>11, <1>12, <1>16, <1>17, <1>18, <1>19

(* Exit is queued behind everything else, once.                            *)
LEMMA SignalExitMail ==
  ASSUME TypeOK, MailInv, SignalExit
  PROVE  MailInv'
<1> USE DEF MailInv
<1> DEFINE n == Len(inbox)
<1>1. Exit \in Messages /\ ~IsProcess(Exit)
  BY DEF Messages, Exit, IsProcess
<1>2. inbox' = Append(inbox, Exit)
  BY DEF SignalExit
<1>3. /\ n \in Nat /\ DOMAIN inbox = 1..n /\ DOMAIN inbox' = 1..(n + 1)
      /\ \A i \in 1..n : inbox'[i] = inbox[i]
      /\ inbox'[n + 1] = Exit
  BY <1>1, <1>2, AppendInbox, InboxPositions
<1>4. UNCHANGED <<pending, worker, delivered, sub>> /\ ~exitSent /\ exitSent'
  BY DEF SignalExit, managerVars
<1>5. worker = "receive" /\ \A i \in 1..n : IsProcess(inbox[i])
  BY <1>3, <1>4 DEF ExitOrder
<1>6. QueuedAsSubmitted' /\ QueuedOnce'
  BY <1>1, <1>3, <1>4 DEF QueuedAsSubmitted, QueuedOnce
<1>7. HeldAsSubmitted' /\ BodyKept' /\ Drained'
  BY <1>4 DEF HeldAsSubmitted, BodyKept, Drained, Pending
<1>8. \A c \in Callers : Queued(c)' = Queued(c) /\ Held(c)' = Held(c)
  BY <1>1, <1>3, <1>4 DEF Queued, Held, Pending
<1>9. OnePlace'
  BY <1>4, <1>8 DEF OnePlace
<1>10. ExitOrder'
  BY <1>1, <1>3, <1>4, <1>5 DEF ExitOrder
<1> QED BY <1>6, <1>7, <1>9, <1>10

(* Registering moves the transmitters of the first message to its task.    *)
LEMMA RegisterMail ==
  ASSUME TypeOK, MailInv, WorkerRegister
  PROVE  MailInv'
<1> USE DEF MailInv
<1> DEFINE m == inbox[1]
<1>1. inbox # <<>> /\ inbox' = Tail(inbox) /\ UNCHANGED <<sub, delivered, exitSent>>
  BY DEF WorkerRegister
<1>2. /\ 1 \in DOMAIN inbox /\ Head(inbox) = m
      /\ DOMAIN inbox' = 1..(Len(inbox) - 1)
      /\ \A i \in DOMAIN inbox' : i + 1 \in DOMAIN inbox /\ inbox'[i] = inbox[i + 1]
      /\ DOMAIN inbox = 1..Len(inbox) /\ Len(inbox) \in Nat
  BY <1>1, TailInbox, InboxPositions
<1>3. /\ IsProcess(m) /\ m.hash \in Hashes /\ m.block \in Contents /\ m.txs \in SUBSET Callers
      /\ Register(m.hash, m.block, m.txs)
  BY <1>2, InboxMessage DEF WorkerRegister, IsProcess
<1>4. \A i \in DOMAIN inbox : i # 1 => i - 1 \in DOMAIN inbox' /\ inbox[i] = inbox'[i - 1]
  BY <1>2
<1> DEFINE k == m.hash
<1> HIDE DEF m
<1>a. ManagerTypeOK /\ k \in Hashes /\ m.block \in Contents /\ m.txs \in SUBSET Callers
      /\ Register(k, m.block, m.txs)
  BY <1>3 DEF TypeOK
<1> HIDE DEF k
<1>5. /\ pending'[k] \in Task /\ pending'[k] # None
      /\ \A q \in Hashes \ {k} : pending'[q] = pending[q]
      /\ pending'[k].result_transmitters =
           IF pending[k] = None THEN m.txs ELSE pending[k].result_transmitters \cup m.txs
      /\ pending'[k].block =
           IF pending[k] = None \/ pending[k].block = HeaderOnly THEN m.block ELSE pending[k].block
  BY <1>a, RegisterEffect, NoneAssumption
<1>6. Pending' = Pending \cup {k}
  BY <1>a, <1>5 DEF Pending
<1>7. worker = "receive" /\ worker' = worker
  BY <1>a DEF Register
<1>8. \A c \in m.txs : /\ c \in Callers /\ sub[c] # None
                       /\ sub[c].hash = k /\ sub[c].block = m.block
                       /\ Queued(c)
  BY <1>2, <1>3 DEF QueuedAsSubmitted, Queued, m, k
<1>9. QueuedAsSubmitted'
  BY <1>1, <1>2 DEF QueuedAsSubmitted
<1>10. HeldAsSubmitted'
  <2> SUFFICES ASSUME NEW q \in Pending', NEW c \in pending'[q].result_transmitters
               PROVE  sub[c] # None /\ sub[c].hash = q
                      /\ (sub[c].block \in Bodies => pending'[q].block \in Bodies)
    BY <1>1 DEF HeldAsSubmitted
  <2>1. CASE q # k
    BY <1>5, <1>6, <2>1 DEF HeldAsSubmitted, Pending
  <2>2. CASE q = k /\ c \in m.txs
    <3>1. sub[c].block = m.block /\ (m.block \in Bodies => pending'[k].block \in Bodies)
      BY <1>3, <1>5, <1>8, <2>2 DEF Task, Contents
    <3> QED BY <1>8, <2>2, <3>1
  <2>3. CASE q = k /\ c \notin m.txs
    <3>1. pending[k] # None /\ c \in pending[k].result_transmitters /\ k \in Pending
      BY <1>3, <1>5, <2>3 DEF Pending, k
    <3>2. /\ sub[c] # None /\ sub[c].hash = k
          /\ sub[c].block \in Bodies => pending[k].block \in Bodies
      BY <3>1 DEF HeldAsSubmitted
    <3> QED BY <1>5, <2>3, <3>1, <3>2, ContentsAssumption
  <2> QED BY <2>1, <2>2, <2>3
<1>11. QueuedOnce'
  BY <1>2 DEF QueuedOnce
<1>12. \A c \in Callers : Queued(c)' = (Queued(c) /\ c \notin m.txs)
  <2> SUFFICES ASSUME NEW c \in Callers PROVE Queued(c)' = (Queued(c) /\ c \notin m.txs)
    OBVIOUS
  <2>1. ASSUME Queued(c)' PROVE Queued(c) /\ c \notin m.txs
    <3>1. PICK i \in DOMAIN inbox' : IsProcess(inbox'[i]) /\ c \in inbox'[i].txs
      BY <2>1 DEF Queued
    <3>2. i + 1 \in DOMAIN inbox /\ IsProcess(inbox[i + 1]) /\ c \in inbox[i + 1].txs /\ i + 1 # 1
      BY <1>2, <3>1
    <3> QED BY <1>2, <1>3, <3>2 DEF Queued, QueuedOnce, m
  <2>2. ASSUME Queued(c), c \notin m.txs PROVE Queued(c)'
    BY <1>4, <2>2 DEF Queued, m
  <2>3. (Queued(c)' \in BOOLEAN) /\ (Queued(c) \in BOOLEAN)
    BY DEF Queued
  <2> QED BY <2>1, <2>2, <2>3
<1>13. \A c \in Callers : Held(c)' = (Held(c) \/ c \in m.txs)
  <2> SUFFICES ASSUME NEW c \in Callers PROVE Held(c)' = (Held(c) \/ c \in m.txs)
    OBVIOUS
  <2>1. ASSUME Held(c)' PROVE Held(c) \/ c \in m.txs
    BY <1>3, <1>5, <1>6, <2>1 DEF Held, Pending, k
  <2>2. ASSUME Held(c) PROVE Held(c)'
    <3>1. PICK q \in Pending : c \in pending[q].result_transmitters
      BY <2>2 DEF Held
    <3>2. c \in pending'[q].result_transmitters
      BY <1>5, <3>1 DEF Pending
    <3> QED BY <1>6, <3>2 DEF Held
  <2>3. ASSUME c \in m.txs PROVE Held(c)'
    BY <1>5, <1>6, <2>3 DEF Held
  <2>4. (Held(c)' \in BOOLEAN) /\ (Held(c) \in BOOLEAN)
    BY DEF Held
  <2> QED BY <2>1, <2>2, <2>3, <2>4
<1>14. OnePlace'
  <2> SUFFICES ASSUME NEW c \in Callers
               PROVE  \/ sub[c] = None /\ ~Queued(c)' /\ ~Held(c)' /\ delivered[c] = <<>>
                      \/ sub[c] # None /\ Queued(c)' /\ ~Held(c)' /\ delivered[c] = <<>>
                      \/ sub[c] # None /\ ~Queued(c)' /\ Held(c)' /\ delivered[c] = <<>>
                      \/ sub[c] # None /\ ~Queued(c)' /\ ~Held(c)' /\ Len(delivered[c]) = 1
    BY <1>1 DEF OnePlace
  <2>1. CASE c \in m.txs
    <3>1. sub[c] # None /\ delivered[c] = <<>>
      BY <1>8, <2>1 DEF OnePlace
    <3> QED BY <1>12, <1>13, <2>1, <3>1
  <2>2. CASE c \notin m.txs
    <3>1. Queued(c)' = Queued(c) /\ Held(c)' = Held(c)
      BY <1>12, <1>13, <2>2 DEF Queued, Held
    <3> QED BY <3>1 DEF OnePlace
  <2> QED BY <2>1, <2>2
<1>15. ExitOrder'
  <2>1. ~exitSent => /\ worker = "receive"
                     /\ \A i \in DOMAIN inbox' : IsProcess(inbox'[i])
                     /\ \A c \in Callers : sub[c] # None => sub[c].early
    BY <1>2 DEF ExitOrder
  <2>2. \A i, j \in DOMAIN inbox' : ~IsProcess(inbox'[i]) /\ i < j =>
          IsProcess(inbox'[j]) /\ \A c \in inbox'[j].txs : ~sub[c].early
    BY <1>2 DEF ExitOrder
  <2> QED BY <1>1, <1>7, <2>1, <2>2 DEF ExitOrder
<1>16. BodyKept'
  BY <1>1 DEF BodyKept
<1>17. Drained'
  BY <1>7 DEF Drained
<1> QED BY <1>9, <1>10, <1>11, <1>14, <1>15, <1>16, <1>17

(* Taking Exit off the channel leaves only late submissions in it.         *)
LEMMA WorkerExitMail ==
  ASSUME TypeOK, MailInv, WorkerExit
  PROVE  MailInv'
<1> USE DEF MailInv
<1>1. /\ inbox # <<>> /\ inbox' = Tail(inbox)
      /\ UNCHANGED <<pending, sub, delivered, exitSent>>
      /\ worker' = "exit" /\ ~IsProcess(Head(inbox))
  BY DEF WorkerExit, ReceiveExit, IsProcess
<1>2. /\ 1 \in DOMAIN inbox /\ ~IsProcess(inbox[1])
      /\ DOMAIN inbox' = 1..(Len(inbox) - 1)
      /\ \A i \in DOMAIN inbox' : i + 1 \in DOMAIN inbox /\ inbox'[i] = inbox[i + 1]
      /\ DOMAIN inbox = 1..Len(inbox) /\ Len(inbox) \in Nat
  BY <1>1, TailInbox, InboxPositions
<1>3. \A i \in DOMAIN inbox : i # 1 => i - 1 \in DOMAIN inbox' /\ inbox[i] = inbox'[i - 1]
  BY <1>2
<1>4. QueuedAsSubmitted' /\ QueuedOnce'
  BY <1>1, <1>2 DEF QueuedAsSubmitted, QueuedOnce
<1>5. HeldAsSubmitted' /\ BodyKept' /\ Drained'
  BY <1>1 DEF HeldAsSubmitted, BodyKept, Drained, Pending
<1>6. \A c \in Callers : Queued(c)' = Queued(c) /\ Held(c)' = Held(c)
  BY <1>1, <1>2, <1>3 DEF Queued, Held, Pending
<1>7. OnePlace'
  BY <1>1, <1>6 DEF OnePlace
<1>8. exitSent
  BY <1>2 DEF ExitOrder
<1>9. \A i \in DOMAIN inbox' : IsProcess(inbox'[i]) /\ \A c \in inbox'[i].txs : ~sub[c].early
  <2> SUFFICES ASSUME NEW i \in DOMAIN inbox'
               PROVE  IsProcess(inbox[i+1]) /\ \A c \in inbox[i+1].txs : ~sub[c].early
    BY <1>2
  <2>1. i + 1 \in DOMAIN inbox /\ 1 < i + 1
    BY <1>2
  <2> QED BY <1>2, <2>1 DEF ExitOrder
<1>10. ExitOrder'
  BY <1>1, <1>8, <1>9 DEF ExitOrder
<1> QED BY <1>4, <1>5, <1>7, <1>10

(* Steps that leave the mail alone: the worker's wait and its return, and  *)
(* both outcomes of try_begin.                                             *)
LEMMA QuietMail ==
  ASSUME TypeOK, MailInv, UNCHANGED <<inbox, sub, delivered, exitSent>>,
         Pending' = Pending,
         \A h \in Pending : /\ pending'[h].result_transmitters = pending[h].result_transmitters
                            /\ pending'[h].block = pending[h].block,
         worker' = worker \/ (worker # "receive" /\ worker' # "receive"),
         Drained'
  PROVE  MailInv'
<1>1. QueuedAsSubmitted' /\ QueuedOnce' /\ BodyKept' /\ HeldAsSubmitted'
  BY DEF MailInv, QueuedAsSubmitted, QueuedOnce, BodyKept, HeldAsSubmitted
<1>2. \A c \in Callers : Queued(c)' = Queued(c) /\ Held(c)' = Held(c)
  BY DEF Queued, Held
<1>3. OnePlace'
  BY <1>2 DEF MailInv, OnePlace
<1>4. ExitOrder'
  BY DEF MailInv, ExitOrder
<1> QED BY <1>1, <1>3, <1>4 DEF MailInv

(* end uses every transmitter of its task, once.                           *)
LEMMA FinishMail ==
  ASSUME TypeOK, MailInv, NEW h \in Hashes, Finish(h)
  PROVE  MailInv'
<1> USE DEF MailInv
<1>1. /\ UNCHANGED <<inbox, sub, exitSent>>
      /\ h \in Pending /\ pending[h] \in Task
      /\ worker' = IF Pending \ {h} = {} /\ worker = "wait" THEN "idle" ELSE worker
  BY DEF Finish, End, Pending, TypeOK, ManagerTypeOK
<1>2. Pending' = Pending \ {h} /\ \A k \in Pending' : pending'[k] = pending[k]
  BY DEF Finish, End, Pending, TypeOK, ManagerTypeOK
<1> DEFINE txs == pending[h].result_transmitters
           r == [hash |-> h, block |-> pending[h].block]
<1>3. \A c \in Callers : delivered'[c] = IF c \in txs THEN Append(delivered[c], r) ELSE delivered[c]
  BY DEF Finish
<1>4. txs \subseteq Callers /\ \A c \in txs : sub[c] # None /\ Held(c)
  BY <1>1 DEF Held, HeldAsSubmitted, Task
<1>5. \A c \in Callers : Held(c)' = (Held(c) /\ c \notin txs)
  <2> SUFFICES ASSUME NEW c \in Callers PROVE Held(c)' = (Held(c) /\ c \notin txs)
    OBVIOUS
  <2>1. ASSUME Held(c)' PROVE Held(c) /\ c \notin txs
    <3>1. PICK k \in Pending' : c \in pending'[k].result_transmitters
      BY <2>1 DEF Held
    <3>2. k \in Pending /\ k # h /\ c \in pending[k].result_transmitters
      BY <1>2, <3>1
    <3> QED BY <1>1, <3>2 DEF Held, HeldAsSubmitted
  <2>2. ASSUME Held(c), c \notin txs PROVE Held(c)'
    BY <1>2, <2>2 DEF Held
  <2>3. (Held(c)' \in BOOLEAN) /\ (Held(c) \in BOOLEAN)
    BY DEF Held
  <2> QED BY <2>1, <2>2, <2>3
<1>6. \A c \in txs : delivered[c] = <<>> /\ delivered'[c] = <<r>> /\ ~Queued(c)
  <2> SUFFICES ASSUME NEW c \in txs PROVE delivered[c] = <<>> /\ delivered'[c] = <<r>> /\ ~Queued(c)
    OBVIOUS
  <2>1. delivered[c] = <<>> /\ ~Queued(c)
    BY <1>4 DEF OnePlace
  <2>2. Append(<<>>, r) = <<r>>
    OBVIOUS
  <2> QED BY <1>3, <1>4, <2>1, <2>2
<1>7. \A c \in Callers : Queued(c)' = Queued(c)
  BY <1>1 DEF Queued
<1> HIDE DEF r
<1>8. OnePlace'
  <2> SUFFICES ASSUME NEW c \in Callers
               PROVE  \/ sub[c] = None /\ ~Queued(c)' /\ ~Held(c)' /\ delivered'[c] = <<>>
                      \/ sub[c] # None /\ Queued(c)' /\ ~Held(c)' /\ delivered'[c] = <<>>
                      \/ sub[c] # None /\ ~Queued(c)' /\ Held(c)' /\ delivered'[c] = <<>>
                      \/ sub[c] # None /\ ~Queued(c)' /\ ~Held(c)' /\ Len(delivered'[c]) = 1
    BY <1>1 DEF OnePlace
  <2>1. CASE c \in txs
    <3>1. Len(<<r>>) = 1
      OBVIOUS
    <3> QED BY <1>4, <1>5, <1>6, <1>7, <2>1, <3>1
  <2>2. CASE c \notin txs
    <3>1. Queued(c)' = Queued(c) /\ Held(c)' = Held(c) /\ delivered'[c] = delivered[c]
      BY <1>3, <1>5, <1>7, <2>2 DEF Held
    <3> QED BY <3>1 DEF OnePlace
  <2> QED BY <2>1, <2>2
<1>9. QueuedAsSubmitted' /\ QueuedOnce'
  BY <1>1 DEF QueuedAsSubmitted, QueuedOnce
<1>10. HeldAsSubmitted'
  BY <1>1, <1>2 DEF HeldAsSubmitted
<1>11. BodyKept'
  <2> SUFFICES ASSUME NEW c \in Callers, NEW i \in DOMAIN delivered'[c]
               PROVE  /\ delivered'[c][i].hash = sub[c].hash
                      /\ sub[c].block \in Bodies => delivered'[c][i].block \in Bodies
    BY <1>1 DEF BodyKept
  <2>1. CASE c \in txs
    <3>1. delivered'[c][i] = r
      BY <1>6, <2>1
    <3>2. r.hash = h /\ r.block = pending[h].block
      BY DEF r
    <3> QED BY <1>1, <2>1, <3>1, <3>2 DEF HeldAsSubmitted
  <2>2. CASE c \notin txs
    BY <1>3, <2>2 DEF BodyKept
  <2> QED BY <2>1, <2>2
<1>12. ExitOrder'
  BY <1>1 DEF ExitOrder
<1>13. Drained'
  BY <1>1, <1>2 DEF Drained
<1> QED BY <1>8, <1>9, <1>10, <1>11, <1>12, <1>13

(* The mail invariant is inductive given the types.                        *)
LEMMA MailStep == TypeOK /\ MailInv /\ [Next]_vars => MailInv'
<1> SUFFICES ASSUME TypeOK, MailInv, [Next]_vars PROVE MailInv'
  OBVIOUS
<1>1. ASSUME NEW h \in Hashes, Defer(h) PROVE MailInv'
  <2>1. PICK p \in Hashes : TryBeginDeferred(h, p)
    BY <1>1 DEF Defer
  <2>2. /\ pending[p] # None /\ pending'[p] # None
        /\ \A k \in Hashes \ {p} : pending'[k] = pending[k]
        /\ pending'[p].result_transmitters = pending[p].result_transmitters
        /\ pending'[p].block = pending[p].block
    BY <2>1, DeferEffect, NoneAssumption DEF TypeOK
  <2>3. /\ Pending' = Pending
        /\ \A k \in Pending : /\ pending'[k].result_transmitters = pending[k].result_transmitters
                               /\ pending'[k].block = pending[k].block
    BY <2>2 DEF Pending
  <2>4. UNCHANGED <<inbox, sub, delivered, exitSent, worker>>
    BY <1>1, <2>1 DEF Defer, TryBeginDeferred
  <2>5. Drained'
    BY <2>3, <2>4 DEF MailInv, Drained
  <2> QED BY <2>3, <2>4, <2>5, QuietMail
<1>2. ASSUME UNCHANGED <<inbox, sub, delivered, exitSent, pending>>,
             worker' = worker \/ (worker # "receive" /\ worker' # "receive"), Drained'
      PROVE  MailInv'
  BY <1>2, QuietMail DEF Pending
<1>3. ASSUME NEW h \in Hashes, Begin(h) PROVE MailInv'
  BY <1>2, <1>3 DEF Begin, TryBegin, MailInv, Drained, Pending
<1>4. CASE WorkerWait
  BY <1>2, <1>4 DEF WorkerWait, WaitForIdle, Drained, Pending
<1>5. CASE WorkerForward
  BY <1>2, <1>5 DEF WorkerForward, ForwardExit, MailInv, Drained, Pending
<1>6. CASE UNCHANGED vars
  BY <1>2, <1>6 DEF vars, managerVars, MailInv, Drained, Pending
<1> QED BY <1>1, <1>3, <1>4, <1>5, <1>6, SubmitMail, SignalExitMail, RegisterMail,
       WorkerExitMail, FinishMail
    DEF Next, Terminated

(* Transactions are never traded for a bare header: a caller that sent a   *)
(* body has the callback run with a body, for the hash it sent.            *)
THEOREM BodyNeverDropped == Spec => []BodyKept
<1>1. TypeOK /\ MailInv /\ [Next]_vars => (TypeOK /\ MailInv)'
  BY TypeOKStep, MailStep
<1>2. MailInv => BodyKept
  BY DEF MailInv
<1> QED BY <1>1, <1>2, TypeOKInit, MailInit, PTL DEF Spec

(* When the worker passes Exit on, nothing of the stage is in flight and   *)
(* every call made before signal_exit has been served exactly once: the    *)
(* wait in wait_for_idle needs no loop.                                    *)
THEOREM ExitComesLast == Spec => []ExitIsLast
<1>1. TypeOK /\ OneHome /\ MailInv /\ [Next]_vars => (TypeOK /\ OneHome /\ MailInv)'
  BY TypeOKStep, HomeStep, MailStep
<1>2. TypeOK /\ OneHome /\ MailInv => ExitIsLast
  <2> SUFFICES ASSUME TypeOK, OneHome, MailInv, worker \in {"idle", "done"}
               PROVE  /\ Pending = {}
                      /\ \A h \in Hashes : spawned[h] = 0 /\ running[h] = 0
                      /\ \A c \in Callers : sub[c] # None /\ sub[c].early
                                           => Len(delivered[c]) = 1
    BY DEF ExitIsLast
  <2>1. Pending = {}
    BY DEF MailInv, Drained
  <2>2. \A h \in Hashes : spawned[h] = 0 /\ running[h] = 0
    BY <2>1 DEF OneHome, Home, Pending
  <2>3. ASSUME NEW c \in Callers, sub[c] # None, sub[c].early PROVE Len(delivered[c]) = 1
    <3>1. ~Held(c)
      BY <2>1 DEF Held
    <3>2. ~Queued(c)
      BY <2>3 DEF MailInv, ExitOrder, Queued
    <3> QED BY <2>3, <3>1, <3>2 DEF MailInv, OnePlace
  <2> QED BY <2>1, <2>2, <2>3
<1> QED BY <1>1, <1>2, TypeOKInit, HomeInit, MailInit, PTL DEF Spec
=============================================================================
