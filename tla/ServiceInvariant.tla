-------------------------- MODULE ServiceInvariant --------------------------
(***************************************************************************)
(* What the pipeline owes its callers is kept by every step: the messages  *)
(* and tasks are as the callers asked, only stored bodies go on to         *)
(* virtual, and what a closure found out is still true when it answers.    *)
(***************************************************************************)
EXTENDS PipelineInvariant

\* Zenon is enough for most leaves; those that need SMT say so.
USE Zenon

(* What a caller submitted stays, and a new submission is one.             *)
LEMMA SubmissionStep ==
  ASSUME Inv, ServiceInv, [Next]_vars
  PROVE  /\ sub' \in [Callers -> Submissions \cup {None}]
         /\ \A c \in Callers : \A h, b : AsCalled(sub[c], h, b) => AsCalled(sub'[c], h, b)
         /\ \A c \in Callers : sub[c] # None => sub'[c] # None /\ sub'[c] = sub[c]
         /\ \/ UNCHANGED sub
            \/ \E c \in Callers, h \in Hashes, b \in Contents : ValidateAndInsertBlock(c, h, b)
<1>0. sub \in [Callers -> Submissions \cup {None}]
  BY DEF ServiceInv, CallInv
<1>1. CASE UNCHANGED sub
  BY <1>0, <1>1 DEF AsCalled
<1>2. ASSUME NEW c \in Callers, NEW h \in Hashes, NEW b \in Contents,
             ValidateAndInsertBlock(c, h, b)
      PROVE  /\ sub' \in [Callers -> Submissions \cup {None}]
             /\ \A d \in Callers : sub[d] # None => sub'[d] = sub[d]
  <2> DEFINE s == [hash |-> h, block |-> b, early |-> ~exitSent,
                   after |-> {d \in Callers : sub[d] # None}]
  <2>1. s \in Submissions
    BY DEF Submissions
  <2>2. sub[c] = None /\ sub' = [sub EXCEPT ![c] = s]
    BY <1>2 DEF ValidateAndInsertBlock
  <2> HIDE DEF s
  <2> QED BY <1>0, <2>1, <2>2
<1>3. \/ UNCHANGED sub
      \/ \E c \in Callers, h \in Hashes, b \in Contents : ValidateAndInsertBlock(c, h, b)
  BY DEF Next, vars, callerVars, SignalExit, Terminated,
         HeaderWorker, HeaderWorkerRegister, HeaderWorkerExit, HeaderWorkerWait,
         HeaderWorkerForward, HeaderStep, HeaderDefer, HeaderBegin, ProcessHeader,
         CheckParentExists, CommitHeader, HeaderEnd, BodyWorker, BodyWorkerRegister,
         BodyWorkerExit, BodyWorkerWait, BodyWorkerForward, BodyStep, BodyDefer, BodyBegin,
         ProcessBlockBody, BodyEnd, VirtualWorker, VirtualReceive, VirtualSelect, VirtualWalk,
         VirtualCommit, VirtualReply
<1> QED BY <1>1, <1>2, <1>3 DEF AsCalled

(* The steps that answer, and whom they answer.                            *)
LEMMA ReplySteps ==
  ASSUME Inv, ServiceInv, [Next]_vars
  PROVE  \/ UNCHANGED reply
         \/ \E h \in Hashes : HeaderEnd(h) /\ hPending[h] # None
                              /\ Transmit(hPending[h].result_transmitters, hJob[h].res)
         \/ \E h \in Hashes : BodyEnd(h) /\ bPending[h] # None
                              /\ Transmit(bPending[h].result_transmitters, bJob[h].res)
         \/ VirtualReply
<1>1. \/ SignalExit \/ HeaderWorkerRegister \/ HeaderWorkerExit \/ HeaderWorkerForward
      \/ BodyWorkerRegister \/ BodyWorkerExit \/ BodyWorkerForward \/ VirtualReceive
      => UNCHANGED reply
  BY DEF SignalExit, HeaderWorkerRegister, HeaderWorkerExit, HeaderWorkerForward,
         BodyWorkerRegister, BodyWorkerExit, BodyWorkerForward, VirtualReceive, callerVars
<1>2. \A c \in Callers, h \in Hashes, b \in Contents :
        ValidateAndInsertBlock(c, h, b) => UNCHANGED reply
  BY DEF ValidateAndInsertBlock
<1>3. \A h \in Hashes : HeaderDefer(h) \/ BodyDefer(h) => UNCHANGED reply
  BY DEF HeaderDefer, BodyDefer, callerVars
<1>4. \A h \in Hashes : HeaderEnd(h) =>
        /\ hPending[h] # None
        /\ UNCHANGED reply \/ Transmit(hPending[h].result_transmitters, hJob[h].res)
  BY DEF HeaderEnd, H!End
<1>5. \A h \in Hashes : BodyEnd(h) =>
        /\ bPending[h] # None
        /\ UNCHANGED reply \/ Transmit(bPending[h].result_transmitters, bJob[h].res)
  BY DEF BodyEnd, B!End
<1> QED BY <1>1, <1>2, <1>3, <1>4, <1>5, PlaceSteps

(* The steps that touch the tasks of the header stage.                     *)
LEMMA HeaderTaskSteps ==
  ASSUME Inv, [Next]_vars
  PROVE  \/ UNCHANGED hPending \/ HeaderWorkerRegister
         \/ \E h \in Hashes : HeaderDefer(h) \/ HeaderEnd(h)
<1>1. \/ SignalExit \/ HeaderWorkerExit \/ HeaderWorkerForward
      \/ BodyWorkerRegister \/ BodyWorkerExit \/ BodyWorkerForward \/ VirtualReceive
      \/ VirtualReply
      => UNCHANGED hPending
  BY DEF SignalExit, HeaderWorkerExit, HeaderWorkerForward, H!ReceiveExit, H!ForwardExit,
         BodyWorkerRegister, BodyWorkerExit, BodyWorkerForward, VirtualReceive, VirtualReply,
         headerVars
<1>2. \A c \in Callers, h \in Hashes, b \in Contents :
        ValidateAndInsertBlock(c, h, b) => UNCHANGED hPending
  BY DEF ValidateAndInsertBlock
<1>3. \A h \in Hashes : BodyDefer(h) \/ BodyEnd(h) => UNCHANGED hPending
  BY DEF BodyDefer, BodyEnd, headerVars
<1> QED BY <1>1, <1>2, <1>3, PlaceSteps

(* CallInv for the tasks: a task's content is as little as its callers     *)
(* asked for.                                                              *)
LEMMA TasksCalledStep ==
  ASSUME Inv, ServiceInv, [Next]_vars
  PROVE  TasksAsCalled(hPending)' /\ TasksAsCalled(bPending)'
<1>0. /\ headerCh \in Seq(Messages) /\ bodyCh \in Seq(Messages)
      /\ H!ManagerTypeOK /\ B!ManagerTypeOK
      /\ DOMAIN hPending = Hashes /\ DOMAIN bPending = Hashes
      /\ ChannelAsCalled(headerCh) /\ ChannelAsCalled(bodyCh)
  BY PlaceTypes DEF Inv, TypeInv, ServiceInv, CallInv, H!ManagerTypeOK, B!ManagerTypeOK
<1>1. \A h \in Hashes : hPending[h] # None => \A c \in hPending[h].result_transmitters :
        c \in Callers /\ AsCalled(sub[c], h, hPending[h].block) /\ AsCalled(sub'[c], h, hPending[h].block)
  BY SubmissionStep, PlaceTypes DEF Inv, ServiceInv, CallInv, TasksAsCalled
<1>2. \A h \in Hashes : bPending[h] # None => \A c \in bPending[h].result_transmitters :
        c \in Callers /\ AsCalled(sub[c], h, bPending[h].block) /\ AsCalled(sub'[c], h, bPending[h].block)
  BY SubmissionStep, PlaceTypes DEF Inv, ServiceInv, CallInv, TasksAsCalled
<1>3. ASSUME NEW q \in Seq(Messages), q # <<>>, Head(q).type = "Process", ChannelAsCalled(q)
      PROVE  \A c \in Head(q).txs : AsCalled(sub'[c], Head(q).hash, Head(q).block)
  <2>1. Head(q) \in Range(q) /\ IsProcess(Head(q)) /\ Head(q).txs \in SUBSET Callers
    BY <1>3, RangeFacts, Received DEF IsProcess
  <2> QED BY <1>3, <2>1, SubmissionStep DEF ChannelAsCalled
<1>4. TasksAsCalled(hPending)'
  <2>1. CASE UNCHANGED hPending
    BY <1>1, <2>1 DEF TasksAsCalled
  <2>2. CASE HeaderWorkerRegister
    <3> DEFINE m == Head(headerCh)
    <3>1. /\ headerCh # <<>> /\ m.type = "Process" /\ H!Register(m.hash, m.block, m.txs)
      BY <2>2 DEF HeaderWorkerRegister
    <3>2. /\ m.hash \in Hashes /\ m.block \in Contents /\ m.txs \in SUBSET Callers
          /\ \A c \in m.txs : AsCalled(sub'[c], m.hash, m.block)
      BY <1>0, <1>3, <3>1, Received
    <3>3. /\ \A k \in Hashes \ {m.hash} : hPending'[k] = hPending[k]
          /\ \A c \in hPending'[m.hash].result_transmitters :
               \/ c \in m.txs
               \/ hPending[m.hash] # None /\ c \in hPending[m.hash].result_transmitters
          /\ hPending'[m.hash].block = HeaderOnly =>
               /\ m.block = HeaderOnly
               /\ hPending[m.hash] # None => hPending[m.hash].block = HeaderOnly
      BY <1>0, <3>1, <3>2, HeaderTaskGrows
    <3> HIDE DEF m
    <3> QED BY SMT, <1>1, <3>2, <3>3 DEF TasksAsCalled, AsCalled
  <2>3. ASSUME NEW h \in Hashes, HeaderDefer(h) PROVE TasksAsCalled(hPending)'
    <3>1. PICK p \in Hashes : H!TryBeginDeferred(h, p)
      BY <2>3 DEF HeaderDefer
    <3>2. /\ \A k \in Hashes \ {p} : hPending'[k] = hPending[k]
          /\ hPending[p] # None /\ hPending'[p].block = hPending[p].block
          /\ hPending'[p].result_transmitters = hPending[p].result_transmitters
      BY <1>0, <3>1, HeaderEffects
    <3> QED BY <1>1, <3>2 DEF TasksAsCalled
  <2>4. ASSUME NEW h \in Hashes, HeaderEnd(h) PROVE TasksAsCalled(hPending)'
    <3>1. \A k \in Hashes : hPending'[k] # None => hPending'[k] = hPending[k]
      BY <1>0, <2>4 DEF HeaderEnd, H!End
    <3> QED BY <1>1, <3>1 DEF TasksAsCalled
  <2> QED BY <2>1, <2>2, <2>3, <2>4, HeaderTaskSteps
<1>5. TasksAsCalled(bPending)'
  <2>1. CASE UNCHANGED bPending
    BY <1>2, <2>1 DEF TasksAsCalled
  <2>2. CASE BodyWorkerRegister
    <3> DEFINE m == Head(bodyCh)
    <3>1. /\ bodyCh # <<>> /\ m.type = "Process" /\ B!Register(m.hash, m.block, m.txs)
      BY <2>2 DEF BodyWorkerRegister
    <3>2. /\ m.hash \in Hashes /\ m.block \in Contents /\ m.txs \in SUBSET Callers
          /\ \A c \in m.txs : AsCalled(sub'[c], m.hash, m.block)
      BY <1>0, <1>3, <3>1, Received
    <3>3. /\ \A k \in Hashes \ {m.hash} : bPending'[k] = bPending[k]
          /\ \A c \in bPending'[m.hash].result_transmitters :
               \/ c \in m.txs
               \/ bPending[m.hash] # None /\ c \in bPending[m.hash].result_transmitters
          /\ bPending'[m.hash].block = HeaderOnly =>
               /\ m.block = HeaderOnly
               /\ bPending[m.hash] # None => bPending[m.hash].block = HeaderOnly
      BY <1>0, <3>1, <3>2, BodyTaskGrows
    <3> HIDE DEF m
    <3> QED BY SMT, <1>2, <3>2, <3>3 DEF TasksAsCalled, AsCalled
  <2>3. ASSUME NEW h \in Hashes, BodyDefer(h) PROVE TasksAsCalled(bPending)'
    <3>1. PICK p \in Hashes : B!TryBeginDeferred(h, p)
      BY <2>3 DEF BodyDefer
    <3>2. /\ \A k \in Hashes \ {p} : bPending'[k] = bPending[k]
          /\ bPending[p] # None /\ bPending'[p].block = bPending[p].block
          /\ bPending'[p].result_transmitters = bPending[p].result_transmitters
      BY <1>0, <3>1, BodyEffects
    <3> QED BY <1>2, <3>2 DEF TasksAsCalled
  <2>4. ASSUME NEW h \in Hashes, BodyEnd(h) PROVE TasksAsCalled(bPending)'
    <3>1. \A k \in Hashes : bPending'[k] # None => bPending'[k] = bPending[k]
      BY <1>0, <2>4 DEF BodyEnd, B!End
    <3> QED BY <1>2, <3>1 DEF TasksAsCalled
  <2>5. ASSUME NEW h \in Hashes, BodyBegin(h) \/ ProcessBlockBody(h) PROVE UNCHANGED bPending
    BY <2>5 DEF BodyBegin, B!TryBegin, ProcessBlockBody
  <2> QED BY <2>1, <2>2, <2>3, <2>4, <2>5, BodySteps
<1> QED BY <1>4, <1>5

(* CallInv: every message and every answer goes back to a call.            *)
LEMMA CallInvStep ==
  ASSUME Inv, ServiceInv, [Next]_vars
  PROVE  CallInv'
<1>0. /\ headerCh \in Seq(Messages) /\ bodyCh \in Seq(Messages)
      /\ virtualCh \in Seq(Messages) /\ Batch \in Seq(Messages) /\ CallInv
  BY PlaceTypes DEF Inv, ServiceInv
<1> DEFINE Later(q) == \A m \in Range(q) : IsProcess(m) =>
                         \A c \in m.txs : AsCalled(sub'[c], m.hash, m.block)
<1>1. /\ Later(<<>>)
      /\ Later(headerCh) /\ Later(bodyCh) /\ Later(virtualCh) /\ Later(Batch)
  <2>1. ASSUME NEW q \in Seq(Messages), ChannelAsCalled(q) PROVE Later(q)
    <3>1. \A m \in Range(q) : m \in Messages
      BY RangeFacts
    <3> QED BY <2>1, <3>1, MessageTypes, SubmissionStep DEF ChannelAsCalled
  <2>2. Later(<<>>)
    BY RangeFacts
  <2> QED BY <1>0, <2>1, <2>2 DEF CallInv
<1>2. \A q \in Seq(Messages) : Later(q) /\ q # <<>> => Later(Tail(q))
  BY RangeFacts
<1>3. \A q \in Seq(Messages) : Later(q) => Later(Append(q, Exit))
  BY SMT, RangeFacts, MessageTypes
<1>4. ASSUME NEW q \in Seq(Messages), Later(q), NEW h \in Hashes, NEW b \in Contents,
             NEW txs \in SUBSET Callers, \A c \in txs : AsCalled(sub'[c], h, b)
      PROVE  Later(Append(q, Process(h, b, txs)))
  <2> DEFINE m == Process(h, b, txs)
  <2>1. m \in Messages /\ m.hash = h /\ m.block = b /\ m.txs = txs
    BY MessageTypes DEF Process
  <2> HIDE DEF m
  <2>2. Range(Append(q, m)) = Range(q) \cup {m}
    BY <2>1, RangeFacts
  <2>3. Later(Append(q, m))
    BY <1>4, <2>1, <2>2
  <2> QED BY <2>3 DEF m
<1>5. ASSUME NEW c \in Callers, NEW h \in Hashes, NEW b \in Contents,
             ValidateAndInsertBlock(c, h, b)
      PROVE  AsCalled(sub'[c], h, b)
  <2> DEFINE s == [hash |-> h, block |-> b, early |-> ~exitSent,
                   after |-> {d \in Callers : sub[d] # None}]
  <2>1. s \in Submissions /\ s.hash = h /\ s.block = b
    BY DEF Submissions
  <2>2. sub' = [sub EXCEPT ![c] = s]
    BY <1>5 DEF ValidateAndInsertBlock
  <2>3. s # None
    BY <2>1, NoneAssumption
  <2> HIDE DEF s
  <2>4. sub'[c] = s
    BY <1>0, <2>2 DEF CallInv
  <2> QED BY <2>1, <2>3, <2>4 DEF AsCalled
<1>6. /\ \A h \in Hashes : hPending[h] # None =>
           /\ hPending[h].block \in Contents /\ hPending[h].result_transmitters \in SUBSET Callers
           /\ \A c \in hPending[h].result_transmitters :
                AsCalled(sub[c], h, hPending[h].block) /\ AsCalled(sub'[c], h, hPending[h].block)
      /\ \A h \in Hashes : bPending[h] # None =>
           /\ bPending[h].block \in Contents /\ bPending[h].result_transmitters \in SUBSET Callers
           /\ \A c \in bPending[h].result_transmitters :
                AsCalled(sub[c], h, bPending[h].block) /\ AsCalled(sub'[c], h, bPending[h].block)
  BY <1>0, PlaceTypes, SubmissionStep DEF Inv, CallInv, TasksAsCalled
<1> HIDE DEF Later
<1>7. Later(headerCh')
  <2>1. ASSUME NEW c \in Callers, NEW h \in Hashes, NEW b \in Contents,
               ValidateAndInsertBlock(c, h, b), headerCh' = Append(headerCh, Process(h, b, {c}))
        PROVE  Later(headerCh')
    <3>1. \A d \in {c} : AsCalled(sub'[d], h, b)
      BY <1>5, <2>1
    <3> QED BY <1>0, <1>1, <1>4, <2>1, <3>1
  <2> QED BY <1>0, <1>1, <1>2, <1>3, <2>1, ChannelMoves
<1>8. Later(bodyCh')
  <2>1. ASSUME NEW h \in Hashes, hPending[h] # None,
               bodyCh' = Append(bodyCh, Process(h, hPending[h].block,
                                                hPending[h].result_transmitters))
        PROVE  Later(bodyCh')
    BY <1>0, <1>1, <1>4, <1>6, <2>1
  <2> QED BY <1>0, <1>1, <1>2, <1>3, <2>1, ChannelMoves
<1>9. Later(virtualCh') /\ Later(Batch')
  <2>1. ASSUME NEW h \in Hashes, bPending[h] # None,
               virtualCh' = Append(virtualCh, Process(h, bPending[h].block,
                                                      bPending[h].result_transmitters))
        PROVE  Later(virtualCh')
    BY <1>0, <1>1, <1>4, <1>6, <2>1
  <2>2. Later(virtualCh')
    BY <1>0, <1>1, <1>3, <2>1, ChannelMoves
  <2>3. Later(Batch')
    BY <1>1, ChannelMoves
  <2> QED BY <2>2, <2>3
<1>10. /\ ChannelAsCalled(headerCh)' /\ ChannelAsCalled(bodyCh)'
       /\ ChannelAsCalled(virtualCh)' /\ ChannelAsCalled(Batch)'
  BY <1>7, <1>8, <1>9 DEF Later, ChannelAsCalled
<1>11. \A c \in Callers : reply'[c] # None => sub'[c] # None
  <2> SUFFICES \A c \in Callers : reply'[c] # None => sub[c] # None
    BY SubmissionStep
  <2>1. CASE UNCHANGED reply
    BY <1>0, <2>1 DEF CallInv
  <2>2. ASSUME NEW h \in Hashes, hPending[h] # None,
               Transmit(hPending[h].result_transmitters, hJob[h].res)
        PROVE  \A c \in Callers : reply'[c] # None => sub[c] # None
    BY <1>0, <1>6, <2>2 DEF Transmit, CallInv, AsCalled
  <2>3. ASSUME NEW h \in Hashes, bPending[h] # None,
               Transmit(bPending[h].result_transmitters, bJob[h].res)
        PROVE  \A c \in Callers : reply'[c] # None => sub[c] # None
    BY <1>0, <1>6, <2>3 DEF Transmit, CallInv, AsCalled
  <2>4. CASE VirtualReply
    <3>1. \A c \in Callers : InChannel(Batch, c) => sub[c] # None
      BY <1>0 DEF CallInv, InChannel, Holds, ChannelAsCalled, AsCalled
    <3>2. \A c \in Callers : ~InChannel(Batch, c) => reply'[c] = reply[c]
      BY <2>4, BatchAnswered
    <3> QED BY <1>0, <3>1, <3>2 DEF CallInv
  <2> QED BY <2>1, <2>2, <2>3, <2>4, ReplySteps
<1> QED BY <1>10, <1>11, SubmissionStep, TasksCalledStep DEF CallInv
-----------------------------------------------------------------------------
(* StoredInv: only blocks with a body go on to virtual.                    *)
LEMMA StoredInvStep ==
  ASSUME Inv, ServiceInv, [Next]_vars
  PROVE  StoredInv'
<1>0. virtualCh \in Seq(Messages) /\ Batch \in Seq(Messages) /\ StoredInv /\ FindingsInv
  BY PlaceTypes DEF Inv, ServiceInv
<1>1. Kept
  BY KeptStep
<1> DEFINE Later(q) == \A m \in Range(q) : IsProcess(m) => HasBody(m.hash)'
<1>2. Later(<<>>) /\ Later(virtualCh) /\ Later(Batch)
  <2>1. ASSUME NEW q \in Seq(Messages), ChannelStored(q) PROVE Later(q)
    <3>1. \A m \in Range(q) : m \in Messages
      BY RangeFacts
    <3> QED BY <1>1, <2>1, <3>1, MessageTypes DEF ChannelStored, Kept
  <2> QED BY <1>0, <2>1, RangeFacts DEF StoredInv
<1>3. \A q \in Seq(Messages) : Later(q) => Later(Append(q, Exit))
  BY SMT, RangeFacts, MessageTypes
<1>4. ASSUME NEW h \in Hashes, bPending[h] # None, bJob[h] # None, bJob[h].pc = "done",
             bJob[h].res \notin Errors
      PROVE  Later(Append(virtualCh, Process(h, bPending[h].block, bPending[h].result_transmitters)))
  <2> DEFINE m == Process(h, bPending[h].block, bPending[h].result_transmitters)
  <2>1. HasBody(h)'
    BY <1>0, <1>1, <1>4 DEF FindingsInv, Kept
  <2>2. m \in Messages /\ m.hash = h
    BY SMT, <1>4, PlaceTypes, MessageTypes DEF Inv
  <2> HIDE DEF m
  <2>3. Range(Append(virtualCh, m)) = Range(virtualCh) \cup {m}
    BY <1>0, <2>2, RangeFacts
  <2>4. Later(Append(virtualCh, m))
    BY <1>2, <2>1, <2>2, <2>3
  <2> QED BY <2>4 DEF m
<1> HIDE DEF Later
<1>5. Later(virtualCh') /\ Later(Batch')
  BY <1>0, <1>2, <1>3, <1>4, ChannelMoves
<1> QED BY <1>5 DEF Later, StoredInv, ChannelStored

(* FindingsInv for the header closures: their results stay true.           *)
LEMMA HeaderFindings ==
  ASSUME Inv, ServiceInv, [Next]_vars
  PROVE  \A h \in Hashes : hJob'[h] # None =>
           /\ hJob'[h].pc = "parents" /\ ~hJob'[h].missing =>
                \A p \in Parents[h] \ hJob'[h].todo : statuses'[p] # None
           /\ hJob'[h].pc = "done" =>
                /\ hJob'[h].res # "Invalid"
                /\ hJob'[h].res = "KnownInvalid" => statuses'[h] = "Invalid"
                /\ hJob'[h].res \in BodyStatuses => HasBody(h)'
<1> DEFINE Found(j, h) ==
             /\ j.pc = "parents" /\ ~j.missing => \A p \in Parents[h] \ j.todo : statuses'[p] # None
             /\ j.pc = "done" => /\ j.res # "Invalid"
                                 /\ j.res = "KnownInvalid" => statuses'[h] = "Invalid"
                                 /\ j.res \in BodyStatuses => HasBody(h)'
<1> SUFFICES \A h \in Hashes : hJob'[h] # None => Found(hJob'[h], h)
  OBVIOUS
<1>0. /\ hJob \in [Hashes -> HeaderJobs \cup {None}] /\ Kept
      /\ statuses \in [Hashes -> Statuses \cup {None}]
      /\ \A h \in Hashes : Parents[h] \subseteq Hashes
  BY KeptStep, ParentsAssumption DEF Inv, TypeInv, DataTypes, JobTypes, StoreTypes
<1>1. \A h \in Hashes : hJob[h] # None => Found(hJob[h], h)
  BY <1>0 DEF ServiceInv, FindingsInv, Kept
<1>2. ASSUME NEW h \in Hashes, \A k \in Hashes \ {h} : hJob'[k] = hJob[k],
             hJob'[h] # None => Found(hJob'[h], h)
      PROVE  \A k \in Hashes : hJob'[k] # None => Found(hJob'[k], k)
  BY <1>1, <1>2
<1>3. CASE UNCHANGED hJob
  BY <1>1, <1>3
<1>4. ASSUME NEW h \in Hashes, HeaderBegin(h)
      PROVE  \A k \in Hashes : hJob'[k] # None => Found(hJob'[k], k)
  <2>1. hJob' = [hJob EXCEPT ![h] = [pc |-> "status"]]
    BY <1>4 DEF HeaderBegin
  <2> QED BY <1>0, <1>2, <2>1
<1>5. ASSUME NEW h \in Hashes, ProcessHeader(h)
      PROVE  \A k \in Hashes : hJob'[k] # None => Found(hJob'[k], k)
  <2>1. \A k \in Hashes \ {h} : hJob'[k] = hJob[k]
    BY <1>0, <1>5 DEF ProcessHeader, HeaderDone
  <2>2. UNCHANGED statuses
    BY <1>5 DEF ProcessHeader, stores
  <2>3. \/ hJob'[h] = [pc |-> "done", res |-> "KnownInvalid"] /\ statuses[h] = "Invalid"
        \/ hJob'[h] = [pc |-> "done", res |-> statuses[h]] /\ statuses[h] \notin {"Invalid", None}
        \/ hJob'[h] = [pc |-> "done", res |-> "RuleError"]
        \/ hJob'[h] = [pc |-> "parents", todo |-> Parents[h], missing |-> FALSE]
    BY <1>0, <1>5 DEF ProcessHeader, HeaderDone
  <2>4. ASSUME hJob'[h] = [pc |-> "done", res |-> "KnownInvalid"], statuses[h] = "Invalid"
        PROVE  Found(hJob'[h], h)
    BY SMT, <2>2, <2>4 DEF BodyStatuses
  <2>5. ASSUME hJob'[h] = [pc |-> "done", res |-> statuses[h]], statuses[h] \notin {"Invalid", None}
        PROVE  Found(hJob'[h], h)
    <3>0. statuses[h] \in Statuses
      BY <1>0, <2>5
    <3>1. statuses[h] # "KnownInvalid"
      BY <3>0 DEF Statuses, BodyStatuses
    <3> QED BY SMT, <2>2, <2>5, <3>1 DEF HasBody
  <2>6. ASSUME hJob'[h] = [pc |-> "done", res |-> "RuleError"] PROVE Found(hJob'[h], h)
    BY SMT, <2>6 DEF BodyStatuses
  <2>7. ASSUME hJob'[h] = [pc |-> "parents", todo |-> Parents[h], missing |-> FALSE]
        PROVE  Found(hJob'[h], h)
    BY SMT, <2>7
  <2>8. Found(hJob'[h], h)
    BY <2>3, <2>4, <2>5, <2>6, <2>7
  <2> QED BY <1>2, <2>1, <2>8
<1>6. ASSUME NEW h \in Hashes, NEW p \in Parents[h], CheckParentExists(h, p)
      PROVE  \A k \in Hashes : hJob'[k] # None => Found(hJob'[k], k)
  <2>1. \A k \in Hashes \ {h} : hJob'[k] = hJob[k]
    BY <1>0, <1>6 DEF CheckParentExists, HeaderDone
  <2>2. UNCHANGED statuses
    BY <1>6 DEF CheckParentExists, stores
  <2>3. hJob[h] \in [pc : {"parents"}, todo : SUBSET Hashes, missing : BOOLEAN]
    BY <1>0, <1>6 DEF CheckParentExists, HeaderJobs
  <2>4. \/ hJob'[h] = [pc |-> "done", res |-> "InvalidParent"]
        \/ /\ hJob'[h].pc = "parents" /\ hJob'[h].todo = hJob[h].todo \ {p}
           /\ hJob'[h].missing = (hJob[h].missing \/ statuses[p] = None)
    BY SMT, <1>0, <1>6, <2>3 DEF CheckParentExists, HeaderDone
  <2>5. Found(hJob[h], h)
    BY <1>1, <1>6 DEF CheckParentExists
  <2>6. ASSUME hJob'[h] = [pc |-> "done", res |-> "InvalidParent"] PROVE Found(hJob'[h], h)
    <3>1. hJob'[h].pc = "done" /\ hJob'[h].res = "InvalidParent"
      BY SMT, <2>6
    <3> QED BY <3>1 DEF BodyStatuses
  <2>7. ASSUME hJob'[h].pc = "parents", hJob'[h].todo = hJob[h].todo \ {p},
               hJob'[h].missing = (hJob[h].missing \/ statuses[p] = None)
        PROVE  Found(hJob'[h], h)
    <3>1. hJob[h].pc = "parents"
      BY <2>3
    <3>2. ASSUME ~hJob'[h].missing, NEW k \in Parents[h] \ hJob'[h].todo
          PROVE  statuses'[k] # None
      <4>1. ~hJob[h].missing /\ statuses[p] # None
        BY <2>3, <2>7, <3>2
      <4>2. k = p \/ k \in Parents[h] \ hJob[h].todo
        BY <2>7, <3>2
      <4> QED BY <2>2, <2>5, <3>1, <4>1, <4>2
    <3> QED BY <2>7, <3>2
  <2>8. Found(hJob'[h], h)
    BY <2>4, <2>6, <2>7
  <2> QED BY <1>2, <2>1, <2>8
<1>7. ASSUME NEW h \in Hashes, CommitHeader(h)
      PROVE  \A k \in Hashes : hJob'[k] # None => Found(hJob'[k], k)
  <2>1. \A k \in Hashes \ {h} : hJob'[k] = hJob[k]
    BY <1>7, HeaderCommitted
  <2>2. \E r \in {"MissingParents", "RuleError", "HeaderOnly"} :
          hJob'[h] = [pc |-> "done", res |-> r]
    BY <1>0, <1>7 DEF CommitHeader, HeaderDone
  <2>3. PICK r \in {"MissingParents", "RuleError", "HeaderOnly"} :
          hJob'[h].pc = "done" /\ hJob'[h].res = r
    BY SMT, <2>2
  <2>4. Found(hJob'[h], h)
    BY <2>3 DEF BodyStatuses
  <2> QED BY <1>2, <2>1, <2>4
<1>8. ASSUME NEW h \in Hashes, HeaderEnd(h)
      PROVE  \A k \in Hashes : hJob'[k] # None => Found(hJob'[k], k)
  <2>1. hJob' = [hJob EXCEPT ![h] = None]
    BY <1>8 DEF HeaderEnd
  <2> QED BY <1>0, <1>2, <2>1
<1>9. \/ UNCHANGED hJob
      \/ \E h \in Hashes : \/ HeaderBegin(h) \/ ProcessHeader(h) \/ CommitHeader(h) \/ HeaderEnd(h)
                           \/ \E p \in Parents[h] : CheckParentExists(h, p)
  BY DEF Next, vars, headerVars, ValidateAndInsertBlock, SignalExit, Terminated,
         HeaderWorker, HeaderWorkerRegister, HeaderWorkerExit, HeaderWorkerWait,
         HeaderWorkerForward, HeaderStep, HeaderDefer, BodyWorker, BodyWorkerRegister,
         BodyWorkerExit, BodyWorkerWait, BodyWorkerForward, BodyStep, BodyDefer, BodyBegin,
         ProcessBlockBody, BodyEnd, VirtualWorker, VirtualReceive, VirtualSelect, VirtualWalk,
         VirtualCommit, VirtualReply
<1> HIDE DEF Found
<1> QED BY <1>3, <1>4, <1>5, <1>6, <1>7, <1>8, <1>9

(* FindingsInv for the body closures.                                      *)
LEMMA BodyFindings ==
  ASSUME Inv, ServiceInv, [Next]_vars
  PROVE  \A h \in Hashes : bJob'[h] # None /\ bJob'[h].pc = "done" =>
           /\ bJob'[h].res \in BodyStatuses \cup Errors
           /\ bJob'[h].res = "KnownInvalid" => statuses'[h] = "Invalid"
           /\ bJob'[h].res \in BodyStatuses => HasBody(h)'
<1> DEFINE Found(j, h) == j.pc = "done" =>
             /\ j.res \in BodyStatuses \cup Errors
             /\ j.res = "KnownInvalid" => statuses'[h] = "Invalid"
             /\ j.res \in BodyStatuses => HasBody(h)'
<1> SUFFICES \A h \in Hashes : bJob'[h] # None => Found(bJob'[h], h)
  OBVIOUS
<1>0. bJob \in [Hashes -> BodyJobs \cup {None}] /\ Kept
  BY KeptStep DEF Inv, TypeInv, DataTypes, JobTypes
<1>1. \A h \in Hashes : bJob[h] # None => Found(bJob[h], h)
  BY <1>0 DEF ServiceInv, FindingsInv, Kept
<1>2. ASSUME NEW h \in Hashes, NEW j, bJob' = [bJob EXCEPT ![h] = j], j # None => Found(j, h)
      PROVE  \A k \in Hashes : bJob'[k] # None => Found(bJob'[k], k)
  BY <1>0, <1>1, <1>2
<1>3. CASE UNCHANGED bJob
  BY <1>1, <1>3
<1>4. ASSUME NEW h \in Hashes, BodyBegin(h)
      PROVE  \A k \in Hashes : bJob'[k] # None => Found(bJob'[k], k)
  BY <1>2, <1>4 DEF BodyBegin
<1>5. ASSUME NEW h \in Hashes, BodyEnd(h)
      PROVE  \A k \in Hashes : bJob'[k] # None => Found(bJob'[k], k)
  BY <1>2, <1>5 DEF BodyEnd
<1>6. ASSUME NEW h \in Hashes, ProcessBlockBody(h)
      PROVE  \A k \in Hashes : bJob'[k] # None => Found(bJob'[k], k)
  <2>0. statuses \in [Hashes -> Statuses \cup {None}]
    BY DEF Inv, TypeInv, DataTypes, StoreTypes
  <2>1. CASE KeepBody(h)
    <3>1. PICK r \in BodyStatuses \cup Errors :
            /\ bJob' = [bJob EXCEPT ![h] = [pc |-> "done", res |-> r]]
            /\ r \in BodyStatuses => HasBody(h)
            /\ r = "KnownInvalid" => statuses[h] = "Invalid"
      BY <2>1 DEF KeepBody, ReportBody
    <3>2. Found([pc |-> "done", res |-> r], h)
      BY <1>0, <3>1 DEF Kept
    <3> QED BY <1>2, <3>1, <3>2
  <2>2. CASE RejectBody(h)
    <3>1. bJob' = [bJob EXCEPT ![h] = [pc |-> "done", res |-> "RuleError"]]
      BY <2>2 DEF RejectBody, ReportBody
    <3>2. Found([pc |-> "done", res |-> "RuleError"], h)
      BY DEF Errors, BodyStatuses
    <3> QED BY <1>2, <3>1, <3>2
  <2>3. CASE StoreBody(h)
    <3>1. bJob' = [bJob EXCEPT ![h] = [pc |-> "done", res |-> "UTXOPendingVerification"]]
      BY <2>3 DEF StoreBody, ReportBody
    <3>2. HasBody(h)'
      BY <2>0, <2>3 DEF StoreBody, HasBody, BodyStatuses
    <3>3. Found([pc |-> "done", res |-> "UTXOPendingVerification"], h)
      BY <3>2 DEF Errors, BodyStatuses
    <3> QED BY <1>2, <3>1, <3>3
  <2> QED BY <1>6, <2>1, <2>2, <2>3, BodyOutcomes DEF Inv
<1>7. BodyWorkerRegister \/ (\E h \in Hashes : BodyDefer(h)) => UNCHANGED bJob
  BY DEF BodyWorkerRegister, BodyDefer
<1> HIDE DEF Found
<1> QED BY <1>3, <1>4, <1>5, <1>6, <1>7, BodySteps
-----------------------------------------------------------------------------
(* ServiceInv holds initially.                                             *)
LEMMA ServiceInvInit == Init => ServiceInv
<1> SUFFICES ASSUME Init PROVE ServiceInv
  OBVIOUS
<1>1. /\ headerCh = <<>> /\ bodyCh = <<>> /\ virtualCh = <<>> /\ Batch = <<>>
      /\ \A h \in Hashes : hPending[h] = None /\ bPending[h] = None /\ hJob[h] = None /\ bJob[h] = None
      /\ \A c \in Callers : reply[c] = None
      /\ sub \in [Callers -> Submissions \cup {None}]
  BY DEF Init, H!ManagerInit, B!ManagerInit, Batch
<1>2. Range(<<>>) = {} /\ \A c : ~InChannel(<<>>, c)
  BY RangeFacts DEF InChannel
<1>3. \A c : ~InTasks(hPending, c) /\ ~InTasks(bPending, c)
  BY <1>1 DEF InTasks
<1>4. TransmitterInv
  <2>1. \A k, c : c \in Callers => ~At(k, c)
    BY <1>1, <1>2, <1>3 DEF At
  <2>2. OnePlace
    BY <2>1 DEF OnePlace
  <2>3. Separate(<<>>)
    BY SMT DEF Separate
  <2> QED BY <1>1, <2>2, <2>3 DEF TransmitterInv
<1>5. CallInv
  BY <1>1, <1>2 DEF CallInv, ChannelAsCalled, TasksAsCalled
<1>6. StoredInv
  BY <1>1, <1>2 DEF StoredInv, ChannelStored
<1>7. FindingsInv
  BY <1>1 DEF FindingsInv
<1> QED BY <1>4, <1>5, <1>6, <1>7 DEF ServiceInv

(* ServiceInv is inductive relative to the invariant of the pipeline.      *)
LEMMA ServiceInvStep == Inv /\ ServiceInv /\ [Next]_vars => ServiceInv'
<1> SUFFICES ASSUME Inv, ServiceInv, [Next]_vars PROVE ServiceInv'
  OBVIOUS
<1>1. TransmitterInv'
  BY OnePlaceStep, SeparateStep DEF TransmitterInv
<1>2. FindingsInv'
  BY HeaderFindings, BodyFindings DEF FindingsInv
<1> QED BY <1>1, <1>2, CallInvStep, StoredInvStep DEF ServiceInv
-----------------------------------------------------------------------------
(***************************************************************************)
(* Submitting parents before children is enough.  The channels are first   *)
(* in, first out, and a task begins only when no parent is pending: so     *)
(* when the closure of a block that one caller alone submitted looks for   *)
(* its parents, the earlier calls for these are through with the stage.    *)
(***************************************************************************)

\* None but d is submitting d's block.
Sole(d) == sub[d] # None /\ \A e \in Callers \ {d} : sub[e] # None => sub[e].hash # sub[d].hash

\* Calls for parents made before d's call.
Earlier(d) == {c \in sub[d].after : sub[c].hash \in Parents[sub[d].hash]}

\* The transmitter of c has left the header stage, or the body stage too.
PastHeader(c) == ~InChannel(headerCh, c) /\ ~InTasks(hPending, c)
PastBody(c) == PastHeader(c) /\ ~InChannel(bodyCh, c) /\ ~InTasks(bPending, c)

\* Somebody sent it, and the transactions if there are any.
Owned(txs, b) == txs # {} /\ (b # HeaderOnly => \E c \in txs : sub[c].block # HeaderOnly)
ChannelOwned(q) == \A m \in Range(q) : IsProcess(m) => Owned(m.txs, m.block)
TasksOwned(pending) ==
  \A h \in Hashes : pending[h] # None => Owned(pending[h].result_transmitters, pending[h].block)
OwnedInv ==
  ChannelOwned(headerCh) /\ ChannelOwned(bodyCh) /\ TasksOwned(hPending) /\ TasksOwned(bPending)

\* A closure runs for a pending task only.
JobsPending ==
  \A h \in Hashes : (hJob[h] # None => hPending[h] # None) /\ (bJob[h] # None => bPending[h] # None)

\* If c is in the channel then d comes later.
Ahead(q, c, d) == \A i, j \in DOMAIN q : Holds(q[i], c) /\ Holds(q[j], d) => i < j

HeaderOrder ==
  \A d \in Callers : sub[d] # None => \A c \in sub[d].after :
    /\ sub[c] # None /\ c # d
    /\ Ahead(headerCh, c, d)
    /\ InChannel(headerCh, c) => InChannel(headerCh, d)
HeaderPassed ==
  \A d \in Callers : Sole(d) /\ (PastHeader(d) \/ (InTasks(hPending, d) /\ hJob[sub[d].hash] # None))
    => \A c \in Earlier(d) : PastHeader(c)
BodyOrder ==
  \A d \in Callers : Sole(d) => \A c \in Earlier(d) :
    /\ Ahead(bodyCh, c, d)
    /\ InChannel(bodyCh, c) => ~InTasks(bPending, d)
BodyPassed ==
  \A d \in Callers : Sole(d) /\ InTasks(bPending, d) /\ bJob[sub[d].hash] # None
    => \A c \in Earlier(d) : PastBody(c)

\* A call that is past a stage found out, or failed.
KnownInv ==
  \A c \in Callers : sub[c] # None /\ PastHeader(c) =>
    \/ reply[c] \in Errors
    \/ /\ statuses[sub[c].hash] # None
       /\ sub[c].block # HeaderOnly /\ PastBody(c) => HasBody(sub[c].hash)

\* Some parent has no successful call before d's.
Alone(d) ==
  \E p \in Parents[sub[d].hash] \ {Genesis} : \A c \in sub[d].after :
    sub[c].hash = p /\ (sub[d].block # HeaderOnly => sub[c].block # HeaderOnly) => reply[c] \in Errors
HeaderMisses(h) ==
  /\ hJob[h] # None
  /\ \/ hJob[h].pc = "parents" /\ hJob[h].missing
     \/ hJob[h].pc = "done" /\ hJob[h].res = "MissingParents"
BodyMisses(h) == bJob[h] # None /\ bJob[h].pc = "done" /\ bJob[h].res = "MissingParents"
MissingInv ==
  \A d \in Callers :
    /\ Sole(d)
    /\ \/ InTasks(hPending, d) /\ HeaderMisses(sub[d].hash)
       \/ InTasks(bPending, d) /\ BodyMisses(sub[d].hash)
       \/ reply[d] = "MissingParents"
    => Alone(d)

OrderInv ==
  /\ OwnedInv /\ JobsPending /\ HeaderOrder /\ HeaderPassed /\ BodyOrder /\ BodyPassed
  /\ KnownInv /\ MissingInv
-----------------------------------------------------------------------------
(* Messages stay in a channel until they are received.                     *)
LEMMA StayInChannel ==
  ASSUME NEW q \in Seq(Messages), NEW c
  PROVE  /\ \A m \in Messages : InChannel(q, c) \/ Holds(m, c) => InChannel(Append(q, m), c)
         /\ q # <<>> /\ InChannel(q, c) => InChannel(Tail(q), c) \/ Holds(Head(q), c)
<1>1. \A m \in Messages : InChannel(q, c) \/ Holds(m, c) => InChannel(Append(q, m), c)
  BY SMT, RangeFacts DEF InChannel
<1>2. ASSUME q # <<>>, NEW i \in DOMAIN q, Holds(q[i], c)
      PROVE  InChannel(Tail(q), c) \/ Holds(Head(q), c)
  <2>1. CASE i = 1
    BY SMT, <1>2, <2>1
  <2>2. CASE i # 1
    <3>1. i - 1 \in DOMAIN Tail(q) /\ Tail(q)[i - 1] = q[i]
      BY SMT, <1>2, <2>2
    <3> QED BY <1>2, <3>1 DEF InChannel, Range
  <2> QED BY <2>1, <2>2
<1> QED BY <1>1, <1>2 DEF InChannel, Range

(* A registered message's transmitters join those of the task.             *)
LEMMA HeaderJoined ==
  ASSUME Inv, HeaderWorkerRegister
  PROVE  LET m == Head(headerCh)
         IN  /\ headerCh # <<>> /\ IsProcess(m) /\ headerCh' = Tail(headerCh)
             /\ m.hash \in Hashes /\ m.txs \in SUBSET Callers
             /\ \A k \in Hashes \ {m.hash} : hPending'[k] = hPending[k]
             /\ hPending'[m.hash] # None
             /\ hPending'[m.hash].result_transmitters =
                  m.txs \cup IF hPending[m.hash] = None THEN {} ELSE hPending[m.hash].result_transmitters
             /\ hPending'[m.hash].block =
                  IF hPending[m.hash] = None \/ hPending[m.hash].block = HeaderOnly
                  THEN m.block ELSE hPending[m.hash].block
             /\ UNCHANGED <<hJob, bodyCh, bPending, bJob, reply, sub, statuses>>
<1> DEFINE m == Head(headerCh)
<1>1. /\ headerCh # <<>> /\ m.type = "Process" /\ H!Register(m.hash, m.block, m.txs)
      /\ headerCh' = Tail(headerCh)
      /\ UNCHANGED <<hJob, bodyCh, bPending, bJob, reply, sub, statuses>>
  BY DEF HeaderWorkerRegister, bodyVars, callerVars, stores
<1>2. /\ headerCh \in Seq(Messages) /\ H!ManagerTypeOK /\ DOMAIN hPending = Hashes
  BY PlaceTypes DEF Inv, TypeInv, H!ManagerTypeOK
<1>3. m.hash \in Hashes /\ m.block \in Contents /\ m.txs \in SUBSET Callers /\ IsProcess(m)
  BY <1>1, <1>2, Received DEF IsProcess
<1> HIDE DEF m
<1>4. /\ \A k \in Hashes \ {m.hash} : hPending'[k] = hPending[k]
      /\ hPending'[m.hash].block =
           IF hPending[m.hash] = None \/ hPending[m.hash].block = HeaderOnly
           THEN m.block ELSE hPending[m.hash].block
  BY <1>1, <1>2, <1>3, HeaderEffects
<1>5. /\ hPending'[m.hash] \in H!Task
      /\ hPending'[m.hash].result_transmitters =
           m.txs \cup IF hPending[m.hash] = None THEN {} ELSE hPending[m.hash].result_transmitters
  <2>1. CASE hPending[m.hash] = None
    BY SMT, <1>1, <1>2, <1>3, <2>1
       DEF H!Register, H!BlockTaskInternal, H!ManagerTypeOK, H!Task, H!NoDependents, H!Contents, Contents
  <2>2. CASE hPending[m.hash] # None
    <3> DEFINE t == hPending[m.hash]
               txs == t.result_transmitters \cup m.txs
               block == IF t.block = HeaderOnly THEN m.block ELSE t.block
    <3>1. t \in H!Task
      BY <1>2, <1>3, <2>2 DEF H!ManagerTypeOK
    <3>2. txs \in SUBSET Callers /\ block \in Contents
      BY <1>3, <3>1 DEF H!Task, H!Contents, Contents
    <3>3. hPending'[m.hash] = [t EXCEPT !.result_transmitters = txs, !.block = block]
      BY <1>1, <1>2, <1>3, <2>2 DEF H!Register
    <3> HIDE DEF t, txs, block
    <3>4. /\ hPending'[m.hash] \in H!Task
          /\ hPending'[m.hash].result_transmitters = txs
      BY <3>1, <3>2, <3>3 DEF H!Task, H!Contents, Contents
    <3> QED BY <2>2, <3>4 DEF txs, t
  <2> QED BY <2>1, <2>2
<1>6. hPending'[m.hash] # None
  BY <1>5, NoneAssumption
<1> QED BY <1>1, <1>3, <1>4, <1>5, <1>6 DEF m

(* The same in the body stage.                                             *)
LEMMA BodyJoined ==
  ASSUME Inv, BodyWorkerRegister
  PROVE  LET m == Head(bodyCh)
         IN  /\ bodyCh # <<>> /\ IsProcess(m) /\ bodyCh' = Tail(bodyCh)
             /\ m.hash \in Hashes /\ m.txs \in SUBSET Callers
             /\ \A k \in Hashes \ {m.hash} : bPending'[k] = bPending[k]
             /\ bPending'[m.hash] # None
             /\ bPending'[m.hash].result_transmitters =
                  m.txs \cup IF bPending[m.hash] = None THEN {} ELSE bPending[m.hash].result_transmitters
             /\ bPending'[m.hash].block =
                  IF bPending[m.hash] = None \/ bPending[m.hash].block = HeaderOnly
                  THEN m.block ELSE bPending[m.hash].block
             /\ UNCHANGED <<bJob, headerCh, hPending, hJob, reply, sub, statuses>>
<1> DEFINE m == Head(bodyCh)
<1>1. /\ bodyCh # <<>> /\ m.type = "Process" /\ B!Register(m.hash, m.block, m.txs)
      /\ bodyCh' = Tail(bodyCh)
      /\ UNCHANGED <<bJob, headerCh, hPending, hJob, reply, sub, statuses>>
  BY DEF BodyWorkerRegister, headerVars, callerVars, stores
<1>2. /\ bodyCh \in Seq(Messages) /\ B!ManagerTypeOK /\ DOMAIN bPending = Hashes
  BY PlaceTypes DEF Inv, TypeInv, B!ManagerTypeOK
<1>3. m.hash \in Hashes /\ m.block \in Contents /\ m.txs \in SUBSET Callers /\ IsProcess(m)
  BY <1>1, <1>2, Received DEF IsProcess
<1> HIDE DEF m
<1>4. /\ \A k \in Hashes \ {m.hash} : bPending'[k] = bPending[k]
      /\ bPending'[m.hash].block =
           IF bPending[m.hash] = None \/ bPending[m.hash].block = HeaderOnly
           THEN m.block ELSE bPending[m.hash].block
  BY <1>1, <1>2, <1>3, BodyEffects
<1>5. /\ bPending'[m.hash] \in B!Task
      /\ bPending'[m.hash].result_transmitters =
           m.txs \cup IF bPending[m.hash] = None THEN {} ELSE bPending[m.hash].result_transmitters
  <2>1. CASE bPending[m.hash] = None
    BY SMT, <1>1, <1>2, <1>3, <2>1
       DEF B!Register, B!BlockTaskInternal, B!ManagerTypeOK, B!Task, B!NoDependents, B!Contents, Contents
  <2>2. CASE bPending[m.hash] # None
    <3> DEFINE t == bPending[m.hash]
               txs == t.result_transmitters \cup m.txs
               block == IF t.block = HeaderOnly THEN m.block ELSE t.block
    <3>1. t \in B!Task
      BY <1>2, <1>3, <2>2 DEF B!ManagerTypeOK
    <3>2. txs \in SUBSET Callers /\ block \in Contents
      BY <1>3, <3>1 DEF B!Task, B!Contents, Contents
    <3>3. bPending'[m.hash] = [t EXCEPT !.result_transmitters = txs, !.block = block]
      BY <1>1, <1>2, <1>3, <2>2 DEF B!Register
    <3> HIDE DEF t, txs, block
    <3>4. /\ bPending'[m.hash] \in B!Task
          /\ bPending'[m.hash].result_transmitters = txs
      BY <3>1, <3>2, <3>3 DEF B!Task, B!Contents, Contents
    <3> QED BY <2>2, <3>4 DEF txs, t
  <2> QED BY <2>1, <2>2
<1>6. bPending'[m.hash] # None
  BY <1>5, NoneAssumption DEF B!Task, H!Task, B!Contents, H!Contents
<1> QED BY <1>1, <1>3, <1>4, <1>5, <1>6 DEF m

(* What the end of a closure does: its transmitters are answered or go on. *)
LEMMA HeaderEnded ==
  ASSUME Inv, NEW h \in Hashes, HeaderEnd(h)
  PROVE  /\ hPending[h] # None /\ hJob[h] # None /\ hJob[h].pc = "done"
         /\ hPending'[h] = None /\ \A k \in Hashes \ {h} : hPending'[k] = hPending[k]
         /\ hJob'[h] = None /\ \A k \in Hashes \ {h} : hJob'[k] = hJob[k]
         /\ \/ /\ hJob[h].res \in Errors \/ hPending[h].block = HeaderOnly
               /\ Transmit(hPending[h].result_transmitters, hJob[h].res) /\ UNCHANGED bodyCh
            \/ /\ hJob[h].res \notin Errors /\ hPending[h].block # HeaderOnly
               /\ bodyCh' = Append(bodyCh, Process(h, hPending[h].block,
                                                   hPending[h].result_transmitters))
               /\ UNCHANGED reply
         /\ UNCHANGED <<headerCh, bPending, bJob, sub, statuses>>
BY DEF HeaderEnd, H!End, stores, Inv, TypeInv, DataTypes, JobTypes, H!ManagerTypeOK

(* The same in the body stage.                                             *)
LEMMA BodyEnded ==
  ASSUME Inv, NEW h \in Hashes, BodyEnd(h)
  PROVE  /\ bPending[h] # None /\ bJob[h] # None /\ bJob[h].pc = "done"
         /\ bPending'[h] = None /\ \A k \in Hashes \ {h} : bPending'[k] = bPending[k]
         /\ bJob'[h] = None /\ \A k \in Hashes \ {h} : bJob'[k] = bJob[k]
         /\ \/ bJob[h].res \in Errors /\ Transmit(bPending[h].result_transmitters, bJob[h].res)
            \/ bJob[h].res \notin Errors /\ UNCHANGED reply
         /\ UNCHANGED <<headerCh, bodyCh, hPending, hJob, sub, statuses>>
BY DEF BodyEnd, B!End, stores, headerVars, Inv, TypeInv, DataTypes, JobTypes, B!ManagerTypeOK

(* A deferred closure changes only whom its parent's task will wake.       *)
LEMMA HeaderDeferred ==
  ASSUME Inv, NEW h \in Hashes, HeaderDefer(h)
  PROVE  /\ \A k \in Hashes : hPending'[k] # None <=> hPending[k] # None
         /\ \A k \in Hashes : hPending[k] # None =>
              /\ hPending'[k].block = hPending[k].block
              /\ hPending'[k].result_transmitters = hPending[k].result_transmitters
         /\ UNCHANGED <<headerCh, hJob, bodyCh, bPending, bJob, reply, sub, statuses>>
<1>0. H!ManagerTypeOK
  BY DEF Inv, TypeInv
<1>1. PICK p \in Hashes : H!TryBeginDeferred(h, p)
  BY DEF HeaderDefer
<1> DEFINE t == hPending[p]
           deps == [t.dependent_tasks EXCEPT ![h] = @ + 1]
<1>2. /\ t # None /\ t \in H!Task
      /\ hPending' = [hPending EXCEPT ![p] = [t EXCEPT !.dependent_tasks = deps]]
  BY <1>0, <1>1 DEF H!TryBeginDeferred, H!Pending, H!ManagerTypeOK
<1>3. deps \in [Hashes -> Nat]
  BY SMT, <1>2 DEF H!Task
<1>4. [t EXCEPT !.dependent_tasks = deps] \in H!Task
  <2> HIDE DEF deps
  <2> QED BY <1>2, <1>3 DEF H!Task
<1>5. [t EXCEPT !.dependent_tasks = deps] # None
  BY <1>4, NoneAssumption
<1>6. UNCHANGED <<headerCh, hJob, bodyCh, bPending, bJob, reply, sub, statuses>>
  BY DEF HeaderDefer, bodyVars, callerVars, stores
<1> HIDE DEF deps
<1>7. /\ [t EXCEPT !.dependent_tasks = deps].block = t.block
      /\ [t EXCEPT !.dependent_tasks = deps].result_transmitters = t.result_transmitters
  BY <1>2 DEF H!Task
<1> DEFINE u == [t EXCEPT !.dependent_tasks = deps]
<1> HIDE DEF u
<1>8. /\ hPending'[p] = u /\ u # None /\ u.block = t.block
      /\ u.result_transmitters = t.result_transmitters
      /\ \A k \in Hashes \ {p} : hPending'[k] = hPending[k]
  BY <1>0, <1>2, <1>5, <1>7 DEF u, H!ManagerTypeOK
<1> QED BY <1>2, <1>6, <1>8

(* The same in the body stage.                                             *)
LEMMA BodyDeferred ==
  ASSUME Inv, NEW h \in Hashes, BodyDefer(h)
  PROVE  /\ \A k \in Hashes : bPending'[k] # None <=> bPending[k] # None
         /\ \A k \in Hashes : bPending[k] # None =>
              /\ bPending'[k].block = bPending[k].block
              /\ bPending'[k].result_transmitters = bPending[k].result_transmitters
         /\ UNCHANGED <<bodyCh, bJob, headerCh, hPending, hJob, reply, sub, statuses>>
<1>0. B!ManagerTypeOK
  BY DEF Inv, TypeInv
<1>1. PICK p \in Hashes : B!TryBeginDeferred(h, p)
  BY DEF BodyDefer
<1> DEFINE t == bPending[p]
           deps == [t.dependent_tasks EXCEPT ![h] = @ + 1]
<1>2. /\ t # None /\ t \in B!Task
      /\ bPending' = [bPending EXCEPT ![p] = [t EXCEPT !.dependent_tasks = deps]]
  BY <1>0, <1>1 DEF B!TryBeginDeferred, B!Pending, B!ManagerTypeOK
<1>3. deps \in [Hashes -> Nat]
  BY SMT, <1>2 DEF B!Task
<1>4. [t EXCEPT !.dependent_tasks = deps] \in B!Task
  <2> HIDE DEF deps
  <2> QED BY <1>2, <1>3 DEF B!Task
<1>5. [t EXCEPT !.dependent_tasks = deps] # None
  BY <1>4, NoneAssumption DEF B!Task, H!Task, B!Contents, H!Contents
<1>6. UNCHANGED <<bodyCh, bJob, headerCh, hPending, hJob, reply, sub, statuses>>
  BY DEF BodyDefer, headerVars, callerVars, stores
<1> HIDE DEF deps
<1>7. /\ [t EXCEPT !.dependent_tasks = deps].block = t.block
      /\ [t EXCEPT !.dependent_tasks = deps].result_transmitters = t.result_transmitters
  BY <1>2 DEF B!Task
<1> DEFINE u == [t EXCEPT !.dependent_tasks = deps]
<1> HIDE DEF u
<1>8. /\ bPending'[p] = u /\ u # None /\ u.block = t.block
      /\ u.result_transmitters = t.result_transmitters
      /\ \A k \in Hashes \ {p} : bPending'[k] = bPending[k]
  BY <1>0, <1>2, <1>5, <1>7 DEF u, B!ManagerTypeOK
<1> QED BY <1>2, <1>6, <1>8

(* The places of a transmitter before the virtual processor differ.        *)
LEMMA Apart ==
  ASSUME ServiceInv, NEW c \in Callers
  PROVE  /\ InChannel(headerCh, c) =>
              ~InTasks(hPending, c) /\ ~InChannel(bodyCh, c) /\ ~InTasks(bPending, c) /\ reply[c] = None
         /\ InTasks(hPending, c) =>
              ~InChannel(bodyCh, c) /\ ~InTasks(bPending, c) /\ reply[c] = None
         /\ InChannel(bodyCh, c) => ~InTasks(bPending, c) /\ reply[c] = None
         /\ InTasks(bPending, c) => reply[c] = None
         /\ InChannel(Batch, c) => reply[c] = None
<1>1. \A m, n \in Places : At(m, c) /\ At(n, c) => m = n
  BY DEF ServiceInv, TransmitterInv, OnePlace
<1>2. /\ InChannel(headerCh, c) <=> At("headerCh", c)
      /\ InTasks(hPending, c) <=> At("header", c)
      /\ InChannel(bodyCh, c) <=> At("bodyCh", c)
      /\ InTasks(bPending, c) <=> At("body", c)
      /\ InChannel(Batch, c) <=> At("batch", c)
      /\ reply[c] # None <=> At("answered", c)
  BY DEF At
<1> QED BY <1>1, <1>2 DEF Places

(* Where a call can come from, and go to, in the header stage.             *)
LEMMA HeaderPlaces ==
  ASSUME Inv, ServiceInv, [Next]_vars, NEW c \in Callers, sub[c] # None
  PROVE  /\ InChannel(headerCh', c) => InChannel(headerCh, c)
         /\ InChannel(headerCh, c) => InChannel(headerCh', c) \/ InTasks(hPending', c)
         /\ InTasks(hPending', c) => \/ InTasks(hPending, c)
                                     \/ HeaderWorkerRegister /\ InChannel(headerCh, c) /\ c \in Head(headerCh).txs
         /\ InTasks(hPending, c) => \/ InTasks(hPending', c)
                                    \/ \E h \in Hashes : HeaderEnd(h) /\ c \in hPending[h].result_transmitters
<1>0. headerCh \in Seq(Messages) /\ H!ManagerTypeOK
  BY PlaceTypes DEF Inv, TypeInv
<1>1. CASE HeaderWorkerRegister
  <2> DEFINE m == Head(headerCh)
  <2>1. /\ headerCh # <<>> /\ IsProcess(m) /\ headerCh' = Tail(headerCh)
        /\ m.hash \in Hashes
        /\ \A k \in Hashes \ {m.hash} : hPending'[k] = hPending[k]
        /\ hPending'[m.hash] # None
        /\ hPending'[m.hash].result_transmitters =
             m.txs \cup IF hPending[m.hash] = None THEN {} ELSE hPending[m.hash].result_transmitters
    BY <1>1, HeaderJoined
  <2>2. InChannel(headerCh', c) => InChannel(headerCh, c)
    BY <1>0, <2>1, ExitTransmitters
  <2>3. InChannel(headerCh, c) => InChannel(headerCh', c) \/ c \in m.txs
    BY <1>0, <2>1, StayInChannel DEF Holds
  <2>4. c \in m.txs => InChannel(headerCh, c)
    BY <1>0, <2>1, RangeFacts DEF InChannel, Holds
  <2> HIDE DEF m
  <2>5. InTasks(hPending', c) <=> InTasks(hPending, c) \/ c \in m.txs
    BY <2>1 DEF InTasks
  <2> QED BY <1>1, <2>2, <2>3, <2>4, <2>5 DEF m
<1>2. CASE ~HeaderWorkerRegister
  <2>1. InChannel(headerCh', c) <=> InChannel(headerCh, c)
    <3>1. ASSUME NEW d \in Callers, NEW h \in Hashes, NEW b \in Contents,
                 ValidateAndInsertBlock(d, h, b), headerCh' = Append(headerCh, Process(h, b, {d}))
          PROVE  InChannel(headerCh', c) <=> InChannel(headerCh, c)
      <4>1. c # d
        BY <3>1 DEF ValidateAndInsertBlock
      <4>2. Process(h, b, {d}) \in Messages
        BY MessageTypes
      <4> QED BY SMT, <1>0, <3>1, <4>1, <4>2, SentTransmitters, StayInChannel
    <3>2. CASE headerCh' = Append(headerCh, Exit)
      BY <1>0, <3>2, MessageTypes, SentTransmitters, StayInChannel
    <3>3. CASE headerCh # <<>> /\ headerCh' = Tail(headerCh) /\ ~IsProcess(Head(headerCh))
      BY <1>0, <3>3, ExitTransmitters, StayInChannel DEF Holds
    <3> QED BY <1>2, <3>1, <3>2, <3>3, ChannelMoves
  <2>2. ASSUME NEW h \in Hashes, HeaderDefer(h)
        PROVE  InTasks(hPending', c) <=> InTasks(hPending, c)
    BY <2>2, HeaderDeferred DEF InTasks
  <2>3. ASSUME NEW h \in Hashes, HeaderEnd(h)
        PROVE  /\ InTasks(hPending', c) => InTasks(hPending, c)
               /\ InTasks(hPending, c) => InTasks(hPending', c) \/ c \in hPending[h].result_transmitters
    <3>1. hPending'[h] = None /\ \A k \in Hashes \ {h} : hPending'[k] = hPending[k]
      BY <2>3, HeaderEnded
    <3> QED BY <3>1 DEF InTasks
  <2> QED BY <1>2, <2>1, <2>2, <2>3, HeaderTaskSteps
<1> QED BY <1>1, <1>2

(* The same in the body stage.                                             *)
LEMMA BodyPlaces ==
  ASSUME Inv, ServiceInv, [Next]_vars, NEW c \in Callers
  PROVE  /\ InChannel(bodyCh', c) => \/ InChannel(bodyCh, c)
                                     \/ \E h \in Hashes : HeaderEnd(h) /\ c \in hPending[h].result_transmitters
         /\ InChannel(bodyCh, c) => InChannel(bodyCh', c) \/ InTasks(bPending', c)
         /\ InTasks(bPending', c) => \/ InTasks(bPending, c)
                                     \/ BodyWorkerRegister /\ InChannel(bodyCh, c) /\ c \in Head(bodyCh).txs
         /\ InTasks(bPending, c) => \/ InTasks(bPending', c)
                                    \/ \E h \in Hashes : BodyEnd(h) /\ c \in bPending[h].result_transmitters
<1>0. bodyCh \in Seq(Messages) /\ B!ManagerTypeOK
  BY PlaceTypes DEF Inv, TypeInv
<1>1. CASE BodyWorkerRegister
  <2> DEFINE m == Head(bodyCh)
  <2>1. /\ bodyCh # <<>> /\ IsProcess(m) /\ bodyCh' = Tail(bodyCh)
        /\ m.hash \in Hashes
        /\ \A k \in Hashes \ {m.hash} : bPending'[k] = bPending[k]
        /\ bPending'[m.hash] # None
        /\ bPending'[m.hash].result_transmitters =
             m.txs \cup IF bPending[m.hash] = None THEN {} ELSE bPending[m.hash].result_transmitters
    BY <1>1, BodyJoined
  <2>2. InChannel(bodyCh', c) => InChannel(bodyCh, c)
    BY <1>0, <2>1, ExitTransmitters
  <2>3. InChannel(bodyCh, c) => InChannel(bodyCh', c) \/ c \in m.txs
    BY <1>0, <2>1, StayInChannel DEF Holds
  <2>4. c \in m.txs => InChannel(bodyCh, c)
    BY <1>0, <2>1, RangeFacts DEF InChannel, Holds
  <2> HIDE DEF m
  <2>5. InTasks(bPending', c) <=> InTasks(bPending, c) \/ c \in m.txs
    BY <2>1 DEF InTasks
  <2> QED BY <1>1, <2>2, <2>3, <2>4, <2>5 DEF m
<1>2. CASE ~BodyWorkerRegister
  <2>1. /\ InChannel(bodyCh', c) =>
             \/ InChannel(bodyCh, c)
             \/ \E h \in Hashes : HeaderEnd(h) /\ c \in hPending[h].result_transmitters
        /\ InChannel(bodyCh, c) => InChannel(bodyCh', c)
    <3>1. ASSUME NEW h \in Hashes, HeaderEnd(h), hPending[h] # None,
                 bodyCh' = Append(bodyCh, Process(h, hPending[h].block, hPending[h].result_transmitters))
          PROVE  /\ InChannel(bodyCh', c) => InChannel(bodyCh, c) \/ c \in hPending[h].result_transmitters
                 /\ InChannel(bodyCh, c) => InChannel(bodyCh', c)
      <4>1. hPending[h].block \in Contents /\ hPending[h].result_transmitters \in SUBSET Callers
        BY <3>1, PlaceTypes DEF Inv
      <4>2. Process(h, hPending[h].block, hPending[h].result_transmitters) \in Messages
        BY <4>1, MessageTypes
      <4> QED BY <1>0, <3>1, <4>1, <4>2, SentTransmitters, StayInChannel
    <3>2. CASE bodyCh' = Append(bodyCh, Exit)
      BY <1>0, <3>2, MessageTypes, SentTransmitters, StayInChannel
    <3>3. CASE bodyCh # <<>> /\ bodyCh' = Tail(bodyCh) /\ ~IsProcess(Head(bodyCh))
      BY <1>0, <3>3, ExitTransmitters, StayInChannel DEF Holds
    <3> QED BY <1>2, <3>1, <3>2, <3>3, ChannelMoves
  <2>2. ASSUME NEW h \in Hashes, BodyDefer(h)
        PROVE  InTasks(bPending', c) <=> InTasks(bPending, c)
    BY <2>2, BodyDeferred DEF InTasks
  <2>3. ASSUME NEW h \in Hashes, BodyEnd(h)
        PROVE  /\ InTasks(bPending', c) => InTasks(bPending, c)
               /\ InTasks(bPending, c) => InTasks(bPending', c) \/ c \in bPending[h].result_transmitters
    <3>1. bPending'[h] = None /\ \A k \in Hashes \ {h} : bPending'[k] = bPending[k]
      BY <2>3, BodyEnded
    <3> QED BY <3>1 DEF InTasks
  <2>4. ASSUME NEW h \in Hashes, BodyBegin(h) \/ ProcessBlockBody(h)
        PROVE  UNCHANGED bPending
    BY <2>4 DEF BodyBegin, B!TryBegin, ProcessBlockBody
  <2> QED BY <1>2, <2>1, <2>2, <2>3, <2>4, BodySteps
<1> QED BY <1>1, <1>2

(* An answer stays.                                                        *)
LEMMA ReplyKept ==
  ASSUME Inv, ServiceInv, [Next]_vars, NEW c \in Callers, reply[c] # None
  PROVE  reply'[c] = reply[c]
<1>1. ~InTasks(hPending, c) /\ ~InTasks(bPending, c) /\ ~InChannel(Batch, c)
  BY Apart
<1>2. \A h \in Hashes : hPending[h] # None => c \notin hPending[h].result_transmitters
  BY <1>1 DEF InTasks
<1>3. \A h \in Hashes : bPending[h] # None => c \notin bPending[h].result_transmitters
  BY <1>1 DEF InTasks
<1>4. VirtualReply => reply'[c] = reply[c]
  BY <1>1, BatchAnswered
<1> QED BY <1>2, <1>3, <1>4, ReplySteps DEF Transmit

(* A new call starts at the end of the first channel, and knows who called *)
(* before.                                                                 *)
LEMMA NewCall ==
  ASSUME Inv, ServiceInv, [Next]_vars, NEW d \in Callers, sub[d] = None, sub'[d] # None
  PROVE  /\ \E m \in Messages : /\ headerCh' = Append(headerCh, m)
                                /\ IsProcess(m) /\ m.txs = {d} /\ m.block = sub'[d].block
         /\ InChannel(headerCh', d) /\ ~InChannel(headerCh, d)
         /\ ~InTasks(hPending, d) /\ ~InChannel(bodyCh, d) /\ ~InTasks(bPending, d) /\ reply[d] = None
         /\ sub'[d].after = {c \in Callers : sub[c] # None}
         /\ \A c \in Callers \ {d} : sub'[c] = sub[c]
         /\ UNCHANGED <<hPending, hJob, bodyCh, bPending, bJob, reply, statuses>>
<1>0. sub \in [Callers -> Submissions \cup {None}] /\ headerCh \in Seq(Messages)
  BY PlaceTypes DEF Inv, ServiceInv, CallInv
<1>1. PICK x \in Callers, h \in Hashes, b \in Contents : ValidateAndInsertBlock(x, h, b)
  BY SubmissionStep
<1> DEFINE s == [hash |-> h, block |-> b, early |-> ~exitSent,
                 after |-> {c \in Callers : sub[c] # None}]
           m == Process(h, b, {x})
<1>2. /\ sub' = [sub EXCEPT ![x] = s] /\ headerCh' = Append(headerCh, m)
      /\ UNCHANGED <<hPending, hJob, bodyCh, bPending, bJob, reply, statuses>>
  BY <1>1 DEF ValidateAndInsertBlock, bodyVars, stores
<1>3. m \in Messages /\ IsProcess(m) /\ m.txs = {x} /\ m.block = b
  BY MessageTypes DEF Process, IsProcess
<1>4. s.block = b /\ s.after = {c \in Callers : sub[c] # None}
  OBVIOUS
<1> HIDE DEF s, m
<1>5. x = d /\ sub'[d] = s /\ \A c \in Callers \ {d} : sub'[c] = sub[c]
  BY SMT, <1>0, <1>2
<1>6. InChannel(headerCh', d)
  BY <1>0, <1>2, <1>3, <1>5, StayInChannel DEF Holds
<1>7. \A k \in Places : ~At(k, d)
  BY NowhereBefore DEF Inv
<1> QED BY <1>2, <1>3, <1>4, <1>5, <1>6, <1>7 DEF At, Places
-----------------------------------------------------------------------------
(* OwnedInv: transmitters and transactions stay together.                  *)
LEMMA OwnedInvStep ==
  ASSUME Inv, ServiceInv, OwnedInv, [Next]_vars
  PROVE  OwnedInv'
<1>0. /\ headerCh \in Seq(Messages) /\ bodyCh \in Seq(Messages)
      /\ ChannelAsCalled(headerCh) /\ ChannelAsCalled(bodyCh)
      /\ TasksAsCalled(hPending) /\ TasksAsCalled(bPending)
  BY PlaceTypes DEF Inv, ServiceInv, CallInv
<1> DEFINE Own(txs, b) == txs # {} /\ (b # HeaderOnly => \E c \in txs : sub'[c].block # HeaderOnly)
           Later(q) == \A m \in Range(q) : IsProcess(m) => Own(m.txs, m.block)
<1>1. ASSUME NEW txs \in SUBSET Callers, NEW b, Owned(txs, b), \A c \in txs : sub[c] # None
      PROVE  Own(txs, b)
  BY <1>1, SubmissionStep DEF Owned
<1>2. Later(headerCh) /\ Later(bodyCh)
  <2>1. ASSUME NEW q \in Seq(Messages), ChannelAsCalled(q), ChannelOwned(q),
               NEW m \in Range(q), IsProcess(m)
        PROVE  Own(m.txs, m.block)
    <3>1. m.txs \in SUBSET Callers /\ Owned(m.txs, m.block) /\ \A c \in m.txs : sub[c] # None
      BY <2>1, RangeFacts, MessageTypes DEF ChannelAsCalled, AsCalled, ChannelOwned
    <3> QED BY <1>1, <3>1
  <2> QED BY <1>0, <2>1 DEF OwnedInv
<1>3. /\ \A h \in Hashes : hPending[h] # None => Own(hPending[h].result_transmitters, hPending[h].block)
      /\ \A h \in Hashes : bPending[h] # None => Own(bPending[h].result_transmitters, bPending[h].block)
  <2>1. ASSUME NEW h \in Hashes, hPending[h] # None
        PROVE  Own(hPending[h].result_transmitters, hPending[h].block)
    <3>1. /\ hPending[h].result_transmitters \in SUBSET Callers
          /\ Owned(hPending[h].result_transmitters, hPending[h].block)
          /\ \A c \in hPending[h].result_transmitters : sub[c] # None
      BY <1>0, <2>1, PlaceTypes DEF Inv, OwnedInv, TasksOwned, TasksAsCalled, AsCalled
    <3> HIDE DEF Own
    <3> QED BY <1>1, <3>1
  <2>2. ASSUME NEW h \in Hashes, bPending[h] # None
        PROVE  Own(bPending[h].result_transmitters, bPending[h].block)
    <3>1. /\ bPending[h].result_transmitters \in SUBSET Callers
          /\ Owned(bPending[h].result_transmitters, bPending[h].block)
          /\ \A c \in bPending[h].result_transmitters : sub[c] # None
      BY <1>0, <2>2, PlaceTypes DEF Inv, OwnedInv, TasksOwned, TasksAsCalled, AsCalled
    <3> HIDE DEF Own
    <3> QED BY <1>1, <3>1
  <2> QED BY <2>1, <2>2
<1>4. \A q \in Seq(Messages), m \in Messages :
        Later(q) /\ (IsProcess(m) => Own(m.txs, m.block)) => Later(Append(q, m))
  <2> HIDE DEF Own
  <2> QED BY SMT, RangeFacts
<1>5. \A q \in Seq(Messages) : Later(q) /\ q # <<>> => Later(Tail(q))
  <2> HIDE DEF Own
  <2> QED BY RangeFacts
<1> HIDE DEF Later
<1>6. Later(headerCh')
  <2>1. ASSUME NEW d \in Callers, NEW h \in Hashes, NEW b \in Contents,
               ValidateAndInsertBlock(d, h, b)
        PROVE  Later(headerCh')
    <3>1. sub[d] = None /\ sub'[d] # None
      <4>1. sub[d] = None
        BY <2>1 DEF ValidateAndInsertBlock
      <4>2. [hash |-> h, block |-> b, early |-> ~exitSent, after |-> {e \in Callers : sub[e] # None}]
              \in Submissions
        BY DEF Submissions
      <4>3. sub'[d] \in Submissions
        BY <2>1, <4>2 DEF ValidateAndInsertBlock, ServiceInv, CallInv
      <4> QED BY <4>1, <4>3, NoneAssumption
    <3>2. PICK m \in Messages : /\ headerCh' = Append(headerCh, m) /\ IsProcess(m)
                                /\ m.txs = {d} /\ m.block = sub'[d].block
      BY <3>1, NewCall
    <3> QED BY <1>0, <1>2, <1>4, <3>2
  <2>2. headerCh' = Append(headerCh, Exit) => Later(headerCh')
    BY <1>0, <1>2, <1>4, MessageTypes
  <2> QED BY <1>0, <1>2, <1>5, <2>1, <2>2, ChannelMoves
<1>7. Later(bodyCh')
  <2>1. ASSUME NEW h \in Hashes, hPending[h] # None,
               bodyCh' = Append(bodyCh, Process(h, hPending[h].block, hPending[h].result_transmitters))
        PROVE  Later(bodyCh')
    <3> DEFINE m == Process(h, hPending[h].block, hPending[h].result_transmitters)
    <3>1. m \in Messages /\ m.txs = hPending[h].result_transmitters /\ m.block = hPending[h].block
      BY <2>1, PlaceTypes, MessageTypes DEF Inv, Process
    <3> HIDE DEF m
    <3>2. Later(Append(bodyCh, m))
      BY <1>0, <1>2, <1>3, <1>4, <2>1, <3>1
    <3> QED BY <2>1, <3>2 DEF m
  <2>2. bodyCh' = Append(bodyCh, Exit) => Later(bodyCh')
    BY <1>0, <1>2, <1>4, MessageTypes
  <2> QED BY <1>0, <1>2, <1>5, <2>1, <2>2, ChannelMoves
<1>8. \A h \in Hashes : hPending'[h] # None => Own(hPending'[h].result_transmitters, hPending'[h].block)
  <2>1. CASE HeaderWorkerRegister
    <3> DEFINE m == Head(headerCh)
    <3>1. /\ headerCh # <<>> /\ IsProcess(m) /\ m.hash \in Hashes
          /\ \A k \in Hashes \ {m.hash} : hPending'[k] = hPending[k]
          /\ hPending'[m.hash].result_transmitters =
               m.txs \cup IF hPending[m.hash] = None THEN {} ELSE hPending[m.hash].result_transmitters
          /\ hPending'[m.hash].block =
               IF hPending[m.hash] = None \/ hPending[m.hash].block = HeaderOnly
               THEN m.block ELSE hPending[m.hash].block
      BY <2>1, HeaderJoined
    <3>2. Own(m.txs, m.block)
      BY <1>0, <1>2, <3>1, RangeFacts DEF Later
    <3> HIDE DEF m
    <3>3. Own(hPending'[m.hash].result_transmitters, hPending'[m.hash].block)
      BY <1>3, <3>1, <3>2
    <3> QED BY <1>3, <3>1, <3>3
  <2>2. ASSUME NEW h \in Hashes, HeaderDefer(h), NEW k \in Hashes, hPending'[k] # None
        PROVE  Own(hPending'[k].result_transmitters, hPending'[k].block)
    BY <1>3, <2>2, HeaderDeferred
  <2>3. ASSUME NEW h \in Hashes, HeaderEnd(h), NEW k \in Hashes, hPending'[k] # None
        PROVE  Own(hPending'[k].result_transmitters, hPending'[k].block)
    <3>1. k # h /\ hPending'[k] = hPending[k]
      BY <2>3, HeaderEnded
    <3> HIDE DEF Own
    <3> QED BY <1>3, <2>3, <3>1
  <2> HIDE DEF Own
  <2> QED BY <1>3, <2>1, <2>2, <2>3, HeaderTaskSteps
<1>9. \A h \in Hashes : bPending'[h] # None => Own(bPending'[h].result_transmitters, bPending'[h].block)
  <2>1. CASE BodyWorkerRegister
    <3> DEFINE m == Head(bodyCh)
    <3>1. /\ bodyCh # <<>> /\ IsProcess(m) /\ m.hash \in Hashes
          /\ \A k \in Hashes \ {m.hash} : bPending'[k] = bPending[k]
          /\ bPending'[m.hash].result_transmitters =
               m.txs \cup IF bPending[m.hash] = None THEN {} ELSE bPending[m.hash].result_transmitters
          /\ bPending'[m.hash].block =
               IF bPending[m.hash] = None \/ bPending[m.hash].block = HeaderOnly
               THEN m.block ELSE bPending[m.hash].block
      BY <2>1, BodyJoined
    <3>2. Own(m.txs, m.block)
      BY <1>0, <1>2, <3>1, RangeFacts DEF Later
    <3> HIDE DEF m
    <3>3. Own(bPending'[m.hash].result_transmitters, bPending'[m.hash].block)
      BY <1>3, <3>1, <3>2
    <3> QED BY <1>3, <3>1, <3>3
  <2>2. ASSUME NEW h \in Hashes, BodyDefer(h), NEW k \in Hashes, bPending'[k] # None
        PROVE  Own(bPending'[k].result_transmitters, bPending'[k].block)
    BY <1>3, <2>2, BodyDeferred
  <2>3. ASSUME NEW h \in Hashes, BodyEnd(h), NEW k \in Hashes, bPending'[k] # None
        PROVE  Own(bPending'[k].result_transmitters, bPending'[k].block)
    BY <1>3, <2>3, BodyEnded
  <2>4. ASSUME NEW h \in Hashes, BodyBegin(h) \/ ProcessBlockBody(h)
        PROVE  UNCHANGED bPending
    BY <2>4 DEF BodyBegin, B!TryBegin, ProcessBlockBody
  <2> HIDE DEF Own
  <2> QED BY <1>3, <2>1, <2>2, <2>3, <2>4, BodySteps
<1> QED BY <1>6, <1>7, <1>8, <1>9 DEF Later, OwnedInv, ChannelOwned, TasksOwned, Owned

(* The steps of the header closures.                                       *)
LEMMA HeaderJobSteps ==
  ASSUME [Next]_vars
  PROVE  \/ UNCHANGED hJob
         \/ \E h \in Hashes :
              \/ HeaderBegin(h) \/ ProcessHeader(h) \/ CommitHeader(h) \/ HeaderEnd(h)
              \/ \E p \in Parents[h] : CheckParentExists(h, p)
BY DEF Next, vars, headerVars, ValidateAndInsertBlock, SignalExit, Terminated,
       HeaderWorker, HeaderWorkerRegister, HeaderWorkerExit, HeaderWorkerWait,
       HeaderWorkerForward, HeaderStep, HeaderDefer, BodyWorker, BodyWorkerRegister,
       BodyWorkerExit, BodyWorkerWait, BodyWorkerForward, BodyStep, BodyDefer, BodyBegin,
       ProcessBlockBody, BodyEnd, VirtualWorker, VirtualReceive, VirtualSelect, VirtualWalk,
       VirtualCommit, VirtualReply

(* A closure starts for a task none of whose parents is pending.           *)
LEMMA ClosureStarts ==
  ASSUME Inv, [Next]_vars, NEW h \in Hashes
  PROVE  /\ hJob[h] = None /\ hJob'[h] # None =>
              /\ hPending[h] # None /\ \A p \in Parents[h] : hPending[p] = None
              /\ UNCHANGED <<headerCh, hPending, bodyCh, bPending>>
         /\ bJob[h] = None /\ bJob'[h] # None =>
              /\ bPending[h] # None /\ \A p \in Parents[h] : bPending[p] = None
              /\ UNCHANGED <<headerCh, hPending, bodyCh, bPending>>
<1>0. DOMAIN hJob = Hashes /\ DOMAIN bJob = Hashes
  BY DEF Inv, TypeInv, DataTypes, JobTypes
<1>1. ASSUME hJob[h] = None, hJob'[h] # None
      PROVE  /\ hPending[h] # None /\ \A p \in Parents[h] : hPending[p] = None
             /\ UNCHANGED <<headerCh, hPending, bodyCh, bPending>>
  <2>1. \A k \in Hashes : k # h => ~HeaderBegin(k)
    BY <1>0, <1>1 DEF HeaderBegin
  <2>2. \A k \in Hashes : ~ProcessHeader(k) /\ ~CommitHeader(k)
    BY <1>0, <1>1 DEF ProcessHeader, CommitHeader, HeaderDone
  <2>3. \A k \in Hashes : ~HeaderEnd(k)
    BY <1>0, <1>1 DEF HeaderEnd
  <2>4. \A k \in Hashes : \A p \in Parents[k] : ~CheckParentExists(k, p)
    BY <1>0, <1>1 DEF CheckParentExists, HeaderDone
  <2>5. HeaderBegin(h)
    BY <1>1, <2>1, <2>2, <2>3, <2>4, HeaderJobSteps
  <2> QED BY <2>5, ParentsAssumption DEF HeaderBegin, H!TryBegin, H!Pending, bodyVars
<1>2. ASSUME bJob[h] = None, bJob'[h] # None
      PROVE  /\ bPending[h] # None /\ \A p \in Parents[h] : bPending[p] = None
             /\ UNCHANGED <<headerCh, hPending, bodyCh, bPending>>
  <2>1. \A k \in Hashes : k # h => ~BodyBegin(k)
    BY <1>0, <1>2 DEF BodyBegin
  <2>2. \A k \in Hashes : ~ProcessBlockBody(k) /\ ~BodyEnd(k)
    BY <1>0, <1>2 DEF ProcessBlockBody, BodyEnd
  <2>3. BodyWorkerRegister \/ (\E k \in Hashes : BodyDefer(k)) => UNCHANGED bJob
    BY DEF BodyWorkerRegister, BodyDefer
  <2>4. BodyBegin(h)
    BY <1>2, <2>1, <2>2, <2>3, BodySteps
  <2> QED BY <2>4, ParentsAssumption DEF BodyBegin, B!TryBegin, B!Pending, headerVars
<1> QED BY <1>1, <1>2

(* JobsPending: the end of a closure is the end of its task.               *)
LEMMA JobsPendingStep ==
  ASSUME Inv, JobsPending, [Next]_vars
  PROVE  JobsPending'
<1>1. ASSUME NEW h \in Hashes, hJob'[h] # None PROVE hPending'[h] # None
  <2>1. hPending[h] # None
    BY <1>1, ClosureStarts DEF JobsPending
  <2>2. CASE HeaderWorkerRegister
    BY <2>1, <2>2, HeaderJoined
  <2>3. ASSUME NEW k \in Hashes, HeaderDefer(k) PROVE hPending'[h] # None
    BY <2>1, <2>3, HeaderDeferred
  <2>4. ASSUME NEW k \in Hashes, HeaderEnd(k) PROVE hPending'[h] # None
    BY <1>1, <2>1, <2>4, HeaderEnded
  <2> QED BY <2>1, <2>2, <2>3, <2>4, HeaderTaskSteps
<1>2. ASSUME NEW h \in Hashes, bJob'[h] # None PROVE bPending'[h] # None
  <2>1. bPending[h] # None
    BY <1>2, ClosureStarts DEF JobsPending
  <2>2. CASE BodyWorkerRegister
    BY <2>1, <2>2, BodyJoined
  <2>3. ASSUME NEW k \in Hashes, BodyDefer(k) PROVE bPending'[h] # None
    BY <2>1, <2>3, BodyDeferred
  <2>4. ASSUME NEW k \in Hashes, BodyEnd(k) PROVE bPending'[h] # None
    BY <1>2, <2>1, <2>4, BodyEnded
  <2>5. ASSUME NEW k \in Hashes, BodyBegin(k) \/ ProcessBlockBody(k) PROVE UNCHANGED bPending
    BY <2>5 DEF BodyBegin, B!TryBegin, ProcessBlockBody
  <2> QED BY <2>1, <2>2, <2>3, <2>4, <2>5, BodySteps
<1> QED BY <1>1, <1>2 DEF JobsPending
-----------------------------------------------------------------------------
(* What sending and receiving do to the order of two transmitters.         *)
LEMMA AheadFacts ==
  ASSUME NEW q \in Seq(Messages), NEW c, NEW d
  PROVE  /\ ~InChannel(q, d) => Ahead(q, c, d)
         /\ Ahead(q, c, d) /\ q # <<>> =>
              Ahead(Tail(q), c, d) /\ (Holds(Head(q), d) => ~InChannel(q, c))
         /\ \A m \in Messages :
              /\ Ahead(q, c, d)
              /\ Holds(m, c) => ~InChannel(q, d) /\ ~Holds(m, d)
              => Ahead(Append(q, m), c, d)
<1>1. ~InChannel(q, d) => Ahead(q, c, d)
  BY DEF InChannel, Range, Ahead
<1>2. ASSUME Ahead(q, c, d), q # <<>>
      PROVE  Ahead(Tail(q), c, d) /\ (Holds(Head(q), d) => ~InChannel(q, c))
  <2>1. \A i \in DOMAIN Tail(q) : i \in Nat /\ i + 1 \in DOMAIN q /\ Tail(q)[i] = q[i + 1]
    BY SMT, <1>2, ReceiveMessage
  <2>2. Ahead(Tail(q), c, d)
    BY SMT, <1>2, <2>1 DEF Ahead
  <2>3. ASSUME Holds(Head(q), d), InChannel(q, c) PROVE FALSE
    <3>1. PICK i \in DOMAIN q : Holds(q[i], c)
      BY <2>3 DEF InChannel, Range
    <3>2. 1 \in DOMAIN q /\ Head(q) = q[1] /\ i \in Nat /\ i >= 1
      BY SMT, <1>2, ReceiveMessage
    <3>3. i < 1
      BY <1>2, <2>3, <3>1, <3>2 DEF Ahead
    <3> QED BY SMT, <3>2, <3>3
  <2> QED BY <2>2, <2>3
<1>3. ASSUME NEW m \in Messages, Ahead(q, c, d), Holds(m, c) => ~InChannel(q, d) /\ ~Holds(m, d)
      PROVE  Ahead(Append(q, m), c, d)
  <2>1. /\ \A i \in DOMAIN q : Append(q, m)[i] = q[i] /\ i \in Nat /\ i < Len(q) + 1
        /\ Append(q, m)[Len(q) + 1] = m
        /\ DOMAIN Append(q, m) = DOMAIN q \cup {Len(q) + 1}
    BY SMT
  <2>2. \A i \in DOMAIN q : Holds(m, c) => ~Holds(q[i], d)
    BY <1>3 DEF InChannel, Range
  <2> QED BY <1>3, <2>1, <2>2 DEF Ahead
<1> QED BY <1>1, <1>2, <1>3

(* A call that was made stays as it was, and so do the calls before it.    *)
LEMMA OldCall ==
  ASSUME Inv, ServiceInv, HeaderOrder, [Next]_vars, NEW d \in Callers, sub[d] # None
  PROVE  /\ sub'[d] = sub[d] /\ sub[d].after \in SUBSET Callers /\ sub[d].hash \in Hashes
         /\ \A c \in sub[d].after : sub[c] # None /\ sub'[c] = sub[c]
         /\ Earlier(d)' = Earlier(d) /\ Earlier(d) \in SUBSET Callers
         /\ Sole(d)' => Sole(d)
<1>1. sub'[d] = sub[d] /\ sub[d].after \in SUBSET Callers /\ sub[d].hash \in Hashes
  BY SubmissionStep DEF ServiceInv, CallInv, Submissions
<1>2. \A c \in sub[d].after : c \in Callers /\ sub[c] # None /\ sub'[c] = sub[c]
  BY <1>1, SubmissionStep DEF HeaderOrder
<1>3. Earlier(d)' = Earlier(d) /\ Earlier(d) \in SUBSET Callers
  BY <1>1, <1>2 DEF Earlier
<1>4. Sole(d)' => Sole(d)
  BY <1>1, SubmissionStep DEF Sole
<1> QED BY <1>1, <1>2, <1>3, <1>4

(* HeaderOrder: the first channel holds the calls in the order they were   *)
(* made.                                                                   *)
LEMMA HeaderOrderStep ==
  ASSUME Inv, ServiceInv, HeaderOrder, [Next]_vars
  PROVE  HeaderOrder'
<1>0. headerCh \in Seq(Messages)
  BY PlaceTypes DEF Inv
<1> SUFFICES ASSUME NEW d \in Callers, sub'[d] # None, NEW c \in sub'[d].after
             PROVE  /\ sub'[c] # None /\ c # d
                    /\ Ahead(headerCh', c, d)
                    /\ InChannel(headerCh', c) => InChannel(headerCh', d)
  BY DEF HeaderOrder
<1>1. CASE sub[d] = None
  <2>1. PICK m \in Messages : headerCh' = Append(headerCh, m) /\ IsProcess(m) /\ m.txs = {d}
    BY <1>1, NewCall
  <2>2. c \in Callers /\ sub[c] # None /\ c # d /\ sub'[c] = sub[c]
    BY <1>1, NewCall
  <2>3. InChannel(headerCh', d) /\ ~InChannel(headerCh, d)
    BY <1>1, NewCall
  <2>4. Ahead(headerCh, c, d) /\ ~Holds(m, c)
    BY <1>0, <2>1, <2>2, <2>3, AheadFacts DEF Holds
  <2>5. Ahead(Append(headerCh, m), c, d)
    BY <1>0, <2>4, AheadFacts
  <2> QED BY <2>1, <2>2, <2>3, <2>5
<1>2. CASE sub[d] # None
  <2>1. /\ c \in Callers /\ sub[c] # None /\ sub'[c] = sub[c] /\ c # d
        /\ Ahead(headerCh, c, d) /\ (InChannel(headerCh, c) => InChannel(headerCh, d))
    BY <1>2, OldCall DEF HeaderOrder
  <2>2. ASSUME headerCh # <<>>, headerCh' = Tail(headerCh)
        PROVE  Ahead(headerCh', c, d) /\ (InChannel(headerCh', c) => InChannel(headerCh', d))
    <3>1. Ahead(headerCh', c, d) /\ (Holds(Head(headerCh), d) => ~InChannel(headerCh, c))
      BY <1>0, <2>1, <2>2, AheadFacts
    <3>2. InChannel(headerCh', c) => InChannel(headerCh, c)
      BY <1>0, <2>2, ExitTransmitters
    <3>3. InChannel(headerCh, d) => InChannel(headerCh', d) \/ Holds(Head(headerCh), d)
      BY <1>0, <2>2, StayInChannel
    <3> QED BY <2>1, <3>1, <3>2, <3>3
  <2>3. ASSUME NEW m \in Messages, headerCh' = Append(headerCh, m), ~Holds(m, c)
        PROVE  Ahead(headerCh', c, d) /\ (InChannel(headerCh', c) => InChannel(headerCh', d))
    <3>1. Ahead(headerCh', c, d)
      BY <1>0, <2>1, <2>3, AheadFacts
    <3>2. InChannel(headerCh', c) => InChannel(headerCh, c)
      BY <2>1, HeaderPlaces
    <3>3. InChannel(headerCh, d) => InChannel(headerCh', d)
      BY <1>0, <2>3, StayInChannel
    <3> QED BY <2>1, <3>1, <3>2, <3>3
  <2>4. ASSUME NEW x \in Callers, NEW h \in Hashes, NEW b \in Contents,
               ValidateAndInsertBlock(x, h, b), headerCh' = Append(headerCh, Process(h, b, {x}))
        PROVE  Process(h, b, {x}) \in Messages /\ ~Holds(Process(h, b, {x}), c)
    <3>1. x # c
      BY <2>1, <2>4 DEF ValidateAndInsertBlock
    <3> QED BY <3>1, MessageTypes DEF Holds, Process
  <2>5. Exit \in Messages /\ ~Holds(Exit, c)
    BY MessageTypes DEF Holds
  <2>6. Ahead(headerCh', c, d) /\ (InChannel(headerCh', c) => InChannel(headerCh', d))
    BY <2>1, <2>2, <2>3, <2>4, <2>5, ChannelMoves
  <2> QED BY <2>1, <2>6
<1> QED BY <1>1, <1>2

(* The transmitters of a task are those of calls for its block.            *)
LEMMA TaskOf ==
  ASSUME ServiceInv, NEW h \in Hashes, NEW c
  PROVE  /\ hPending[h] # None /\ c \in hPending[h].result_transmitters =>
              sub[c] # None /\ sub[c].hash = h /\ InTasks(hPending, c)
         /\ bPending[h] # None /\ c \in bPending[h].result_transmitters =>
              sub[c] # None /\ sub[c].hash = h /\ InTasks(bPending, c)
BY DEF ServiceInv, CallInv, TasksAsCalled, AsCalled, InTasks

(* A block that one caller alone submits finds no task of its own, and so  *)
(* no closure.                                                             *)
LEMMA JoinsAlone ==
  ASSUME Inv, ServiceInv, OwnedInv, JobsPending, NEW d \in Callers, Sole(d)
  PROVE  /\ HeaderWorkerRegister /\ InChannel(headerCh, d) /\ d \in Head(headerCh).txs
              => hJob'[sub[d].hash] = None
         /\ BodyWorkerRegister /\ InChannel(bodyCh, d) /\ d \in Head(bodyCh).txs
              => bJob'[sub[d].hash] = None
<1>0. /\ headerCh \in Seq(Messages) /\ bodyCh \in Seq(Messages)
      /\ ChannelAsCalled(headerCh) /\ ChannelAsCalled(bodyCh)
  BY PlaceTypes DEF Inv, ServiceInv, CallInv
<1>1. ASSUME HeaderWorkerRegister, InChannel(headerCh, d), d \in Head(headerCh).txs
      PROVE  hJob'[sub[d].hash] = None
  <2> DEFINE h == Head(headerCh).hash
  <2>1. headerCh # <<>> /\ IsProcess(Head(headerCh)) /\ h \in Hashes /\ UNCHANGED hJob
    BY <1>1, HeaderJoined
  <2>2. sub[d].hash = h
    BY <1>0, <1>1, <2>1, RangeFacts DEF ChannelAsCalled, AsCalled
  <2> HIDE DEF h
  <2>3. ASSUME hPending[h] # None PROVE FALSE
    <3>1. PICK e \in hPending[h].result_transmitters : TRUE
      BY <2>1, <2>3 DEF OwnedInv, TasksOwned, Owned
    <3>2. e \in Callers /\ sub[e] # None /\ sub[e].hash = h /\ InTasks(hPending, e)
      BY <2>1, <2>3, <3>1, TaskOf, PlaceTypes DEF Inv
    <3>3. e # d
      BY <1>1, <3>2, Apart
    <3> QED BY <2>2, <3>2, <3>3 DEF Sole
  <2> QED BY <2>1, <2>2, <2>3 DEF JobsPending
<1>2. ASSUME BodyWorkerRegister, InChannel(bodyCh, d), d \in Head(bodyCh).txs
      PROVE  bJob'[sub[d].hash] = None
  <2> DEFINE h == Head(bodyCh).hash
  <2>1. bodyCh # <<>> /\ IsProcess(Head(bodyCh)) /\ h \in Hashes /\ UNCHANGED bJob
    BY <1>2, BodyJoined
  <2>2. sub[d].hash = h
    BY <1>0, <1>2, <2>1, RangeFacts DEF ChannelAsCalled, AsCalled
  <2> HIDE DEF h
  <2>3. ASSUME bPending[h] # None PROVE FALSE
    <3>1. PICK e \in bPending[h].result_transmitters : TRUE
      BY <2>1, <2>3 DEF OwnedInv, TasksOwned, Owned
    <3>2. e \in Callers /\ sub[e] # None /\ sub[e].hash = h /\ InTasks(bPending, e)
      BY <2>1, <2>3, <3>1, TaskOf, PlaceTypes DEF Inv
    <3>3. e # d
      BY <1>2, <3>2, Apart
    <3> QED BY <2>2, <3>2, <3>3 DEF Sole
  <2> QED BY <2>1, <2>2, <2>3 DEF JobsPending
<1> QED BY <1>1, <1>2

(* Who has left a stage does not come back.                                *)
LEMMA PastKept ==
  ASSUME Inv, ServiceInv, [Next]_vars, NEW c \in Callers, sub[c] # None
  PROVE  (PastHeader(c) => PastHeader(c)') /\ (PastBody(c) => PastBody(c)')
<1>1. PastHeader(c) => PastHeader(c)'
  BY HeaderPlaces DEF PastHeader
<1>2. ASSUME PastHeader(c), InChannel(bodyCh', c) PROVE InChannel(bodyCh, c)
  <2>1. \A h \in Hashes : HeaderEnd(h) => c \notin hPending[h].result_transmitters
    BY <1>2, HeaderEnded DEF PastHeader, InTasks
  <2> QED BY <1>2, <2>1, BodyPlaces
<1>3. InTasks(bPending', c) => InTasks(bPending, c) \/ InChannel(bodyCh, c)
  BY BodyPlaces
<1> QED BY <1>1, <1>2, <1>3 DEF PastBody

(* HeaderPassed: a header closure begins when the earlier calls for its    *)
(* parents are through.                                                    *)
LEMMA HeaderPassedStep ==
  ASSUME Inv, ServiceInv, OwnedInv, JobsPending, HeaderOrder, HeaderPassed, [Next]_vars
  PROVE  HeaderPassed'
<1> SUFFICES ASSUME NEW d \in Callers, Sole(d)',
                    PastHeader(d)' \/ (InTasks(hPending', d) /\ hJob'[sub'[d].hash] # None),
                    NEW c \in Earlier(d)'
             PROVE  PastHeader(c)'
  BY DEF HeaderPassed
<1>1. sub[d] # None
  <2>1. ASSUME sub[d] = None PROVE FALSE
    <3>1. sub'[d] # None
      BY DEF Sole
    <3>2. InChannel(headerCh', d) /\ ~InTasks(hPending, d) /\ UNCHANGED hPending
      BY <2>1, <3>1, NewCall
    <3> QED BY <3>2 DEF PastHeader
  <2> QED BY <2>1
<1>2. /\ sub'[d] = sub[d] /\ Sole(d) /\ sub[d].hash \in Hashes
      /\ c \in Earlier(d) /\ c \in Callers /\ sub[c] # None /\ c \in sub[d].after
      /\ sub[c].hash \in Parents[sub[d].hash]
  BY <1>1, OldCall DEF Earlier
<1> SUFFICES PastHeader(c)
  BY <1>2, PastKept
<1>3. CASE PastHeader(d) \/ (InTasks(hPending, d) /\ hJob[sub[d].hash] # None)
  BY <1>2, <1>3 DEF HeaderPassed
<1>4. CASE ~PastHeader(d) /\ PastHeader(d)'
  <2>1. PICK h \in Hashes : HeaderEnd(h) /\ d \in hPending[h].result_transmitters
    BY <1>1, <1>4, HeaderPlaces DEF PastHeader
  <2>2. hPending[h] # None /\ hJob[h] # None
    BY <2>1, HeaderEnded
  <2>3. sub[d].hash = h /\ InTasks(hPending, d)
    BY <2>1, <2>2, TaskOf
  <2> QED BY <1>3, <2>2, <2>3
<1>5. CASE InTasks(hPending, d) /\ hJob[sub[d].hash] = None /\ hJob'[sub[d].hash] # None
  <2>1. hPending[sub[c].hash] = None
    BY <1>2, <1>5, ClosureStarts
  <2>2. ~InTasks(hPending, c)
    BY SMT, <1>2, <2>1, TaskOf DEF InTasks
  <2>3. ~InChannel(headerCh, d)
    BY <1>5, Apart
  <2>4. ~InChannel(headerCh, c)
    BY <1>1, <1>2, <2>3 DEF HeaderOrder
  <2> QED BY <2>2, <2>4 DEF PastHeader
<1>6. CASE ~InTasks(hPending, d) /\ InTasks(hPending', d) /\ hJob'[sub[d].hash] # None
  BY <1>1, <1>2, <1>6, HeaderPlaces, JoinsAlone
<1> QED BY <1>2, <1>3, <1>4, <1>5, <1>6

(* BodyOrder: who is through with the header stage first is ahead in the   *)
(* second channel.                                                         *)
LEMMA BodyOrderStep ==
  ASSUME Inv, ServiceInv, HeaderOrder, HeaderPassed, BodyOrder, [Next]_vars
  PROVE  BodyOrder'
<1>0. bodyCh \in Seq(Messages)
  BY PlaceTypes DEF Inv
<1> SUFFICES ASSUME NEW d \in Callers, Sole(d)', NEW c \in Earlier(d)'
             PROVE  /\ Ahead(bodyCh', c, d)
                    /\ InChannel(bodyCh', c) => ~InTasks(bPending', d)
  BY DEF BodyOrder
<1>1. CASE sub[d] = None
  <2>1. sub'[d] # None
    BY DEF Sole
  <2>2. ~InChannel(bodyCh, d) /\ ~InTasks(bPending, d) /\ UNCHANGED <<bodyCh, bPending>>
    BY <1>1, <2>1, NewCall
  <2> QED BY <1>0, <2>2, AheadFacts
<1>2. CASE sub[d] # None
  <2>1. /\ Sole(d) /\ sub[d].hash \in Hashes
        /\ c \in Earlier(d) /\ c \in Callers /\ sub[c] # None
        /\ Ahead(bodyCh, c, d) /\ (InChannel(bodyCh, c) => ~InTasks(bPending, d))
    BY <1>2, OldCall DEF Earlier, BodyOrder
  <2>2. ASSUME NEW h \in Hashes, HeaderEnd(h), c \in hPending[h].result_transmitters
        PROVE  ~InChannel(bodyCh, d) /\ ~InTasks(bPending, d) /\ d \notin hPending[h].result_transmitters
    <3>1. hPending[h] # None /\ hJob[h] # None /\ InTasks(hPending, c)
      BY <2>2, HeaderEnded, TaskOf
    <3>2. ~PastHeader(c)
      BY <3>1 DEF PastHeader
    <3>3. ~PastHeader(d) /\ ~(InTasks(hPending, d) /\ hJob[sub[d].hash] # None)
      BY <2>1, <3>2 DEF HeaderPassed
    <3>4. d \notin hPending[h].result_transmitters
      BY <3>1, <3>3, TaskOf
    <3> QED BY <3>3, <3>4, Apart DEF PastHeader
  <2>3. Ahead(bodyCh', c, d)
    <3>1. ASSUME NEW h \in Hashes, HeaderEnd(h), hPending[h] # None,
                 bodyCh' = Append(bodyCh, Process(h, hPending[h].block, hPending[h].result_transmitters))
          PROVE  Ahead(bodyCh', c, d)
      <4> DEFINE m == Process(h, hPending[h].block, hPending[h].result_transmitters)
      <4>1. m \in Messages /\ m.txs = hPending[h].result_transmitters
        BY <3>1, PlaceTypes, MessageTypes DEF Inv, Process
      <4> HIDE DEF m
      <4>2. Holds(m, c) => ~InChannel(bodyCh, d) /\ ~Holds(m, d)
        BY <2>2, <3>1, <4>1 DEF Holds
      <4>3. Ahead(Append(bodyCh, m), c, d)
        BY <1>0, <2>1, <4>1, <4>2, AheadFacts
      <4> QED BY <3>1, <4>3 DEF m
    <3>2. CASE bodyCh' = Append(bodyCh, Exit)
      <4>1. Exit \in Messages /\ ~Holds(Exit, c)
        BY MessageTypes DEF Holds
      <4> QED BY <1>0, <2>1, <3>2, <4>1, AheadFacts
    <3>3. CASE bodyCh # <<>> /\ bodyCh' = Tail(bodyCh)
      BY <1>0, <2>1, <3>3, AheadFacts
    <3> QED BY <2>1, <3>1, <3>2, <3>3, ChannelMoves
  <2>4. ASSUME InChannel(bodyCh', c), InTasks(bPending', d) PROVE FALSE
    <3>1. CASE InTasks(bPending, d)
      BY <2>1, <2>2, <2>4, <3>1, BodyPlaces
    <3>2. CASE ~InTasks(bPending, d)
      <4>1. BodyWorkerRegister /\ d \in Head(bodyCh).txs
        BY <2>4, <3>2, BodyPlaces
      <4>2. bodyCh # <<>> /\ bodyCh' = Tail(bodyCh) /\ Holds(Head(bodyCh), d)
        BY <4>1, BodyJoined DEF Holds
      <4>3. ~InChannel(bodyCh, c)
        BY <1>0, <2>1, <4>2, AheadFacts
      <4>4. ~InChannel(bodyCh', c)
        BY <1>0, <4>2, <4>3, ExitTransmitters
      <4> QED BY <2>4, <4>4
    <3> QED BY <3>1, <3>2
  <2> QED BY <2>3, <2>4
<1> QED BY <1>1, <1>2

(* BodyPassed: and so with the body closures.                              *)
LEMMA BodyPassedStep ==
  ASSUME Inv, ServiceInv, OwnedInv, JobsPending, HeaderOrder, HeaderPassed, BodyOrder,
         BodyPassed, [Next]_vars
  PROVE  BodyPassed'
<1> SUFFICES ASSUME NEW d \in Callers, Sole(d)', InTasks(bPending', d), bJob'[sub'[d].hash] # None,
                    NEW c \in Earlier(d)'
             PROVE  PastBody(c)'
  BY DEF BodyPassed
<1>1. sub[d] # None
  <2>1. ASSUME sub[d] = None PROVE FALSE
    <3>1. sub'[d] # None
      BY DEF Sole
    <3>2. ~InTasks(bPending, d) /\ UNCHANGED bPending
      BY <2>1, <3>1, NewCall
    <3> QED BY <3>2
  <2> QED BY <2>1
<1>2. /\ sub'[d] = sub[d] /\ Sole(d) /\ sub[d].hash \in Hashes
      /\ c \in Earlier(d) /\ c \in Callers /\ sub[c] # None
      /\ sub[c].hash \in Parents[sub[d].hash]
  BY <1>1, OldCall DEF Earlier
<1> SUFFICES PastBody(c)
  BY <1>2, PastKept
<1>3. CASE InTasks(bPending, d) /\ bJob[sub[d].hash] # None
  BY <1>2, <1>3 DEF BodyPassed
<1>4. CASE InTasks(bPending, d) /\ bJob[sub[d].hash] = None
  <2>1. bPending[sub[c].hash] = None
    BY <1>2, <1>4, ClosureStarts
  <2>2. ~InTasks(bPending, c)
    BY <1>2, <2>1, TaskOf DEF InTasks
  <2>3. ~InChannel(bodyCh, c)
    BY <1>2, <1>4 DEF BodyOrder
  <2>4. PastHeader(d)
    BY <1>4, Apart DEF PastHeader
  <2>5. PastHeader(c)
    BY <1>2, <2>4 DEF HeaderPassed
  <2> QED BY <2>2, <2>3, <2>5 DEF PastBody
<1>5. CASE ~InTasks(bPending, d)
  BY <1>2, <1>5, BodyPlaces, JoinsAlone
<1> QED BY <1>3, <1>4, <1>5

(* KnownInv: a call that is through with a stage was recorded there, or    *)
(* was answered with an error.                                             *)
LEMMA KnownInvStep ==
  ASSUME Inv, ServiceInv, HeaderOrder, KnownInv, [Next]_vars
  PROVE  KnownInv'
<1>0. Kept /\ None \notin Errors
  BY KeptStep, NoneAssumption
<1> SUFFICES ASSUME NEW c \in Callers, sub'[c] # None, PastHeader(c)', reply'[c] \notin Errors
             PROVE  /\ statuses'[sub'[c].hash] # None
                    /\ sub'[c].block # HeaderOnly /\ PastBody(c)' => statuses'[sub'[c].hash] \in BodyStatuses
  BY DEF KnownInv, HasBody
<1>1. sub[c] # None
  BY NewCall DEF PastHeader
<1>2. sub'[c] = sub[c] /\ sub[c].hash \in Hashes
  BY <1>1, OldCall
<1>3. reply[c] \notin Errors
  BY <1>0, ReplyKept
<1>4. ASSUME NEW h \in Hashes, HeaderEnd(h), c \in hPending[h].result_transmitters
      PROVE  /\ statuses'[sub'[c].hash] # None
             /\ sub'[c].block # HeaderOnly => ~PastBody(c)'
  <2>1. hPending[h] # None /\ hJob[h] # None /\ hJob[h].pc = "done" /\ UNCHANGED statuses
    BY <1>4, HeaderEnded
  <2>2. sub[c].hash = h /\ (hPending[h].block = HeaderOnly => sub[c].block = HeaderOnly)
    BY <1>4, <2>1 DEF ServiceInv, CallInv, TasksAsCalled, AsCalled
  <2>3. hJob[h].res \notin Errors
    BY <1>4, <2>1, HeaderEnded DEF Transmit
  <2>4. statuses[h] # None
    BY <2>1, <2>3 DEF Inv, HeaderInv
  <2>5. ASSUME hPending[h].block # HeaderOnly PROVE InChannel(bodyCh', c)
    <3> DEFINE m == Process(h, hPending[h].block, hPending[h].result_transmitters)
    <3>1. bodyCh' = Append(bodyCh, m)
      BY <1>4, <2>3, <2>5, HeaderEnded
    <3>2. m \in Messages /\ Holds(m, c)
      BY <1>4, <2>1, PlaceTypes, MessageTypes DEF Inv, Process, Holds, IsProcess
    <3> HIDE DEF m
    <3> QED BY <3>1, <3>2, PlaceTypes, StayInChannel DEF Inv
  <2> QED BY <1>2, <2>1, <2>2, <2>4, <2>5 DEF PastBody
<1>5. CASE ~PastHeader(c)
  <2>1. PICK h \in Hashes : HeaderEnd(h) /\ c \in hPending[h].result_transmitters
    BY <1>1, <1>5, HeaderPlaces DEF PastHeader
  <2> QED BY <1>4, <2>1
<1>6. CASE PastHeader(c)
  <2>1. /\ statuses[sub[c].hash] # None
        /\ sub[c].block # HeaderOnly /\ PastBody(c) => HasBody(sub[c].hash)
    BY <1>1, <1>3, <1>6 DEF KnownInv
  <2>2. statuses'[sub'[c].hash] # None
    BY <1>0, <1>2, <2>1 DEF Kept
  <2>3. ASSUME ~PastBody(c), PastBody(c)' PROVE HasBody(sub[c].hash)
    <3>1. PICK h \in Hashes : BodyEnd(h) /\ c \in bPending[h].result_transmitters
      BY <1>6, <2>3, BodyPlaces DEF PastBody
    <3>2. bPending[h] # None /\ bJob[h] # None /\ bJob[h].pc = "done"
      BY <3>1, BodyEnded
    <3>3. bJob[h].res \notin Errors
      BY <3>1, BodyEnded DEF Transmit
    <3>4. HasBody(h) /\ sub[c].hash = h
      BY <3>1, <3>2, <3>3, TaskOf DEF ServiceInv, FindingsInv
    <3> QED BY <3>4
  <2>4. sub'[c].block # HeaderOnly /\ PastBody(c)' => statuses'[sub'[c].hash] \in BodyStatuses
    BY <1>0, <1>2, <2>1, <2>3 DEF Kept, HasBody
  <2> QED BY <2>2, <2>4
<1> QED BY <1>4, <1>5, <1>6
-----------------------------------------------------------------------------
(* MissingParents is an error, and neither a status nor None.              *)
LEMMA MissingIsError ==
  /\ None # "MissingParents" /\ None \notin Errors
  /\ "MissingParents" \in Errors /\ "MissingParents" \notin Statuses
<1>1. "MissingParents" \in Errors /\ "MissingParents" \notin Statuses
  BY DEF Errors, Statuses, BodyStatuses
<1>2. None \notin Errors
  BY NoneAssumption
<1> QED BY <1>1, <1>2

(* A header closure that comes to miss a parent has just read its status.  *)
LEMMA HeaderComesToMiss ==
  ASSUME Inv, [Next]_vars, NEW h \in Hashes, HeaderMisses(h)'
  PROVE  \/ HeaderMisses(h)
         \/ hJob[h] # None /\ \E p \in Parents[h] : statuses[p] = None
<1>0. /\ hJob \in [Hashes -> HeaderJobs \cup {None}] /\ statuses \in [Hashes -> Statuses \cup {None}]
      /\ None # "MissingParents" /\ "MissingParents" \notin Statuses
  BY MissingIsError DEF Inv, TypeInv, DataTypes, JobTypes, StoreTypes
<1>1. CASE hJob'[h] = hJob[h]
  BY <1>1 DEF HeaderMisses
<1>2. CASE hJob'[h] # hJob[h]
  <2>1. \/ HeaderBegin(h) \/ ProcessHeader(h) \/ CommitHeader(h) \/ HeaderEnd(h)
        \/ \E p \in Parents[h] : CheckParentExists(h, p)
    <3>1. \A k \in Hashes : k # h => ~HeaderBegin(k) /\ ~ProcessHeader(k) /\ ~CommitHeader(k) /\ ~HeaderEnd(k)
      BY <1>0, <1>2 DEF HeaderBegin, ProcessHeader, CommitHeader, HeaderEnd, HeaderDone
    <3>2. \A k \in Hashes : k # h => \A p \in Parents[k] : ~CheckParentExists(k, p)
      BY <1>0, <1>2 DEF CheckParentExists, HeaderDone
    <3> QED BY <1>2, <3>1, <3>2, HeaderJobSteps
  <2>2. ~HeaderBegin(h) /\ ~HeaderEnd(h)
    <3>1. HeaderBegin(h) => hJob'[h].pc = "status"
      BY SMT, <1>0 DEF HeaderBegin
    <3>2. HeaderEnd(h) => hJob'[h] = None
      BY <1>0 DEF HeaderEnd
    <3> QED BY <3>1, <3>2 DEF HeaderMisses
  <2>3. ~ProcessHeader(h)
    BY SMT, <1>0 DEF ProcessHeader, HeaderDone, HeaderMisses
  <2>4. CommitHeader(h) => HeaderMisses(h)
    BY SMT, <1>0 DEF CommitHeader, HeaderDone, HeaderMisses
  <2>5. ASSUME NEW p \in Parents[h], CheckParentExists(h, p)
        PROVE  HeaderMisses(h) \/ (hJob[h] # None /\ statuses[p] = None)
    <3>1. hJob[h] # None /\ hJob[h].pc = "parents"
      BY <2>5 DEF CheckParentExists
    <3>2. CASE statuses[p] = "Invalid"
      BY SMT, <1>0, <2>5, <3>2 DEF CheckParentExists, HeaderDone, HeaderMisses
    <3>3. CASE statuses[p] # "Invalid"
      <4>1. hJob' = [hJob EXCEPT ![h].todo = @ \ {p}, ![h].missing = @ \/ statuses[p] = None]
        BY <2>5, <3>3 DEF CheckParentExists
      <4>2. hJob[h] \in [pc : {"parents"}, todo : SUBSET Hashes, missing : BOOLEAN]
        BY <1>0, <3>1 DEF HeaderJobs
      <4>3. hJob'[h].pc = "parents" /\ hJob'[h].missing = (hJob[h].missing \/ statuses[p] = None)
        BY <1>0, <4>1, <4>2
      <4> QED BY <3>1, <4>3 DEF HeaderMisses
    <3> QED BY <3>2, <3>3
  <2> QED BY <2>1, <2>2, <2>3, <2>4, <2>5
<1> QED BY <1>1, <1>2

(* And a body closure has just read that a parent has no body.             *)
LEMMA BodyComesToMiss ==
  ASSUME Inv, [Next]_vars, NEW h \in Hashes, BodyMisses(h)'
  PROVE  \/ BodyMisses(h)
         \/ bJob[h] # None /\ \E p \in Parents[h] : ~HasBody(p)
<1>0. /\ bJob \in [Hashes -> BodyJobs \cup {None}] /\ Genesis \in Hashes
      /\ "MissingParents" \notin Statuses
  BY ParentsAssumption DEF Inv, TypeInv, DataTypes, JobTypes, Statuses, BodyStatuses
<1>1. CASE bJob'[h] = bJob[h]
  BY <1>1 DEF BodyMisses
<1>2. CASE bJob'[h] # bJob[h]
  <2>1. BodyBegin(h) \/ ProcessBlockBody(h) \/ BodyEnd(h)
    <3>1. \A k \in Hashes : k # h => ~BodyBegin(k) /\ ~ProcessBlockBody(k) /\ ~BodyEnd(k)
      BY <1>0, <1>2 DEF BodyBegin, ProcessBlockBody, BodyEnd
    <3>2. BodyWorkerRegister \/ (\E k \in Hashes : BodyDefer(k)) => UNCHANGED bJob
      BY DEF BodyWorkerRegister, BodyDefer
    <3> QED BY <1>2, <3>1, <3>2, BodySteps
  <2>2. ~BodyBegin(h) /\ ~BodyEnd(h)
    BY SMT, <1>0 DEF BodyBegin, BodyEnd, BodyMisses
  <2>3. ASSUME ProcessBlockBody(h) PROVE bJob[h] # None /\ \E p \in Parents[h] : ~HasBody(p)
    <3> DEFINE res == CASE statuses[h] = "Invalid" -> "KnownInvalid"
                        [] HasBody(h) -> statuses[h]
                        [] OTHER -> ValidateBody(h, bJob[h].block)
    <3>1. bJob[h] # None /\ statuses[h] \in Statuses
      BY <2>3 DEF ProcessBlockBody
    <3>2. bJob' = [bJob EXCEPT ![h] = [pc |-> "done", res |-> res]]
      BY <2>3 DEF ProcessBlockBody
    <3>3. res = "MissingParents"
      <4> HIDE DEF res
      <4> QED BY <1>0, <3>2 DEF BodyMisses
    <3>4. ValidateBody(h, bJob[h].block) = "MissingParents"
      BY <1>0, <3>1, <3>3
    <3>5. ~ParentBodiesExist(h)
      BY <3>4 DEF ValidateBody
    <3> QED BY <3>1, <3>5 DEF ParentBodiesExist
  <2> QED BY <2>1, <2>2, <2>3
<1> QED BY <1>1, <1>2

(* What a closure of a block that d alone submitted does not find, no      *)
(* earlier call brought.                                                   *)
LEMMA MissedAlone ==
  ASSUME Inv, ServiceInv, OwnedInv, HeaderOrder, HeaderPassed, BodyPassed, KnownInv,
         NEW d \in Callers, Sole(d), NEW p \in Parents[sub[d].hash]
  PROVE  /\ InTasks(hPending, d) /\ hJob[sub[d].hash] # None /\ statuses[p] = None => Alone(d)
         /\ InTasks(bPending, d) /\ bJob[sub[d].hash] # None /\ ~HasBody(p) => Alone(d)
<1>0. /\ sub[d] # None /\ sub[d].hash \in Hashes /\ sub[d].after \in SUBSET Callers
      /\ \A c \in sub[d].after : sub[c] # None /\ (sub[c].hash = p => c \in Earlier(d))
  BY DEF Sole, ServiceInv, CallInv, Submissions, HeaderOrder, Earlier
<1>1. statuses[p] = None \/ ~HasBody(p) => p # Genesis
  BY NoneAssumption DEF Inv, StoreInv, HasBody, BodyStatuses, Statuses
<1>2. ASSUME InTasks(hPending, d), hJob[sub[d].hash] # None, statuses[p] = None
      PROVE  Alone(d)
  <2>1. \A c \in sub[d].after : sub[c].hash = p => PastHeader(c)
    BY <1>0, <1>2 DEF HeaderPassed
  <2>2. \A c \in sub[d].after : sub[c].hash = p => reply[c] \in Errors
    BY <1>0, <1>2, <2>1 DEF KnownInv
  <2> QED BY <1>1, <1>2, <2>2 DEF Alone
<1>3. ASSUME InTasks(bPending, d), bJob[sub[d].hash] # None, ~HasBody(p)
      PROVE  Alone(d)
  <2>1. \A c \in sub[d].after : sub[c].hash = p => PastBody(c) /\ PastHeader(c)
    BY <1>0, <1>3 DEF BodyPassed, PastBody
  <2>2. sub[d].block # HeaderOnly
    <3>1. PICK h \in Hashes : bPending[h] # None /\ d \in bPending[h].result_transmitters
      BY <1>3 DEF InTasks
    <3>2. bPending[h].block # HeaderOnly /\ sub[d].hash = h
      BY <3>1, TaskOf DEF Inv, BodyInv, BodyTaskInv
    <3>3. PICK e \in bPending[h].result_transmitters : sub[e].block # HeaderOnly
      BY <3>1, <3>2 DEF OwnedInv, TasksOwned, Owned
    <3>4. e \in Callers /\ sub[e] # None /\ sub[e].hash = h
      BY <3>1, <3>3, TaskOf, PlaceTypes DEF Inv
    <3>5. e = d
      BY <3>2, <3>4 DEF Sole
    <3> QED BY <3>3, <3>5
  <2>3. \A c \in sub[d].after : sub[c].hash = p /\ sub[c].block # HeaderOnly => reply[c] \in Errors
    BY <1>0, <1>3, <2>1 DEF KnownInv
  <2> QED BY <1>1, <1>3, <2>2, <2>3 DEF Alone
<1> QED BY <1>2, <1>3

(* MissingInv: a stage reports missing parents only if a call is missing.  *)
LEMMA MissingInvStep ==
  ASSUME Inv, ServiceInv, OwnedInv, JobsPending, HeaderOrder, HeaderPassed, BodyPassed,
         KnownInv, MissingInv, [Next]_vars
  PROVE  MissingInv'
<1>0. /\ None # "MissingParents" /\ None \notin Errors /\ "MissingParents" \notin Statuses
      /\ statuses \in [Hashes -> Statuses \cup {None}]
  BY MissingIsError DEF Inv, TypeInv, DataTypes, StoreTypes
<1> SUFFICES ASSUME NEW d \in Callers, Sole(d)',
                    \/ InTasks(hPending', d) /\ HeaderMisses(sub[d].hash)'
                    \/ InTasks(bPending', d) /\ BodyMisses(sub[d].hash)'
                    \/ reply'[d] = "MissingParents"
             PROVE  Alone(d)'
  BY DEF MissingInv
<1>1. sub[d] # None
  <2>1. ASSUME sub[d] = None PROVE FALSE
    <3>1. sub'[d] # None
      BY DEF Sole
    <3>2. /\ ~InTasks(hPending, d) /\ ~InTasks(bPending, d) /\ reply[d] = None
          /\ UNCHANGED <<hPending, bPending, reply>>
      BY <2>1, <3>1, NewCall
    <3> QED BY <1>0, <3>2
  <2> QED BY <2>1
<1> DEFINE h == sub[d].hash
<1>2. /\ sub'[d] = sub[d] /\ Sole(d) /\ h \in Hashes /\ sub[d].after \in SUBSET Callers
      /\ \A c \in sub[d].after : sub'[c] = sub[c]
  BY <1>1, OldCall
<1>3. Alone(d) => Alone(d)'
  <2>1. \A c \in sub[d].after : reply[c] \in Errors => reply'[c] \in Errors
    BY <1>0, <1>2, ReplyKept
  <2> QED BY SMT, <1>2, <2>1 DEF Alone
<1> SUFFICES Alone(d)
  BY <1>3
<1>4. CASE InTasks(hPending', d) /\ HeaderMisses(sub[d].hash)'
  <2>1. HeaderMisses(h)' /\ hJob'[h] # None
    BY <1>2, <1>4 DEF HeaderMisses
  <2>2. InTasks(hPending, d)
    BY <1>1, <1>2, <1>4, <2>1, HeaderPlaces, JoinsAlone
  <2>3. HeaderMisses(h) \/ (hJob[h] # None /\ \E p \in Parents[h] : statuses[p] = None)
    BY <1>2, <2>1, HeaderComesToMiss
  <2> QED BY <1>2, <2>2, <2>3, MissedAlone DEF MissingInv
<1>5. CASE InTasks(bPending', d) /\ BodyMisses(sub[d].hash)'
  <2>1. BodyMisses(h)' /\ bJob'[h] # None
    BY <1>2, <1>5 DEF BodyMisses
  <2>2. InTasks(bPending, d)
    BY <1>1, <1>2, <1>5, <2>1, BodyPlaces, JoinsAlone
  <2>3. BodyMisses(h) \/ (bJob[h] # None /\ \E p \in Parents[h] : ~HasBody(p))
    BY <1>2, <2>1, BodyComesToMiss
  <2> QED BY <1>2, <2>2, <2>3, MissedAlone DEF MissingInv
<1>6. CASE reply'[d] = "MissingParents"
  <2>1. CASE reply[d] = "MissingParents"
    BY <1>2, <2>1 DEF MissingInv
  <2>2. ASSUME reply[d] # "MissingParents", NEW k \in Hashes, HeaderEnd(k), hPending[k] # None,
               Transmit(hPending[k].result_transmitters, hJob[k].res)
        PROVE  Alone(d)
    <3>1. d \in hPending[k].result_transmitters /\ hJob[k].res = "MissingParents"
      BY <1>6, <2>2 DEF Transmit
    <3>2. InTasks(hPending, d) /\ h = k
      BY <2>2, <3>1, TaskOf
    <3>3. HeaderMisses(k)
      BY <2>2, <3>1, HeaderEnded DEF HeaderMisses
    <3> QED BY <1>2, <3>2, <3>3 DEF MissingInv
  <2>3. ASSUME reply[d] # "MissingParents", NEW k \in Hashes, BodyEnd(k), bPending[k] # None,
               Transmit(bPending[k].result_transmitters, bJob[k].res)
        PROVE  Alone(d)
    <3>1. d \in bPending[k].result_transmitters /\ bJob[k].res = "MissingParents"
      BY <1>6, <2>3 DEF Transmit
    <3>2. InTasks(bPending, d) /\ h = k
      BY <2>3, <3>1, TaskOf
    <3>3. BodyMisses(k)
      BY <2>3, <3>1, BodyEnded DEF BodyMisses
    <3> QED BY <1>2, <3>2, <3>3 DEF MissingInv
  <2>4. ASSUME VirtualReply, reply[d] # "MissingParents" PROVE FALSE
    <3>1. reply'[d] = statuses[h] \/ reply'[d] = reply[d]
      BY <2>4, BatchAnswered
    <3> QED BY <1>0, <1>2, <1>6, <2>4, <3>1
  <2> QED BY <1>6, <2>1, <2>2, <2>3, <2>4, ReplySteps
<1> QED BY <1>4, <1>5, <1>6
-----------------------------------------------------------------------------
(* Nothing is under way before the first call.                             *)
LEMMA OrderInvInit ==
  ASSUME Init
  PROVE  OrderInv
<1>1. /\ headerCh = <<>> /\ bodyCh = <<>>
      /\ \A h \in Hashes : hPending[h] = None /\ bPending[h] = None /\ hJob[h] = None /\ bJob[h] = None
      /\ \A c \in Callers : sub[c] = None
  BY DEF Init, H!ManagerInit, B!ManagerInit
<1>2. OwnedInv /\ JobsPending
  BY <1>1, RangeFacts DEF OwnedInv, ChannelOwned, TasksOwned, JobsPending
<1> QED BY <1>1, <1>2 DEF OrderInv, Sole, HeaderOrder, HeaderPassed, BodyOrder, BodyPassed,
                          KnownInv, MissingInv

(* Every step keeps the order of the calls.                                *)
LEMMA OrderInvStep ==
  ASSUME Inv, ServiceInv, OrderInv, [Next]_vars
  PROVE  OrderInv'
BY OwnedInvStep, JobsPendingStep, HeaderOrderStep, HeaderPassedStep, BodyOrderStep,
   BodyPassedStep, KnownInvStep, MissingInvStep DEF OrderInv

(* What the calls' order and the stages' findings come to.                 *)
LEMMA OrderGivesNoSpurious ==
  ASSUME ServiceInv, OrderInv
  PROVE  NoSpuriousMissing
<1> SUFFICES ASSUME NEW d \in Callers, reply[d] = "MissingParents",
                    \A e \in Callers \ {d} : sub[e] # None => sub[e].hash # sub[d].hash
             PROVE  \E q \in Parents[sub[d].hash] \ {Genesis} : ~SentBefore(q, d)
  BY DEF NoSpuriousMissing
<1>1. sub[d] # None
  BY NoneAssumption DEF ServiceInv, CallInv, Errors
<1>2. Alone(d)
  BY <1>1 DEF OrderInv, MissingInv, Sole
<1>3. PICK q \in Parents[sub[d].hash] \ {Genesis} : \A c \in sub[d].after :
        sub[c].hash = q /\ (sub[d].block # HeaderOnly => sub[c].block # HeaderOnly) => reply[c] \in Errors
  BY <1>2 DEF Alone
<1>4. /\ sub[d].block \in Contents /\ sub[d].after \in SUBSET Callers
      /\ \A r \in Statuses : r \notin Errors
  BY <1>1 DEF ServiceInv, CallInv, Submissions, Statuses, BodyStatuses, Errors
<1> QED BY <1>3, <1>4, ContentsAssumption DEF SentBefore, Contents
=============================================================================
