--------------------------- MODULE PipelineProofs ---------------------------
(***************************************************************************)
(* The pipeline never panics, never marks a block invalid for what others  *)
(* did, ends on the best tip, and implements BlockService: for every DAG,  *)
(* every set of callers, every size of the pool and every content of the   *)
(* blocks.  First every step is shown to be one of the service, or none;   *)
(* then the facts about the task manager are applied to the two stages,    *)
(* which completes the proof that the invariant is inductive.              *)
(***************************************************************************)
EXTENDS ServiceInvariant

\* Zenon is enough for most leaves; those that need SMT say so.
USE Zenon

(* The initial states of the pipeline are initial states of the service.   *)
LEMMA ServiceInit == Init => Service!Init
<1> SUFFICES ASSUME Init PROVE Service!Init
  OBVIOUS
<1>1. /\ Genesis \in Hashes /\ None \notin Statuses
  BY ParentsAssumption, NoneAssumption
<1>2. /\ statuses[Genesis] = "UTXOValid"
      /\ \A h \in Hashes \ {Genesis} : statuses[h] \notin Statuses
      /\ \A c \in Callers : sub[c] = None
      /\ reply = [c \in Callers |-> None]
  BY <1>1 DEF Init
<1>3. /\ {h \in Hashes : statuses[h] \in BodyStatuses \cup {"HeaderOnly"}} = {Genesis}
      /\ {h \in Hashes : HasBody(h)} = {Genesis}
      /\ {h \in Hashes : statuses[h] = "Invalid"} = {}
  BY <1>1, <1>2 DEF HasBody, BodyStatuses, Statuses
<1>4. [c \in Callers |-> IF sub[c] = None THEN None
                         ELSE [hash |-> sub[c].hash, block |-> sub[c].block]]
      = [c \in Callers |-> None]
  BY <1>2
<1> QED BY <1>2, <1>3, <1>4 DEF Service!Init

(* What the service sees of the stores.                                    *)
Headers == {h \in Hashes : statuses[h] \in BodyStatuses \cup {"HeaderOnly"}}
Stored == {h \in Hashes : HasBody(h)}
Invalid == {h \in Hashes : statuses[h] = "Invalid"}
Called == [c \in Callers |-> IF sub[c] = None THEN None
                             ELSE [hash |-> sub[c].hash, block |-> sub[c].block]]

(* A step that changes neither calls, answers nor statuses is none of the  *)
(* service.                                                                *)
LEMMA ServiceStutter ==
  ASSUME UNCHANGED <<sub, reply, statuses>>
  PROVE  UNCHANGED Service!vars
BY DEF Service!vars, HasBody

(* A call is a call.                                                       *)
LEMMA ServiceCall ==
  ASSUME ServiceInv, NEW c \in Callers, NEW h \in Hashes, NEW b \in Contents,
         ValidateAndInsertBlock(c, h, b)
  PROVE  Service!Next
<1> DEFINE s == [hash |-> h, block |-> b, early |-> ~exitSent,
                 after |-> {d \in Callers : sub[d] # None}]
<1>1. s \in Submissions /\ s.hash = h /\ s.block = b
  BY DEF Submissions
<1>2. /\ sub[c] = None /\ sub' = [sub EXCEPT ![c] = s]
      /\ UNCHANGED <<reply, statuses>>
  BY DEF ValidateAndInsertBlock, stores
<1>3. s # None /\ sub \in [Callers -> Submissions \cup {None}]
  BY <1>1, NoneAssumption DEF ServiceInv, CallInv
<1> HIDE DEF s
<1>4. sub'[c] = s /\ \A d \in Callers \ {c} : sub'[d] = sub[d]
  BY <1>2, <1>3
<1>5. Called[c] = None /\ Called' = [Called EXCEPT ![c] = [hash |-> h, block |-> b]]
  BY <1>1, <1>2, <1>3, <1>4 DEF Called
<1>6. UNCHANGED <<Headers, Stored, Invalid>>
  BY <1>2 DEF Headers, Stored, Invalid, HasBody
<1>7. Service!Call(c, h, b)
  BY <1>2, <1>5, <1>6 DEF Service!Call, Called, Headers, Stored, Invalid
<1> QED BY <1>7 DEF Service!Next, Contents

(* Committing a header accepts it, rejects it or does nothing.             *)
LEMMA ServiceHeader ==
  ASSUME Inv, ServiceInv, NEW h \in Hashes, CommitHeader(h)
  PROVE  Service!Next \/ UNCHANGED Service!vars
<1>0. /\ statuses \in [Hashes -> Statuses \cup {None}] /\ None \notin Statuses
      /\ statuses[h] = None /\ \A k \in Hashes \ {h} : statuses'[k] = statuses[k]
      /\ UNCHANGED <<sub, reply>>
  BY HeaderCommitted, NoneAssumption
  DEF Inv, TypeInv, DataTypes, StoreTypes, CommitHeader, callerVars
<1>1. h \notin Headers /\ h \notin Stored /\ h \notin Invalid /\ Called' = Called
  BY <1>0 DEF Headers, Stored, Invalid, Called, HasBody, Statuses
<1>2. CASE UNCHANGED statuses
  BY <1>0, <1>2, ServiceStutter
<1>3. CASE statuses' = [statuses EXCEPT ![h] = "Invalid"]
  <2>1. Headers' = Headers \ {h} /\ Stored' = Stored /\ Invalid' = Invalid \cup {h}
    BY <1>0, <1>1, <1>3 DEF Headers, Stored, Invalid, HasBody, BodyStatuses
  <2>2. Service!Reject(h)
    BY <1>0, <1>1, <2>1 DEF Service!Reject, Called, Headers, Stored, Invalid
  <2> QED BY <2>2 DEF Service!Next
<1>4. CASE /\ statuses' = [statuses EXCEPT ![h] = "HeaderOnly"]
           /\ ~hJob[h].missing
  <2>1. \A p \in Parents[h] : p \in Hashes /\ statuses[p] # None
    BY <1>4, ParentsAssumption DEF CommitHeader, ServiceInv, FindingsInv
  <2>2. Parents[h] \subseteq Headers \cup Invalid
    BY <1>0, <2>1 DEF Headers, Invalid, Statuses
  <2>3. Headers' = Headers \cup {h} /\ Stored' = Stored /\ Invalid' = Invalid
    BY <1>0, <1>1, <1>4 DEF Headers, Stored, Invalid, HasBody, BodyStatuses
  <2>4. Service!AcceptHeader(h)
    BY <1>0, <1>1, <2>2, <2>3 DEF Service!AcceptHeader, Called, Headers, Stored, Invalid
  <2> QED BY <2>4 DEF Service!Next
<1>5. \/ UNCHANGED statuses
      \/ statuses' = [statuses EXCEPT ![h] = "Invalid"]
      \/ statuses' = [statuses EXCEPT ![h] = "HeaderOnly"] /\ ~hJob[h].missing
  BY DEF CommitHeader
<1> QED BY <1>2, <1>3, <1>4, <1>5

(* Processing a body stores it over its parents, rejects it or does        *)
(* nothing; the walk of virtual is not seen.                               *)
LEMMA ServiceBody ==
  ASSUME Inv, NEW h \in Hashes, ProcessBlockBody(h) \/ VirtualWalk(h)
  PROVE  Service!Next \/ UNCHANGED Service!vars
<1>0. /\ statuses \in [Hashes -> Statuses \cup {None}] /\ UNCHANGED <<sub, reply>>
  BY DEF Inv, TypeInv, DataTypes, StoreTypes, ProcessBlockBody, VirtualWalk, callerVars
<1>1. Called' = Called
  BY <1>0 DEF Called
<1>2. CASE VirtualWalk(h)
  <2>1. /\ HasBody(h) /\ statuses'[h] \in Decided
        /\ \A k \in Hashes \ {h} : statuses'[k] = statuses[k]
    BY <1>2, WalkDecides
  <2>2. Headers' = Headers /\ Stored' = Stored /\ Invalid' = Invalid
    BY <2>1 DEF Headers, Stored, Invalid, HasBody, BodyStatuses, Decided
  <2> QED BY <1>0, <1>1, <2>2 DEF Service!vars, Called, Headers, Stored, Invalid
<1>3. CASE KeepBody(h)
  BY <1>0, <1>3, ServiceStutter DEF KeepBody
<1>4. CASE RejectBody(h)
  <2>1. statuses[h] = "HeaderOnly" /\ statuses' = [statuses EXCEPT ![h] = "Invalid"]
    BY <1>4 DEF RejectBody
  <2>2. /\ h \notin Stored /\ h \notin Invalid
        /\ Headers' = Headers \ {h} /\ Stored' = Stored /\ Invalid' = Invalid \cup {h}
    BY <1>0, <2>1 DEF Headers, Stored, Invalid, HasBody, BodyStatuses
  <2>3. Service!Reject(h)
    BY <1>0, <1>1, <2>2 DEF Service!Reject, Called, Headers, Stored, Invalid
  <2> QED BY <2>3 DEF Service!Next
<1>5. CASE StoreBody(h)
  <2>1. /\ statuses[h] = "HeaderOnly" /\ ParentBodiesExist(h)
        /\ statuses' = [statuses EXCEPT ![h] = "UTXOPendingVerification"]
    BY <1>5 DEF StoreBody
  <2>2. /\ h \in Headers \ Stored
        /\ Headers' = Headers /\ Stored' = Stored \cup {h} /\ Invalid' = Invalid
    BY <1>0, <2>1 DEF Headers, Stored, Invalid, HasBody, BodyStatuses
  <2>3. HasBody(Genesis) /\ Genesis \in Hashes /\ Parents[h] \subseteq Hashes
    BY ParentsAssumption DEF Inv, StoreInv, HasBody, BodyStatuses
  <2>4. Parents[h] \subseteq Stored
    BY <2>1, <2>3 DEF ParentBodiesExist, Stored
  <2>5. Service!StoreBody(h)
    BY <1>0, <1>1, <2>2, <2>4 DEF Service!StoreBody, Called, Headers, Stored, Invalid
  <2> QED BY <2>5 DEF Service!Next
<1> QED BY <1>2, <1>3, <1>4, <1>5, BodyOutcomes DEF Inv

(* r is a true answer to c.                                                *)
Fits(c, r) ==
  \/ r \in Errors /\ (r = "KnownInvalid" => statuses[sub[c].hash] = "Invalid")
  \/ r \in BodyStatuses /\ HasBody(sub[c].hash)
  \/ r = "HeaderOnly" /\ sub[c].block = HeaderOnly /\ statuses[sub[c].hash] # None

(* First true answers are a step of the service.                           *)
LEMMA ServiceAnswer ==
  ASSUME Inv, ServiceInv, UNCHANGED <<sub, statuses>>,
         \A c \in Callers : reply'[c] # reply[c] =>
           sub[c] # None /\ reply[c] = None /\ Fits(c, reply'[c])
  PROVE  Service!Next \/ UNCHANGED Service!vars
<1>1. CASE UNCHANGED reply
  BY <1>1, ServiceStutter
<1>2. CASE reply' # reply
  <2>1. UNCHANGED <<Called, Headers, Stored, Invalid>>
    BY DEF Called, Headers, Stored, Invalid, HasBody
  <2>2. ASSUME NEW c \in Callers, reply'[c] # reply[c]
        PROVE  /\ Called[c] # None /\ reply[c] = None
               /\ \/ reply'[c] \in Errors /\ (reply'[c] = "KnownInvalid" => Called[c].hash \in Invalid)
                  \/ reply'[c] \in BodyStatuses /\ Called[c].hash \in Stored
                  \/ /\ reply'[c] = "HeaderOnly" /\ Called[c].block = HeaderOnly
                     /\ Called[c].hash \in Headers \cup Invalid
    <3>1. sub[c] # None /\ sub[c] \in Submissions
      BY <2>2 DEF ServiceInv, CallInv
    <3>2. /\ Called[c] = [hash |-> sub[c].hash, block |-> sub[c].block]
          /\ sub[c].hash \in Hashes /\ sub[c].block \in Contents
      BY <3>1 DEF Called, Submissions
    <3>3. Called[c] \in Calls /\ Called[c].hash = sub[c].hash /\ Called[c].block = sub[c].block
      BY SMT, <3>2 DEF Calls
    <3>4. Called[c] # None
      BY <3>3, NoneAssumption
    <3>5. statuses[sub[c].hash] # None => sub[c].hash \in Headers \cup Invalid
      BY <3>2 DEF Headers, Invalid, Statuses, Inv, TypeInv, DataTypes, StoreTypes
    <3> QED BY <2>2, <3>2, <3>3, <3>4, <3>5 DEF Fits, Stored, Invalid
  <2>3. Service!Answer
    BY <1>2, <2>1, <2>2 DEF Service!Answer, Service!Permitted, Called, Headers, Stored, Invalid
  <2> QED BY <2>3 DEF Service!Next
<1> QED BY <1>1, <1>2

(* The answers of the header stage are true.                               *)
LEMMA HeaderAnswers ==
  ASSUME Inv, ServiceInv, NEW h \in Hashes, HeaderEnd(h)
  PROVE  Service!Next \/ UNCHANGED Service!vars
<1> DEFINE T == hPending[h].result_transmitters
           r == hJob[h].res
<1>1. /\ hPending[h] # None /\ hJob[h] # None /\ hJob[h].pc = "done"
      /\ UNCHANGED <<sub, statuses>>
      /\ \/ UNCHANGED reply
         \/ (r \in Errors \/ hPending[h].block = HeaderOnly) /\ Transmit(T, r)
  BY DEF HeaderEnd, H!End, stores
<1>2. CASE UNCHANGED reply
  BY <1>1, <1>2, ServiceStutter
<1>3. CASE (r \in Errors \/ hPending[h].block = HeaderOnly) /\ Transmit(T, r)
  <2>1. T \in SUBSET Callers /\ \A c \in T : AsCalled(sub[c], h, hPending[h].block)
    BY <1>1, PlaceTypes DEF Inv, ServiceInv, CallInv, TasksAsCalled
  <2>2. \A c \in T : At("header", c)
    BY <1>1 DEF At, InTasks
  <2>3. \A c \in T : ~At("answered", c)
    BY <2>1, <2>2 DEF ServiceInv, TransmitterInv, OnePlace, Places
  <2>4. r \in Statuses \cup Errors
    BY <1>1 DEF Inv, TypeInv, DataTypes, JobTypes, HeaderJobs
  <2>5. /\ r # "Invalid" /\ (r = "KnownInvalid" => statuses[h] = "Invalid")
        /\ r \in BodyStatuses => HasBody(h)
        /\ r \notin Errors => statuses[h] # None
    BY <1>1 DEF ServiceInv, FindingsInv, Inv, HeaderInv
  <2> HIDE DEF T, r
  <2>6. \A c \in T : sub[c] # None /\ reply[c] = None /\ Fits(c, r)
    BY <1>3, <2>1, <2>3, <2>4, <2>5 DEF At, AsCalled, Fits, Statuses
  <2>7. \A c \in Callers : reply'[c] # reply[c] => c \in T /\ reply'[c] = r
    BY <1>3 DEF Transmit
  <2> QED BY <1>1, <2>6, <2>7, ServiceAnswer
<1> QED BY <1>1, <1>2, <1>3

(* The answers of the body stage are true.                                 *)
LEMMA BodyAnswers ==
  ASSUME Inv, ServiceInv, NEW h \in Hashes, BodyEnd(h)
  PROVE  Service!Next \/ UNCHANGED Service!vars
<1> DEFINE T == bPending[h].result_transmitters
           r == bJob[h].res
<1>1. /\ bPending[h] # None /\ bJob[h] # None /\ bJob[h].pc = "done"
      /\ UNCHANGED <<sub, statuses>>
      /\ UNCHANGED reply \/ (r \in Errors /\ Transmit(T, r))
  BY DEF BodyEnd, B!End, stores
<1>2. CASE UNCHANGED reply
  BY <1>1, <1>2, ServiceStutter
<1>3. CASE r \in Errors /\ Transmit(T, r)
  <2>1. T \in SUBSET Callers /\ \A c \in T : AsCalled(sub[c], h, bPending[h].block)
    BY <1>1, PlaceTypes DEF Inv, ServiceInv, CallInv, TasksAsCalled
  <2>2. \A c \in T : At("body", c)
    BY <1>1 DEF At, InTasks
  <2>3. \A c \in T : ~At("answered", c)
    BY <2>1, <2>2 DEF ServiceInv, TransmitterInv, OnePlace, Places
  <2>4. r = "KnownInvalid" => statuses[h] = "Invalid"
    BY <1>1 DEF ServiceInv, FindingsInv
  <2> HIDE DEF T, r
  <2>5. \A c \in T : sub[c] # None /\ reply[c] = None /\ Fits(c, r)
    BY <1>3, <2>1, <2>3, <2>4 DEF At, AsCalled, Fits
  <2>6. \A c \in Callers : reply'[c] # reply[c] => c \in T /\ reply'[c] = r
    BY <1>3 DEF Transmit
  <2> QED BY <1>1, <2>5, <2>6, ServiceAnswer
<1> QED BY <1>1, <1>2, <1>3

(* The answers of the virtual processor are true.                          *)
LEMMA VirtualAnswers ==
  ASSUME Inv, ServiceInv, VirtualReply
  PROVE  Service!Next \/ UNCHANGED Service!vars
<1>1. /\ UNCHANGED <<sub, statuses>>
      /\ \A c \in Callers : reply'[c] # reply[c] =>
           InChannel(Batch, c) /\ reply'[c] = statuses[sub[c].hash]
  BY BatchAnswered
<1>2. \A c \in Callers : InChannel(Batch, c) => At("batch", c)
  BY DEF At
<1>3. \A c \in Callers : InChannel(Batch, c) => ~At("answered", c)
  BY <1>2 DEF ServiceInv, TransmitterInv, OnePlace, Places
<1>4. \A c \in Callers : InChannel(Batch, c) => sub[c] # None /\ HasBody(sub[c].hash)
  BY DEF ServiceInv, CallInv, StoredInv, InChannel, Holds, ChannelAsCalled, ChannelStored, AsCalled
<1>5. \A c \in Callers : InChannel(Batch, c) =>
        sub[c] # None /\ reply[c] = None /\ Fits(c, statuses[sub[c].hash])
  BY <1>3, <1>4 DEF At, Fits, HasBody
<1> QED BY <1>1, <1>5, ServiceAnswer

(* Every step of the pipeline is a step of the service, or none.           *)
LEMMA ServiceStep == Inv /\ ServiceInv /\ [Next]_vars => [Service!Next]_(Service!vars)
<1> SUFFICES ASSUME Inv, ServiceInv, [Next]_vars
             PROVE  Service!Next \/ UNCHANGED Service!vars
  OBVIOUS
<1>1. \/ UNCHANGED <<sub, reply, statuses>>
      \/ \E c \in Callers, h \in Hashes, b \in Contents : ValidateAndInsertBlock(c, h, b)
      \/ \E h \in Hashes : \/ CommitHeader(h) \/ HeaderEnd(h) \/ ProcessBlockBody(h) \/ BodyEnd(h)
                           \/ VirtualWalk(h)
      \/ VirtualReply
  BY DEF Next, vars, stores, callerVars, SignalExit, Terminated,
         HeaderWorker, HeaderWorkerRegister, HeaderWorkerExit, HeaderWorkerWait,
         HeaderWorkerForward, HeaderStep, HeaderDefer, HeaderBegin, ProcessHeader,
         CheckParentExists, BodyWorker, BodyWorkerRegister, BodyWorkerExit, BodyWorkerWait,
         BodyWorkerForward, BodyStep, BodyDefer, BodyBegin, VirtualWorker, VirtualReceive,
         VirtualSelect, VirtualCommit
<1> QED BY <1>1, ServiceStutter, ServiceCall, ServiceHeader, ServiceBody, HeaderAnswers, BodyAnswers,
           VirtualAnswers
-----------------------------------------------------------------------------
HP == INSTANCE DepsManagerProofs WITH pending <- hPending, spawned <- hSpawned,
                                      running <- hRunning, worker <- hWorker
BP == INSTANCE DepsManagerProofs WITH pending <- bPending, spawned <- bSpawned,
                                      running <- bRunning, worker <- bWorker

(* The assumptions of the task manager hold for both stages.               *)
LEMMA ManagerAssumptions ==
  /\ Parents \in [Hashes -> SUBSET Hashes]
  /\ \A h \in Hashes : h \notin Parents[h]
  /\ HeaderOnly \notin Bodies
  /\ None \notin HP!Task
  /\ None \notin BP!Task
<1>1. None \notin HP!Task
  BY NoneAssumption DEF H!Task, HP!Task, H!Contents, HP!Contents
<1>2. None \notin BP!Task
  BY NoneAssumption DEF H!Task, BP!Task, H!Contents, BP!Contents
<1> QED BY <1>1, <1>2, ParentsAssumption, ContentsAssumption

(* The operations of the header stage keep the types of its manager.       *)
LEMMA HeaderManager ==
  ASSUME H!ManagerTypeOK
  PROVE  /\ \A h \in Hashes, b \in Contents, txs \in SUBSET Callers :
              H!Register(h, b, txs) => H!ManagerTypeOK'
         /\ \A h, p \in Hashes : H!TryBeginDeferred(h, p) => H!ManagerTypeOK'
         /\ \A h \in Hashes : H!TryBegin(h) => H!ManagerTypeOK'
         /\ \A h \in Hashes : H!End(h) => H!ManagerTypeOK'
<1>0. /\ HP!ManagerTypeOK
      /\ HP!ManagerTypeOK' => H!ManagerTypeOK'
  BY DEF H!ManagerTypeOK, H!Task, H!Contents, H!WorkerStates,
         HP!ManagerTypeOK, HP!Task, HP!Contents, HP!WorkerStates
<1>1. ASSUME NEW h \in Hashes, NEW b \in Contents, NEW txs \in SUBSET Callers,
             H!Register(h, b, txs)
      PROVE  H!ManagerTypeOK'
  <2>1. HP!Register(h, b, txs) /\ b \in HP!Contents
    BY <1>1 DEF H!Register, HP!Register, H!BlockTaskInternal, HP!BlockTaskInternal,
                H!NoDependents, HP!NoDependents, Contents, HP!Contents
  <2> QED BY <1>0, <2>1, HP!RegisterType, ManagerAssumptions
<1>2. ASSUME NEW h \in Hashes, NEW p \in Hashes, H!TryBeginDeferred(h, p)
      PROVE  H!ManagerTypeOK'
  <2>1. HP!TryBeginDeferred(h, p)
    BY <1>2 DEF H!TryBeginDeferred, HP!TryBeginDeferred, H!Pending, HP!Pending
  <2> QED BY <1>0, <2>1, HP!DeferType, ManagerAssumptions
<1>3. ASSUME NEW h \in Hashes, H!TryBegin(h) PROVE H!ManagerTypeOK'
  BY SMT, <1>3 DEF H!TryBegin, H!ManagerTypeOK
<1>4. ASSUME NEW h \in Hashes, H!End(h) PROVE H!ManagerTypeOK'
  <2>1. HP!End(h)
    BY <1>4 DEF H!End, HP!End, H!Pending, HP!Pending
  <2> QED BY <1>0, <2>1, HP!EndType, ManagerAssumptions
<1> QED BY <1>1, <1>2, <1>3, <1>4

(* The operations of the body stage keep the types of its manager and give *)
(* each task one closure.                                                  *)
LEMMA BodyManager ==
  ASSUME B!ManagerTypeOK, B!OneHome
  PROVE  /\ \A h \in Hashes, b \in Contents, txs \in SUBSET Callers :
              B!Register(h, b, txs) => B!ManagerTypeOK' /\ B!OneHome'
         /\ \A h, p \in Hashes : B!TryBeginDeferred(h, p) => B!ManagerTypeOK' /\ B!OneHome'
         /\ \A h \in Hashes : B!TryBegin(h) => B!ManagerTypeOK' /\ B!OneHome'
         /\ \A h \in Hashes : B!End(h) => B!ManagerTypeOK' /\ B!OneHome'
<1>0. /\ BP!ManagerTypeOK /\ BP!OneHome
      /\ BP!ManagerTypeOK' => B!ManagerTypeOK'
  BY DEF B!ManagerTypeOK, B!Task, B!Contents, B!WorkerStates, B!OneHome, B!Home, B!Deps,
         BP!ManagerTypeOK, BP!Task, BP!Contents, BP!WorkerStates, BP!OneHome, BP!Home, BP!Deps
<1>00. BP!OneHome' => B!OneHome'
  BY DEF B!OneHome, B!Home, B!Deps, BP!OneHome, BP!Home, BP!Deps
<1>1. ASSUME NEW h \in Hashes, NEW b \in Contents, NEW txs \in SUBSET Callers,
             B!Register(h, b, txs)
      PROVE  B!ManagerTypeOK' /\ B!OneHome'
  <2>1. BP!Register(h, b, txs) /\ b \in BP!Contents
    BY <1>1 DEF B!Register, BP!Register, B!BlockTaskInternal, BP!BlockTaskInternal,
                B!NoDependents, BP!NoDependents, Contents, BP!Contents
  <2> QED BY <1>0, <1>00, <2>1, BP!RegisterType, BP!RegisterHome, ManagerAssumptions
<1>2. ASSUME NEW h \in Hashes, NEW p \in Hashes, B!TryBeginDeferred(h, p)
      PROVE  B!ManagerTypeOK' /\ B!OneHome'
  <2>1. BP!TryBeginDeferred(h, p)
    BY <1>2 DEF B!TryBeginDeferred, BP!TryBeginDeferred, B!Pending, BP!Pending
  <2> QED BY <1>0, <1>00, <2>1, BP!DeferType, BP!DeferHome, ManagerAssumptions
<1>3. ASSUME NEW h \in Hashes, B!TryBegin(h) PROVE B!ManagerTypeOK' /\ B!OneHome'
  <2>1. BP!TryBegin(h)
    BY <1>3 DEF B!TryBegin, BP!TryBegin, B!Pending, BP!Pending
  <2>2. B!ManagerTypeOK'
    BY SMT, <1>3 DEF B!TryBegin, B!ManagerTypeOK
  <2> QED BY <1>0, <1>00, <2>1, <2>2, BP!BeginHome, ManagerAssumptions
<1>4. ASSUME NEW h \in Hashes, B!End(h) PROVE B!ManagerTypeOK' /\ B!OneHome'
  <2>1. BP!End(h)
    BY <1>4 DEF B!End, BP!End, B!Pending, BP!Pending
  <2> QED BY <1>0, <1>00, <2>1, BP!EndType, BP!EndHome, ManagerAssumptions
<1> QED BY <1>1, <1>2, <1>3, <1>4

-----------------------------------------------------------------------------
(* The manager of the header stage keeps its types.                        *)
LEMMA HeaderManagerStep ==
  ASSUME TypeInv, [Next]_vars
  PROVE  H!ManagerTypeOK'
<1>0. H!ManagerTypeOK /\ headerCh \in Seq(Messages)
  BY DEF TypeInv, DataTypes, ChannelTypes
<1>1. CASE HeaderWorkerRegister
  <2>1. H!Register(Head(headerCh).hash, Head(headerCh).block, Head(headerCh).txs)
    BY <1>1 DEF HeaderWorkerRegister
  <2>2. /\ Head(headerCh).hash \in Hashes /\ Head(headerCh).block \in Contents
        /\ Head(headerCh).txs \in SUBSET Callers
    BY <1>0, <1>1, Received DEF HeaderWorkerRegister
  <2> QED BY <1>0, <2>1, <2>2, HeaderManager
<1>2. CASE HeaderWorkerExit \/ HeaderWorkerWait \/ HeaderWorkerForward
  BY <1>0, <1>2 DEF HeaderWorkerExit, HeaderWorkerWait, HeaderWorkerForward, H!ReceiveExit,
                    H!WaitForIdle, H!ForwardExit, H!ManagerTypeOK, H!WorkerStates
<1>3. ASSUME NEW h \in Hashes, HeaderDefer(h) \/ HeaderBegin(h) \/ HeaderEnd(h)
      PROVE  H!ManagerTypeOK'
  BY <1>0, <1>3, HeaderManager DEF HeaderDefer, HeaderBegin, HeaderEnd
<1>4. CASE UNCHANGED <<hPending, hSpawned, hRunning, hWorker>>
  BY <1>0, <1>4 DEF H!ManagerTypeOK
<1> DEFINE kept == UNCHANGED <<hPending, hSpawned, hRunning, hWorker>>
<1>5. \/ UNCHANGED vars \/ Terminated \/ SignalExit \/ BodyWorker \/ VirtualWorker
      \/ \E h \in Hashes : BodyStep(h)
      \/ \E c \in Callers, h \in Hashes \ {Genesis}, b \in Contents :
           ValidateAndInsertBlock(c, h, b)
      => kept
  BY DEF vars, headerVars, ValidateAndInsertBlock, SignalExit, Terminated, BodyWorker,
         BodyWorkerRegister, BodyWorkerExit, BodyWorkerWait, BodyWorkerForward, BodyStep,
         BodyDefer, BodyBegin, ProcessBlockBody, BodyEnd, VirtualWorker, VirtualReceive,
         VirtualSelect, VirtualWalk, VirtualCommit, VirtualReply
<1>6. ASSUME NEW h \in Hashes, HeaderStep(h)
      PROVE  kept \/ HeaderDefer(h) \/ HeaderBegin(h) \/ HeaderEnd(h)
  BY <1>6 DEF HeaderStep, ProcessHeader, CheckParentExists, CommitHeader
<1> QED BY <1>1, <1>2, <1>3, <1>4, <1>5, <1>6 DEF Next, HeaderWorker

(* What the worker of the body stage registers came over its channel.      *)
LEMMA BodyRegistered ==
  ASSUME Inv, BodyWorkerRegister
  PROVE  \E h \in Hashes, b \in Contents, txs \in SUBSET Callers :
           B!Register(h, b, txs) /\ b # HeaderOnly /\ statuses[h] # None
<1>1. /\ bodyCh \in Seq(Messages) /\ bodyCh # <<>> /\ Head(bodyCh).type = "Process"
      /\ BodyQueueInv
      /\ B!Register(Head(bodyCh).hash, Head(bodyCh).block, Head(bodyCh).txs)
  BY DEF Inv, TypeInv, DataTypes, ChannelTypes, BodyInv, BodyWorkerRegister
<1>2. /\ Head(bodyCh).hash \in Hashes /\ Head(bodyCh).block \in Contents
      /\ Head(bodyCh).txs \in SUBSET Callers
      /\ 1 \in DOMAIN bodyCh /\ Head(bodyCh) = bodyCh[1] /\ IsProcess(bodyCh[1])
  BY <1>1, Received
<1>3. Head(bodyCh).block # HeaderOnly /\ statuses[Head(bodyCh).hash] # None
  BY <1>1, <1>2 DEF BodyQueueInv
<1> QED BY <1>1, <1>2, <1>3

(* The manager of the body stage keeps its types and its closures.         *)
LEMMA BodyManagerStep ==
  ASSUME Inv, [Next]_vars
  PROVE  B!ManagerTypeOK' /\ B!OneHome'
<1>0. B!ManagerTypeOK /\ B!OneHome
  BY DEF Inv, TypeInv, BodyInv
<1>1. CASE BodyWorkerRegister
  BY <1>0, <1>1, BodyRegistered, BodyManager
<1>2. CASE BodyWorkerExit \/ BodyWorkerWait \/ BodyWorkerForward
  <2>1. UNCHANGED <<bPending, bSpawned, bRunning>> /\ bWorker' \in B!WorkerStates
    BY <1>2 DEF BodyWorkerExit, BodyWorkerWait, BodyWorkerForward, B!ReceiveExit,
                B!WaitForIdle, B!ForwardExit, B!WorkerStates
  <2> QED BY <1>0, <2>1 DEF B!ManagerTypeOK, B!OneHome, B!Home, B!Deps
<1>3. ASSUME NEW h \in Hashes, BodyDefer(h) \/ BodyBegin(h) \/ BodyEnd(h)
      PROVE  B!ManagerTypeOK' /\ B!OneHome'
  BY <1>0, <1>3, BodyManager DEF BodyDefer, BodyBegin, BodyEnd
<1>4. CASE UNCHANGED <<bPending, bSpawned, bRunning, bWorker>>
  BY <1>0, <1>4 DEF B!ManagerTypeOK, B!OneHome, B!Home, B!Deps
<1> DEFINE kept == UNCHANGED <<bPending, bSpawned, bRunning, bWorker>>
<1>5. \/ UNCHANGED vars \/ Terminated \/ SignalExit \/ HeaderWorker \/ VirtualWorker
      \/ \E h \in Hashes : HeaderStep(h)
      \/ \E c \in Callers, h \in Hashes \ {Genesis}, b \in Contents :
           ValidateAndInsertBlock(c, h, b)
      => kept
  BY DEF vars, bodyVars, ValidateAndInsertBlock, SignalExit, Terminated, HeaderWorker,
         HeaderWorkerRegister, HeaderWorkerExit, HeaderWorkerWait, HeaderWorkerForward,
         HeaderStep, HeaderDefer, HeaderBegin, ProcessHeader, CheckParentExists, CommitHeader,
         HeaderEnd, VirtualWorker, VirtualReceive, VirtualSelect, VirtualWalk, VirtualCommit,
         VirtualReply
<1>6. ASSUME NEW h \in Hashes, BodyStep(h)
      PROVE  kept \/ BodyDefer(h) \/ BodyBegin(h) \/ BodyEnd(h)
  BY <1>6 DEF BodyStep, ProcessBlockBody
<1> QED BY <1>1, <1>2, <1>3, <1>4, <1>5, <1>6 DEF Next, BodyWorker

(* BodyInv: a task of the body stage has its header and its transactions,  *)
(* and a closure runs on transactions while its task is pending.           *)
LEMMA BodyInvStep ==
  ASSUME Inv, [Next]_vars
  PROVE  BodyInv'
<1>0. /\ B!ManagerTypeOK /\ BodyTaskInv /\ BodyJobInv
      /\ bJob \in [Hashes -> BodyJobs \cup {None}]
  BY DEF Inv, TypeInv, DataTypes, JobTypes, BodyInv
<1>1. \A k \in Hashes : statuses[k] # None => statuses'[k] # None
  BY KeptStep DEF Kept
<1> SUFFICES BodyTaskInv' /\ BodyJobInv'
  BY BodyQueueStep, BodyManagerStep DEF BodyInv
<1>2. CASE UNCHANGED <<bPending, bSpawned, bRunning, bJob>>
  BY <1>0, <1>1, <1>2 DEF BodyTaskInv, BodyJobInv
<1>3. CASE BodyWorkerRegister
  <2>1. PICK h \in Hashes, b \in Contents, txs \in SUBSET Callers :
          B!Register(h, b, txs) /\ b # HeaderOnly /\ statuses[h] # None
    BY <1>3, BodyRegistered
  <2>2. /\ \A k \in Hashes \ {h} : bPending'[k] = bPending[k]
        /\ bPending'[h].block = IF bPending[h] = None \/ bPending[h].block = HeaderOnly
                                THEN b ELSE bPending[h].block
    BY <1>0, <2>1, BodyEffects
  <2>3. UNCHANGED <<bRunning, bJob>>
    BY <1>3, <2>1 DEF BodyWorkerRegister, B!Register
  <2> QED BY <1>0, <1>1, <2>1, <2>2, <2>3 DEF BodyTaskInv, BodyJobInv
<1>4. ASSUME NEW h \in Hashes, BodyDefer(h) PROVE BodyTaskInv' /\ BodyJobInv'
  <2>1. PICK p \in Hashes : B!TryBeginDeferred(h, p)
    BY <1>4 DEF BodyDefer
  <2>2. /\ \A k \in Hashes \ {p} : bPending'[k] = bPending[k]
        /\ bPending[p] # None /\ bPending'[p].block = bPending[p].block
    BY <1>0, <2>1, BodyEffects
  <2>3. UNCHANGED <<bRunning, bJob>>
    BY <1>4, <2>1 DEF BodyDefer, B!TryBeginDeferred
  <2> QED BY <1>0, <1>1, <2>2, <2>3 DEF BodyTaskInv, BodyJobInv
<1>5. ASSUME NEW h \in Hashes, BodyBegin(h) PROVE BodyTaskInv' /\ BodyJobInv'
  <2>1. /\ UNCHANGED bPending /\ bPending[h] # None
        /\ bRunning' = [bRunning EXCEPT ![h] = @ + 1]
        /\ bRunning \in [Hashes -> Nat]
    BY <1>0, <1>5 DEF BodyBegin, B!TryBegin, B!ManagerTypeOK
  <2>2. bJob' = [bJob EXCEPT ![h] = [pc |-> "process", block |-> bPending[h].block]]
    BY <1>5 DEF BodyBegin
  <2> QED BY SMT, <1>0, <1>1, <2>1, <2>2 DEF BodyTaskInv, BodyJobInv
<1>6. ASSUME NEW h \in Hashes, ProcessBlockBody(h) PROVE BodyTaskInv' /\ BodyJobInv'
  <2>1. UNCHANGED <<bPending, bRunning>>
    BY <1>6 DEF ProcessBlockBody
  <2>2. PICK r : ReportBody(h, r)
    BY <1>6, BodyOutcomes DEF Inv, KeepBody, RejectBody, StoreBody
  <2>3. BodyJobInv'
    BY SMT, <1>0, <1>6, <2>1, <2>2 DEF BodyJobInv, ReportBody, ProcessBlockBody
  <2> QED BY <1>0, <1>1, <2>1, <2>3 DEF BodyTaskInv
<1>7. ASSUME NEW h \in Hashes, BodyEnd(h) PROVE BodyTaskInv' /\ BodyJobInv'
  <2>1. /\ bPending' = [bPending EXCEPT ![h] = None]
        /\ \A k \in Hashes \ {h} : bRunning'[k] = bRunning[k]
        /\ bPending \in [Hashes -> B!Task \cup {None}]
    BY <1>0, <1>7 DEF BodyEnd, B!End, B!ManagerTypeOK
  <2>2. bJob' = [bJob EXCEPT ![h] = None]
    BY <1>7 DEF BodyEnd
  <2> QED BY <1>0, <1>1, <2>1, <2>2 DEF BodyTaskInv, BodyJobInv
<1> QED BY <1>2, <1>3, <1>4, <1>5, <1>6, <1>7, BodySteps
-----------------------------------------------------------------------------
(* Inv is inductive.                                                       *)
LEMMA InvStep == Inv /\ [Next]_vars => Inv'
<1> SUFFICES ASSUME Inv, [Next]_vars PROVE Inv'
  OBVIOUS
<1>1. TypeInv'
  BY DataStep, HeaderManagerStep, BodyManagerStep DEF Inv, StoreInv, TypeInv
<1> QED BY <1>1, HeaderInvStep, BodyInvStep, StoreInvStep, WalkInvStep, SettledInvStep,
           JustifiedStep DEF Inv

(* Inv holds in every reachable state of the pipeline.                     *)
THEOREM PipelineInvariant == Spec => []Inv
BY InvInit, InvStep, PTL DEF Spec

(* A block is marked invalid only for what the block itself is, whatever   *)
(* DAG, callers, contents and pool: not for parents that were missing when *)
(* it was processed, nor for transactions that do not fit its header.      *)
THEOREM InvalidIsJustified == Spec => []InvalidJustified
<1>1. Inv => InvalidJustified
  BY DEF Inv
<1> QED BY <1>1, PipelineInvariant, PTL

(* No thread of the pipeline hits an unwrap, an assertion or a panic: the  *)
(* body stage finds a header and transactions for each of its tasks, and   *)
(* resolve_virtual ends on a block whose validity is decided.              *)
THEOREM PipelineNeverPanics == Spec => []NoPanic
<1>1. Inv => NoPanic
  BY DEF Inv, WalkInv, BodyInv, BodyTaskInv, StoreInv, BodyClosed, NoPanic
<1> QED BY <1>1, PipelineInvariant, PTL

(* The tips store is exact, the selected chain of virtual is valid, and    *)
(* once the pipeline is quiet virtual is on the best tip unless that one   *)
(* is disqualified: no order of commits and tasks leaves a body unseen.    *)
THEOREM PipelineSettles == Spec => []VirtualSettled
<1>1. ASSUME Inv PROVE VirtualSettled
  <2>1. TipsExact /\ StoreInv /\ vsp \in Hashes /\ statuses[vsp] = "UTXOValid"
    BY <1>1 DEF Inv, StoreInv, TypeInv, DataTypes, StoreTypes
  <2>2. ASSUME Quiet PROVE OnBest
    <3>1. \A h \in Hashes : bPending[h] = None
      BY <2>2 DEF Quiet, B!Pending
    <3>2. \A h \in Hashes : bRunning[h] = 0
      BY <1>1, <3>1 DEF Inv, BodyInv, B!OneHome, B!Home
    <3>3. \A h \in Hashes : bJob[h] = None
      BY SMT, <1>1, <3>2 DEF Inv, BodyInv, BodyJobInv
    <3>4. ~Announced
      BY <2>2, <3>3 DEF Quiet, Announced, Announcing
    <3> QED BY <1>1, <2>2, <3>4 DEF Inv, SettledInv, Settled, Quiet
  <2>3. \A h \in Chain[vsp] : statuses[h] = "UTXOValid"
    BY <2>1, ValidChain
  <2> QED BY <2>1, <2>2, <2>3 DEF VirtualSettled, TipsExact, OnBest, Best
<1> QED BY <1>1, PipelineInvariant, PTL

(* The pipeline implements BlockService: validate_and_insert_block gives   *)
(* every call at most one answer, the answer is true of what is stored,    *)
(* bodies are stored after their parents' and nothing stored is forgotten. *)
THEOREM PipelineImplementsService == Spec => ImplementsService
<1>1. Spec => []Inv
  BY PipelineInvariant
<1> QED BY <1>1, ServiceInvInit, ServiceInvStep, ServiceInit, ServiceStep, PTL
    DEF Spec, ImplementsService, Service!Spec

(* A caller that submits a block after the blocks of its parents, alone,   *)
(* is never told that parents are missing, whatever DAG, whatever the      *)
(* other callers submit and however many tasks run at once: the calls need *)
(* not wait for the answers of the earlier ones.                           *)
THEOREM ParentsFirstIsEnough == Spec => []NoSpuriousMissing
<1>1. Spec => []Inv
  BY PipelineInvariant
<1>2. Init => ServiceInv /\ OrderInv
  BY ServiceInvInit, OrderInvInit
<1>3. Inv /\ ServiceInv /\ OrderInv /\ Inv' /\ [Next]_vars => ServiceInv' /\ OrderInv'
  BY ServiceInvStep, OrderInvStep
<1>4. ServiceInv /\ OrderInv => NoSpuriousMissing
  BY OrderGivesNoSpurious
<1> QED BY <1>1, <1>2, <1>3, <1>4, PTL DEF Spec
=============================================================================
