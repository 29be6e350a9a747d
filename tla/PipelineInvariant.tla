------------------------- MODULE PipelineInvariant -------------------------
(***************************************************************************)
(* The inductive invariant of the pipeline, and the proof that every step  *)
(* preserves it as far as the stores, the jobs, the channels and virtual   *)
(* are concerned; then where the transmitter of each call is.              *)
(* PipelineProofs adds the part of the task managers and the theorems.     *)
(***************************************************************************)
EXTENDS Pipeline, TLAPS

\* Zenon is enough for most leaves; those that need SMT say so.
USE Zenon

Messages ==
  {Exit} \cup [type : {"Process"}, hash : Hashes, block : Contents, txs : SUBSET Callers]

IsProcess(m) == m.type = "Process"

VirtualStates ==
  [pc : {"receive", "done", "panic"}]
    \cup [pc : {"select", "reply"}, tasks : Seq(Messages)]
    \cup [pc : {"walk"}, tasks : Seq(Messages), new_selected : Hashes, todo : SUBSET Hashes]

ChannelTypes ==
  headerCh \in Seq(Messages) /\ bodyCh \in Seq(Messages) /\ virtualCh \in Seq(Messages)
JobTypes ==
  hJob \in [Hashes -> HeaderJobs \cup {None}] /\ bJob \in [Hashes -> BodyJobs \cup {None}]
StoreTypes ==
  /\ statuses \in [Hashes -> Statuses \cup {None}]
  /\ tips \in SUBSET Hashes
  /\ vsp \in Hashes

DataTypes == ChannelTypes /\ JobTypes /\ vWorker \in VirtualStates /\ StoreTypes
TypeInv == DataTypes /\ H!ManagerTypeOK /\ B!ManagerTypeOK

(* A header that is being validated is unknown, and one that was found     *)
(* good is known: no other thread commits it in between.                   *)
HeaderInv ==
  \A h \in Hashes : hJob[h] # None =>
    /\ hJob[h].pc = "parents" => statuses[h] = None
    /\ hJob[h].pc = "done" /\ hJob[h].res \notin Errors => statuses[h] # None

(* What is on its way to the body stage, or in it, has a known header and  *)
(* transactions.                                                           *)
BodyQueueInv ==
  \A i \in DOMAIN bodyCh : IsProcess(bodyCh[i]) =>
    bodyCh[i].block # HeaderOnly /\ statuses[bodyCh[i].hash] # None
BodyTaskInv ==
  \A h \in Hashes : bPending[h] # None => bPending[h].block # HeaderOnly /\ statuses[h] # None

(* A body closure runs alone: it has the one thread of its task.           *)
BodyJobInv ==
  \A h \in Hashes : bJob[h] # None =>
    bRunning[h] > 0 /\ (bJob[h].pc = "process" => bJob[h].block # HeaderOnly)

BodyInv == B!OneHome /\ BodyQueueInv /\ BodyTaskInv /\ BodyJobInv

BodyClosed == \A h \in Hashes \ {Genesis} : HasBody(h) => \A p \in Parents[h] : HasBody(p)
TipsExact ==
  tips = {h \in Hashes : HasBody(h) /\ \A k \in Hashes : HasBody(k) => h \notin Parents[k]}

(* A valid block has a valid selected parent, and a disqualified one a     *)
(* reason that lasts.                                                      *)
ChainInv ==
  \A k \in Hashes \ {Genesis} :
    /\ statuses[k] = "UTXOValid" => statuses[SelectedParent(k)] = "UTXOValid"
    /\ statuses[k] = "DisqualifiedFromChain" =>
         verdict[k] = "utxo" \/ statuses[SelectedParent(k)] = "DisqualifiedFromChain"

StoreInv ==
  /\ statuses[Genesis] = "UTXOValid"
  /\ statuses[vsp] = "UTXOValid"
  /\ tips # {}
  /\ BodyClosed
  /\ TipsExact
  /\ ChainInv

Decided == {"UTXOValid", "DisqualifiedFromChain"}

(* The walk of resolve_virtual: what is behind it on the chain of the new  *)
(* selected block is decided.                                              *)
WalkInv ==
  /\ vWorker.pc # "panic"
  /\ vWorker.pc = "walk" =>
       /\ HasBody(vWorker.new_selected)
       /\ vWorker.todo \subseteq Chain[vWorker.new_selected]
       /\ \A k \in Chain[vWorker.new_selected] \ vWorker.todo : statuses[k] \in Decided

(* A body that virtual has not looked at yet is announced to it.           *)
Announcing(h) == bJob[h] # None /\ bJob[h].pc = "done" /\ bJob[h].res \notin Errors
Announced == virtualCh # <<>> \/ \E h \in Hashes : Announcing(h)

(* Virtual is on the best tip, on its way to it, or about to look for it.  *)
Best == FindSelectedParent(tips)
OnBest == vsp = Best \/ statuses[Best] = "DisqualifiedFromChain"
Settled ==
  \/ vWorker.pc = "select"
  \/ vWorker.pc = "walk" /\ vWorker.new_selected = Best
  \/ vWorker.pc # "walk" /\ OnBest

SettledInv == Announced \/ Settled

Inv == TypeInv /\ HeaderInv /\ BodyInv /\ StoreInv /\ WalkInv /\ SettledInv /\ InvalidJustified
-----------------------------------------------------------------------------
(* The block of highest rank of a set is one of it.                        *)
LEMMA FoundInSet ==
  ASSUME NEW S \in SUBSET Hashes, S # {}
  PROVE  FindSelectedParent(S) \in S
<1>1. PICK p \in S : \A q \in S : Rank[q] <= Rank[p]
  BY RankAssumption
<1> QED BY <1>1 DEF FindSelectedParent

(* The selected parent is a parent.                                        *)
LEMMA SelectedIsParent ==
  ASSUME NEW h \in Hashes, h # Genesis
  PROVE  SelectedParent(h) \in Parents[h] /\ SelectedParent(h) \in Hashes /\ SelectedParent(h) # h
<1>1. Parents[h] \in SUBSET Hashes /\ Parents[h] # {} /\ h \notin Parents[h]
  BY ParentsAssumption
<1>2. FindSelectedParent(Parents[h]) \in Parents[h]
  BY <1>1, FoundInSet
<1> QED BY <1>1, <1>2 DEF SelectedParent

(* A chain begins with its block, goes on to selected parents, and stays   *)
(* in every set that is closed under them.                                 *)
LEMMA ChainProperties ==
  ASSUME NEW h \in Hashes
  PROVE  /\ h \in Chain[h]
         /\ Chain[h] \subseteq Hashes
         /\ \A k \in Chain[h] \ {Genesis} : SelectedParent(k) \in Chain[h]
         /\ \A S \in SUBSET Hashes : h \in S /\ ClosedUnderSelectedParent(S) => Chain[h] \subseteq S
<1>1. Chain[h] = {k \in Hashes : \A S \in SUBSET Hashes :
                    h \in S /\ ClosedUnderSelectedParent(S) => k \in S}
  BY DEF Chain
<1>2. ASSUME NEW k \in Chain[h] \ {Genesis} PROVE SelectedParent(k) \in Chain[h]
  <2>1. k \in Hashes /\ SelectedParent(k) \in Hashes
    BY <1>1, SelectedIsParent
  <2>2. ASSUME NEW S \in SUBSET Hashes, h \in S, ClosedUnderSelectedParent(S)
        PROVE  SelectedParent(k) \in S
    BY <1>1, <2>2 DEF ClosedUnderSelectedParent
  <2> QED BY <1>1, <2>1, <2>2
<1> QED BY <1>1, <1>2

(* The chain of a valid block is valid, and the chain of a block with a    *)
(* body has bodies.                                                        *)
LEMMA ValidChain ==
  ASSUME StoreInv, NEW h \in Hashes, statuses[h] = "UTXOValid"
  PROVE  \A k \in Chain[h] : statuses[k] = "UTXOValid"
<1> DEFINE S == {k \in Hashes : statuses[k] = "UTXOValid"}
<1>1. ClosedUnderSelectedParent(S)
  BY SelectedIsParent DEF ClosedUnderSelectedParent, StoreInv, ChainInv
<1> QED BY <1>1, ChainProperties

(* The same for blocks that have a body.                                   *)
LEMMA BodyChain ==
  ASSUME StoreInv, NEW h \in Hashes, HasBody(h)
  PROVE  \A k \in Chain[h] : HasBody(k)
<1> DEFINE S == {k \in Hashes : HasBody(k)}
<1>1. ClosedUnderSelectedParent(S)
  BY SelectedIsParent DEF ClosedUnderSelectedParent, StoreInv, BodyClosed
<1> QED BY <1>1, ChainProperties
-----------------------------------------------------------------------------
(* What the messages of the channels are.                                  *)
LEMMA MessageTypes ==
  /\ Exit \in Messages /\ ~IsProcess(Exit)
  /\ \A h \in Hashes, b \in Contents, txs \in SUBSET Callers :
       /\ Process(h, b, txs) \in Messages
       /\ Process(h, b, txs).hash = h
       /\ Process(h, b, txs).block = b
  /\ \A m \in Messages : IsProcess(m) =>
       m.hash \in Hashes /\ m.block \in Contents /\ m.txs \in SUBSET Callers
<1>1. ASSUME NEW m \in Messages, IsProcess(m)
      PROVE  m \in [type : {"Process"}, hash : Hashes, block : Contents, txs : SUBSET Callers]
  BY SMT, <1>1 DEF Messages, Exit, IsProcess
<1>2. Exit \in Messages /\ ~IsProcess(Exit)
  BY DEF Messages, Exit, IsProcess
<1>3. \A h \in Hashes, b \in Contents, txs \in SUBSET Callers :
        /\ Process(h, b, txs) \in Messages
        /\ Process(h, b, txs).hash = h
        /\ Process(h, b, txs).block = b
  BY DEF Messages, Process
<1> QED BY <1>1, <1>2, <1>3

(* Sending appends one message at the end.                                 *)
LEMMA SendMessage ==
  ASSUME NEW q \in Seq(Messages), NEW m \in Messages
  PROVE  /\ Append(q, m) \in Seq(Messages)
         /\ Append(q, m) # <<>>
         /\ \A i \in DOMAIN Append(q, m) :
              Append(q, m)[i] = m \/ (i \in DOMAIN q /\ Append(q, m)[i] = q[i])
BY SMT

(* Receiving takes the first message and keeps the others.                 *)
LEMMA ReceiveMessage ==
  ASSUME NEW q \in Seq(Messages), q # <<>>
  PROVE  /\ Head(q) \in Messages /\ 1 \in DOMAIN q /\ Head(q) = q[1]
         /\ Tail(q) \in Seq(Messages)
         /\ \A i \in DOMAIN Tail(q) : i + 1 \in DOMAIN q /\ Tail(q)[i] = q[i + 1]
BY SMT
-----------------------------------------------------------------------------
(* The initial states are well-typed.                                      *)
LEMMA TypeInit == Init => TypeInv
<1> SUFFICES ASSUME Init PROVE TypeInv
  OBVIOUS
<1>1. H!ManagerTypeOK
  BY DEF Init, H!ManagerInit, H!NoDependents, H!ManagerTypeOK, H!WorkerStates
<1>2. B!ManagerTypeOK
  BY DEF Init, B!ManagerInit, B!NoDependents, B!ManagerTypeOK, B!WorkerStates
<1>3. ChannelTypes
  BY SMT DEF Init, ChannelTypes
<1>4. JobTypes
  BY DEF Init, JobTypes
<1>5. StoreTypes
  BY ParentsAssumption DEF Init, StoreTypes, Statuses, BodyStatuses
<1>6. vWorker \in VirtualStates
  BY DEF Init, VirtualStates
<1> QED BY <1>1, <1>2, <1>3, <1>4, <1>5, <1>6 DEF TypeInv, DataTypes

(* A step of a stage sends at most a message, and takes at most one.       *)
LEMMA ChannelStep ==
  ASSUME TypeInv, [Next]_vars
  PROVE  ChannelTypes'
<1>0. ChannelTypes
  BY DEF TypeInv, DataTypes
<1>1. ASSUME NEW q \in Seq(Messages), q # <<>> PROVE Tail(q) \in Seq(Messages)
  BY <1>1, ReceiveMessage
<1>2. \A q \in Seq(Messages), m \in Messages : Append(q, m) \in Seq(Messages)
  BY SendMessage
<1>3. Exit \in Messages
  BY MessageTypes
<1>4. ASSUME NEW c \in Callers, NEW h \in Hashes, NEW b \in Contents,
             ValidateAndInsertBlock(c, h, b)
      PROVE  ChannelTypes'
  <2>1. Process(h, b, {c}) \in Messages
    BY MessageTypes
  <2> QED BY <1>0, <1>2, <1>4, <2>1
      DEF ValidateAndInsertBlock, ChannelTypes, bodyVars, virtualVars
<1>5. CASE SignalExit \/ HeaderWorkerForward \/ BodyWorkerForward
  BY <1>0, <1>2, <1>3, <1>5
  DEF SignalExit, HeaderWorkerForward, BodyWorkerForward, ChannelTypes, headerVars, bodyVars,
      virtualVars
<1>6. CASE HeaderWorkerRegister \/ HeaderWorkerExit \/ BodyWorkerRegister \/ BodyWorkerExit
  BY <1>0, <1>1, <1>6
  DEF HeaderWorkerRegister, HeaderWorkerExit, BodyWorkerRegister, BodyWorkerExit, ChannelTypes,
      headerVars, bodyVars, virtualVars
<1>7. ASSUME NEW h \in Hashes, HeaderEnd(h) PROVE ChannelTypes'
  <2> DEFINE m == Process(h, hPending[h].block, hPending[h].result_transmitters)
  <2>1. hPending[h] # None /\ (bodyCh' = bodyCh \/ bodyCh' = Append(bodyCh, m))
    BY <1>7 DEF HeaderEnd, H!End
  <2>2. hPending[h].block \in Contents /\ hPending[h].result_transmitters \in SUBSET Callers
    BY <2>1 DEF TypeInv, H!ManagerTypeOK, H!Task, H!Contents, Contents
  <2>3. m \in Messages
    BY <2>2, MessageTypes
  <2> HIDE DEF m
  <2> QED BY <1>0, <1>2, <1>7, <2>1, <2>3 DEF HeaderEnd, ChannelTypes, virtualVars
<1>8. ASSUME NEW h \in Hashes, BodyEnd(h) PROVE ChannelTypes'
  <2> DEFINE m == Process(h, bPending[h].block, bPending[h].result_transmitters)
  <2>1. bPending[h] # None /\ (virtualCh' = virtualCh \/ virtualCh' = Append(virtualCh, m))
    BY <1>8 DEF BodyEnd, B!End
  <2>2. bPending[h].block \in Contents /\ bPending[h].result_transmitters \in SUBSET Callers
    BY <2>1 DEF TypeInv, B!ManagerTypeOK, B!Task, B!Contents, Contents
  <2>3. m \in Messages
    BY <2>2, MessageTypes
  <2> HIDE DEF m
  <2> QED BY <1>0, <1>2, <1>8, <2>1, <2>3 DEF BodyEnd, ChannelTypes, headerVars
<1>9. CASE VirtualReceive
  BY SMT, <1>0, <1>9 DEF VirtualReceive, ChannelTypes, headerVars, bodyVars
<1>10. CASE UNCHANGED <<headerCh, bodyCh, virtualCh>>
  BY <1>0, <1>10 DEF ChannelTypes
<1>11. HeaderWorkerWait \/ BodyWorkerWait \/ VirtualSelect \/ VirtualCommit \/ VirtualReply
         \/ Terminated \/ UNCHANGED vars
       => UNCHANGED <<headerCh, bodyCh, virtualCh>>
  BY DEF HeaderWorkerWait, BodyWorkerWait, VirtualSelect, VirtualCommit, VirtualReply,
         Terminated, vars, headerVars, bodyVars, virtualVars
<1>12. \A h \in Hashes :
         \/ HeaderDefer(h) \/ HeaderBegin(h) \/ ProcessHeader(h) \/ CommitHeader(h)
         \/ \E p \in Parents[h] : CheckParentExists(h, p)
         \/ BodyDefer(h) \/ BodyBegin(h) \/ ProcessBlockBody(h) \/ VirtualWalk(h)
         => UNCHANGED <<headerCh, bodyCh, virtualCh>>
  BY DEF HeaderDefer, HeaderBegin, ProcessHeader, CommitHeader, CheckParentExists, BodyDefer,
         BodyBegin, ProcessBlockBody, VirtualWalk, headerVars, bodyVars, virtualVars
<1> QED BY <1>4, <1>5, <1>6, <1>7, <1>8, <1>9, <1>10, <1>11, <1>12
    DEF Next, HeaderWorker, HeaderStep, BodyWorker, BodyStep, VirtualWorker

(* The locals of the header closures keep their shape.                     *)
LEMMA HeaderJobStep ==
  ASSUME TypeInv, [Next]_vars
  PROVE  hJob' \in [Hashes -> HeaderJobs \cup {None}]
<1>0. hJob \in [Hashes -> HeaderJobs \cup {None}] /\ statuses \in [Hashes -> Statuses \cup {None}]
  BY DEF TypeInv, DataTypes, JobTypes, StoreTypes
<1>1. ASSUME NEW h \in Hashes, NEW job \in HeaderJobs \cup {None},
             hJob' = [hJob EXCEPT ![h] = job]
      PROVE  hJob' \in [Hashes -> HeaderJobs \cup {None}]
  BY <1>0, <1>1
<1>2. \A r \in Statuses \cup Errors : [pc |-> "done", res |-> r] \in HeaderJobs
  BY DEF HeaderJobs
<1>3. {"KnownInvalid", "RuleError", "InvalidParent", "MissingParents", "HeaderOnly"}
        \subseteq Statuses \cup Errors
  BY DEF Errors, Statuses
<1>4. ASSUME NEW h \in Hashes, HeaderBegin(h) \/ HeaderEnd(h)
      PROVE  hJob' \in [Hashes -> HeaderJobs \cup {None}]
  BY <1>1, <1>4 DEF HeaderBegin, HeaderEnd, HeaderJobs
<1>5. ASSUME NEW h \in Hashes, ProcessHeader(h)
      PROVE  hJob' \in [Hashes -> HeaderJobs \cup {None}]
  <2>1. [pc |-> "parents", todo |-> Parents[h], missing |-> FALSE] \in HeaderJobs
    BY ParentsAssumption DEF HeaderJobs
  <2>2. statuses[h] \notin {"Invalid", None} => statuses[h] \in Statuses \cup Errors
    BY <1>0
  <2> QED BY <1>1, <1>2, <1>3, <1>5, <2>1, <2>2 DEF ProcessHeader, HeaderDone
<1>6. ASSUME NEW h \in Hashes, NEW p \in Parents[h], CheckParentExists(h, p)
      PROVE  hJob' \in [Hashes -> HeaderJobs \cup {None}]
  <2>1. hJob[h] \in [pc : {"parents"}, todo : SUBSET Hashes, missing : BOOLEAN]
    BY <1>0, <1>6 DEF CheckParentExists, HeaderJobs
  <2> DEFINE job == [hJob[h] EXCEPT !.todo = @ \ {p}, !.missing = @ \/ statuses[p] = None]
  <2>2. job \in [pc : {"parents"}, todo : SUBSET Hashes, missing : BOOLEAN]
    BY <2>1
  <2>3. \/ statuses[p] = "Invalid" /\ HeaderDone(h, "InvalidParent")
        \/ hJob' = [hJob EXCEPT ![h] = job]
    BY <1>6 DEF CheckParentExists
  <2> HIDE DEF job
  <2>4. job \in HeaderJobs
    BY <2>2 DEF HeaderJobs
  <2> QED BY <1>1, <1>2, <1>3, <2>3, <2>4 DEF HeaderDone
<1>7. ASSUME NEW h \in Hashes, CommitHeader(h)
      PROVE  hJob' \in [Hashes -> HeaderJobs \cup {None}]
  BY <1>1, <1>2, <1>3, <1>7 DEF CommitHeader, HeaderDone
<1>8. \/ UNCHANGED hJob
      \/ \E h \in Hashes : \/ HeaderBegin(h) \/ ProcessHeader(h) \/ CommitHeader(h) \/ HeaderEnd(h)
                           \/ \E p \in Parents[h] : CheckParentExists(h, p)
  BY DEF Next, vars, headerVars, ValidateAndInsertBlock, SignalExit, Terminated,
         HeaderWorker, HeaderWorkerRegister, HeaderWorkerExit, HeaderWorkerWait,
         HeaderWorkerForward, HeaderStep, HeaderDefer, BodyWorker, BodyWorkerRegister,
         BodyWorkerExit, BodyWorkerWait, BodyWorkerForward, BodyStep, BodyDefer, BodyBegin,
         ProcessBlockBody, BodyEnd, VirtualWorker, VirtualReceive, VirtualSelect, VirtualWalk,
         VirtualCommit, VirtualReply
<1> QED BY <1>0, <1>4, <1>5, <1>6, <1>7, <1>8

(* What process_block_body does: it only reports, or it marks the block    *)
(* invalid for what the block is, or it stores the body over parents that  *)
(* have theirs.                                                            *)
ReportBody(h, r) ==
  bJob' = [bJob EXCEPT ![h] = [pc |-> "done", res |-> r]]
KeepBody(h) ==
  /\ \E r \in BodyStatuses \cup Errors :
       /\ ReportBody(h, r)
       /\ r \in BodyStatuses => HasBody(h)
       /\ r = "KnownInvalid" => statuses[h] = "Invalid"
  /\ UNCHANGED <<statuses, tips>>
RejectBody(h) ==
  /\ ReportBody(h, "RuleError")
  /\ statuses[h] = "HeaderOnly"
  /\ bJob[h].block # HeaderOnly => verdict[h] \in {"bodyIsolation", "bodyContext"}
  /\ statuses' = [statuses EXCEPT ![h] = "Invalid"]
  /\ tips' = tips
StoreBody(h) ==
  /\ ReportBody(h, "UTXOPendingVerification")
  /\ statuses[h] = "HeaderOnly"
  /\ ParentBodiesExist(h)
  /\ statuses' = [statuses EXCEPT ![h] = "UTXOPendingVerification"]
  /\ tips' = UpdateTips(tips, Parents[h], h)

(* process_block_body does one of these three things.                      *)
LEMMA BodyOutcomes ==
  ASSUME TypeInv, NEW h \in Hashes, ProcessBlockBody(h)
  PROVE  KeepBody(h) \/ RejectBody(h) \/ StoreBody(h)
<1> USE DEF ProcessBlockBody, ReportBody
<1>0. statuses[h] \in Statuses
  OBVIOUS
<1>1. CASE statuses[h] = "Invalid"
  BY <1>1 DEF KeepBody, Errors, HasBody, BodyStatuses
<1>2. CASE HasBody(h)
  <2>1. statuses[h] # "Invalid" /\ statuses[h] # "HeaderOnly"
    BY <1>2 DEF HasBody, BodyStatuses
  <2> QED BY <1>2, <2>1 DEF KeepBody, HasBody, BodyStatuses
<1>3. CASE statuses[h] = "HeaderOnly"
  <2> DEFINE r == ValidateBody(h, bJob[h].block)
  <2>1. ~HasBody(h) /\ statuses[h] # "Invalid"
    BY <1>3 DEF HasBody, BodyStatuses
  <2>2. /\ ReportBody(h, r)
        /\ statuses' = CASE r = "RuleError" -> [statuses EXCEPT ![h] = "Invalid"]
                         [] r \notin Errors -> [statuses EXCEPT ![h] = r]
                         [] OTHER -> statuses
        /\ tips' = IF r \notin Errors THEN UpdateTips(tips, Parents[h], h) ELSE tips
    BY <1>3, <2>1
  <2>3. \/ r = "RuleError" /\ (bJob[h].block # HeaderOnly => verdict[h] \in {"bodyIsolation", "bodyContext"})
        \/ r \in {"BadMerkleRoot", "MissingParents"}
        \/ r = "UTXOPendingVerification" /\ ParentBodiesExist(h)
    BY SMT DEF ValidateBody
  <2> HIDE DEF r
  <2>4. CASE r = "RuleError" /\ (bJob[h].block # HeaderOnly => verdict[h] \in {"bodyIsolation", "bodyContext"})
    BY <1>3, <2>2, <2>4 DEF RejectBody, Errors
  <2>5. CASE r \in {"BadMerkleRoot", "MissingParents"}
    BY <2>2, <2>5 DEF KeepBody, Errors, BodyStatuses
  <2>6. CASE r = "UTXOPendingVerification" /\ ParentBodiesExist(h)
    BY <1>3, <2>2, <2>6 DEF StoreBody, Errors
  <2> QED BY <2>3, <2>4, <2>5, <2>6
<1> QED BY <1>0, <1>1, <1>2, <1>3 DEF Statuses, HasBody

(* The steps that touch the tasks or the closures of the body stage.       *)
LEMMA BodySteps ==
  ASSUME [Next]_vars
  PROVE  \/ UNCHANGED <<bPending, bSpawned, bRunning, bJob>>
         \/ BodyWorkerRegister
         \/ \E h \in Hashes : BodyDefer(h) \/ BodyBegin(h) \/ ProcessBlockBody(h) \/ BodyEnd(h)
<1>1. UNCHANGED bodyVars => UNCHANGED <<bPending, bSpawned, bRunning, bJob>>
  BY DEF bodyVars
<1>2. CASE UNCHANGED vars
  BY <1>1, <1>2 DEF vars
<1>3. CASE \/ \E c \in Callers, h \in Hashes \ {Genesis}, b \in Contents : ValidateAndInsertBlock(c, h, b)
           \/ SignalExit \/ Terminated
  BY <1>1, <1>3 DEF ValidateAndInsertBlock, SignalExit, Terminated, vars
<1>4. CASE HeaderWorker
  BY <1>4 DEF HeaderWorker, HeaderWorkerRegister, HeaderWorkerExit, HeaderWorkerWait,
              HeaderWorkerForward, bodyVars
<1>5. CASE BodyWorker
  BY <1>5 DEF BodyWorker, BodyWorkerExit, BodyWorkerWait, BodyWorkerForward,
              B!ReceiveExit, B!WaitForIdle, B!ForwardExit
<1>6. CASE \E h \in Hashes : HeaderStep(h)
  BY <1>1, <1>6 DEF HeaderStep, HeaderDefer, HeaderBegin, ProcessHeader, CheckParentExists,
              CommitHeader, HeaderEnd, bodyVars
<1>7. CASE VirtualWorker
  BY <1>1, <1>7 DEF VirtualWorker, VirtualReceive, VirtualSelect, VirtualWalk,
              VirtualCommit, VirtualReply
<1> QED BY <1>2, <1>3, <1>4, <1>5, <1>6, <1>7 DEF Next, BodyStep

(* The locals of the body closures keep their shape.                       *)
LEMMA BodyJobStep ==
  ASSUME TypeInv, [Next]_vars
  PROVE  bJob' \in [Hashes -> BodyJobs \cup {None}]
<1>0. bJob \in [Hashes -> BodyJobs \cup {None}]
  BY DEF TypeInv, DataTypes, JobTypes
<1>1. ASSUME NEW h \in Hashes, NEW job \in BodyJobs \cup {None},
             bJob' = [bJob EXCEPT ![h] = job]
      PROVE  bJob' \in [Hashes -> BodyJobs \cup {None}]
  BY <1>0, <1>1
<1>2. ASSUME NEW h \in Hashes, BodyBegin(h) PROVE bJob' \in [Hashes -> BodyJobs \cup {None}]
  <2>1. bPending[h].block \in Contents
    BY <1>2 DEF BodyBegin, B!TryBegin, TypeInv, B!ManagerTypeOK, B!Task, B!Contents, Contents
  <2> QED BY <1>1, <1>2, <2>1 DEF BodyBegin, BodyJobs
<1>3. ASSUME NEW h \in Hashes, ProcessBlockBody(h)
      PROVE  bJob' \in [Hashes -> BodyJobs \cup {None}]
  <2>1. \E r \in Statuses \cup Errors : ReportBody(h, r)
    <3>1. {"RuleError", "UTXOPendingVerification"} \cup BodyStatuses \subseteq Statuses \cup Errors
      BY DEF Statuses, BodyStatuses, Errors
    <3> QED BY <1>3, <3>1, BodyOutcomes DEF KeepBody, RejectBody, StoreBody
  <2> QED BY <1>1, <2>1 DEF ReportBody, BodyJobs
<1>4. ASSUME NEW h \in Hashes, BodyEnd(h) PROVE bJob' \in [Hashes -> BodyJobs \cup {None}]
  BY <1>1, <1>4 DEF BodyEnd
<1>5. BodyWorkerRegister \/ (\E h \in Hashes : BodyDefer(h)) => UNCHANGED bJob
  BY DEF BodyWorkerRegister, BodyDefer
<1> QED BY <1>0, <1>2, <1>3, <1>4, <1>5, BodySteps

(* The steps that touch the stores.                                        *)
LEMMA StoreSteps ==
  ASSUME [Next]_vars
  PROVE  /\ UNCHANGED verdict
         /\ \/ UNCHANGED <<statuses, tips, vsp>>
            \/ VirtualCommit
            \/ \E h \in Hashes : CommitHeader(h) \/ ProcessBlockBody(h) \/ VirtualWalk(h)
<1>1. UNCHANGED callerVars \/ UNCHANGED <<sub, exitSent, verdict>> => UNCHANGED verdict
  BY DEF callerVars
<1>2. UNCHANGED stores /\ UNCHANGED virtualVars => UNCHANGED <<statuses, tips, vsp>>
  BY DEF stores, virtualVars
<1>3. CASE UNCHANGED vars
  BY <1>1, <1>2, <1>3 DEF vars
<1>4. CASE \/ \E c \in Callers, h \in Hashes \ {Genesis}, b \in Contents : ValidateAndInsertBlock(c, h, b)
           \/ SignalExit \/ Terminated
  BY <1>1, <1>2, <1>4 DEF ValidateAndInsertBlock, SignalExit, Terminated, vars
<1>5. CASE HeaderWorker \/ BodyWorker
  BY <1>1, <1>2, <1>5 DEF HeaderWorker, HeaderWorkerRegister, HeaderWorkerExit, HeaderWorkerWait,
              HeaderWorkerForward, BodyWorker, BodyWorkerRegister, BodyWorkerExit,
              BodyWorkerWait, BodyWorkerForward, stores, virtualVars
<1>6. CASE \E h \in Hashes : HeaderStep(h)
  BY <1>1, <1>2, <1>6 DEF HeaderStep, HeaderDefer, HeaderBegin, ProcessHeader, CheckParentExists,
              CommitHeader, HeaderEnd, virtualVars
<1>7. CASE \E h \in Hashes : BodyStep(h)
  BY <1>1, <1>2, <1>7 DEF BodyStep, BodyDefer, BodyBegin, ProcessBlockBody, BodyEnd, stores, virtualVars
<1>8. CASE VirtualWorker
  BY <1>1, <1>8 DEF VirtualWorker, VirtualReceive, VirtualSelect, VirtualWalk,
              VirtualCommit, VirtualReply, stores, callerVars
<1> QED BY <1>3, <1>4, <1>5, <1>6, <1>7, <1>8 DEF Next

(* The stores and the virtual processor's locals keep their shape.         *)
LEMMA StoreTypeStep ==
  ASSUME TypeInv, tips # {}, [Next]_vars
  PROVE  vWorker' \in VirtualStates /\ StoreTypes'
<1>0. vWorker \in VirtualStates /\ StoreTypes /\ virtualCh \in Seq(Messages)
  BY DEF TypeInv, DataTypes, ChannelTypes
<1>1. vWorker.pc = "walk" =>
        vWorker \in [pc : {"walk"}, tasks : Seq(Messages), new_selected : Hashes,
                     todo : SUBSET Hashes]
  BY <1>0 DEF VirtualStates
<1>2. vWorker.pc = "select" => vWorker.tasks \in Seq(Messages)
  BY <1>0 DEF VirtualStates
<1>3. ASSUME NEW h \in Hashes, CommitHeader(h) \/ ProcessBlockBody(h) PROVE StoreTypes'
  <2>1. CASE CommitHeader(h)
    BY <1>0, <2>1 DEF CommitHeader, StoreTypes, Statuses, virtualVars
  <2>2. CASE ProcessBlockBody(h)
    <3>1. statuses' \in [Hashes -> Statuses \cup {None}] /\ tips' \in SUBSET Hashes
      BY <1>0, <2>2, BodyOutcomes
      DEF KeepBody, RejectBody, StoreBody, StoreTypes, Statuses, BodyStatuses, UpdateTips
    <3> QED BY <1>0, <2>2, <3>1 DEF ProcessBlockBody, virtualVars, StoreTypes
  <2> QED BY <1>3, <2>1, <2>2
<1>4. ASSUME NEW h \in Hashes, VirtualWalk(h) PROVE vWorker' \in VirtualStates /\ StoreTypes'
  <2>1. vWorker' \in VirtualStates
    BY <1>1, <1>4 DEF VirtualWalk, VirtualStates
  <2> QED BY <1>0, <1>4, <2>1 DEF VirtualWalk, StoreTypes, Statuses, BodyStatuses
<1>5. CASE VirtualReceive
  BY <1>0, <1>5 DEF VirtualReceive, VirtualStates, StoreTypes, stores
<1>6. CASE VirtualSelect
  <2>1. FindSelectedParent(tips) \in Hashes
    BY <1>0, FoundInSet DEF StoreTypes
  <2>2. Chain[FindSelectedParent(tips)] \subseteq Hashes
    BY <2>1, ChainProperties
  <2> QED BY <1>0, <1>2, <1>6, <2>1, <2>2 DEF VirtualSelect, VirtualStates, StoreTypes, stores
<1>7. CASE VirtualCommit
  BY <1>0, <1>1, <1>7 DEF VirtualCommit, VirtualStates, StoreTypes, stores
<1>8. CASE VirtualReply
  BY <1>0, <1>8 DEF VirtualReply, VirtualStates, StoreTypes, stores
<1>9. UNCHANGED vWorker \/ VirtualWorker
  BY DEF Next, vars, virtualVars, ValidateAndInsertBlock, SignalExit, Terminated,
         HeaderWorker, HeaderWorkerRegister, HeaderWorkerExit, HeaderWorkerWait,
         HeaderWorkerForward, HeaderStep, HeaderDefer, HeaderBegin, ProcessHeader,
         CheckParentExists, CommitHeader, HeaderEnd, BodyWorker, BodyWorkerRegister,
         BodyWorkerExit, BodyWorkerWait, BodyWorkerForward, BodyStep, BodyDefer, BodyBegin,
         ProcessBlockBody, BodyEnd
<1>10. CASE UNCHANGED vWorker
  <2>1. CASE UNCHANGED <<statuses, tips, vsp>>
    BY <1>0, <1>10, <2>1 DEF StoreTypes
  <2>2. StoreTypes'
    BY <1>3, <1>4, <1>7, <2>1, StoreSteps
  <2> QED BY <1>0, <1>10, <2>2
<1> QED BY <1>4, <1>5, <1>6, <1>7, <1>8, <1>9, <1>10 DEF VirtualWorker

(* Every step keeps the types, those of the task managers aside.           *)
LEMMA DataStep == TypeInv /\ tips # {} /\ [Next]_vars => DataTypes'
BY ChannelStep, HeaderJobStep, BodyJobStep, StoreTypeStep DEF DataTypes, JobTypes
-----------------------------------------------------------------------------
(* A status is never withdrawn, a body never lost, and what was found out  *)
(* about the validity of a block stays.                                    *)
Kept ==
  \A k \in Hashes :
    /\ statuses[k] # None => statuses'[k] # None
    /\ HasBody(k) => HasBody(k)'
    /\ statuses[k] \in Decided \cup {"Invalid"} => statuses'[k] = statuses[k]

(* What commit_header does to the stores: at most it gives a block without *)
(* status its first one.                                                   *)
LEMMA HeaderCommitted ==
  ASSUME Inv, NEW h \in Hashes, CommitHeader(h)
  PROVE  /\ statuses[h] = None
         /\ \A k \in Hashes \ {h} : statuses'[k] = statuses[k]
         /\ statuses'[h] \in {None, "HeaderOnly", "Invalid"}
         /\ statuses'[h] = "Invalid" => verdict[h] = "postPow"
         /\ hJob'[h].pc = "done" /\ (hJob'[h].res \notin Errors => statuses'[h] # None)
         /\ \A k \in Hashes \ {h} : hJob'[k] = hJob[k]
         /\ UNCHANGED <<bodyVars, virtualVars, tips, verdict>>
<1>1. statuses[h] = None
  BY DEF Inv, HeaderInv, CommitHeader
<1>2. statuses \in [Hashes -> Statuses \cup {None}] /\ hJob \in [Hashes -> HeaderJobs \cup {None}]
  BY DEF Inv, TypeInv, DataTypes, StoreTypes, JobTypes
<1>3. None # "Invalid" /\ None # "HeaderOnly"
  BY NoneAssumption DEF Statuses
<1>4. /\ \A k \in Hashes \ {h} : statuses'[k] = statuses[k]
      /\ statuses'[h] \in {None, "HeaderOnly", "Invalid"}
      /\ statuses'[h] = "Invalid" => verdict[h] = "postPow"
  BY <1>1, <1>2, <1>3 DEF CommitHeader
<1>5. /\ hJob'[h].pc = "done" /\ (hJob'[h].res \notin Errors => statuses'[h] # None)
      /\ \A k \in Hashes \ {h} : hJob'[k] = hJob[k]
  BY SMT, <1>1, <1>2, <1>3 DEF CommitHeader, HeaderDone, Errors
<1>6. UNCHANGED <<bodyVars, virtualVars, tips, verdict>>
  BY DEF CommitHeader, callerVars
<1> QED BY <1>1, <1>4, <1>5, <1>6

(* What a round of the walk does: it decides its block, and agrees with    *)
(* what was decided before.                                                *)
LEMMA WalkDecides ==
  ASSUME Inv, NEW h \in Hashes, VirtualWalk(h)
  PROVE  /\ HasBody(h)
         /\ \A k \in Hashes \ {h} : statuses'[k] = statuses[k]
         /\ statuses'[h] \in Decided
         /\ statuses[h] \in Decided => statuses'[h] = statuses[h]
         /\ statuses'[h] = "UTXOValid" => h = Genesis \/ statuses[SelectedParent(h)] = "UTXOValid"
         /\ statuses'[h] = "DisqualifiedFromChain" =>
              verdict[h] = "utxo" \/ statuses[SelectedParent(h)] = "DisqualifiedFromChain"
<1>1. /\ vWorker.pc = "walk" /\ h \in vWorker.todo /\ SelectedParent(h) \notin vWorker.todo
      /\ vWorker.new_selected \in Hashes
  BY DEF Inv, TypeInv, DataTypes, VirtualStates, VirtualWalk
<1>2. /\ HasBody(vWorker.new_selected)
      /\ h \in Chain[vWorker.new_selected]
      /\ \A k \in Chain[vWorker.new_selected] \ vWorker.todo : statuses[k] \in Decided
  BY <1>1 DEF Inv, WalkInv
<1>3. HasBody(h)
  BY <1>1, <1>2, BodyChain DEF Inv
<1>4. h # Genesis => statuses[SelectedParent(h)] \in Decided
  BY <1>1, <1>2, ChainProperties
<1>5. statuses \in [Hashes -> Statuses \cup {None}] /\ statuses[Genesis] = "UTXOValid"
  BY DEF Inv, TypeInv, DataTypes, StoreTypes, StoreInv
<1>6. CASE statuses[h] = "UTXOValid"
  BY <1>3, <1>5, <1>6 DEF VirtualWalk, Decided, Inv, StoreInv, ChainInv
<1>7. CASE statuses[h] # "UTXOValid"
  <2>1. h # Genesis
    BY <1>5, <1>7
  <2>2. statuses' = [statuses EXCEPT ![h] =
          IF statuses[SelectedParent(h)] = "DisqualifiedFromChain" \/ verdict[h] = "utxo"
          THEN "DisqualifiedFromChain" ELSE "UTXOValid"]
    BY <1>7 DEF VirtualWalk
  <2>3. statuses[h] = "DisqualifiedFromChain" =>
          verdict[h] = "utxo" \/ statuses[SelectedParent(h)] = "DisqualifiedFromChain"
    BY <2>1 DEF Inv, StoreInv, ChainInv
  <2> QED BY <1>3, <1>4, <1>5, <1>7, <2>1, <2>2, <2>3 DEF Decided
<1> QED BY <1>6, <1>7

(* Every step keeps what is decided.                                       *)
LEMMA KeptStep ==
  ASSUME Inv, [Next]_vars
  PROVE  Kept
<1> USE DEF Kept, HasBody, BodyStatuses, Decided
<1>0. \A k \in Hashes : statuses[k] \in Statuses \cup {None}
  BY DEF Inv, TypeInv, DataTypes, StoreTypes
<1>1. None \notin Statuses
  BY NoneAssumption
<1>2. ASSUME NEW h \in Hashes, CommitHeader(h) PROVE Kept
  BY <1>1, <1>2, HeaderCommitted DEF Statuses
<1>3. ASSUME NEW h \in Hashes, ProcessBlockBody(h) PROVE Kept
  <2>1. KeepBody(h) \/ RejectBody(h) \/ StoreBody(h)
    BY <1>3, BodyOutcomes DEF Inv
  <2>2. statuses \in [Hashes -> Statuses \cup {None}]
    BY DEF Inv, TypeInv, DataTypes, StoreTypes
  <2> QED BY <1>1, <2>1, <2>2 DEF KeepBody, RejectBody, StoreBody, Statuses
<1>4. ASSUME NEW h \in Hashes, VirtualWalk(h) PROVE Kept
  BY SMT, <1>1, <1>4, WalkDecides DEF Statuses
<1>5. ASSUME UNCHANGED statuses PROVE Kept
  BY <1>5
<1>6. \/ UNCHANGED statuses
      \/ \E h \in Hashes : CommitHeader(h) \/ ProcessBlockBody(h) \/ VirtualWalk(h)
  BY DEF Next, vars, stores, ValidateAndInsertBlock, SignalExit, Terminated,
         HeaderWorker, HeaderWorkerRegister, HeaderWorkerExit, HeaderWorkerWait,
         HeaderWorkerForward, HeaderStep, HeaderDefer, HeaderBegin, ProcessHeader,
         CheckParentExists, HeaderEnd, BodyWorker, BodyWorkerRegister, BodyWorkerExit,
         BodyWorkerWait, BodyWorkerForward, BodyStep, BodyDefer, BodyBegin, BodyEnd,
         VirtualWorker, VirtualReceive, VirtualSelect, VirtualCommit, VirtualReply
<1> QED BY <1>2, <1>3, <1>4, <1>5, <1>6

(* HeaderInv: only the closure of a header writes its first status.        *)
LEMMA HeaderInvStep ==
  ASSUME Inv, [Next]_vars
  PROVE  HeaderInv'
<1>0. /\ hJob \in [Hashes -> HeaderJobs \cup {None}]
      /\ HeaderInv
  BY DEF Inv, TypeInv, DataTypes, JobTypes
<1>1. \A k \in Hashes : statuses[k] # None => statuses'[k] # None
  BY KeptStep DEF Kept
<1>2. ASSUME UNCHANGED hJob, \A k \in Hashes : statuses[k] = None => statuses'[k] = None
      PROVE  HeaderInv'
  BY <1>0, <1>1, <1>2 DEF HeaderInv
<1>3. ASSUME NEW h \in Hashes, UNCHANGED statuses,
             \A k \in Hashes \ {h} : hJob'[k] = hJob[k],
             \/ hJob'[h] = None
             \/ hJob'[h].pc = "status"
             \/ hJob'[h].pc = "parents" /\ statuses[h] = None
             \/ hJob'[h].pc = "done" /\ (hJob'[h].res \notin Errors => statuses[h] # None)
      PROVE  HeaderInv'
  BY SMT, <1>0, <1>3 DEF HeaderInv
<1>4. ASSUME NEW h \in Hashes, HeaderBegin(h) PROVE HeaderInv'
  BY <1>0, <1>3, <1>4 DEF HeaderBegin, stores
<1>5. ASSUME NEW h \in Hashes, ProcessHeader(h) PROVE HeaderInv'
  <2>1. \A k \in Hashes \ {h} : hJob'[k] = hJob[k]
    BY <1>0, <1>5 DEF ProcessHeader, HeaderDone
  <2>2. \/ hJob'[h].pc = "parents" /\ statuses[h] = None
        \/ hJob'[h].pc = "done" /\ (hJob'[h].res \notin Errors => statuses[h] # None)
    BY SMT, <1>0, <1>5 DEF ProcessHeader, HeaderDone, Errors
  <2> QED BY <1>3, <1>5, <2>1, <2>2 DEF ProcessHeader, stores
<1>6. ASSUME NEW h \in Hashes, NEW p \in Hashes, CheckParentExists(h, p) PROVE HeaderInv'
  <2>1. hJob[h].pc = "parents" /\ hJob[h] # None /\ hJob[h] \in HeaderJobs
    BY <1>0, <1>6 DEF CheckParentExists
  <2>2. \A k \in Hashes \ {h} : hJob'[k] = hJob[k]
    BY <1>0, <1>6 DEF CheckParentExists, HeaderDone
  <2>3. \/ hJob'[h].pc = "parents"
        \/ hJob'[h].pc = "done" /\ hJob'[h].res \in Errors
    BY SMT, <1>0, <1>6, <2>1 DEF CheckParentExists, HeaderDone, Errors, HeaderJobs
  <2>4. statuses[h] = None
    BY <1>0, <2>1 DEF HeaderInv
  <2> QED BY <1>3, <1>6, <2>2, <2>3, <2>4 DEF CheckParentExists, stores
<1>7. ASSUME NEW h \in Hashes, CommitHeader(h) PROVE HeaderInv'
  BY SMT, <1>0, <1>7, HeaderCommitted DEF HeaderInv
<1>8. ASSUME NEW h \in Hashes, HeaderEnd(h) PROVE HeaderInv'
  BY <1>0, <1>3, <1>8 DEF HeaderEnd, stores
<1>9. ASSUME NEW h \in Hashes, ProcessBlockBody(h) PROVE HeaderInv'
  <2>1. KeepBody(h) \/ RejectBody(h) \/ StoreBody(h)
    BY <1>9, BodyOutcomes DEF Inv
  <2>2. "HeaderOnly" # None /\ statuses \in [Hashes -> Statuses \cup {None}]
    BY NoneAssumption DEF Statuses, Inv, TypeInv, DataTypes, StoreTypes
  <2>3. \A k \in Hashes : statuses[k] = None => statuses'[k] = None
    BY <2>1, <2>2 DEF KeepBody, RejectBody, StoreBody
  <2> QED BY <1>2, <1>9, <2>3 DEF ProcessBlockBody, headerVars
<1>10. ASSUME NEW h \in Hashes, VirtualWalk(h) PROVE HeaderInv'
  <2>1. statuses[h] # None
    BY <1>10, WalkDecides, NoneAssumption DEF HasBody, BodyStatuses, Statuses
  <2> QED BY <1>2, <1>10, <2>1, WalkDecides DEF VirtualWalk, headerVars
<1>11. \/ UNCHANGED <<hJob, statuses>>
       \/ \E h \in Hashes : \/ HeaderBegin(h) \/ ProcessHeader(h) \/ CommitHeader(h) \/ HeaderEnd(h)
                            \/ ProcessBlockBody(h) \/ VirtualWalk(h)
                            \/ \E p \in Parents[h] : CheckParentExists(h, p)
  BY DEF Next, vars, headerVars, stores, ValidateAndInsertBlock, SignalExit, Terminated,
         HeaderWorker, HeaderWorkerRegister, HeaderWorkerExit, HeaderWorkerWait,
         HeaderWorkerForward, HeaderStep, HeaderDefer, BodyWorker, BodyWorkerRegister,
         BodyWorkerExit, BodyWorkerWait, BodyWorkerForward, BodyStep, BodyDefer, BodyBegin,
         BodyEnd, VirtualWorker, VirtualReceive, VirtualSelect, VirtualCommit, VirtualReply
<1> QED BY <1>2, <1>4, <1>5, <1>6, <1>7, <1>8, <1>9, <1>10, <1>11, ParentsAssumption

(* BodyQueueInv: what the header stage sends has a header and a body.      *)
LEMMA BodyQueueStep ==
  ASSUME Inv, [Next]_vars
  PROVE  BodyQueueInv'
<1>0. bodyCh \in Seq(Messages) /\ BodyQueueInv
  BY DEF Inv, TypeInv, DataTypes, ChannelTypes, BodyInv
<1>1. \A i \in DOMAIN bodyCh : bodyCh[i] \in Messages
  BY SMT, <1>0
<1>2. \A i \in DOMAIN bodyCh : IsProcess(bodyCh[i]) =>
        bodyCh[i].block # HeaderOnly /\ statuses'[bodyCh[i].hash] # None
  BY <1>0, <1>1, MessageTypes, KeptStep DEF BodyQueueInv, Kept
<1>3. ASSUME UNCHANGED bodyCh PROVE BodyQueueInv'
  BY <1>2, <1>3 DEF BodyQueueInv
<1>4. ASSUME bodyCh # <<>>, bodyCh' = Tail(bodyCh) PROVE BodyQueueInv'
  BY SMT, <1>0, <1>2, <1>4, ReceiveMessage DEF BodyQueueInv
<1>5. ASSUME NEW m \in Messages, bodyCh' = Append(bodyCh, m),
             IsProcess(m) => m.block # HeaderOnly /\ statuses'[m.hash] # None
      PROVE  BodyQueueInv'
  BY <1>0, <1>2, <1>5, SendMessage DEF BodyQueueInv
<1>6. CASE HeaderWorkerForward
  BY <1>5, <1>6, MessageTypes DEF HeaderWorkerForward
<1>7. ASSUME NEW h \in Hashes, HeaderEnd(h) PROVE BodyQueueInv'
  <2> DEFINE m == Process(h, hPending[h].block, hPending[h].result_transmitters)
  <2>1. /\ hPending[h] # None
        /\ \/ UNCHANGED bodyCh
           \/ /\ hJob[h].res \notin Errors /\ hPending[h].block # HeaderOnly
              /\ bodyCh' = Append(bodyCh, m)
    BY <1>7 DEF HeaderEnd, H!End
  <2>2. hPending[h].block \in Contents /\ hPending[h].result_transmitters \in SUBSET Callers
    BY <2>1 DEF Inv, TypeInv, H!ManagerTypeOK, H!Task, H!Contents, Contents
  <2>3. hJob[h].res \notin Errors => statuses[h] # None
    BY <1>7 DEF HeaderEnd, Inv, HeaderInv
  <2>4. m \in Messages /\ m.hash = h /\ m.block = hPending[h].block
    BY SMT, <2>2, MessageTypes
  <2> HIDE DEF m
  <2> QED BY <1>3, <1>5, <2>1, <2>3, <2>4, KeptStep DEF Kept
<1>8. CASE BodyWorkerRegister \/ BodyWorkerExit
  BY <1>4, <1>8 DEF BodyWorkerRegister, BodyWorkerExit
<1>9. \/ UNCHANGED bodyCh
      \/ HeaderWorkerForward \/ BodyWorkerRegister \/ BodyWorkerExit
      \/ \E h \in Hashes : HeaderEnd(h)
  BY DEF Next, vars, bodyVars, ValidateAndInsertBlock, SignalExit, Terminated,
         HeaderWorker, HeaderWorkerRegister, HeaderWorkerExit, HeaderWorkerWait,
         HeaderStep, HeaderDefer, HeaderBegin, ProcessHeader, CheckParentExists, CommitHeader,
         BodyWorker, BodyWorkerWait, BodyWorkerForward, BodyStep, BodyDefer, BodyBegin,
         ProcessBlockBody, BodyEnd, VirtualWorker, VirtualReceive, VirtualSelect, VirtualWalk,
         VirtualCommit, VirtualReply
<1> QED BY <1>3, <1>6, <1>7, <1>8, <1>9

(* A body that is stored becomes a tip and replaces its parents as tips.   *)
LEMMA StoredBody ==
  ASSUME Inv, NEW h \in Hashes, StoreBody(h)
  PROVE  /\ \A k \in Hashes : HasBody(k)' <=> HasBody(k) \/ k = h
         /\ BodyClosed' /\ TipsExact' /\ tips' # {}
<1>0. /\ statuses \in [Hashes -> Statuses \cup {None}] /\ statuses[Genesis] = "UTXOValid"
      /\ BodyClosed /\ TipsExact
  BY DEF Inv, TypeInv, DataTypes, StoreTypes, StoreInv
<1>1. /\ statuses[h] = "HeaderOnly" /\ statuses'[h] = "UTXOPendingVerification"
      /\ \A k \in Hashes \ {h} : statuses'[k] = statuses[k]
      /\ tips' = (tips \ Parents[h]) \cup {h}
  BY <1>0 DEF StoreBody, UpdateTips
<1>2. ~HasBody(h) /\ h # Genesis /\ HasBody(Genesis)
  BY <1>0, <1>1 DEF HasBody, BodyStatuses
<1>3. \A k \in Hashes : HasBody(k)' <=> HasBody(k) \/ k = h
  BY <1>1 DEF HasBody, BodyStatuses
<1>4. \A p \in Parents[h] : HasBody(p)
  BY <1>2 DEF StoreBody, ParentBodiesExist
<1>5. BodyClosed'
  BY <1>0, <1>3, <1>4, ParentsAssumption DEF BodyClosed
<1>6. \A k \in Hashes : HasBody(k) => h \notin Parents[k]
  BY <1>0, <1>2, ParentsAssumption DEF BodyClosed
<1>7. h \notin Parents[h]
  BY ParentsAssumption
<1>8. TipsExact'
  <2>1. tips = {k \in Hashes : HasBody(k) /\ \A j \in Hashes : HasBody(j) => k \notin Parents[j]}
    BY <1>0 DEF TipsExact
  <2>2. tips' = {k \in Hashes : /\ HasBody(k) \/ k = h
                                /\ \A j \in Hashes : HasBody(j) \/ j = h => k \notin Parents[j]}
    BY <1>1, <1>6, <1>7, <2>1
  <2> QED BY <1>3, <2>2 DEF TipsExact
<1> QED BY <1>1, <1>3, <1>5, <1>8

(* StoreInv: whatever the order of the commits, the stores stay consistent.*)
LEMMA StoreInvStep ==
  ASSUME Inv, [Next]_vars
  PROVE  StoreInv'
<1>0. StoreInv /\ TypeInv
  BY DEF Inv
<1>1. Kept /\ UNCHANGED verdict
  BY KeptStep, StoreSteps
<1>2. statuses'[Genesis] = "UTXOValid" /\ statuses'[vsp] = "UTXOValid"
  BY <1>0, <1>1, ParentsAssumption DEF StoreInv, TypeInv, DataTypes, StoreTypes, Kept, Decided
<1>3. \A k \in Hashes \ {Genesis} : SelectedParent(k) \in Hashes /\ SelectedParent(k) # k
  BY SelectedIsParent
<1>4. ASSUME UNCHANGED tips, \A k \in Hashes : HasBody(k)' <=> HasBody(k)
      PROVE  BodyClosed' /\ TipsExact' /\ tips' # {}
  BY <1>0, <1>4, ParentsAssumption DEF StoreInv, BodyClosed, TipsExact
<1>5. ASSUME NEW h \in Hashes, \A k \in Hashes \ {h} : statuses'[k] = statuses[k],
             statuses'[h] \notin Decided
      PROVE  ChainInv'
  BY <1>0, <1>1, <1>3, <1>5 DEF StoreInv, ChainInv, Kept, Decided
<1>6. CASE UNCHANGED <<statuses, tips, vsp>>
  BY <1>0, <1>1, <1>6 DEF StoreInv, BodyClosed, TipsExact, ChainInv, HasBody
<1>7. CASE VirtualCommit
  <2>1. UNCHANGED <<statuses, tips>>
    BY <1>7 DEF VirtualCommit, stores
  <2>2. statuses'[vsp'] = "UTXOValid"
    BY <1>0, <1>7, <2>1 DEF VirtualCommit, StoreInv
  <2> QED BY <1>0, <1>1, <2>1, <2>2 DEF StoreInv, BodyClosed, TipsExact, ChainInv, HasBody
<1>8. ASSUME NEW h \in Hashes, CommitHeader(h) PROVE StoreInv'
  <2>1. /\ \A k \in Hashes \ {h} : statuses'[k] = statuses[k]
        /\ statuses[h] = None /\ statuses'[h] \in {None, "HeaderOnly", "Invalid"}
        /\ UNCHANGED <<tips, vsp>>
    BY <1>8, HeaderCommitted DEF virtualVars
  <2>2. None \notin Statuses
    BY NoneAssumption
  <2>3. ~HasBody(h) /\ ~HasBody(h)' /\ statuses'[h] \notin Decided
    BY <2>1, <2>2 DEF HasBody, BodyStatuses, Statuses, Decided
  <2>4. \A k \in Hashes : HasBody(k)' <=> HasBody(k)
    BY <2>1, <2>3 DEF HasBody
  <2> QED BY <1>2, <1>4, <1>5, <2>1, <2>3, <2>4 DEF StoreInv
<1>9. ASSUME NEW h \in Hashes, ProcessBlockBody(h) PROVE StoreInv'
  <2>0. UNCHANGED vsp
    BY <1>9 DEF ProcessBlockBody, virtualVars
  <2>1. CASE KeepBody(h)
    BY <1>6, <2>0, <2>1 DEF KeepBody
  <2>2. CASE RejectBody(h)
    <3>1. /\ \A k \in Hashes \ {h} : statuses'[k] = statuses[k]
          /\ statuses[h] = "HeaderOnly" /\ statuses'[h] = "Invalid"
          /\ UNCHANGED tips
      BY <1>0, <2>2 DEF RejectBody, TypeInv, DataTypes, StoreTypes
    <3>2. \A k \in Hashes : HasBody(k)' <=> HasBody(k)
      BY <3>1 DEF HasBody, BodyStatuses
    <3>3. statuses'[h] \notin Decided
      BY <3>1 DEF Decided
    <3> QED BY <1>2, <1>4, <1>5, <2>0, <3>1, <3>2, <3>3 DEF StoreInv
  <2>3. CASE StoreBody(h)
    <3>1. /\ \A k \in Hashes \ {h} : statuses'[k] = statuses[k]
          /\ statuses'[h] = "UTXOPendingVerification"
      BY <1>0, <2>3 DEF StoreBody, TypeInv, DataTypes, StoreTypes
    <3>2. statuses'[h] \notin Decided
      BY <3>1 DEF Decided
    <3>3. BodyClosed' /\ TipsExact' /\ tips' # {}
      BY <2>3, StoredBody
    <3> QED BY <1>2, <1>5, <2>0, <3>1, <3>2, <3>3 DEF StoreInv
  <2> QED BY <1>0, <1>9, <2>1, <2>2, <2>3, BodyOutcomes
<1>10. ASSUME NEW h \in Hashes, VirtualWalk(h) PROVE StoreInv'
  <2>1. UNCHANGED <<tips, vsp>>
    BY <1>10 DEF VirtualWalk
  <2>2. /\ HasBody(h)
        /\ \A k \in Hashes \ {h} : statuses'[k] = statuses[k]
        /\ statuses'[h] \in Decided
        /\ statuses[h] \in Decided => statuses'[h] = statuses[h]
        /\ statuses'[h] = "UTXOValid" => h = Genesis \/ statuses[SelectedParent(h)] = "UTXOValid"
        /\ statuses'[h] = "DisqualifiedFromChain" =>
             verdict[h] = "utxo" \/ statuses[SelectedParent(h)] = "DisqualifiedFromChain"
    BY <1>10, WalkDecides
  <2>3. \A k \in Hashes : HasBody(k)' <=> HasBody(k)
    BY <2>2 DEF HasBody, BodyStatuses, Decided
  <2>4. ChainInv'
    BY <1>0, <1>1, <1>3, <2>2 DEF StoreInv, ChainInv, Kept, Decided
  <2> QED BY <1>2, <1>4, <2>1, <2>3, <2>4 DEF StoreInv
<1> QED BY <1>6, <1>7, <1>8, <1>9, <1>10, StoreSteps

(* InvalidJustified: a block is found invalid for its own content only.    *)
LEMMA JustifiedStep ==
  ASSUME Inv, [Next]_vars
  PROVE  InvalidJustified'
<1>0. InvalidJustified /\ UNCHANGED verdict
  BY StoreSteps DEF Inv
<1>1. CASE UNCHANGED statuses
  BY <1>0, <1>1 DEF InvalidJustified
<1>2. ASSUME NEW h \in Hashes, CommitHeader(h) PROVE InvalidJustified'
  BY <1>0, <1>2, HeaderCommitted DEF InvalidJustified
<1>3. ASSUME NEW h \in Hashes, ProcessBlockBody(h) PROVE InvalidJustified'
  <2>1. bJob[h].block # HeaderOnly
    BY <1>3 DEF ProcessBlockBody, Inv, BodyInv, BodyJobInv
  <2>2. statuses \in [Hashes -> Statuses \cup {None}]
    BY DEF Inv, TypeInv, DataTypes, StoreTypes
  <2>3. KeepBody(h) \/ RejectBody(h) \/ StoreBody(h)
    BY <1>3, BodyOutcomes DEF Inv
  <2> QED BY <1>0, <2>1, <2>2, <2>3 DEF KeepBody, RejectBody, StoreBody, InvalidJustified
<1>4. ASSUME NEW h \in Hashes, VirtualWalk(h) PROVE InvalidJustified'
  BY <1>0, <1>4, WalkDecides DEF InvalidJustified, Decided
<1>5. CASE VirtualCommit
  BY <1>1, <1>5 DEF VirtualCommit, stores
<1> QED BY <1>1, <1>2, <1>3, <1>4, <1>5, StoreSteps

(* The steps that touch what virtual works on, or what is on its way to it.*)
LEMMA VirtualSteps ==
  ASSUME [Next]_vars
  PROVE  \/ UNCHANGED <<bJob, virtualCh, tips, vsp, vWorker>>
         \/ BodyWorkerForward /\ UNCHANGED vWorker
         \/ \E h \in Hashes : /\ BodyBegin(h) \/ ProcessBlockBody(h) \/ BodyEnd(h)
                              /\ UNCHANGED vWorker
         \/ VirtualReceive \/ VirtualSelect \/ VirtualCommit \/ VirtualReply
         \/ \E h \in Hashes : VirtualWalk(h)
<1> DEFINE kept == UNCHANGED <<bJob, virtualCh, tips, vsp, vWorker>>
<1>1. \/ UNCHANGED vars \/ Terminated \/ SignalExit
      \/ \E c \in Callers, h \in Hashes \ {Genesis}, b \in Contents :
           ValidateAndInsertBlock(c, h, b)
      => kept
  BY DEF vars, bodyVars, virtualVars, stores, ValidateAndInsertBlock, SignalExit, Terminated
<1>2. HeaderWorker \/ (\E h \in Hashes : HeaderStep(h)) => kept
  BY DEF bodyVars, virtualVars, stores, HeaderWorker, HeaderWorkerRegister, HeaderWorkerExit,
         HeaderWorkerWait, HeaderWorkerForward, HeaderStep, HeaderDefer, HeaderBegin,
         ProcessHeader, CheckParentExists, CommitHeader, HeaderEnd
<1>3. BodyWorker => kept \/ (BodyWorkerForward /\ UNCHANGED vWorker)
  <2>1. BodyWorkerRegister \/ BodyWorkerExit \/ BodyWorkerWait => kept
    BY DEF virtualVars, stores, BodyWorkerRegister, BodyWorkerExit, BodyWorkerWait
  <2>2. BodyWorkerForward => UNCHANGED vWorker
    BY DEF BodyWorkerForward
  <2> QED BY <2>1, <2>2 DEF BodyWorker
<1>4. ASSUME NEW h \in Hashes, BodyStep(h)
      PROVE  \/ kept
             \/ /\ BodyBegin(h) \/ ProcessBlockBody(h) \/ BodyEnd(h)
                /\ UNCHANGED vWorker
  <2>1. BodyDefer(h) => kept
    BY DEF virtualVars, stores, BodyDefer
  <2>2. BodyBegin(h) \/ ProcessBlockBody(h) \/ BodyEnd(h) => UNCHANGED vWorker
    BY DEF virtualVars, BodyBegin, ProcessBlockBody, BodyEnd
  <2> QED BY <1>4, <2>1, <2>2 DEF BodyStep
<1> QED BY <1>1, <1>2, <1>3, <1>4 DEF Next, VirtualWorker

(* WalkInv: the walk leaves only decided blocks behind.                    *)
LEMMA WalkInvStep ==
  ASSUME Inv, [Next]_vars
  PROVE  WalkInv'
<1>0. WalkInv /\ StoreInv /\ vWorker \in VirtualStates
  BY DEF Inv, TypeInv, DataTypes
<1>1. Kept
  BY KeptStep
<1>2. vWorker.pc = "walk" => /\ vWorker.new_selected \in Hashes
                             /\ Chain[vWorker.new_selected] \subseteq Hashes
                             /\ vWorker.new_selected \in Chain[vWorker.new_selected]
  BY <1>0, ChainProperties DEF VirtualStates
<1>3. CASE UNCHANGED vWorker
  BY <1>0, <1>1, <1>2, <1>3 DEF WalkInv, Kept
<1>4. CASE VirtualReceive
  BY <1>4 DEF VirtualReceive, WalkInv
<1>5. CASE VirtualSelect
  <2>1. /\ tips \in SUBSET Hashes /\ tips # {} /\ TipsExact
        /\ vsp \in Hashes /\ statuses[vsp] = "UTXOValid"
    BY DEF Inv, TypeInv, DataTypes, StoreTypes, StoreInv
  <2>2. Best \in Hashes /\ HasBody(Best)
    BY <2>1, FoundInSet DEF Best, TipsExact
  <2>3. \A k \in Chain[vsp] : statuses[k] \in Decided
    BY <1>0, <2>1, ValidChain DEF Decided
  <2>4. /\ vWorker' = [pc |-> "walk", tasks |-> vWorker.tasks, new_selected |-> Best,
                       todo |-> Chain[Best] \ Chain[vsp]]
        /\ UNCHANGED statuses
    BY <1>5 DEF VirtualSelect, Best, stores
  <2> HIDE DEF Best
  <2> QED BY <2>2, <2>3, <2>4 DEF WalkInv, HasBody
<1>6. ASSUME NEW h \in Hashes, VirtualWalk(h) PROVE WalkInv'
  <2>1. vWorker.pc = "walk" /\ vWorker' = [vWorker EXCEPT !.todo = @ \ {h}]
    BY <1>6 DEF VirtualWalk
  <2>2. /\ vWorker'.pc = "walk" /\ vWorker'.todo = vWorker.todo \ {h}
        /\ vWorker'.new_selected = vWorker.new_selected
    BY <1>0, <2>1 DEF VirtualStates
  <2>3. statuses'[h] \in Decided
    BY <1>6, WalkDecides
  <2> QED BY <1>0, <1>1, <1>2, <2>1, <2>2, <2>3 DEF WalkInv, Kept
<1>7. CASE VirtualCommit
  <2>1. statuses[vWorker.new_selected] \in Decided
    BY <1>0, <1>2, <1>7 DEF VirtualCommit, WalkInv
  <2> QED BY <1>7, <2>1 DEF VirtualCommit, WalkInv, Decided
<1>8. CASE VirtualReply
  BY <1>8 DEF VirtualReply, WalkInv
<1> QED BY <1>3, <1>4, <1>5, <1>6, <1>7, <1>8, VirtualSteps

(* SettledInv: no commit of a body goes unnoticed by virtual.              *)
LEMMA SettledInvStep ==
  ASSUME Inv, [Next]_vars
  PROVE  SettledInv'
<1>0. /\ SettledInv /\ StoreInv /\ WalkInv /\ vWorker \in VirtualStates
      /\ bJob \in [Hashes -> BodyJobs \cup {None}]
      /\ virtualCh \in Seq(Messages)
  BY DEF Inv, TypeInv, DataTypes, JobTypes, ChannelTypes
<1>1. Kept
  BY KeptStep
<1>2. Best \in Hashes
  BY FoundInSet DEF Best, Inv, TypeInv, DataTypes, StoreTypes, StoreInv
<1>3. ASSUME UNCHANGED <<tips, vsp, vWorker>>, Settled PROVE Settled'
  <2>1. Best' = Best
    BY <1>3 DEF Best
  <2>2. OnBest => OnBest'
    BY <1>1, <1>2, <1>3, <2>1 DEF OnBest, Kept, Decided
  <2> QED BY <1>3, <2>1, <2>2 DEF Settled
<1>4. CASE UNCHANGED <<bJob, virtualCh, tips, vsp, vWorker>>
  BY <1>0, <1>3, <1>4 DEF SettledInv, Announced, Announcing
<1>5. CASE BodyWorkerForward
  BY <1>0, <1>5, MessageTypes, SendMessage DEF BodyWorkerForward, SettledInv, Announced
<1>6. ASSUME NEW h \in Hashes, BodyBegin(h), UNCHANGED vWorker PROVE SettledInv'
  <2>1. bSpawned[h] > 0 /\ bSpawned[h] \in Nat /\ bRunning[h] \in Nat
    BY <1>6 DEF BodyBegin, B!TryBegin, Inv, TypeInv, B!ManagerTypeOK
  <2>2. bRunning[h] = 0
    BY SMT, <2>1 DEF Inv, BodyInv, B!OneHome, B!Home
  <2>3. bJob[h] = None
    BY SMT, <2>2 DEF Inv, BodyInv, BodyJobInv
  <2>4. UNCHANGED <<virtualCh, tips, vsp>> /\ \A k \in Hashes \ {h} : bJob'[k] = bJob[k]
    BY <1>0, <1>6 DEF BodyBegin, virtualVars, stores
  <2> QED BY <1>0, <1>3, <1>6, <2>3, <2>4 DEF SettledInv, Announced, Announcing
<1>7. ASSUME NEW h \in Hashes, ProcessBlockBody(h), UNCHANGED vWorker PROVE SettledInv'
  <2>1. ~Announcing(h) /\ UNCHANGED <<virtualCh, vsp>>
    BY <1>7 DEF ProcessBlockBody, Announcing, virtualVars
  <2>2. ASSUME NEW r, ReportBody(h, r) PROVE \A k \in Hashes \ {h} : bJob'[k] = bJob[k]
    BY <1>0, <2>2 DEF ReportBody
  <2>3. CASE KeepBody(h) \/ RejectBody(h)
    <3>1. PICK r : ReportBody(h, r) /\ UNCHANGED tips
      BY <2>3 DEF KeepBody, RejectBody
    <3>2. \A k \in Hashes \ {h} : bJob'[k] = bJob[k]
      BY <2>2, <3>1
    <3> QED BY <1>0, <1>3, <1>7, <2>1, <3>1, <3>2 DEF SettledInv, Announced, Announcing
  <2>4. CASE StoreBody(h)
    <3>1. bJob'[h] = [pc |-> "done", res |-> "UTXOPendingVerification"]
      BY <1>0, <2>4 DEF StoreBody, ReportBody
    <3>2. [pc |-> "done", res |-> "UTXOPendingVerification"] \in BodyJobs
      BY DEF BodyJobs, Statuses, BodyStatuses
    <3>3. bJob'[h] # None
      BY <3>1, <3>2, NoneAssumption
    <3>4. Announcing(h)'
      BY SMT, <3>1, <3>3 DEF Announcing, Errors
    <3> QED BY <3>4 DEF SettledInv, Announced
  <2> QED BY <1>7, <2>3, <2>4, BodyOutcomes DEF Inv
<1>8. ASSUME NEW h \in Hashes, BodyEnd(h), UNCHANGED vWorker PROVE SettledInv'
  <2>1. UNCHANGED <<tips, vsp>> /\ \A k \in Hashes \ {h} : bJob'[k] = bJob[k]
    BY <1>0, <1>8 DEF BodyEnd, stores
  <2>2. CASE Announcing(h)
    <3> DEFINE m == Process(h, bPending[h].block, bPending[h].result_transmitters)
    <3>1. bPending[h] # None /\ virtualCh' = Append(virtualCh, m)
      BY <1>8, <2>2 DEF BodyEnd, B!End, Announcing
    <3>2. bPending[h].block \in Contents /\ bPending[h].result_transmitters \in SUBSET Callers
      BY <3>1 DEF Inv, TypeInv, B!ManagerTypeOK, B!Task, B!Contents, Contents
    <3>3. m \in Messages
      BY <3>2, MessageTypes
    <3> HIDE DEF m
    <3> QED BY <1>0, <3>1, <3>3, SendMessage DEF SettledInv, Announced
  <2>3. CASE ~Announcing(h)
    <3>1. UNCHANGED virtualCh
      BY <1>8, <2>3 DEF BodyEnd, Announcing
    <3> QED BY <1>0, <1>3, <1>8, <2>1, <2>3, <3>1 DEF SettledInv, Announced, Announcing
  <2> QED BY <2>2, <2>3
<1>9. CASE VirtualReceive
  BY <1>9 DEF VirtualReceive, SettledInv, Settled
<1>10. CASE VirtualSelect
  BY <1>10 DEF VirtualSelect, stores, SettledInv, Settled, Best
<1>11. ASSUME NEW h \in Hashes, VirtualWalk(h) PROVE SettledInv'
  <2>1. vWorker.pc = "walk" /\ vWorker' = [vWorker EXCEPT !.todo = @ \ {h}]
    BY <1>11 DEF VirtualWalk
  <2>2. vWorker'.pc = "walk" /\ vWorker'.new_selected = vWorker.new_selected
    BY <1>0, <2>1 DEF VirtualStates
  <2>3. UNCHANGED <<virtualCh, bJob, tips>>
    BY <1>11 DEF VirtualWalk, bodyVars
  <2> QED BY <1>0, <2>1, <2>2, <2>3 DEF SettledInv, Settled, Announced, Announcing, Best
<1>12. CASE VirtualCommit
  <2>1. vWorker.pc = "walk" /\ vWorker.todo = {} /\ UNCHANGED <<virtualCh, bJob, tips, statuses>>
    BY <1>12 DEF VirtualCommit, bodyVars, stores
  <2>2. statuses[vWorker.new_selected] \in Decided
    BY <1>0, <2>1, ChainProperties DEF WalkInv, VirtualStates
  <2>3. /\ vWorker'.pc = "reply"
        /\ vsp' = vWorker.new_selected \/ statuses[vWorker.new_selected] = "DisqualifiedFromChain"
    BY <1>12, <2>2 DEF VirtualCommit, Decided
  <2>4. Settled => OnBest'
    BY <2>1, <2>3 DEF Settled, OnBest, Best
  <2> QED BY <1>0, <2>1, <2>3, <2>4 DEF SettledInv, Settled, Announced, Announcing
<1>13. CASE VirtualReply
  <2>1. /\ vWorker.pc = "reply" /\ vWorker'.pc \in {"done", "receive"}
        /\ UNCHANGED <<virtualCh, bJob, tips, vsp, statuses>>
    BY <1>13 DEF VirtualReply, bodyVars, stores
  <2> QED BY <1>0, <2>1 DEF SettledInv, Settled, Announced, Announcing, OnBest, Best
<1> QED BY <1>4, <1>5, <1>6, <1>7, <1>8, <1>9, <1>10, <1>11, <1>12, <1>13, VirtualSteps
-----------------------------------------------------------------------------
(* The initial states satisfy the invariant: only genesis has a status.    *)
LEMMA InvInit == Init => Inv
<1> SUFFICES ASSUME Init PROVE Inv
  OBVIOUS
<1>1. None \notin Statuses
  BY NoneAssumption
<1>2. /\ statuses = [h \in Hashes |-> IF h = Genesis THEN "UTXOValid" ELSE None]
      /\ tips = {Genesis} /\ vsp = Genesis /\ vWorker = [pc |-> "receive"]
      /\ hJob = [h \in Hashes |-> None] /\ bJob = [h \in Hashes |-> None]
      /\ bodyCh = <<>>
  BY DEF Init
<1>3. HeaderInv
  BY <1>2 DEF HeaderInv
<1>4. BodyInv
  <2>1. B!OneHome
    BY DEF Init, B!ManagerInit, B!NoDependents, B!OneHome, B!Home, B!Deps
  <2>2. BodyTaskInv
    BY DEF Init, B!ManagerInit, BodyTaskInv
  <2>3. BodyQueueInv /\ BodyJobInv
    BY SMT, <1>2 DEF BodyQueueInv, BodyJobInv
  <2> QED BY <2>1, <2>2, <2>3 DEF BodyInv
<1>5. StoreInv
  <2>1. \A h \in Hashes : HasBody(h) <=> h = Genesis
    BY <1>1, <1>2 DEF HasBody, BodyStatuses, Statuses
  <2>2. Genesis \in Hashes /\ Parents[Genesis] = {}
    BY ParentsAssumption
  <2>3. BodyClosed /\ TipsExact
    BY <1>2, <2>1, <2>2 DEF BodyClosed, TipsExact
  <2>4. ChainInv
    BY <1>1, <1>2 DEF ChainInv, Statuses, BodyStatuses
  <2> QED BY <1>2, <2>2, <2>3, <2>4 DEF StoreInv
<1>6. WalkInv
  BY <1>2 DEF WalkInv
<1>7. SettledInv
  <2>1. Best = Genesis
    BY SMT, <1>2, FoundInSet, ParentsAssumption DEF Best
  <2> QED BY <1>2, <2>1 DEF SettledInv, Settled, OnBest
<1>8. InvalidJustified
  BY <1>1, <1>2 DEF InvalidJustified, Statuses
<1> QED BY <1>3, <1>4, <1>5, <1>6, <1>7, <1>8, TypeInit DEF Inv
-----------------------------------------------------------------------------
(* A message the worker of a stage receives names a hash, its content and  *)
(* its transmitters.                                                       *)
LEMMA Received ==
  ASSUME NEW q \in Seq(Messages), q # <<>>, Head(q).type = "Process"
  PROVE  /\ Head(q).hash \in Hashes /\ Head(q).block \in Contents
         /\ Head(q).txs \in SUBSET Callers
         /\ 1 \in DOMAIN q /\ Head(q) = q[1] /\ IsProcess(q[1])
<1>1. Head(q) \in Messages /\ 1 \in DOMAIN q /\ Head(q) = q[1]
  BY ReceiveMessage
<1> QED BY <1>1, MessageTypes DEF IsProcess

(* What registering and deferring do to the tasks of the header stage.     *)
LEMMA HeaderEffects ==
  ASSUME H!ManagerTypeOK
  PROVE  /\ \A h \in Hashes, b \in Contents, txs \in SUBSET Callers : H!Register(h, b, txs) =>
              /\ \A k \in Hashes \ {h} : hPending'[k] = hPending[k]
              /\ hPending'[h].block = IF hPending[h] = None \/ hPending[h].block = HeaderOnly
                                      THEN b ELSE hPending[h].block
         /\ \A h, p \in Hashes : H!TryBeginDeferred(h, p) =>
              /\ \A k \in Hashes \ {p} : hPending'[k] = hPending[k]
              /\ hPending[p] # None /\ hPending'[p].block = hPending[p].block
              /\ hPending'[p].result_transmitters = hPending[p].result_transmitters
<1>1. ASSUME NEW h \in Hashes, NEW b \in Contents, NEW txs \in SUBSET Callers,
             H!Register(h, b, txs)
      PROVE  /\ \A k \in Hashes \ {h} : hPending'[k] = hPending[k]
             /\ hPending'[h].block = IF hPending[h] = None \/ hPending[h].block = HeaderOnly
                                     THEN b ELSE hPending[h].block
  <2>1. CASE hPending[h] = None
    BY SMT, <1>1, <2>1 DEF H!Register, H!BlockTaskInternal, H!ManagerTypeOK
  <2>2. CASE hPending[h] # None
    BY <1>1, <2>2 DEF H!Register, H!ManagerTypeOK, H!Task
  <2> QED BY <2>1, <2>2
<1>2. ASSUME NEW h \in Hashes, NEW p \in Hashes, H!TryBeginDeferred(h, p)
      PROVE  /\ \A k \in Hashes \ {p} : hPending'[k] = hPending[k]
             /\ hPending[p] # None /\ hPending'[p].block = hPending[p].block
             /\ hPending'[p].result_transmitters = hPending[p].result_transmitters
  <2>1. hPending[p] \in H!Task
    BY <1>2 DEF H!TryBeginDeferred, H!Pending, H!ManagerTypeOK
  <2> DEFINE deps == [hPending[p].dependent_tasks EXCEPT ![h] = @ + 1]
  <2>2. /\ hPending' = [hPending EXCEPT ![p] = [hPending[p] EXCEPT !.dependent_tasks = deps]]
        /\ hPending[p] # None
    BY <1>2 DEF H!TryBeginDeferred, H!Pending, H!ManagerTypeOK
  <2> HIDE DEF deps
  <2> QED BY <2>1, <2>2 DEF H!Task, H!ManagerTypeOK
<1> QED BY <1>1, <1>2

(* What registering and deferring do to the tasks of the body stage.       *)
LEMMA BodyEffects ==
  ASSUME B!ManagerTypeOK
  PROVE  /\ \A h \in Hashes, b \in Contents, txs \in SUBSET Callers : B!Register(h, b, txs) =>
              /\ \A k \in Hashes \ {h} : bPending'[k] = bPending[k]
              /\ bPending'[h].block = IF bPending[h] = None \/ bPending[h].block = HeaderOnly
                                      THEN b ELSE bPending[h].block
         /\ \A h, p \in Hashes : B!TryBeginDeferred(h, p) =>
              /\ \A k \in Hashes \ {p} : bPending'[k] = bPending[k]
              /\ bPending[p] # None /\ bPending'[p].block = bPending[p].block
              /\ bPending'[p].result_transmitters = bPending[p].result_transmitters
<1>1. ASSUME NEW h \in Hashes, NEW b \in Contents, NEW txs \in SUBSET Callers,
             B!Register(h, b, txs)
      PROVE  /\ \A k \in Hashes \ {h} : bPending'[k] = bPending[k]
             /\ bPending'[h].block = IF bPending[h] = None \/ bPending[h].block = HeaderOnly
                                     THEN b ELSE bPending[h].block
  <2>1. CASE bPending[h] = None
    BY SMT, <1>1, <2>1 DEF B!Register, B!BlockTaskInternal, B!ManagerTypeOK
  <2>2. CASE bPending[h] # None
    BY <1>1, <2>2 DEF B!Register, B!ManagerTypeOK, B!Task
  <2> QED BY <2>1, <2>2
<1>2. ASSUME NEW h \in Hashes, NEW p \in Hashes, B!TryBeginDeferred(h, p)
      PROVE  /\ \A k \in Hashes \ {p} : bPending'[k] = bPending[k]
             /\ bPending[p] # None /\ bPending'[p].block = bPending[p].block
             /\ bPending'[p].result_transmitters = bPending[p].result_transmitters
  <2>1. bPending[p] \in B!Task
    BY <1>2 DEF B!TryBeginDeferred, B!Pending, B!ManagerTypeOK
  <2> DEFINE deps == [bPending[p].dependent_tasks EXCEPT ![h] = @ + 1]
  <2>2. /\ bPending' = [bPending EXCEPT ![p] = [bPending[p] EXCEPT !.dependent_tasks = deps]]
        /\ bPending[p] # None
    BY <1>2 DEF B!TryBeginDeferred, B!Pending, B!ManagerTypeOK
  <2> HIDE DEF deps
  <2> QED BY <2>1, <2>2 DEF B!Task, B!ManagerTypeOK
<1> QED BY <1>1, <1>2
-----------------------------------------------------------------------------
(***************************************************************************)
(* Where the transmitter of each call is: in one message of a channel, in  *)
(* one task or in the batch of the virtual processor, or used.  With what  *)
(* the callers asked and what the closures found out this is ServiceInv,   *)
(* which the refinement of BlockService needs beyond the invariant of the  *)
(* pipeline; this part is about the transmitters.                          *)
(***************************************************************************)

Range(q) == {q[i] : i \in DOMAIN q}
Holds(m, c) == IsProcess(m) /\ c \in m.txs
InChannel(q, c) == \E m \in Range(q) : Holds(m, c)
InTasks(pending, c) == \E h \in Hashes : pending[h] # None /\ c \in pending[h].result_transmitters

\* The tasks the virtual processor took from its channel and did not answer.
Batch == IF vWorker.pc \in {"select", "walk", "reply"} THEN vWorker.tasks ELSE <<>>

Places == {"headerCh", "header", "bodyCh", "body", "virtualCh", "batch", "answered"}
At(n, c) ==
  \/ n = "headerCh" /\ InChannel(headerCh, c)
  \/ n = "header" /\ InTasks(hPending, c)
  \/ n = "bodyCh" /\ InChannel(bodyCh, c)
  \/ n = "body" /\ InTasks(bPending, c)
  \/ n = "virtualCh" /\ InChannel(virtualCh, c)
  \/ n = "batch" /\ InChannel(Batch, c)
  \/ n = "answered" /\ reply[c] # None

OnePlace == \A c \in Callers : \A m, n \in Places : At(m, c) /\ At(n, c) => m = n

\* No transmitter is in two messages of a channel.
Separate(q) ==
  \A i, j \in DOMAIN q : \A c \in Callers : Holds(q[i], c) /\ Holds(q[j], c) => i = j

\* The submission s is for h, and without transactions if b has none.
AsCalled(s, h, b) ==
  s # None /\ s.hash = h /\ (b = HeaderOnly => s.block = HeaderOnly)
ChannelAsCalled(q) ==
  \A m \in Range(q) : IsProcess(m) => \A c \in m.txs : AsCalled(sub[c], m.hash, m.block)
TasksAsCalled(pending) ==
  \A h \in Hashes : pending[h] # None =>
    \A c \in pending[h].result_transmitters : AsCalled(sub[c], h, pending[h].block)
ChannelStored(q) == \A m \in Range(q) : IsProcess(m) => HasBody(m.hash)

TransmitterInv ==
  /\ OnePlace
  /\ Separate(headerCh) /\ Separate(bodyCh)
CallInv ==
  /\ sub \in [Callers -> Submissions \cup {None}]
  /\ \A c \in Callers : reply[c] # None => sub[c] # None
  /\ ChannelAsCalled(headerCh) /\ ChannelAsCalled(bodyCh)
  /\ ChannelAsCalled(virtualCh) /\ ChannelAsCalled(Batch)
  /\ TasksAsCalled(hPending) /\ TasksAsCalled(bPending)
StoredInv == ChannelStored(virtualCh) /\ ChannelStored(Batch)

(* What the closures found out still holds when they report it.            *)
FindingsInv ==
  /\ \A h \in Hashes : hJob[h] # None =>
       /\ hJob[h].pc = "parents" /\ ~hJob[h].missing =>
            \A p \in Parents[h] \ hJob[h].todo : statuses[p] # None
       /\ hJob[h].pc = "done" =>
            /\ hJob[h].res # "Invalid"
            /\ hJob[h].res = "KnownInvalid" => statuses[h] = "Invalid"
            /\ hJob[h].res \in BodyStatuses => HasBody(h)
  /\ \A h \in Hashes : bJob[h] # None /\ bJob[h].pc = "done" =>
       /\ bJob[h].res \in BodyStatuses \cup Errors
       /\ bJob[h].res = "KnownInvalid" => statuses[h] = "Invalid"
       /\ bJob[h].res \in BodyStatuses => HasBody(h)

ServiceInv == TransmitterInv /\ CallInv /\ StoredInv /\ FindingsInv
-----------------------------------------------------------------------------
(* What sending and receiving do to the messages of a channel.             *)
LEMMA RangeFacts ==
  /\ Range(<<>>) = {}
  /\ \A q \in Seq(Messages) : Range(q) \subseteq Messages
  /\ \A q \in Seq(Messages), m \in Messages : Range(Append(q, m)) = Range(q) \cup {m}
  /\ \A q \in Seq(Messages) : q # <<>> => Head(q) \in Range(q) /\ Range(Tail(q)) \subseteq Range(q)
<1>1. Range(<<>>) = {}
  BY SMT DEF Range
<1>2. ASSUME NEW q \in Seq(Messages) PROVE Range(q) \subseteq Messages
  BY SMT DEF Range
<1>3. ASSUME NEW q \in Seq(Messages), NEW m \in Messages
      PROVE  Range(Append(q, m)) = Range(q) \cup {m}
  <2>1. \A i \in DOMAIN Append(q, m) :
          Append(q, m)[i] = m \/ (i \in DOMAIN q /\ Append(q, m)[i] = q[i])
    BY SendMessage
  <2>2. /\ Len(q) + 1 \in DOMAIN Append(q, m) /\ Append(q, m)[Len(q) + 1] = m
        /\ \A i \in DOMAIN q : i \in DOMAIN Append(q, m) /\ Append(q, m)[i] = q[i]
    BY SMT
  <2> QED BY <2>1, <2>2 DEF Range
<1>4. ASSUME NEW q \in Seq(Messages), q # <<>>
      PROVE  Head(q) \in Range(q) /\ Range(Tail(q)) \subseteq Range(q)
  BY SMT, <1>4, ReceiveMessage DEF Range
<1> QED BY <1>1, <1>2, <1>3, <1>4

(* The transmitters of different messages stay apart.                      *)
LEMMA SeparateFacts ==
  ASSUME NEW q \in Seq(Messages), Separate(q)
  PROVE  /\ q # <<>> => /\ Separate(Tail(q))
                        /\ \A c \in Callers : Holds(Head(q), c) => ~InChannel(Tail(q), c)
         /\ \A m \in Messages : (\A c \in Callers : Holds(m, c) => ~InChannel(q, c))
              => Separate(Append(q, m))
<1>1. ASSUME q # <<>> PROVE Separate(Tail(q))
  <2>1. \A i \in DOMAIN Tail(q) : i \in Nat /\ i + 1 \in DOMAIN q /\ Tail(q)[i] = q[i + 1]
    BY SMT, <1>1, ReceiveMessage
  <2> QED BY SMT, <2>1 DEF Separate
<1>2. ASSUME q # <<>>, NEW c \in Callers, Holds(Head(q), c), InChannel(Tail(q), c) PROVE FALSE
  <2>1. PICK i \in DOMAIN Tail(q) : Holds(Tail(q)[i], c)
    BY <1>2 DEF InChannel, Range
  <2>2. /\ i \in Nat \ {0} /\ i + 1 \in DOMAIN q /\ Tail(q)[i] = q[i + 1]
        /\ 1 \in DOMAIN q /\ Head(q) = q[1]
    BY SMT, <1>2, ReceiveMessage
  <2>3. i + 1 = 1
    BY <1>2, <2>1, <2>2 DEF Separate
  <2> QED BY SMT, <2>2, <2>3
<1>3. ASSUME NEW m \in Messages, \A c \in Callers : Holds(m, c) => ~InChannel(q, c)
      PROVE  Separate(Append(q, m))
  <2>1. /\ \A i \in DOMAIN q : Append(q, m)[i] = q[i]
        /\ Append(q, m)[Len(q) + 1] = m
        /\ DOMAIN Append(q, m) = DOMAIN q \cup {Len(q) + 1}
    BY SMT
  <2>2. \A i \in DOMAIN q : \A c \in Callers : Holds(m, c) => ~Holds(q[i], c)
    BY <1>3 DEF InChannel, Range
  <2> QED BY <2>1, <2>2 DEF Separate
<1> QED BY <1>1, <1>2, <1>3

(* What the invariant says of the places a transmitter can be in.          *)
LEMMA PlaceTypes ==
  ASSUME TypeInv
  PROVE  /\ headerCh \in Seq(Messages) /\ bodyCh \in Seq(Messages) /\ virtualCh \in Seq(Messages)
         /\ Batch \in Seq(Messages)
         /\ \A h \in Hashes : hPending[h] # None =>
              /\ hPending[h].block \in Contents /\ hPending[h].result_transmitters \in SUBSET Callers
         /\ \A h \in Hashes : bPending[h] # None =>
              /\ bPending[h].block \in Contents /\ bPending[h].result_transmitters \in SUBSET Callers
<1>1. headerCh \in Seq(Messages) /\ bodyCh \in Seq(Messages) /\ virtualCh \in Seq(Messages)
  BY DEF TypeInv, DataTypes, ChannelTypes
<1>2. Batch \in Seq(Messages)
  BY SMT DEF TypeInv, DataTypes, VirtualStates, Batch
<1>3. \A h \in Hashes : hPending[h] # None =>
        hPending[h].block \in Contents /\ hPending[h].result_transmitters \in SUBSET Callers
  BY DEF TypeInv, H!ManagerTypeOK, H!Task, H!Contents, Contents
<1>4. \A h \in Hashes : bPending[h] # None =>
        bPending[h].block \in Contents /\ bPending[h].result_transmitters \in SUBSET Callers
  BY DEF TypeInv, B!ManagerTypeOK, B!Task, B!Contents, Contents
<1> QED BY <1>1, <1>2, <1>3, <1>4

(* The virtual processor keeps its batch until it has answered it.         *)
LEMMA BatchKept ==
  ASSUME Inv, Next, VirtualSelect \/ VirtualCommit \/ \E h \in Hashes : VirtualWalk(h)
  PROVE  Batch' = Batch
<1>0. vWorker \in VirtualStates /\ WalkInv
  BY DEF Inv, TypeInv, DataTypes
<1>1. CASE VirtualSelect
  BY <1>1 DEF VirtualSelect, Batch
<1>2. CASE VirtualCommit
  <2>1. vWorker'.pc # "panic"
    BY WalkInvStep DEF WalkInv
  <2>2. vWorker' = [pc |-> "reply", tasks |-> vWorker.tasks] /\ vWorker.pc = "walk"
    BY <1>2, <2>1 DEF VirtualCommit
  <2> QED BY <2>2 DEF Batch
<1>3. ASSUME NEW h \in Hashes, VirtualWalk(h) PROVE Batch' = Batch
  BY <1>0, <1>3 DEF VirtualWalk, Batch, VirtualStates
<1> QED BY <1>1, <1>2, <1>3

(* The steps that touch a place of a transmitter.                          *)
LEMMA PlaceSteps ==
  ASSUME Inv, [Next]_vars
  PROVE  \/ UNCHANGED <<headerCh, hPending, bodyCh, bPending, virtualCh, Batch, reply>>
         \/ \E c \in Callers, h \in Hashes, b \in Contents : ValidateAndInsertBlock(c, h, b)
         \/ SignalExit \/ HeaderWorkerRegister \/ HeaderWorkerExit \/ HeaderWorkerForward
         \/ BodyWorkerRegister \/ BodyWorkerExit \/ BodyWorkerForward
         \/ \E h \in Hashes : HeaderDefer(h) \/ HeaderEnd(h) \/ BodyDefer(h) \/ BodyEnd(h)
         \/ VirtualReceive \/ VirtualReply
<1> DEFINE kept == UNCHANGED <<headerCh, hPending, bodyCh, bPending, virtualCh, Batch, reply>>
<1>1. UNCHANGED vars \/ Terminated => kept
  BY DEF vars, Terminated, headerVars, bodyVars, virtualVars, callerVars, Batch
<1>2. HeaderWorkerWait \/ BodyWorkerWait => kept
  BY DEF HeaderWorkerWait, BodyWorkerWait, H!WaitForIdle, B!WaitForIdle, headerVars, bodyVars,
         virtualVars, callerVars, Batch
<1>3. \A h \in Hashes : HeaderBegin(h) \/ BodyBegin(h) => kept
  BY DEF HeaderBegin, BodyBegin, H!TryBegin, B!TryBegin, headerVars, bodyVars,
         virtualVars, callerVars, Batch
<1>4. \A h \in Hashes : ProcessHeader(h) \/ CommitHeader(h) \/ ProcessBlockBody(h) => kept
  BY DEF ProcessHeader, CommitHeader, ProcessBlockBody, headerVars, bodyVars,
         virtualVars, callerVars, Batch
<1>5. \A h, p \in Hashes : CheckParentExists(h, p) => kept
  BY DEF CheckParentExists, bodyVars, virtualVars, callerVars, Batch
<1>6. ASSUME VirtualSelect \/ VirtualCommit \/ \E h \in Hashes : VirtualWalk(h)
      PROVE  kept
  <2>1. Next
    BY <1>6 DEF Next, VirtualWorker
  <2>2. Batch' = Batch
    BY <1>6, <2>1, BatchKept
  <2>3. UNCHANGED <<headerCh, hPending, bodyCh, bPending, virtualCh, reply>>
    BY <1>6 DEF VirtualSelect, VirtualCommit, VirtualWalk, headerVars, bodyVars, callerVars
  <2> QED BY <2>2, <2>3
<1> QED BY <1>1, <1>2, <1>3, <1>4, <1>5, <1>6, ParentsAssumption
    DEF Next, HeaderWorker, HeaderStep, BodyWorker, BodyStep, VirtualWorker
-----------------------------------------------------------------------------
(* The transmitters in T go from place m to place n, the others stay.      *)
Moved(T, m, n) ==
  /\ \A c \in T : At(m, c)
  /\ \A c \in Callers, k \in Places :
       At(k, c)' => (At(k, c) /\ (c \in T => k # m)) \/ (c \in T /\ k = n)

(* Such a move leaves every transmitter in one place.                      *)
LEMMA MoveOnce ==
  ASSUME OnePlace, NEW T \in SUBSET Callers, NEW m \in Places, NEW n \in Places, Moved(T, m, n)
  PROVE  OnePlace'
<1> SUFFICES ASSUME NEW c \in Callers, NEW k \in Places, NEW l \in Places, At(k, c)', At(l, c)'
             PROVE  k = l
  BY DEF OnePlace
<1>1. CASE c \in T
  <2>1. \A j \in Places : At(j, c) => j = m
    BY <1>1 DEF OnePlace, Moved
  <2> QED BY <1>1, <2>1 DEF Moved
<1>2. CASE c \notin T
  BY <1>2 DEF OnePlace, Moved
<1> QED BY <1>1, <1>2

(* A call's own transmitter is nowhere before the call.                    *)
LEMMA NowhereBefore ==
  ASSUME ServiceInv, TypeInv, NEW c \in Callers, sub[c] = None
  PROVE  \A k \in Places : ~At(k, c)
<1>1. CallInv
  BY DEF ServiceInv
<1>2. ASSUME NEW q, ChannelAsCalled(q) PROVE ~InChannel(q, c)
  BY <1>2 DEF ChannelAsCalled, AsCalled, InChannel, Holds
<1>3. ~InTasks(hPending, c) /\ ~InTasks(bPending, c)
  BY <1>1 DEF CallInv, TasksAsCalled, AsCalled, InTasks
<1> QED BY <1>1, <1>2, <1>3 DEF CallInv, At

(* What a channel holds after a message was sent.                          *)
LEMMA SentTransmitters ==
  ASSUME NEW q \in Seq(Messages)
  PROVE  /\ \A c : ~InChannel(<<>>, c)
         /\ \A c : ~InChannel(Append(q, Exit), c) \/ InChannel(q, c)
         /\ \A h \in Hashes, b \in Contents, txs \in SUBSET Callers, c \in Callers :
              InChannel(Append(q, Process(h, b, txs)), c) => InChannel(q, c) \/ c \in txs
<1>1. \A c : ~InChannel(<<>>, c)
  BY RangeFacts DEF InChannel
<1>2. \A c : ~InChannel(Append(q, Exit), c) \/ InChannel(q, c)
  BY SMT, RangeFacts, MessageTypes DEF InChannel, Holds
<1>3. ASSUME NEW h \in Hashes, NEW b \in Contents, NEW txs \in SUBSET Callers, NEW c \in Callers,
             InChannel(Append(q, Process(h, b, txs)), c)
      PROVE  InChannel(q, c) \/ c \in txs
  <2>1. Process(h, b, txs) \in Messages /\ Process(h, b, txs).txs = txs
    BY MessageTypes DEF Process
  <2> QED BY SMT, <1>3, <2>1, RangeFacts DEF InChannel, Holds
<1> QED BY <1>1, <1>2, <1>3

(* Registering adds the transmitters of the message to those of the task.  *)
LEMMA HeaderTaskGrows ==
  ASSUME H!ManagerTypeOK, NEW h \in Hashes, NEW b \in Contents, NEW txs \in SUBSET Callers,
         H!Register(h, b, txs)
  PROVE  /\ \A k \in Hashes \ {h} : hPending'[k] = hPending[k]
         /\ \A c \in hPending'[h].result_transmitters :
              c \in txs \/ (hPending[h] # None /\ c \in hPending[h].result_transmitters)
         /\ hPending'[h].block = HeaderOnly =>
              b = HeaderOnly /\ (hPending[h] # None => hPending[h].block = HeaderOnly)
<1>1. \A k \in Hashes \ {h} : hPending'[k] = hPending[k]
  BY HeaderEffects
<1>2. hPending'[h].block = IF hPending[h] = None \/ hPending[h].block = HeaderOnly
                           THEN b ELSE hPending[h].block
  BY HeaderEffects
<1>3. CASE hPending[h] = None
  <2>1. hPending'[h].result_transmitters = txs
    BY SMT, <1>3 DEF H!Register, H!BlockTaskInternal, H!ManagerTypeOK
  <2> QED BY <1>1, <1>3, <1>2, <2>1
<1>4. CASE hPending[h] # None
  <2>1. hPending'[h].result_transmitters = hPending[h].result_transmitters \cup txs
    BY <1>4 DEF H!Register, H!ManagerTypeOK, H!Task
  <2> QED BY <1>1, <1>4, <1>2, <2>1
<1> QED BY <1>3, <1>4

(* The same in the body stage.                                             *)
LEMMA BodyTaskGrows ==
  ASSUME B!ManagerTypeOK, NEW h \in Hashes, NEW b \in Contents, NEW txs \in SUBSET Callers,
         B!Register(h, b, txs)
  PROVE  /\ \A k \in Hashes \ {h} : bPending'[k] = bPending[k]
         /\ \A c \in bPending'[h].result_transmitters :
              c \in txs \/ (bPending[h] # None /\ c \in bPending[h].result_transmitters)
         /\ bPending'[h].block = HeaderOnly =>
              b = HeaderOnly /\ (bPending[h] # None => bPending[h].block = HeaderOnly)
<1>1. \A k \in Hashes \ {h} : bPending'[k] = bPending[k]
  BY BodyEffects
<1>2. bPending'[h].block = IF bPending[h] = None \/ bPending[h].block = HeaderOnly
                           THEN b ELSE bPending[h].block
  BY BodyEffects
<1>3. CASE bPending[h] = None
  <2>1. bPending'[h].result_transmitters = txs
    BY SMT, <1>3 DEF B!Register, B!BlockTaskInternal, B!ManagerTypeOK
  <2> QED BY <1>1, <1>3, <1>2, <2>1
<1>4. CASE bPending[h] # None
  <2>1. bPending'[h].result_transmitters = bPending[h].result_transmitters \cup txs
    BY <1>4 DEF B!Register, B!ManagerTypeOK, B!Task
  <2> QED BY <1>1, <1>4, <1>2, <2>1
<1> QED BY <1>3, <1>4

(* A registered message's transmitters go from the channel to its task.    *)
LEMMA RegisteredTransmitters ==
  ASSUME NEW q \in Seq(Messages), q # <<>>, Head(q).type = "Process", Separate(q),
         NEW old, NEW new, \A k \in Hashes \ {Head(q).hash} : new[k] = old[k],
         \A c \in new[Head(q).hash].result_transmitters :
           \/ c \in Head(q).txs
           \/ old[Head(q).hash] # None /\ c \in old[Head(q).hash].result_transmitters
  PROVE  \A c \in Callers :
           /\ InChannel(Tail(q), c) => InChannel(q, c) /\ c \notin Head(q).txs
           /\ InTasks(new, c) => InTasks(old, c) \/ c \in Head(q).txs
           /\ c \in Head(q).txs => InChannel(q, c)
<1> SUFFICES ASSUME NEW c \in Callers
             PROVE  /\ InChannel(Tail(q), c) => InChannel(q, c) /\ c \notin Head(q).txs
                    /\ InTasks(new, c) => InTasks(old, c) \/ c \in Head(q).txs
                    /\ c \in Head(q).txs => InChannel(q, c)
  OBVIOUS
<1>1. Head(q).hash \in Hashes /\ (c \in Head(q).txs <=> Holds(Head(q), c))
  BY Received DEF Holds, IsProcess
<1>2. InChannel(Tail(q), c) => InChannel(q, c) /\ c \notin Head(q).txs
  BY <1>1, RangeFacts, SeparateFacts DEF InChannel
<1>3. c \in Head(q).txs => InChannel(q, c)
  BY <1>1, RangeFacts DEF InChannel
<1>4. InTasks(new, c) => InTasks(old, c) \/ c \in Head(q).txs
  BY <1>1 DEF InTasks
<1> QED BY <1>2, <1>3, <1>4

(* An ended task's transmitters leave the stage: no other task has them.   *)
LEMMA EndedTransmitters ==
  ASSUME NEW old, NEW new, TasksAsCalled(old), NEW h \in Hashes, old[h] # None,
         new = [old EXCEPT ![h] = None], DOMAIN old = Hashes
  PROVE  \A c \in Callers :
           /\ InTasks(new, c) => InTasks(old, c) /\ c \notin old[h].result_transmitters
           /\ c \in old[h].result_transmitters => InTasks(old, c)
<1>1. \A k \in Hashes : new[k] # None => k # h /\ new[k] = old[k]
  OBVIOUS
<1>2. \A k \in Hashes, c \in Callers :
        /\ k # h /\ old[k] # None /\ c \in old[k].result_transmitters
        => c \notin old[h].result_transmitters
  BY SMT DEF TasksAsCalled, AsCalled
<1> QED BY <1>1, <1>2 DEF InTasks

(* A message taken from the head of a channel that is not Process.         *)
LEMMA ExitTransmitters ==
  ASSUME NEW q \in Seq(Messages), q # <<>>
  PROVE  \A c : InChannel(Tail(q), c) => InChannel(q, c)
BY RangeFacts DEF InChannel
-----------------------------------------------------------------------------
(* OnePlace: every step moves the transmitters of one message or task.     *)
LEMMA CallerMove ==
  ASSUME Inv, ServiceInv, SignalExit \/ \E c \in Callers, h \in Hashes, b \in Contents :
                                          ValidateAndInsertBlock(c, h, b)
  PROVE  OnePlace'
<1>0. headerCh \in Seq(Messages) /\ OnePlace
  BY PlaceTypes DEF Inv, ServiceInv, TransmitterInv
<1>1. CASE SignalExit
  <2>1. /\ headerCh' = Append(headerCh, Exit)
        /\ UNCHANGED <<hPending, bodyCh, bPending, virtualCh, Batch, reply>>
    BY <1>1 DEF SignalExit, bodyVars, virtualVars, Batch
  <2>2. \A c \in Callers : InChannel(headerCh', c) => InChannel(headerCh, c)
    BY <1>0, <2>1, SentTransmitters
  <2>3. \A c \in Callers, k \in Places : At(k, c)' => At(k, c)
    BY <2>1, <2>2 DEF At
  <2> QED BY <1>0, <2>3 DEF OnePlace
<1>2. ASSUME NEW c \in Callers, NEW h \in Hashes, NEW b \in Contents,
             ValidateAndInsertBlock(c, h, b)
      PROVE  OnePlace'
  <2>1. /\ headerCh' = Append(headerCh, Process(h, b, {c})) /\ sub[c] = None
        /\ UNCHANGED <<hPending, bodyCh, bPending, virtualCh, Batch, reply>>
    BY <1>2 DEF ValidateAndInsertBlock, bodyVars, virtualVars, Batch
  <2>2. \A d \in Callers : InChannel(headerCh', d) => InChannel(headerCh, d) \/ d = c
    BY SMT, <1>0, <2>1, SentTransmitters
  <2>3. \A k \in Places : ~At(k, c)
    BY <2>1, NowhereBefore DEF Inv
  <2>4. \A d \in Callers, k \in Places : At(k, d)' => At(k, d) \/ (d = c /\ k = "headerCh")
    BY <2>1, <2>2 DEF At
  <2> QED BY <1>0, <2>3, <2>4 DEF OnePlace
<1> QED BY <1>1, <1>2

(* The same for the header stage.                                          *)
LEMMA HeaderMove ==
  ASSUME Inv, ServiceInv,
         \/ HeaderWorkerRegister \/ HeaderWorkerExit \/ HeaderWorkerForward
         \/ \E h \in Hashes : HeaderDefer(h) \/ HeaderEnd(h)
  PROVE  OnePlace'
<1>0. /\ headerCh \in Seq(Messages) /\ bodyCh \in Seq(Messages) /\ OnePlace
      /\ H!ManagerTypeOK /\ DOMAIN hPending = Hashes
      /\ Separate(headerCh) /\ TasksAsCalled(hPending)
  BY PlaceTypes DEF Inv, TypeInv, ServiceInv, TransmitterInv, CallInv, H!ManagerTypeOK
<1>1. CASE HeaderWorkerRegister
  <2> DEFINE T == Head(headerCh).txs
  <2>1. /\ headerCh # <<>> /\ Head(headerCh).type = "Process" /\ headerCh' = Tail(headerCh)
        /\ H!Register(Head(headerCh).hash, Head(headerCh).block, Head(headerCh).txs)
        /\ UNCHANGED <<bodyCh, bPending, virtualCh, Batch, reply>>
    BY <1>1 DEF HeaderWorkerRegister, bodyVars, virtualVars, callerVars, Batch
  <2>2. /\ Head(headerCh).hash \in Hashes /\ Head(headerCh).block \in Contents
        /\ T \in SUBSET Callers
    BY <1>0, <2>1, Received
  <2>3. /\ \A k \in Hashes \ {Head(headerCh).hash} : hPending'[k] = hPending[k]
        /\ \A c \in hPending'[Head(headerCh).hash].result_transmitters :
             \/ c \in T
             \/ hPending[Head(headerCh).hash] # None
                /\ c \in hPending[Head(headerCh).hash].result_transmitters
    BY <1>0, <2>1, <2>2, HeaderTaskGrows
  <2>4. \A c \in Callers :
           /\ InChannel(headerCh', c) => InChannel(headerCh, c) /\ c \notin T
           /\ InTasks(hPending', c) => InTasks(hPending, c) \/ c \in T
           /\ c \in T => InChannel(headerCh, c)
    BY <1>0, <2>1, <2>3, RegisteredTransmitters
  <2> HIDE DEF T
  <2>5. Moved(T, "headerCh", "header")
    BY <2>1, <2>2, <2>4 DEF Moved, At
  <2> QED BY <1>0, <2>2, <2>5, MoveOnce DEF Places
<1>2. CASE HeaderWorkerExit
  <2>1. /\ headerCh # <<>> /\ headerCh' = Tail(headerCh)
        /\ UNCHANGED <<hPending, bodyCh, bPending, virtualCh, Batch, reply>>
    BY <1>2 DEF HeaderWorkerExit, H!ReceiveExit, bodyVars, virtualVars, callerVars, Batch
  <2>2. \A c \in Callers : InChannel(headerCh', c) => InChannel(headerCh, c)
    BY <1>0, <2>1, ExitTransmitters
  <2>3. \A c \in Callers, k \in Places : At(k, c)' => At(k, c)
    BY <2>1, <2>2 DEF At
  <2> QED BY <1>0, <2>3 DEF OnePlace
<1>3. CASE HeaderWorkerForward
  <2>1. /\ bodyCh' = Append(bodyCh, Exit)
        /\ UNCHANGED <<headerCh, hPending, bPending, virtualCh, Batch, reply>>
    BY <1>3 DEF HeaderWorkerForward, H!ForwardExit, virtualVars, callerVars, Batch
  <2>2. \A c \in Callers : InChannel(bodyCh', c) => InChannel(bodyCh, c)
    BY <1>0, <2>1, SentTransmitters
  <2>3. \A c \in Callers, k \in Places : At(k, c)' => At(k, c)
    BY <2>1, <2>2 DEF At
  <2> QED BY <1>0, <2>3 DEF OnePlace
<1>4. ASSUME NEW h \in Hashes, HeaderDefer(h) PROVE OnePlace'
  <2>1. PICK p \in Hashes : H!TryBeginDeferred(h, p)
    BY <1>4 DEF HeaderDefer
  <2>2. UNCHANGED <<headerCh, bodyCh, bPending, virtualCh, Batch, reply>>
    BY <1>4 DEF HeaderDefer, bodyVars, virtualVars, callerVars, Batch
  <2>3. /\ \A k \in Hashes \ {p} : hPending'[k] = hPending[k]
        /\ hPending[p] # None
        /\ hPending'[p].result_transmitters = hPending[p].result_transmitters
    BY SMT, <1>0, <2>1, HeaderEffects
  <2>4. \A c \in Callers : InTasks(hPending', c) => InTasks(hPending, c)
    BY <2>3 DEF InTasks
  <2>5. \A c \in Callers, k \in Places : At(k, c)' => At(k, c)
    BY <2>2, <2>4 DEF At
  <2> QED BY <1>0, <2>5 DEF OnePlace
<1>5. ASSUME NEW h \in Hashes, HeaderEnd(h) PROVE OnePlace'
  <2> DEFINE T == hPending[h].result_transmitters
  <2>1. /\ hPending[h] # None /\ hPending' = [hPending EXCEPT ![h] = None]
        /\ UNCHANGED <<headerCh, bPending, virtualCh, Batch>>
        /\ \/ Transmit(T, hJob[h].res) /\ UNCHANGED bodyCh
           \/ bodyCh' = Append(bodyCh, Process(h, hPending[h].block, T)) /\ UNCHANGED reply
    BY <1>5 DEF HeaderEnd, H!End, virtualVars, Batch
  <2>2. hPending[h].block \in Contents /\ T \in SUBSET Callers
    BY <2>1, PlaceTypes DEF Inv
  <2>3. \A c \in Callers :
          /\ InTasks(hPending', c) => InTasks(hPending, c) /\ c \notin T
          /\ c \in T => InTasks(hPending, c)
    BY <1>0, <2>1, EndedTransmitters
  <2> HIDE DEF T
  <2>4. CASE Transmit(T, hJob[h].res) /\ UNCHANGED bodyCh
    <3>1. Moved(T, "header", "answered")
      BY <2>1, <2>2, <2>3, <2>4 DEF Moved, At, Transmit
    <3> QED BY <1>0, <2>2, <3>1, MoveOnce DEF Places
  <2>5. CASE bodyCh' = Append(bodyCh, Process(h, hPending[h].block, T)) /\ UNCHANGED reply
    <3>1. \A c \in Callers : InChannel(bodyCh', c) => InChannel(bodyCh, c) \/ c \in T
      BY <1>0, <2>2, <2>5, SentTransmitters
    <3>2. Moved(T, "header", "bodyCh")
      BY <2>1, <2>2, <2>3, <2>5, <3>1 DEF Moved, At
    <3> QED BY <1>0, <2>2, <3>2, MoveOnce DEF Places
  <2> QED BY <2>1, <2>4, <2>5
<1> QED BY <1>1, <1>2, <1>3, <1>4, <1>5

(* The same for the body stage.                                            *)
LEMMA BodyMove ==
  ASSUME Inv, ServiceInv,
         \/ BodyWorkerRegister \/ BodyWorkerExit \/ BodyWorkerForward
         \/ \E h \in Hashes : BodyDefer(h) \/ BodyEnd(h)
  PROVE  OnePlace'
<1>0. /\ bodyCh \in Seq(Messages) /\ virtualCh \in Seq(Messages) /\ OnePlace
      /\ B!ManagerTypeOK /\ DOMAIN bPending = Hashes
      /\ Separate(bodyCh) /\ TasksAsCalled(bPending)
  BY PlaceTypes DEF Inv, TypeInv, ServiceInv, TransmitterInv, CallInv, B!ManagerTypeOK
<1>1. CASE BodyWorkerRegister
  <2> DEFINE T == Head(bodyCh).txs
  <2>1. /\ bodyCh # <<>> /\ Head(bodyCh).type = "Process" /\ bodyCh' = Tail(bodyCh)
        /\ B!Register(Head(bodyCh).hash, Head(bodyCh).block, Head(bodyCh).txs)
        /\ UNCHANGED <<headerCh, hPending, virtualCh, Batch, reply>>
    BY <1>1 DEF BodyWorkerRegister, headerVars, virtualVars, callerVars, Batch
  <2>2. /\ Head(bodyCh).hash \in Hashes /\ Head(bodyCh).block \in Contents
        /\ T \in SUBSET Callers
    BY <1>0, <2>1, Received
  <2>3. /\ \A k \in Hashes \ {Head(bodyCh).hash} : bPending'[k] = bPending[k]
        /\ \A c \in bPending'[Head(bodyCh).hash].result_transmitters :
             \/ c \in T
             \/ bPending[Head(bodyCh).hash] # None
                /\ c \in bPending[Head(bodyCh).hash].result_transmitters
    BY <1>0, <2>1, <2>2, BodyTaskGrows
  <2>4. \A c \in Callers :
           /\ InChannel(bodyCh', c) => InChannel(bodyCh, c) /\ c \notin T
           /\ InTasks(bPending', c) => InTasks(bPending, c) \/ c \in T
           /\ c \in T => InChannel(bodyCh, c)
    BY <1>0, <2>1, <2>3, RegisteredTransmitters
  <2> HIDE DEF T
  <2>5. Moved(T, "bodyCh", "body")
    BY <2>1, <2>2, <2>4 DEF Moved, At
  <2> QED BY <1>0, <2>2, <2>5, MoveOnce DEF Places
<1>2. CASE BodyWorkerExit
  <2>1. /\ bodyCh # <<>> /\ bodyCh' = Tail(bodyCh)
        /\ UNCHANGED <<headerCh, hPending, bPending, virtualCh, Batch, reply>>
    BY <1>2 DEF BodyWorkerExit, B!ReceiveExit, headerVars, virtualVars, callerVars, Batch
  <2>2. \A c \in Callers : InChannel(bodyCh', c) => InChannel(bodyCh, c)
    BY <1>0, <2>1, ExitTransmitters
  <2>3. \A c \in Callers, k \in Places : At(k, c)' => At(k, c)
    BY <2>1, <2>2 DEF At
  <2> QED BY <1>0, <2>3 DEF OnePlace
<1>3. CASE BodyWorkerForward
  <2>1. /\ virtualCh' = Append(virtualCh, Exit)
        /\ UNCHANGED <<headerCh, hPending, bodyCh, bPending, Batch, reply>>
    BY <1>3 DEF BodyWorkerForward, B!ForwardExit, headerVars, callerVars, Batch
  <2>2. \A c \in Callers : InChannel(virtualCh', c) => InChannel(virtualCh, c)
    BY <1>0, <2>1, SentTransmitters
  <2>3. \A c \in Callers, k \in Places : At(k, c)' => At(k, c)
    BY <2>1, <2>2 DEF At
  <2> QED BY <1>0, <2>3 DEF OnePlace
<1>4. ASSUME NEW h \in Hashes, BodyDefer(h) PROVE OnePlace'
  <2>1. PICK p \in Hashes : B!TryBeginDeferred(h, p)
    BY <1>4 DEF BodyDefer
  <2>2. UNCHANGED <<headerCh, hPending, bodyCh, virtualCh, Batch, reply>>
    BY <1>4 DEF BodyDefer, headerVars, virtualVars, callerVars, Batch
  <2>3. /\ \A k \in Hashes \ {p} : bPending'[k] = bPending[k]
        /\ bPending[p] # None
        /\ bPending'[p].result_transmitters = bPending[p].result_transmitters
    BY SMT, <1>0, <2>1, BodyEffects
  <2>4. \A c \in Callers : InTasks(bPending', c) => InTasks(bPending, c)
    BY <2>3 DEF InTasks
  <2>5. \A c \in Callers, k \in Places : At(k, c)' => At(k, c)
    BY <2>2, <2>4 DEF At
  <2> QED BY <1>0, <2>5 DEF OnePlace
<1>5. ASSUME NEW h \in Hashes, BodyEnd(h) PROVE OnePlace'
  <2> DEFINE T == bPending[h].result_transmitters
  <2>1. /\ bPending[h] # None /\ bPending' = [bPending EXCEPT ![h] = None]
        /\ UNCHANGED <<headerCh, hPending, bodyCh, Batch>>
        /\ \/ Transmit(T, bJob[h].res) /\ UNCHANGED virtualCh
           \/ virtualCh' = Append(virtualCh, Process(h, bPending[h].block, T)) /\ UNCHANGED reply
    BY <1>5 DEF BodyEnd, B!End, headerVars, Batch
  <2>2. bPending[h].block \in Contents /\ T \in SUBSET Callers
    BY <2>1, PlaceTypes DEF Inv
  <2>3. \A c \in Callers :
          /\ InTasks(bPending', c) => InTasks(bPending, c) /\ c \notin T
          /\ c \in T => InTasks(bPending, c)
    BY <1>0, <2>1, EndedTransmitters
  <2> HIDE DEF T
  <2>4. CASE Transmit(T, bJob[h].res) /\ UNCHANGED virtualCh
    <3>1. Moved(T, "body", "answered")
      BY <2>1, <2>2, <2>3, <2>4 DEF Moved, At, Transmit
    <3> QED BY <1>0, <2>2, <3>1, MoveOnce DEF Places
  <2>5. CASE virtualCh' = Append(virtualCh, Process(h, bPending[h].block, T)) /\ UNCHANGED reply
    <3>1. \A c \in Callers : InChannel(virtualCh', c) => InChannel(virtualCh, c) \/ c \in T
      BY <1>0, <2>2, <2>5, SentTransmitters
    <3>2. Moved(T, "body", "virtualCh")
      BY <2>1, <2>2, <2>3, <2>5, <3>1 DEF Moved, At
    <3> QED BY <1>0, <2>2, <3>2, MoveOnce DEF Places
  <2> QED BY <2>1, <2>4, <2>5
<1> QED BY <1>1, <1>2, <1>3, <1>4, <1>5

(* What answering a batch does: the callers of its tasks get the status of *)
(* their block, the others nothing.                                        *)
LEMMA BatchAnswered ==
  ASSUME Inv, ServiceInv, VirtualReply
  PROVE  /\ Batch' = <<>>
         /\ UNCHANGED <<headerCh, hPending, bodyCh, bPending, virtualCh, statuses, sub>>
         /\ reply' = [c \in Callers |-> IF InChannel(Batch, c) THEN statuses[sub[c].hash] ELSE reply[c]]
<1> DEFINE tasks == {vWorker.tasks[i] : i \in DOMAIN vWorker.tasks}
           answered == {t \in tasks : t.type = "Process"}
<1>1. vWorker.pc = "reply" /\ Batch = vWorker.tasks /\ tasks = Range(Batch)
  BY DEF VirtualReply, Batch, Range
<1>2. /\ UNCHANGED <<headerCh, hPending, bodyCh, bPending, virtualCh, statuses, sub>>
      /\ vWorker'.pc \in {"done", "receive"}
      /\ reply' = [c \in Callers |-> IF \E t \in answered : c \in t.txs
                   THEN statuses[(CHOOSE t \in answered : c \in t.txs).hash] ELSE reply[c]]
  BY DEF VirtualReply, headerVars, bodyVars, stores
<1>3. Batch' = <<>>
  BY <1>2 DEF Batch
<1>4. \A c \in Callers : InChannel(Batch, c) <=> \E t \in answered : c \in t.txs
  BY <1>1 DEF InChannel, Holds, IsProcess
<1>5. ASSUME NEW c \in Callers, \E t \in answered : c \in t.txs
      PROVE  (CHOOSE t \in answered : c \in t.txs).hash = sub[c].hash
  <2>1. PICK u \in answered : u = (CHOOSE t \in answered : c \in t.txs) /\ c \in u.txs
    BY <1>5
  <2>2. u.hash = sub[c].hash
    BY <1>1, <2>1 DEF ServiceInv, CallInv, ChannelAsCalled, AsCalled, IsProcess
  <2> QED BY <2>1, <2>2
<1> HIDE DEF answered, tasks
<1>6. \A c \in Callers :
        (IF \E t \in answered : c \in t.txs
         THEN statuses[(CHOOSE t \in answered : c \in t.txs).hash] ELSE reply[c])
        = (IF InChannel(Batch, c) THEN statuses[sub[c].hash] ELSE reply[c])
  BY <1>4, <1>5
<1> QED BY <1>2, <1>3, <1>6

(* OnePlace for the virtual processor.                                     *)
LEMMA VirtualMove ==
  ASSUME Inv, ServiceInv, VirtualReceive \/ VirtualReply
  PROVE  OnePlace'
<1>0. OnePlace
  BY DEF ServiceInv, TransmitterInv
<1>1. CASE VirtualReceive
  <2> DEFINE T == {c \in Callers : InChannel(virtualCh, c)}
  <2>1. /\ Batch' = virtualCh /\ virtualCh' = <<>>
        /\ UNCHANGED <<headerCh, hPending, bodyCh, bPending, reply>>
    BY <1>1 DEF VirtualReceive, Batch, headerVars, bodyVars, callerVars
  <2>2. \A c \in Callers : ~InChannel(virtualCh', c)
    BY <2>1, RangeFacts DEF InChannel
  <2>3. Moved(T, "virtualCh", "batch")
    BY <2>1, <2>2 DEF Moved, At
  <2> QED BY <1>0, <2>3, MoveOnce DEF Places
<1>2. CASE VirtualReply
  <2> DEFINE T == {c \in Callers : InChannel(Batch, c)}
  <2>1. /\ Batch' = <<>>
        /\ UNCHANGED <<headerCh, hPending, bodyCh, bPending, virtualCh>>
        /\ \A c \in Callers \ T : reply'[c] = reply[c]
    BY <1>2, BatchAnswered
  <2>2. \A c \in Callers : ~InChannel(Batch', c)
    BY <2>1, RangeFacts DEF InChannel
  <2>3. Moved(T, "batch", "answered")
    BY <2>1, <2>2 DEF Moved, At
  <2> QED BY <1>0, <2>3, MoveOnce DEF Places
<1> QED BY <1>1, <1>2

(* Every step leaves each transmitter in one place.                        *)
LEMMA OnePlaceStep ==
  ASSUME Inv, ServiceInv, [Next]_vars
  PROVE  OnePlace'
<1>1. ASSUME UNCHANGED <<headerCh, hPending, bodyCh, bPending, virtualCh, Batch, reply>>
      PROVE  OnePlace'
  <2>1. \A c \in Callers, k \in Places : At(k, c)' => At(k, c)
    BY <1>1 DEF At
  <2> QED BY <2>1 DEF ServiceInv, TransmitterInv, OnePlace
<1> QED BY <1>1, PlaceSteps, CallerMove, HeaderMove, BodyMove, VirtualMove
-----------------------------------------------------------------------------
(* What a step does to a channel: nothing, or it receives or sends one     *)
(* message, or takes all of them.                                          *)
LEMMA ChannelMoves ==
  ASSUME Inv, [Next]_vars
  PROVE  /\ \/ UNCHANGED headerCh
            \/ /\ headerCh # <<>> /\ headerCh' = Tail(headerCh)
               /\ HeaderWorkerRegister \/ ~IsProcess(Head(headerCh))
            \/ headerCh' = Append(headerCh, Exit)
            \/ \E c \in Callers, h \in Hashes, b \in Contents :
                 /\ ValidateAndInsertBlock(c, h, b)
                 /\ headerCh' = Append(headerCh, Process(h, b, {c}))
         /\ \/ UNCHANGED bodyCh
            \/ /\ bodyCh # <<>> /\ bodyCh' = Tail(bodyCh)
               /\ BodyWorkerRegister \/ ~IsProcess(Head(bodyCh))
            \/ bodyCh' = Append(bodyCh, Exit)
            \/ \E h \in Hashes :
                 /\ HeaderEnd(h) /\ hPending[h] # None
                 /\ bodyCh' = Append(bodyCh, Process(h, hPending[h].block,
                                                     hPending[h].result_transmitters))
         /\ \/ UNCHANGED virtualCh
            \/ virtualCh' = <<>>
            \/ virtualCh' = Append(virtualCh, Exit)
            \/ \E h \in Hashes :
                 /\ bPending[h] # None /\ bJob[h] # None
                 /\ bJob[h].pc = "done" /\ bJob[h].res \notin Errors
                 /\ virtualCh' = Append(virtualCh, Process(h, bPending[h].block,
                                                           bPending[h].result_transmitters))
         /\ Batch' = Batch \/ Batch' = <<>> \/ Batch' = virtualCh
<1>1. CASE UNCHANGED <<headerCh, hPending, bodyCh, bPending, virtualCh, Batch, reply>>
  BY <1>1
<1>2. ASSUME NEW c \in Callers, NEW h \in Hashes, NEW b \in Contents,
             ValidateAndInsertBlock(c, h, b)
      PROVE  /\ headerCh' = Append(headerCh, Process(h, b, {c}))
             /\ UNCHANGED <<bodyCh, virtualCh, Batch>>
  BY <1>2 DEF ValidateAndInsertBlock, bodyVars, virtualVars, Batch
<1>3. SignalExit => headerCh' = Append(headerCh, Exit) /\ UNCHANGED <<bodyCh, virtualCh, Batch>>
  BY DEF SignalExit, bodyVars, virtualVars, Batch
<1>4. HeaderWorkerRegister \/ HeaderWorkerExit =>
        /\ headerCh # <<>> /\ headerCh' = Tail(headerCh) /\ UNCHANGED <<bodyCh, virtualCh, Batch>>
        /\ HeaderWorkerRegister \/ ~IsProcess(Head(headerCh))
  BY DEF HeaderWorkerRegister, HeaderWorkerExit, IsProcess, bodyVars, virtualVars, Batch
<1>5. HeaderWorkerForward => bodyCh' = Append(bodyCh, Exit) /\ UNCHANGED <<headerCh, virtualCh, Batch>>
  BY DEF HeaderWorkerForward, virtualVars, Batch
<1>6. BodyWorkerRegister \/ BodyWorkerExit =>
        /\ bodyCh # <<>> /\ bodyCh' = Tail(bodyCh) /\ UNCHANGED <<headerCh, virtualCh, Batch>>
        /\ BodyWorkerRegister \/ ~IsProcess(Head(bodyCh))
  BY DEF BodyWorkerRegister, BodyWorkerExit, IsProcess, headerVars, virtualVars, Batch
<1>7. BodyWorkerForward => virtualCh' = Append(virtualCh, Exit) /\ UNCHANGED <<headerCh, bodyCh, Batch>>
  BY DEF BodyWorkerForward, headerVars, Batch
<1>8. \A h \in Hashes : HeaderDefer(h) \/ BodyDefer(h) => UNCHANGED <<headerCh, bodyCh, virtualCh, Batch>>
  BY DEF HeaderDefer, BodyDefer, headerVars, bodyVars, virtualVars, Batch
<1>9. ASSUME NEW h \in Hashes, HeaderEnd(h)
      PROVE  /\ hPending[h] # None /\ UNCHANGED <<headerCh, virtualCh, Batch>>
             /\ \/ UNCHANGED bodyCh
                \/ bodyCh' = Append(bodyCh, Process(h, hPending[h].block,
                                                    hPending[h].result_transmitters))
  BY <1>9 DEF HeaderEnd, H!End, virtualVars, Batch
<1>10. ASSUME NEW h \in Hashes, BodyEnd(h)
       PROVE  /\ bPending[h] # None /\ UNCHANGED <<headerCh, bodyCh, Batch>>
              /\ bJob[h] # None /\ bJob[h].pc = "done"
              /\ \/ UNCHANGED virtualCh
                 \/ /\ bJob[h].res \notin Errors
                    /\ virtualCh' = Append(virtualCh, Process(h, bPending[h].block,
                                                              bPending[h].result_transmitters))
  BY <1>10 DEF BodyEnd, B!End, headerVars, Batch
<1>11. VirtualReceive => virtualCh' = <<>> /\ Batch' = virtualCh /\ UNCHANGED <<headerCh, bodyCh>>
  BY SMT DEF VirtualReceive, headerVars, bodyVars, Batch
<1>12. VirtualReply => Batch' = <<>> /\ UNCHANGED <<headerCh, bodyCh, virtualCh>>
  BY SMT DEF VirtualReply, headerVars, bodyVars, Batch
<1>13. CASE \E c \in Callers, h \in Hashes, b \in Contents : ValidateAndInsertBlock(c, h, b)
  BY <1>2, <1>13
<1>14. CASE \E h \in Hashes : HeaderEnd(h)
  BY <1>9, <1>14
<1>15. CASE \E h \in Hashes : BodyEnd(h)
  BY <1>10, <1>15
<1>16. CASE \/ SignalExit \/ HeaderWorkerRegister \/ HeaderWorkerExit \/ HeaderWorkerForward
            \/ BodyWorkerRegister \/ BodyWorkerExit \/ BodyWorkerForward
  BY <1>3, <1>4, <1>5, <1>6, <1>7, <1>16
<1>17. CASE VirtualReceive \/ VirtualReply \/ \E h \in Hashes : HeaderDefer(h) \/ BodyDefer(h)
  BY <1>8, <1>11, <1>12, <1>17
<1> QED BY <1>1, <1>13, <1>14, <1>15, <1>16, <1>17, PlaceSteps

(* The messages of the first two channels keep different transmitters.     *)
LEMMA SeparateStep ==
  ASSUME Inv, ServiceInv, [Next]_vars
  PROVE  Separate(headerCh') /\ Separate(bodyCh')
<1>0. /\ headerCh \in Seq(Messages) /\ bodyCh \in Seq(Messages)
      /\ Separate(headerCh) /\ Separate(bodyCh) /\ OnePlace
  BY PlaceTypes DEF Inv, ServiceInv, TransmitterInv
<1>1. \A q \in Seq(Messages) : Separate(q) => Separate(Append(q, Exit))
  BY SeparateFacts, MessageTypes DEF Holds
<1>2. \A q \in Seq(Messages) : Separate(q) /\ q # <<>> => Separate(Tail(q))
  BY SeparateFacts
<1>3. ASSUME NEW q \in Seq(Messages), Separate(q), NEW h \in Hashes, NEW b \in Contents,
             NEW txs \in SUBSET Callers, \A c \in txs : ~InChannel(q, c)
      PROVE  Separate(Append(q, Process(h, b, txs)))
  <2>1. Process(h, b, txs) \in Messages /\ Process(h, b, txs).txs = txs
    BY MessageTypes DEF Process
  <2> QED BY <1>3, <2>1, SeparateFacts DEF Holds
<1>4. Separate(headerCh')
  <2>1. ASSUME NEW c \in Callers, NEW h \in Hashes, NEW b \in Contents,
               ValidateAndInsertBlock(c, h, b), headerCh' = Append(headerCh, Process(h, b, {c}))
        PROVE  Separate(headerCh')
    <3>1. sub[c] = None
      BY <2>1 DEF ValidateAndInsertBlock
    <3>2. ~At("headerCh", c)
      BY <3>1, NowhereBefore DEF Inv, Places
    <3> QED BY <1>0, <1>3, <2>1, <3>2 DEF At
  <2> QED BY <1>0, <1>1, <1>2, <2>1, ChannelMoves
<1>5. Separate(bodyCh')
  <2>1. ASSUME NEW h \in Hashes, hPending[h] # None,
               bodyCh' = Append(bodyCh, Process(h, hPending[h].block,
                                                hPending[h].result_transmitters))
        PROVE  Separate(bodyCh')
    <3>1. hPending[h].block \in Contents /\ hPending[h].result_transmitters \in SUBSET Callers
      BY <2>1, PlaceTypes DEF Inv
    <3>2. \A c \in hPending[h].result_transmitters : At("header", c)
      BY <2>1 DEF At, InTasks
    <3>3. \A c \in hPending[h].result_transmitters : ~At("bodyCh", c)
      BY <1>0, <3>1, <3>2 DEF OnePlace, Places
    <3> QED BY <1>0, <1>3, <2>1, <3>1, <3>3 DEF At
  <2> QED BY <1>0, <1>1, <1>2, <2>1, ChannelMoves
<1> QED BY <1>4, <1>5
=============================================================================
