------------------------------ MODULE Pipeline ------------------------------
(***************************************************************************)
(* The consensus pipeline: the header, body and virtual processors joined  *)
(* by unbounded channels, sharing the statuses store and the body tips.    *)
(* The header and the body stage are two instances of DepsManager whose    *)
(* closures run on one pool; the virtual processor is a single thread.     *)
(*                                                                         *)
(* What a block's content makes of its checks is decided by the block, not *)
(* by the schedule: `verdict` fixes the first check it fails once the      *)
(* checks that depend on the stores (known status, parents) have passed.   *)
(***************************************************************************)
EXTENDS Naturals, Sequences, FiniteSets

CONSTANTS Hashes, Parents, Callers, Bodies, HeaderOnly, None, NumThreads,
          Genesis,      \* processed by Consensus::init before the threads start
          Mismatched,   \* the transaction lists that do not fit the merkle root
          Rank,         \* the order of SortableBlock: blue work, then hash
          MayExit,      \* whether the node is shut down in this instance
          Verdicts      \* the assignments of verdicts to blocks

VARIABLES headerCh, hPending, hSpawned, hRunning, hWorker,
          bodyCh, bPending, bSpawned, bRunning, bWorker,
          hJob,        \* locals of queue_block in the header processor, per hash
          bJob,        \* locals of queue_block in the body processor, per hash
          virtualCh,   \* channel into the virtual processor
          vWorker,     \* locals of the virtual processor's worker
          statuses,    \* the statuses store
          tips,        \* the body tips store
          vsp,         \* selected parent of the committed virtual state
          sub, reply, exitSent, verdict

H == INSTANCE DepsManager WITH pending <- hPending, spawned <- hSpawned,
                               running <- hRunning, worker <- hWorker
B == INSTANCE DepsManager WITH pending <- bPending, spawned <- bSpawned,
                               running <- bRunning, worker <- bWorker

headerVars == <<headerCh, hPending, hSpawned, hRunning, hWorker, hJob>>
bodyVars == <<bodyCh, bPending, bSpawned, bRunning, bWorker, bJob>>
virtualVars == <<virtualCh, vWorker, vsp>>
stores == <<statuses, tips>>
callerVars == <<sub, reply, exitSent, verdict>>
vars == <<headerVars, bodyVars, virtualVars, stores, callerVars>>

Contents == Bodies \cup {HeaderOnly}

(* Every header but genesis states parents, never itself; a set of blocks  *)
(* has one of highest rank; None is none of the values of the maps.        *)
ASSUME ParentsAssumption ==
  /\ Genesis \in Hashes
  /\ Parents \in [Hashes -> SUBSET Hashes]
  /\ Parents[Genesis] = {}
  /\ \A h \in Hashes : h \notin Parents[h] /\ (h # Genesis => Parents[h] # {})
ASSUME RankAssumption ==
  \A S \in SUBSET Hashes : S # {} => \E p \in S : \A q \in S : Rank[q] <= Rank[p]
ASSUME ContentsAssumption == HeaderOnly \notin Bodies

\* BlockStatus, and the errors of a BlockProcessResult the stages tell apart.
BodyStatuses == {"UTXOValid", "UTXOPendingVerification", "DisqualifiedFromChain"}
Statuses == BodyStatuses \cup {"HeaderOnly", "Invalid"}
Errors == {"KnownInvalid", "MissingParents", "InvalidParent", "BadMerkleRoot", "RuleError"}

\* The locals of a closure between try_begin and end.
HeaderJobs ==
  [pc : {"status"}] \cup [pc : {"parents"}, todo : SUBSET Hashes, missing : BOOLEAN]
    \cup [pc : {"done"}, res : Statuses \cup Errors]
BodyJobs ==
  [pc : {"process"}, block : Contents] \cup [pc : {"done"}, res : Statuses \cup Errors]

\* What a caller submitted, and when.
Calls == [hash : Hashes, block : Contents]
Submissions == [hash : Hashes, block : Contents, early : BOOLEAN, after : SUBSET Callers]
ASSUME NoneAssumption ==
  None \notin HeaderJobs \cup BodyJobs \cup H!Task \cup Statuses \cup Errors \cup Calls
              \cup Submissions

HasBody(h) == statuses[h] \in BodyStatuses

Exit == [type |-> "Exit"]
Process(h, block, txs) ==
  [type |-> "Process", hash |-> h, block |-> block, txs |-> txs]

\* find_selected_parent over a non-empty set of blocks.
FindSelectedParent(S) == CHOOSE p \in S : \A q \in S : Rank[q] <= Rank[p]
SelectedParent(h) == FindSelectedParent(Parents[h])

(* h and its selected-parent chain down to genesis: the least set with h   *)
(* that holds the selected parent of each of its blocks.                   *)
ClosedUnderSelectedParent(S) == \A k \in S \ {Genesis} : SelectedParent(k) \in S
Chain ==
  [h \in Hashes |-> {k \in Hashes : \A S \in SUBSET Hashes :
                        h \in S /\ ClosedUnderSelectedParent(S) => k \in S}]

Init ==
  /\ headerCh = <<>> /\ bodyCh = <<>> /\ virtualCh = <<>>
  /\ H!ManagerInit /\ B!ManagerInit
  /\ hJob = [h \in Hashes |-> None]
  /\ bJob = [h \in Hashes |-> None]
  /\ vWorker = [pc |-> "receive"]
  /\ statuses = [h \in Hashes |-> IF h = Genesis THEN "UTXOValid" ELSE None]
  /\ tips = {Genesis}
  /\ vsp = Genesis
  /\ sub = [c \in Callers |-> None]
  /\ reply = [c \in Callers |-> None]
  /\ exitSent = FALSE
  /\ verdict \in Verdicts

-----------------------------------------------------------------------------
(* Callers                                                                 *)

\* validate_and_insert_block; `after` records who had called before.
ValidateAndInsertBlock(c, h, block) ==
  /\ sub[c] = None
  /\ sub' = [sub EXCEPT ![c] = [hash |-> h, block |-> block, early |-> ~exitSent,
                                after |-> {d \in Callers : sub[d] # None}]]
  /\ headerCh' = Append(headerCh, Process(h, block, {c}))
  /\ UNCHANGED <<hPending, hSpawned, hRunning, hWorker, hJob, bodyVars, virtualVars,
                 stores, reply, exitSent, verdict>>

SignalExit ==
  /\ MayExit
  /\ ~exitSent
  /\ exitSent' = TRUE
  /\ headerCh' = Append(headerCh, Exit)
  /\ UNCHANGED <<hPending, hSpawned, hRunning, hWorker, hJob, bodyVars, virtualVars,
                 stores, sub, reply, verdict>>

\* The transmitters in txs all send result r.
Transmit(txs, r) == reply' = [c \in Callers |-> IF c \in txs THEN r ELSE reply[c]]

ThreadFree ==
  Cardinality({h \in Hashes : hRunning[h] > 0}) + Cardinality({h \in Hashes : bRunning[h] > 0})
    < NumThreads

-----------------------------------------------------------------------------
(* Header processor                                                        *)

HeaderWorkerRegister ==
  /\ headerCh # <<>>
  /\ Head(headerCh).type = "Process"
  /\ H!Register(Head(headerCh).hash, Head(headerCh).block, Head(headerCh).txs)
  /\ headerCh' = Tail(headerCh)
  /\ UNCHANGED <<hJob, bodyVars, virtualVars, stores, callerVars>>

HeaderWorkerExit ==
  /\ headerCh # <<>>
  /\ Head(headerCh).type = "Exit"
  /\ H!ReceiveExit
  /\ headerCh' = Tail(headerCh)
  /\ UNCHANGED <<hJob, bodyVars, virtualVars, stores, callerVars>>

HeaderWorkerWait ==
  /\ H!WaitForIdle
  /\ UNCHANGED <<headerCh, hJob, bodyVars, virtualVars, stores, callerVars>>

HeaderWorkerForward ==
  /\ H!ForwardExit
  /\ bodyCh' = Append(bodyCh, Exit)
  /\ UNCHANGED <<headerCh, hJob, bPending, bSpawned, bRunning, bWorker, bJob,
                 virtualVars, stores, callerVars>>

HeaderDefer(h) ==
  /\ ThreadFree
  /\ \E p \in Hashes : H!TryBeginDeferred(h, p)
  /\ UNCHANGED <<headerCh, hJob, bodyVars, virtualVars, stores, callerVars>>

HeaderBegin(h) ==
  /\ ThreadFree
  /\ H!TryBegin(h)
  /\ hJob' = [hJob EXCEPT ![h] = [pc |-> "status"]]
  /\ UNCHANGED <<headerCh, bodyVars, virtualVars, stores, callerVars>>

HeaderDone(h, r) == hJob' = [hJob EXCEPT ![h] = [pc |-> "done", res |-> r]]

\* process_header up to the parents' check: the known status, and isolation.
ProcessHeader(h) ==
  /\ hJob[h] # None
  /\ hJob[h].pc = "status"
  /\ \/ statuses[h] = "Invalid" /\ HeaderDone(h, "KnownInvalid")
     \/ statuses[h] \notin {"Invalid", None} /\ HeaderDone(h, statuses[h])
     \/ /\ statuses[h] = None
        /\ verdict[h] = "headerIsolation"
        /\ HeaderDone(h, "RuleError")
     \/ /\ statuses[h] = None
        /\ verdict[h] # "headerIsolation"
        /\ hJob' = [hJob EXCEPT ![h] =
             [pc |-> "parents", todo |-> Parents[h], missing |-> FALSE]]
  /\ UNCHANGED <<headerCh, hPending, hSpawned, hRunning, hWorker, bodyVars,
                 virtualVars, stores, callerVars>>

\* check_parents_exist takes the statuses lock anew for each parent.
CheckParentExists(h, p) ==
  /\ hJob[h] # None
  /\ hJob[h].pc = "parents"
  /\ p \in hJob[h].todo
  /\ IF statuses[p] = "Invalid"
     THEN HeaderDone(h, "InvalidParent")
     ELSE hJob' = [hJob EXCEPT ![h].todo = @ \ {p},
                               ![h].missing = @ \/ statuses[p] = None]
  /\ UNCHANGED <<headerCh, hPending, hSpawned, hRunning, hWorker, bodyVars,
                 virtualVars, stores, callerVars>>

\* The rest of process_header: the contextual checks and commit_header.
CommitHeader(h) ==
  /\ hJob[h] # None
  /\ hJob[h].pc = "parents"
  /\ hJob[h].todo = {}
  /\ \/ /\ hJob[h].missing
        /\ HeaderDone(h, "MissingParents") /\ UNCHANGED statuses
     \/ /\ ~hJob[h].missing /\ verdict[h] = "prePow"
        /\ HeaderDone(h, "RuleError") /\ UNCHANGED statuses
     \/ /\ ~hJob[h].missing /\ verdict[h] = "postPow"
        /\ HeaderDone(h, "RuleError")
        /\ statuses' = [statuses EXCEPT ![h] = "Invalid"]
     \/ /\ ~hJob[h].missing /\ verdict[h] \notin {"prePow", "postPow"}
        /\ HeaderDone(h, "HeaderOnly")
        /\ statuses' = [statuses EXCEPT ![h] = "HeaderOnly"]
  /\ UNCHANGED <<headerCh, hPending, hSpawned, hRunning, hWorker, bodyVars,
                 virtualVars, tips, callerVars>>

\* end with the header stage's callback: reply, or pass on to the body stage.
HeaderEnd(h) ==
  /\ hJob[h] # None
  /\ hJob[h].pc = "done"
  /\ H!End(h)
  /\ LET task == hPending[h]
         res == hJob[h].res
     IN IF res \in Errors \/ task.block = HeaderOnly
        THEN Transmit(task.result_transmitters, res) /\ UNCHANGED bodyCh
        ELSE /\ bodyCh' = Append(bodyCh, Process(h, task.block, task.result_transmitters))
             /\ UNCHANGED reply
  /\ hJob' = [hJob EXCEPT ![h] = None]
  /\ UNCHANGED <<headerCh, bPending, bSpawned, bRunning, bWorker, bJob, virtualVars,
                 stores, sub, exitSent, verdict>>

-----------------------------------------------------------------------------
(* Body processor                                                          *)

BodyWorkerRegister ==
  /\ bodyCh # <<>>
  /\ Head(bodyCh).type = "Process"
  /\ B!Register(Head(bodyCh).hash, Head(bodyCh).block, Head(bodyCh).txs)
  /\ bodyCh' = Tail(bodyCh)
  /\ UNCHANGED <<bJob, headerVars, virtualVars, stores, callerVars>>

BodyWorkerExit ==
  /\ bodyCh # <<>>
  /\ Head(bodyCh).type = "Exit"
  /\ B!ReceiveExit
  /\ bodyCh' = Tail(bodyCh)
  /\ UNCHANGED <<bJob, headerVars, virtualVars, stores, callerVars>>

BodyWorkerWait ==
  /\ B!WaitForIdle
  /\ UNCHANGED <<bodyCh, bJob, headerVars, virtualVars, stores, callerVars>>

BodyWorkerForward ==
  /\ B!ForwardExit
  /\ virtualCh' = Append(virtualCh, Exit)
  /\ UNCHANGED <<bodyCh, bJob, headerVars, vWorker, vsp, stores, callerVars>>

BodyDefer(h) ==
  /\ ThreadFree
  /\ \E p \in Hashes : B!TryBeginDeferred(h, p)
  /\ UNCHANGED <<bodyCh, bJob, headerVars, virtualVars, stores, callerVars>>

\* The closure works on the block as it was when try_begin cloned it.
BodyBegin(h) ==
  /\ ThreadFree
  /\ B!TryBegin(h)
  /\ bJob' = [bJob EXCEPT ![h] = [pc |-> "process", block |-> bPending[h].block]]
  /\ UNCHANGED <<bodyCh, headerVars, virtualVars, stores, callerVars>>

\* Bug: one parent with a body is enough.
BugAnyParentBody(h) == \E p \in Parents[h] : HasBody(p)

\* check_parent_bodies_exist; genesis has its body from the start.
ParentBodiesExist(h) == Parents[h] = {Genesis} \/ \A p \in Parents[h] : HasBody(p)

\* validate_body: the first error, or the status of a committed body.
ValidateBody(h, block) ==
  CASE block = HeaderOnly -> "RuleError"
    [] block \in Mismatched -> "BadMerkleRoot"
    [] block \notin Mismatched \cup {HeaderOnly} /\ verdict[h] = "bodyIsolation" -> "RuleError"
    [] OTHER -> IF ~ParentBodiesExist(h) THEN "MissingParents"
                ELSE IF verdict[h] = "bodyContext" THEN "RuleError"
                ELSE "UTXOPendingVerification"

\* update_tips
UpdateTips(current, parents, new) == (current \ parents) \cup {new}

\* Bug: every failed body marks its block invalid.
BugAlwaysInvalid(h) ==
  /\ bJob[h] # None
  /\ bJob[h].pc = "process"
  /\ statuses[h] \in Statuses
  /\ LET res == CASE statuses[h] = "Invalid" -> "KnownInvalid"
                  [] HasBody(h) -> statuses[h]
                  [] OTHER -> ValidateBody(h, bJob[h].block)
     IN /\ bJob' = [bJob EXCEPT ![h] = [pc |-> "done", res |-> res]]
        /\ statuses' = [statuses EXCEPT ![h] = IF res \in Errors THEN "Invalid" ELSE res]
        /\ tips' = IF res \notin Errors /\ ~HasBody(h)
                   THEN UpdateTips(tips, Parents[h], h) ELSE tips
  /\ UNCHANGED <<bodyCh, bPending, bSpawned, bRunning, bWorker, headerVars,
                 virtualVars, callerVars>>

(* process_block_body.  Only the closure of h moves h out of HeaderOnly,   *)
(* and a parent that has its body keeps it, so what is read stays true     *)
(* until commit_body's batch is written and the body is one action.        *)
ProcessBlockBody(h) ==
  /\ bJob[h] # None
  /\ bJob[h].pc = "process"
  /\ statuses[h] \in Statuses
  /\ LET res == CASE statuses[h] = "Invalid" -> "KnownInvalid"
                  [] HasBody(h) -> statuses[h]
                  [] OTHER -> ValidateBody(h, bJob[h].block)
         first == statuses[h] = "HeaderOnly"
     IN /\ bJob' = [bJob EXCEPT ![h] = [pc |-> "done", res |-> res]]
        /\ statuses' = CASE first /\ res = "RuleError" -> [statuses EXCEPT ![h] = "Invalid"]
                         [] first /\ res \notin Errors -> [statuses EXCEPT ![h] = res]
                         [] OTHER -> statuses
        /\ tips' = IF first /\ res \notin Errors
                   THEN UpdateTips(tips, Parents[h], h) ELSE tips
  /\ UNCHANGED <<bodyCh, bPending, bSpawned, bRunning, bWorker, headerVars,
                 virtualVars, callerVars>>

BodyEnd(h) ==
  /\ bJob[h] # None
  /\ bJob[h].pc = "done"
  /\ B!End(h)
  /\ LET task == bPending[h]
         res == bJob[h].res
     IN IF res \in Errors
        THEN Transmit(task.result_transmitters, res) /\ UNCHANGED virtualCh
        ELSE /\ virtualCh' = Append(virtualCh, Process(h, task.block, task.result_transmitters))
             /\ UNCHANGED reply
  /\ bJob' = [bJob EXCEPT ![h] = None]
  /\ UNCHANGED <<bodyCh, headerVars, vWorker, vsp, stores, sub, exitSent, verdict>>

-----------------------------------------------------------------------------
(* Virtual processor                                                       *)

\* The worker takes a task and all that are queued behind it.
VirtualReceive ==
  /\ vWorker.pc = "receive"
  /\ virtualCh # <<>>
  /\ virtualCh' = <<>>
  /\ vWorker' = [pc |-> "select", tasks |-> virtualCh]
  /\ UNCHANGED <<vsp, headerVars, bodyVars, stores, callerVars>>

\* Bug: virtual moves to the block of the last task instead of the best tip.
BugSelectLast ==
  /\ vWorker.pc = "select"
  /\ LET last == vWorker.tasks[Len(vWorker.tasks)]
         new_selected == IF last.type = "Process" THEN last.hash ELSE vsp
     IN vWorker' = [pc |-> "walk", tasks |-> vWorker.tasks, new_selected |-> new_selected,
                    todo |-> Chain[new_selected] \ Chain[vsp]]
  /\ UNCHANGED <<virtualCh, vsp, headerVars, bodyVars, stores, callerVars>>

\* resolve_virtual reads the tips once and fixes the chain blocks to visit:
\* those above the split point with the previous selected chain.
VirtualSelect ==
  /\ vWorker.pc = "select"
  /\ LET new_selected == FindSelectedParent(tips)
     IN vWorker' = [pc |-> "walk", tasks |-> vWorker.tasks, new_selected |-> new_selected,
                    todo |-> Chain[new_selected] \ Chain[vsp]]
  /\ UNCHANGED <<virtualCh, vsp, headerVars, bodyVars, stores, callerVars>>

(* One round of the walk up: a block whose diff is stored (it is           *)
(* UTXOValid) is applied as it is; the others inherit the disqualification *)
(* of their selected parent or are verified.                               *)
VirtualWalk(current) ==
  /\ vWorker.pc = "walk"
  /\ current \in vWorker.todo
  /\ SelectedParent(current) \notin vWorker.todo
  /\ vWorker' = [vWorker EXCEPT !.todo = @ \ {current}]
  /\ statuses' = IF statuses[current] = "UTXOValid" THEN statuses
                 ELSE [statuses EXCEPT ![current] =
                        IF \/ statuses[SelectedParent(current)] = "DisqualifiedFromChain"
                           \/ verdict[current] = "utxo"
                        THEN "DisqualifiedFromChain" ELSE "UTXOValid"]
  /\ UNCHANGED <<virtualCh, vsp, headerVars, bodyVars, tips, callerVars>>

\* The end of resolve_virtual: commit the virtual state, keep it, or panic.
VirtualCommit ==
  /\ vWorker.pc = "walk"
  /\ vWorker.todo = {}
  /\ LET status == statuses[vWorker.new_selected]
     IN /\ vsp' = IF status = "UTXOValid" THEN vWorker.new_selected ELSE vsp
        /\ vWorker' = IF status \in {"UTXOValid", "DisqualifiedFromChain"}
                      THEN [pc |-> "reply", tasks |-> vWorker.tasks]
                      ELSE [pc |-> "panic"]
  /\ UNCHANGED <<virtualCh, headerVars, bodyVars, stores, callerVars>>

\* The batch is answered under one statuses read lock; Exit ends the worker.
VirtualReply ==
  /\ vWorker.pc = "reply"
  /\ LET tasks == {vWorker.tasks[i] : i \in DOMAIN vWorker.tasks}
         answered == {t \in tasks : t.type = "Process"}
     IN /\ reply' = [c \in Callers |->
             IF \E t \in answered : c \in t.txs
             THEN statuses[(CHOOSE t \in answered : c \in t.txs).hash] ELSE reply[c]]
        /\ vWorker' = [pc |-> IF Exit \in tasks THEN "done" ELSE "receive"]
  /\ UNCHANGED <<virtualCh, vsp, headerVars, bodyVars, stores, sub, exitSent, verdict>>

-----------------------------------------------------------------------------
Quiet ==
  /\ headerCh = <<>> /\ bodyCh = <<>> /\ virtualCh = <<>>
  /\ H!Pending = {} /\ B!Pending = {}
  /\ vWorker.pc = "receive"

\* All calls are made, and the pipeline is idle or has shut down.
Terminated ==
  /\ \A c \in Callers : sub[c] # None
  /\ vWorker.pc = "done" \/ (Quiet /\ ~MayExit)
  /\ UNCHANGED vars

HeaderStep(h) ==
  \/ HeaderDefer(h) \/ HeaderBegin(h) \/ ProcessHeader(h)
  \/ \E p \in Parents[h] : CheckParentExists(h, p)
  \/ CommitHeader(h) \/ HeaderEnd(h)

BodyStep(h) == BodyDefer(h) \/ BodyBegin(h) \/ ProcessBlockBody(h) \/ BodyEnd(h)

HeaderWorker ==
  HeaderWorkerRegister \/ HeaderWorkerExit \/ HeaderWorkerWait \/ HeaderWorkerForward

BodyWorker ==
  BodyWorkerRegister \/ BodyWorkerExit \/ BodyWorkerWait \/ BodyWorkerForward

VirtualWorker ==
  \/ VirtualReceive \/ VirtualSelect \/ VirtualCommit \/ VirtualReply
  \/ \E h \in Hashes : VirtualWalk(h)

Next ==
  \/ \E c \in Callers, h \in Hashes \ {Genesis}, b \in Contents :
       ValidateAndInsertBlock(c, h, b)
  \/ SignalExit
  \/ HeaderWorker
  \/ BodyWorker
  \/ \E h \in Hashes : HeaderStep(h) \/ BodyStep(h)
  \/ VirtualWorker
  \/ Terminated

Spec == Init /\ [][Next]_vars

(* The three worker threads and the pool threads keep running.             *)
Fairness ==
  /\ WF_vars(HeaderWorker) /\ WF_vars(BodyWorker) /\ WF_vars(VirtualWorker)
  /\ \A h \in Hashes : WF_vars(HeaderStep(h)) /\ WF_vars(BodyStep(h))

FairSpec == Spec /\ Fairness
-----------------------------------------------------------------------------
(* Nothing the stages unwrap or treat as unreachable happens: a body is    *)
(* processed only after its header's status was committed, a block without *)
(* transactions is never queued for body validation, and resolve_virtual   *)
(* always ends with a selected block that is valid or disqualified; and    *)
(* blocks with a body are closed under parents, although headers, bodies   *)
(* and virtual write statuses concurrently: virtual unwraps the            *)
(* transactions and statuses of everything below a body tip.               *)
NoPanic ==
  /\ vWorker.pc # "panic"
  /\ \A h \in Hashes : bPending[h] # None => /\ statuses[h] # None
                                            /\ bPending[h].block # HeaderOnly
  /\ \A h \in Hashes \ {Genesis} : HasBody(h) => \A p \in Parents[h] : HasBody(p)

(* A block is marked invalid only for what the block itself is: never      *)
(* because its parents were missing or invalid at the time, or because it  *)
(* once came with transactions that do not fit its merkle root.            *)
InvalidJustified ==
  \A h \in Hashes :
    statuses[h] = "Invalid" => verdict[h] \in {"postPow", "bodyIsolation", "bodyContext"}

\* d's call was made after one for q, with as much content, that is answered Ok.
SentBefore(q, d) ==
  \E c \in sub[d].after : /\ sub[c].hash = q
                          /\ reply[c] \in Statuses
                          /\ sub[d].block \in Bodies => sub[c].block \in Bodies

(* Submitting parents before children is enough: a call for a block none   *)
(* else is submitting is not answered MissingParents when calls for all of *)
(* its parents were made before it and succeed.  No caller has to wait for *)
(* the parents' answers.                                                   *)
NoSpuriousMissing ==
  \A d \in Callers :
    /\ reply[d] = "MissingParents"
    /\ \A e \in Callers \ {d} : sub[e] # None => sub[e].hash # sub[d].hash
    => \E q \in Parents[sub[d].hash] \ {Genesis} : ~SentBefore(q, d)

(* No body is committed without a later resolve_virtual that sees it: once *)
(* the pipeline is quiet, virtual sits on the best tip, unless that tip is *)
(* disqualified (the open TODOs of resolve_virtual).  Its selected chain   *)
(* consists of UTXO-valid blocks only at any time, and the tips store      *)
(* holds exactly the blocks with a body that no block with a body has as a *)
(* parent, whatever order bodies were committed in.                        *)
VirtualSettled ==
  /\ tips = {h \in Hashes : HasBody(h) /\ \A k \in Hashes : HasBody(k) => h \notin Parents[k]}
  /\ Quiet => LET best == FindSelectedParent(tips)
              IN vsp = best \/ statuses[best] = "DisqualifiedFromChain"
  /\ \A h \in Chain[vsp] : statuses[h] = "UTXOValid"

(* Every call made before signal_exit is answered.                         *)
Answered == \A c \in Callers : (sub[c] # None /\ sub[c].early) ~> (reply[c] # None)

(* signal_exit stops all three workers.                                    *)
Stops == exitSent ~> (vWorker.pc = "done")

-----------------------------------------------------------------------------
Service == INSTANCE BlockService WITH
  call <- [c \in Callers |-> IF sub[c] = None THEN None
                             ELSE [hash |-> sub[c].hash, block |-> sub[c].block]],
  answer <- reply,
  headers <- {h \in Hashes : statuses[h] \in BodyStatuses \cup {"HeaderOnly"}},
  stored <- {h \in Hashes : HasBody(h)},
  invalid <- {h \in Hashes : statuses[h] = "Invalid"}

(* The three stages together implement the promise of BlockService: no     *)
(* step of theirs answers twice, answers Ok for a block that is not        *)
(* stored, stores a body before its parents' or forgets what is stored.    *)
ImplementsService == Service!Spec
=============================================================================
