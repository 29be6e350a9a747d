-------------------------------- MODULE Stage --------------------------------
(***************************************************************************)
(* One stage of the block pipeline on its own: callers submit block tasks  *)
(* through an unbounded channel, the stage's worker registers them, pool   *)
(* threads run them, and `end` hands each task to its callback.  What the  *)
(* callback does with it (reply, or send to the next stage) is left to     *)
(* Pipeline; here it is recorded in `delivered`.                           *)
(***************************************************************************)
EXTENDS DepsManager, Sequences, FiniteSets

CONSTANT NumThreads    \* threads of the block processors pool

ASSUME NumThreadsAssumption == NumThreads \in Nat \ {0}

VARIABLES inbox,      \* the channel into the stage
          sub,        \* what each caller submitted, and whether before Exit
          delivered,  \* what end's callback got with each caller's transmitter
          exitSent,   \* signal_exit was called
          awaits      \* history: parents pending when a task was registered,
                      \* whose tasks have not ended since

vars == <<managerVars, inbox, sub, delivered, exitSent, awaits>>

Exit == [type |-> "Exit"]
Process(h, block, txs) ==
  [type |-> "Process", hash |-> h, block |-> block, txs |-> txs]

Messages == {Exit} \cup [type : {"Process"}, hash : Hashes, block : Contents,
                         txs : SUBSET Callers]
Submissions == [hash : Hashes, block : Contents, early : BOOLEAN]

ASSUME NoSubmissionAssumption == None \notin Submissions

Init ==
  /\ ManagerInit
  /\ inbox = <<>>
  /\ sub = [c \in Callers |-> None]
  /\ delivered = [c \in Callers |-> <<>>]
  /\ exitSent = FALSE
  /\ awaits = [h \in Hashes |-> {}]

Submit(c, h, block) ==
  /\ sub[c] = None
  /\ sub' = [sub EXCEPT ![c] = [hash |-> h, block |-> block, early |-> ~exitSent]]
  /\ inbox' = Append(inbox, Process(h, block, {c}))
  /\ UNCHANGED <<managerVars, delivered, exitSent, awaits>>

SignalExit ==
  /\ ~exitSent
  /\ exitSent' = TRUE
  /\ inbox' = Append(inbox, Exit)
  /\ UNCHANGED <<managerVars, sub, delivered, awaits>>

WorkerRegister ==
  /\ inbox # <<>>
  /\ LET m == Head(inbox)
     IN /\ m.type = "Process"
        /\ Register(m.hash, m.block, m.txs)
        /\ awaits' = IF pending[m.hash] = None
                     THEN [awaits EXCEPT ![m.hash] = Parents[m.hash] \cap Pending]
                     ELSE awaits
  /\ inbox' = Tail(inbox)
  /\ UNCHANGED <<sub, delivered, exitSent>>

WorkerExit ==
  /\ inbox # <<>>
  /\ Head(inbox).type = "Exit"
  /\ ReceiveExit
  /\ inbox' = Tail(inbox)
  /\ UNCHANGED <<sub, delivered, exitSent, awaits>>

WorkerWait == WaitForIdle /\ UNCHANGED <<inbox, sub, delivered, exitSent, awaits>>

WorkerForward == ForwardExit /\ UNCHANGED <<inbox, sub, delivered, exitSent, awaits>>

ThreadFree == Cardinality({h \in Hashes : running[h] > 0}) < NumThreads

Defer(h) ==
  /\ ThreadFree
  /\ \E p \in Hashes : TryBeginDeferred(h, p)
  /\ UNCHANGED <<inbox, sub, delivered, exitSent, awaits>>

Begin(h) ==
  /\ ThreadFree
  /\ TryBegin(h)
  /\ UNCHANGED <<inbox, sub, delivered, exitSent, awaits>>

Finish(h) ==
  /\ End(h)
  /\ delivered' = [c \in Callers |->
       IF c \in pending[h].result_transmitters
       THEN Append(delivered[c], [hash |-> h, block |-> pending[h].block])
       ELSE delivered[c]]
  /\ awaits' = [k \in Hashes |-> IF k = h THEN {} ELSE awaits[k] \ {h}]
  /\ UNCHANGED <<inbox, sub, exitSent>>

\* The stage has shut down: its worker returned and nothing is in flight.
Terminated ==
  /\ worker = "done"
  /\ \A c \in Callers : sub[c] # None
  /\ UNCHANGED vars

Next ==
  \/ \E c \in Callers, h \in Hashes, b \in Contents : Submit(c, h, b)
  \/ SignalExit
  \/ WorkerRegister
  \/ WorkerExit
  \/ WorkerWait
  \/ WorkerForward
  \/ \E h \in Hashes : Defer(h) \/ Begin(h) \/ Finish(h)
  \/ Terminated

Spec == Init /\ [][Next]_vars

-----------------------------------------------------------------------------
(* Tasks, messages and deliveries are well-formed; in particular end never *)
(* takes a closure that is not there.                                      *)
TypeOK ==
  /\ ManagerTypeOK
  /\ inbox \in Seq(Messages)
  /\ sub \in [Callers -> Submissions \cup {None}]
  /\ delivered \in [Callers -> Seq([hash : Hashes, block : Contents])]
  /\ exitSent \in BOOLEAN
  /\ awaits \in [Hashes -> SUBSET Hashes]

(* A block registered while a direct parent is pending is not processed    *)
(* before that parent's task has ended, however the two interleave with    *)
(* later registrations of either hash.                                     *)
ParentsFirst == \A h \in Hashes : running[h] > 0 => awaits[h] = {}

(* A caller that submitted a body never has it dropped for a header: even  *)
(* when its task merges into a header-only one that is already running,    *)
(* end's callback gets transactions with the caller's transmitter, and     *)
(* gets them for the hash the caller submitted.                            *)
BodyKept ==
  \A c \in Callers : \A i \in DOMAIN delivered[c] :
    /\ delivered[c][i].hash = sub[c].hash
    /\ sub[c].block \in Bodies => delivered[c][i].block \in Bodies

(* The single, unlooped wait of wait_for_idle is enough: when the worker   *)
(* passes Exit on, nothing of the stage is still in flight and every task  *)
(* sent before Exit was handed to the callback, once.                      *)
ExitIsLast ==
  worker \in {"idle", "done"} =>
    /\ Pending = {}
    /\ \A h \in Hashes : spawned[h] = 0 /\ running[h] = 0
    /\ \A c \in Callers : sub[c] # None /\ sub[c].early => Len(delivered[c]) = 1
=============================================================================
