----------------------------- MODULE DepsManager -----------------------------
(***************************************************************************)
(* BlockTaskDependencyManager (pipeline/deps_manager.rs) together with the *)
(* worker thread and the pool closures that drive it in the header and in  *)
(* the body processor.  The module only declares the operations; Stage and *)
(* Pipeline give them channels, callers and results.                       *)
(*                                                                         *)
(* Every operation of the manager runs under its `pending` mutex, so each  *)
(* is one action.  A closure spawned on the rayon pool is known by its     *)
(* hash: `spawned` counts the closures the pool has not started yet and    *)
(* `running` the ones between a successful try_begin and their end.  Both  *)
(* are counts, not sets, so that running a task twice would show.  The     *)
(* order of the Vec of dependents only decides the order in which they are *)
(* handed to the unordered pool, so the Vec is a bag of hashes.            *)
(***************************************************************************)
EXTENDS Naturals

CONSTANTS Hashes,      \* block hashes
          Parents,     \* the direct parents of each header
          Callers,     \* result transmitters, one per validate_and_insert_block call
          Bodies,      \* transaction lists a header may come with
          HeaderOnly,  \* the empty transaction list
          None         \* no task, no submission, no result

Contents == Bodies \cup {HeaderOnly}

Task == [block : Contents,
         result_transmitters : SUBSET Callers,
         dependent_tasks : [Hashes -> Nat]]

ASSUME ParentsAssumption == /\ Parents \in [Hashes -> SUBSET Hashes]
                            /\ \A h \in Hashes : h \notin Parents[h]
ASSUME ContentsAssumption == HeaderOnly \notin Bodies
ASSUME NoneAssumption == None \notin Task

VARIABLES pending,  \* the map behind the mutex
          spawned,  \* closures waiting for a pool thread, per hash
          running,  \* closures between try_begin and end, per hash
          worker    \* the thread that receives this stage's tasks

managerVars == <<pending, spawned, running, worker>>

WorkerStates == {"receive", "exit", "wait", "idle", "done"}

ManagerTypeOK ==
  /\ pending \in [Hashes -> Task \cup {None}]
  /\ spawned \in [Hashes -> Nat]
  /\ running \in [Hashes -> Nat]
  /\ worker \in WorkerStates

NoDependents == [h \in Hashes |-> 0]

ManagerInit ==
  /\ pending = [h \in Hashes |-> None]
  /\ spawned = NoDependents
  /\ running = NoDependents
  /\ worker = "receive"

Pending == {h \in Hashes : pending[h] # None}

\* How often h was pushed on the dependents of p.
Deps(p, h) == IF pending[p] = None THEN 0 ELSE pending[p].dependent_tasks[h]

-----------------------------------------------------------------------------
BlockTaskInternal(block, txs) ==
  [block |-> block, result_transmitters |-> txs, dependent_tasks |-> NoDependents]

(* Variants with a plausible bug, named Bug*: each breaks a property.      *)

\* register asks for a closure even when the task is already pending.
BugRegisterTwice(h, block, txs) ==
  /\ worker = "receive"
  /\ pending' = [pending EXCEPT ![h] =
       IF @ = None THEN BlockTaskInternal(block, txs)
       ELSE [@ EXCEPT !.result_transmitters = @ \cup txs]]
  /\ spawned' = [spawned EXCEPT ![h] = @ + 1]
  /\ UNCHANGED <<running, worker>>

\* register does not take over the transactions.
BugRegisterKeepHeader(h, block, txs) ==
  /\ worker = "receive"
  /\ pending' = [pending EXCEPT ![h] =
       IF @ = None THEN BlockTaskInternal(block, txs)
       ELSE [@ EXCEPT !.result_transmitters = @ \cup txs]]
  /\ spawned' = IF pending[h] = None THEN [spawned EXCEPT ![h] = @ + 1] ELSE spawned
  /\ UNCHANGED <<running, worker>>

\* try_begin does not look at the parents.
BugTryBeginBlind(h) ==
  /\ spawned[h] > 0
  /\ pending[h] # None
  /\ spawned' = [spawned EXCEPT ![h] = @ - 1]
  /\ running' = [running EXCEPT ![h] = @ + 1]
  /\ UNCHANGED <<pending, worker>>

\* The dependents end returns are not spawned again.
BugEndForgetful(h) ==
  /\ running[h] > 0
  /\ pending[h] # None
  /\ pending' = [pending EXCEPT ![h] = None]
  /\ running' = [running EXCEPT ![h] = @ - 1]
  /\ worker' = IF Pending \ {h} = {} /\ worker = "wait" THEN "idle" ELSE worker
  /\ UNCHANGED spawned

\* end does not notify the condition variable.
BugEndSilent(h) ==
  /\ running[h] > 0
  /\ pending[h] # None
  /\ pending' = [pending EXCEPT ![h] = None]
  /\ running' = [running EXCEPT ![h] = @ - 1]
  /\ spawned' = [k \in Hashes |-> spawned[k] + pending[h].dependent_tasks[k]]
  /\ UNCHANGED worker

\* wait_for_idle returns at once.
BugNoWait ==
  /\ worker = "exit"
  /\ worker' = "idle"
  /\ UNCHANGED <<pending, spawned, running>>

(* The worker received Process(block, txs).  A vacant entry becomes a new  *)
(* task with a closure of its own; an occupied one takes over the          *)
(* transmitters, and the transactions if it had none.                      *)
Register(h, block, txs) ==
  /\ worker = "receive"
  /\ \/ /\ pending[h] = None
        /\ pending' = [pending EXCEPT ![h] = BlockTaskInternal(block, txs)]
        /\ spawned' = [spawned EXCEPT ![h] = @ + 1]
     \/ /\ pending[h] # None
        /\ pending' = [pending EXCEPT
              ![h].result_transmitters = @ \cup txs,
              ![h].block = IF @ = HeaderOnly THEN block ELSE @]
        /\ UNCHANGED spawned
  /\ UNCHANGED <<running, worker>>

(* try_begin finds the direct parent p pending: the closure ends and h     *)
(* waits on p.  Which pending parent is met first depends on the order of  *)
(* the header's list, so p is any of them.                                 *)
TryBeginDeferred(h, p) ==
  /\ spawned[h] > 0
  /\ pending[h] # None
  /\ p \in Parents[h] \cap Pending
  /\ pending' = [pending EXCEPT ![p].dependent_tasks[h] = @ + 1]
  /\ spawned' = [spawned EXCEPT ![h] = @ - 1]
  /\ UNCHANGED <<running, worker>>

(* try_begin finds no direct parent pending and returns the block.         *)
TryBegin(h) ==
  /\ spawned[h] > 0
  /\ pending[h] # None
  /\ Parents[h] \cap Pending = {}
  /\ spawned' = [spawned EXCEPT ![h] = @ - 1]
  /\ running' = [running EXCEPT ![h] = @ + 1]
  /\ UNCHANGED <<pending, worker>>

(* end: the task leaves the map, the condition variable is notified when   *)
(* the map is empty, and the dependents go back to the pool.  The callback *)
(* runs under the same lock: a user of this module conjoins it.  Handing   *)
(* the dependents to the pool happens after the unlock, but a closure that *)
(* is not spawned yet and one the pool has not started look the same.      *)
End(h) ==
  /\ running[h] > 0
  /\ pending[h] # None
  /\ pending' = [pending EXCEPT ![h] = None]
  /\ running' = [running EXCEPT ![h] = @ - 1]
  /\ spawned' = [k \in Hashes |-> spawned[k] + pending[h].dependent_tasks[k]]
  /\ worker' = IF Pending \ {h} = {} /\ worker = "wait" THEN "idle" ELSE worker

(* The worker received Exit and leaves its loop.                           *)
ReceiveExit ==
  /\ worker = "receive"
  /\ worker' = "exit"
  /\ UNCHANGED <<pending, spawned, running>>

(* wait_for_idle: one test, and one wait on the condition variable.        *)
WaitForIdle ==
  /\ worker = "exit"
  /\ worker' = IF Pending = {} THEN "idle" ELSE "wait"
  /\ UNCHANGED <<pending, spawned, running>>

(* The worker passes Exit on to the next stage and returns.                *)
ForwardExit ==
  /\ worker = "idle"
  /\ worker' = "done"
  /\ UNCHANGED <<pending, spawned, running>>
-----------------------------------------------------------------------------
\* The closure of h is waiting for a thread, running, or replaced by one
\* entry in the dependents of one parent; without a task there is none.
Home(h) ==
  \/ /\ pending[h] = None /\ spawned[h] = 0 /\ running[h] = 0
     /\ \A p \in Hashes : Deps(p, h) = 0
  \/ /\ pending[h] # None /\ spawned[h] + running[h] = 1
     /\ \A p \in Hashes : Deps(p, h) = 0
  \/ /\ pending[h] # None /\ spawned[h] = 0 /\ running[h] = 0
     /\ \E p \in Parents[h] : /\ Deps(p, h) = 1
                             /\ \A q \in Hashes \ {p} : Deps(q, h) = 0

(* A pending task is never lost and never run twice: it has exactly one    *)
(* closure.  A hash that is not pending has none, so the unwrap in         *)
(* try_begin and the expect in end cannot fail.                            *)
OneHome == \A h \in Hashes : Home(h)
=============================================================================
