-------------------------- MODULE DepsManagerProofs --------------------------
(***************************************************************************)
(* What each operation of the task manager does and preserves: facts about *)
(* one stage, whichever stage it is.  StageProofs uses them for a stage by *)
(* itself and PipelineProofs for the body stage of the pipeline.           *)
(***************************************************************************)
EXTENDS DepsManager, TLAPS

USE DEF WorkerStates

(* Registering a task keeps the manager's variables well-typed.            *)
LEMMA RegisterType ==
  ASSUME ManagerTypeOK, NEW h \in Hashes, NEW b \in Contents, NEW txs \in SUBSET Callers,
         Register(h, b, txs)
  PROVE  ManagerTypeOK'
<1>1. CASE pending[h] = None
  <2>1. BlockTaskInternal(b, txs) \in Task
    BY DEF BlockTaskInternal, Task, NoDependents
  <2> QED BY <1>1, <2>1 DEF Register, ManagerTypeOK
<1>2. CASE pending[h] # None
  <2>1. pending[h] \in Task
    BY <1>2 DEF ManagerTypeOK
  <2>2. pending'[h] \in Task
    BY <1>2, <2>1 DEF Register, ManagerTypeOK, Task
  <2>3. /\ pending' = [pending EXCEPT ![h] = pending'[h]]
        /\ UNCHANGED <<spawned, running, worker>>
    BY <1>2 DEF Register, ManagerTypeOK
  <2> QED BY <2>2, <2>3 DEF ManagerTypeOK
<1> QED BY <1>1, <1>2

(* So does deferring a task to a pending parent, and ending one.           *)
LEMMA DeferType ==
  ASSUME ManagerTypeOK, NEW h \in Hashes, NEW p \in Hashes, TryBeginDeferred(h, p)
  PROVE  ManagerTypeOK'
<1>1. pending[p] \in Task /\ spawned[h] \in Nat \ {0}
  BY DEF TryBeginDeferred, ManagerTypeOK, Pending
<1> DEFINE deps == [pending[p].dependent_tasks EXCEPT ![h] = @ + 1]
<1>a. deps \in [Hashes -> Nat]
  BY <1>1 DEF Task
<1>b. pending'[p] = [pending[p] EXCEPT !.dependent_tasks = deps]
  BY DEF TryBeginDeferred, ManagerTypeOK
<1>2. pending'[p] \in Task
  BY <1>1, <1>a, <1>b DEF Task
<1>3. pending' = [pending EXCEPT ![p] = pending'[p]]
  BY DEF TryBeginDeferred, ManagerTypeOK
<1>4. spawned' \in [Hashes -> Nat]
  BY <1>1 DEF TryBeginDeferred, ManagerTypeOK
<1> QED BY <1>2, <1>3, <1>4 DEF ManagerTypeOK, TryBeginDeferred

(* Ending a task keeps the variables of the manager well-typed.            *)
LEMMA EndType ==
  ASSUME ManagerTypeOK, NEW h \in Hashes, End(h)
  PROVE  ManagerTypeOK'
<1>1. pending[h] \in Task /\ running[h] \in Nat \ {0}
  BY DEF End, ManagerTypeOK
<1>2. spawned' \in [Hashes -> Nat]
  BY <1>1 DEF End, ManagerTypeOK, Task
<1>3. running' \in [Hashes -> Nat]
  BY <1>1 DEF End, ManagerTypeOK
<1> QED BY <1>2, <1>3 DEF End, ManagerTypeOK

(* What registering and deferring do to the map of pending tasks.          *)
LEMMA RegisterEffect ==
  ASSUME ManagerTypeOK, NEW h \in Hashes, NEW b \in Contents, NEW txs \in SUBSET Callers,
         Register(h, b, txs)
  PROVE  /\ pending'[h] \in Task
         /\ \A k \in Hashes \ {h} : pending'[k] = pending[k]
         /\ pending'[h].result_transmitters =
              IF pending[h] = None THEN txs ELSE pending[h].result_transmitters \cup txs
         /\ pending'[h].block =
              IF pending[h] = None \/ pending[h].block = HeaderOnly THEN b ELSE pending[h].block
<1>1. CASE pending[h] = None
  <2>1. /\ pending' = [pending EXCEPT ![h] = BlockTaskInternal(b, txs)]
        /\ BlockTaskInternal(b, txs) \in Task
        /\ BlockTaskInternal(b, txs).result_transmitters = txs
        /\ BlockTaskInternal(b, txs).block = b
    BY <1>1 DEF Register, BlockTaskInternal, Task, NoDependents
  <2> QED BY <1>1, <2>1 DEF ManagerTypeOK
<1>2. CASE pending[h] # None
  <2>1. pending[h] \in Task
    BY <1>2 DEF ManagerTypeOK
  <2> QED BY <1>2, <2>1 DEF Register, ManagerTypeOK, Task
<1> QED BY <1>1, <1>2

(* Deferring a task adds it to the dependents of one pending parent only.  *)
LEMMA DeferEffect ==
  ASSUME ManagerTypeOK, NEW h \in Hashes, NEW p \in Hashes, TryBeginDeferred(h, p)
  PROVE  /\ pending[p] \in Task
         /\ pending'[p] \in Task
         /\ \A k \in Hashes \ {p} : pending'[k] = pending[k]
         /\ pending'[p].result_transmitters = pending[p].result_transmitters
         /\ pending'[p].block = pending[p].block
<1>1. pending[p] \in Task
  BY DEF TryBeginDeferred, ManagerTypeOK, Pending
<1> DEFINE deps == [pending[p].dependent_tasks EXCEPT ![h] = @ + 1]
<1>2. deps \in [Hashes -> Nat]
  BY <1>1 DEF Task
<1>3. pending' = [pending EXCEPT ![p] = [pending[p] EXCEPT !.dependent_tasks = deps]]
  BY DEF TryBeginDeferred, ManagerTypeOK
<1> HIDE DEF deps
<1> QED BY <1>1, <1>2, <1>3 DEF Task, ManagerTypeOK

(* How often a task is listed behind another is a natural number.          *)
LEMMA DepsType ==
  ASSUME ManagerTypeOK, NEW p \in Hashes, NEW h \in Hashes
  PROVE  Deps(p, h) \in Nat
BY DEF ManagerTypeOK, Deps, Task

(* OneHome survives each operation of the manager.                         *)
LEMMA RegisterHome ==
  ASSUME ManagerTypeOK, OneHome, NEW h \in Hashes, NEW b \in Contents,
         NEW txs \in SUBSET Callers, Register(h, b, txs)
  PROVE  OneHome'
<1>1. \A p, k \in Hashes : Deps(p, k)' = Deps(p, k)
  <2>1. CASE pending[h] = None
    <3>1. /\ pending' = [pending EXCEPT ![h] = BlockTaskInternal(b, txs)]
          /\ BlockTaskInternal(b, txs).dependent_tasks = NoDependents
      BY <2>1 DEF Register, BlockTaskInternal
    <3> QED BY <2>1, <3>1 DEF Deps, NoDependents, ManagerTypeOK
  <2>2. CASE pending[h] # None
    <3>1. pending[h] \in Task
      BY <2>2 DEF ManagerTypeOK
    <3>2. /\ \A k \in Hashes \ {h} : pending'[k] = pending[k]
          /\ pending'[h].dependent_tasks = pending[h].dependent_tasks
          /\ pending'[h] \in Task
      BY <2>2, <3>1 DEF Register, ManagerTypeOK, Task
    <3> QED BY <2>2, <3>2, NoneAssumption DEF Deps
  <2> QED BY <2>1, <2>2
<1>2. /\ \A k \in Hashes \ {h} : (pending'[k] = None) = (pending[k] = None)
      /\ pending'[h] # None
  BY RegisterEffect, NoneAssumption
<1>3. /\ running' = running
      /\ spawned' = IF pending[h] = None THEN [spawned EXCEPT ![h] = @ + 1] ELSE spawned
  BY DEF Register
<1> SUFFICES ASSUME NEW k \in Hashes PROVE Home(k)'
  BY DEF OneHome
<1>4. Home(k)
  BY DEF OneHome
<1>5. CASE k = h /\ pending[h] = None
  <2>1. /\ spawned[h] = 0 /\ running[h] = 0
        /\ \A p \in Hashes : Deps(p, h)' = 0
    BY <1>1, <1>4, <1>5 DEF Home
  <2>2. spawned'[h] = 1 /\ running'[h] = 0
    BY <1>3, <1>5, <2>1 DEF ManagerTypeOK
  <2> QED BY <1>2, <1>5, <2>1, <2>2 DEF Home
<1>6. CASE k # h \/ pending[h] # None
  <2>1. spawned'[k] = spawned[k] /\ running'[k] = running[k]
    BY <1>3, <1>6 DEF ManagerTypeOK
  <2>2. (pending'[k] = None) = (pending[k] = None)
    BY <1>2, <1>6
  <2>3. /\ \A p \in Hashes : Deps(p, k)' = Deps(p, k)
        /\ Parents[k] \subseteq Hashes
    BY <1>1, ParentsAssumption
  <2> QED BY <1>4, <2>1, <2>2, <2>3 DEF Home
<1> QED BY <1>5, <1>6

(* OneHome survives try_begin when it defers: the closure moves from the   *)
(* pool to the dependents of a parent.                                     *)
LEMMA DeferHome ==
  ASSUME ManagerTypeOK, OneHome, NEW h \in Hashes, NEW p \in Hashes, TryBeginDeferred(h, p)
  PROVE  OneHome'
<1>1. /\ p \in Parents[h] /\ p # h
      /\ pending[p] \in Task /\ pending[h] # None /\ spawned[h] \in Nat \ {0}
  BY ParentsAssumption DEF TryBeginDeferred, ManagerTypeOK, Pending
<1>2. /\ spawned[h] = 1 /\ running[h] = 0
      /\ \A q \in Hashes : Deps(q, h) = 0
  BY <1>1 DEF OneHome, Home, ManagerTypeOK
<1> DEFINE deps == [pending[p].dependent_tasks EXCEPT ![h] = @ + 1]
<1>3. /\ pending' = [pending EXCEPT ![p] = [pending[p] EXCEPT !.dependent_tasks = deps]]
      /\ deps \in [Hashes -> Nat]
  BY <1>1 DEF TryBeginDeferred, ManagerTypeOK, Task
<1>4. pending'[p] \in Task /\ pending'[p].dependent_tasks = deps
  BY <1>1, <1>3 DEF Task, ManagerTypeOK
<1>5. \A k \in Hashes : (pending'[k] = None) = (pending[k] = None)
  BY <1>1, <1>3, <1>4, NoneAssumption DEF ManagerTypeOK
<1>6. \A q, k \in Hashes : Deps(q, k)' = IF q = p /\ k = h THEN Deps(q, k) + 1 ELSE Deps(q, k)
  BY <1>1, <1>3, <1>4, NoneAssumption DEF Deps, ManagerTypeOK, Task
<1>7. running' = running /\ spawned' = [spawned EXCEPT ![h] = @ - 1]
  BY DEF TryBeginDeferred
<1> SUFFICES ASSUME NEW k \in Hashes PROVE Home(k)'
  BY DEF OneHome
<1>8. CASE k = h
  <2>1. spawned'[h] = 0 /\ running'[h] = 0 /\ pending'[h] # None
    BY <1>1, <1>2, <1>5, <1>7 DEF ManagerTypeOK
  <2>2. Deps(p, h)' = 1 /\ \A q \in Hashes \ {p} : Deps(q, h)' = 0
    BY <1>2, <1>6
  <2> QED BY <1>1, <1>8, <2>1, <2>2 DEF Home
<1>9. CASE k # h
  <2>1. spawned'[k] = spawned[k] /\ running'[k] = running[k]
    BY <1>7, <1>9 DEF ManagerTypeOK
  <2>2. /\ \A q \in Hashes : Deps(q, k)' = Deps(q, k)
        /\ Parents[k] \subseteq Hashes
    BY <1>6, <1>9, ParentsAssumption
  <2>3. Home(k) /\ (pending'[k] = None) = (pending[k] = None)
    BY <1>5 DEF OneHome
  <2> QED BY <2>1, <2>2, <2>3 DEF Home
<1> QED BY <1>8, <1>9

(* OneHome survives try_begin when it starts the task.                     *)
LEMMA BeginHome ==
  ASSUME ManagerTypeOK, OneHome, NEW h \in Hashes, TryBegin(h)
  PROVE  OneHome'
<1> SUFFICES ASSUME NEW k \in Hashes PROVE Home(k)'
  BY DEF OneHome
<1>1. /\ \A p \in Hashes : Deps(p, k)' = Deps(p, k)
      /\ pending'[k] = pending[k]
      /\ Parents[k] \subseteq Hashes
  BY ParentsAssumption DEF TryBegin, Deps
<1>2. Home(k)
  BY DEF OneHome
<1>3. CASE k = h
  <2>1. spawned[h] = 1 /\ running[h] = 0 /\ pending[h] # None
    BY <1>2, <1>3 DEF Home, TryBegin, ManagerTypeOK
  <2>2. spawned'[h] = 0 /\ running'[h] = 1
    BY <2>1 DEF TryBegin, ManagerTypeOK
  <2>3. \A p \in Hashes : Deps(p, h) = 0
    BY <1>2, <1>3, <2>1 DEF Home
  <2> QED BY <1>1, <1>3, <2>1, <2>2, <2>3 DEF Home
<1>4. CASE k # h
  <2>1. spawned'[k] = spawned[k] /\ running'[k] = running[k]
    BY <1>4 DEF TryBegin, ManagerTypeOK
  <2> QED BY <1>1, <1>2, <2>1 DEF Home
<1> QED BY <1>3, <1>4

(* OneHome survives end, which respawns every dependent of the task.       *)
LEMMA EndHome ==
  ASSUME ManagerTypeOK, OneHome, NEW h \in Hashes, End(h)
  PROVE  OneHome'
<1> SUFFICES ASSUME NEW k \in Hashes PROVE Home(k)'
  BY DEF OneHome
<1>1. /\ pending[h] \in Task
      /\ running[h] = 1 /\ spawned[h] = 0
      /\ \A p \in Hashes : Deps(p, h) = 0
  BY DEF End, OneHome, Home, ManagerTypeOK
<1>2. /\ pending'[h] = None
      /\ \A q \in Hashes \ {h} : pending'[q] = pending[q]
      /\ \A q \in Hashes : Deps(q, k)' = IF q = h THEN 0 ELSE Deps(q, k)
  BY DEF End, ManagerTypeOK, Deps
<1>3. /\ spawned'[k] = spawned[k] + Deps(h, k)
      /\ running'[k] = IF k = h THEN 0 ELSE running[k]
  BY <1>1, NoneAssumption DEF End, ManagerTypeOK, Deps
<1>4. CASE k = h
  BY <1>1, <1>2, <1>3, <1>4 DEF Home
<1>5. CASE k # h
  <2>1. /\ Home(k) /\ Parents[k] \subseteq Hashes
        /\ pending'[k] = pending[k] /\ running'[k] = running[k]
        /\ spawned[k] \in Nat /\ running[k] \in Nat
    BY <1>2, <1>3, <1>5, ParentsAssumption DEF OneHome, ManagerTypeOK
  <2>2. CASE Deps(h, k) = 0
    <3>1. \A q \in Hashes : Deps(q, k)' = Deps(q, k)
      BY <1>2, <2>2
    <3>2. spawned'[k] = spawned[k]
      BY <1>3, <2>1, <2>2
    <3> QED BY <2>1, <3>1, <3>2 DEF Home
  <2>3. CASE Deps(h, k) # 0
    <3>1. /\ pending[k] # None /\ spawned[k] = 0 /\ running[k] = 0
          /\ \E p \in Parents[k] : /\ Deps(p, k) = 1
                                  /\ \A q \in Hashes \ {p} : Deps(q, k) = 0
      BY <2>1, <2>3 DEF Home
    <3>2. Deps(h, k) = 1 /\ \A q \in Hashes \ {h} : Deps(q, k) = 0
      BY <2>1, <2>3, <3>1
    <3> QED BY <1>2, <1>3, <2>1, <3>1, <3>2 DEF Home
  <2> QED BY <2>2, <2>3
<1> QED BY <1>4, <1>5
=============================================================================
