---------------------------- MODULE StorageProofs ---------------------------
(***************************************************************************)
(* The stores are whole at every moment and no read is stale, for every    *)
(* DAG, every size of the caches, any number of crashes and every choice   *)
(* of the blocks that fail.  The invariant says what the batch of a task   *)
(* holds and which guards it has at each step, that a cached entry is what *)
(* the disk or the one batch with its key holds, and that a reader's copy  *)
(* is still what is on disk.                                               *)
(***************************************************************************)
EXTENDS Storage, TLAPS

\* Zenon is enough for most leaves; those that need SMT say so.
USE Zenon

HeaderSteps == {"insert", "staging", "hst", "relations", "status", "commit", "flush", "drop"}
BodySteps == {"insert", "tips", "status", "flush", "drop"}
UtxoSteps == {"insert", "status", "flush", "drop"}
Task ==
  {Idle} \cup [stage : {"header"}, step : HeaderSteps] \cup [stage : {"body"}, step : BodySteps]
    \cup [stage : {"utxo"}, step : UtxoSteps]

In(b, stage, steps) == pc[b].stage = stage /\ pc[b].step \in steps

TypeInv ==
  /\ owner \in [Locks -> All \cup {None}]
  /\ pc \in [All -> Task]
  /\ DOMAIN batch = All
  /\ node \in {"down", "header", "pruning", "body", "virtual", "past_pps", "running", "panicked"}
  /\ crashes \in Nat

\* The guards of each task.
Guarded(b) ==
  /\ In(b, "header", {"hst", "relations", "status", "commit", "flush", "drop"}) => owner["reachability"] = b
  /\ In(b, "header", {"relations", "status", "commit", "flush", "drop"}) => owner["hst"] = b
  /\ In(b, "header", {"status", "commit", "flush", "drop"}) => owner["relations"] = b
  /\ In(b, "header", {"commit", "flush", "drop"}) => owner["statuses"] = b
  /\ In(b, "body", {"status", "flush", "drop"}) => owner["tips"] = b
  /\ In(b, "body", {"flush", "drop"}) => owner["statuses"] = b
  /\ In(b, "utxo", {"flush", "drop"}) => owner["statuses"] = b

\* The keys in the batch of each task.
HeaderKeys(b) == {<<s, b>> : s \in HeaderStores}
RelationKeys(b) == {<<"parents", b>>, <<"children", b>>} \cup {<<"children", p>> : p \in ParentsOf(b)}
UtxoKeys(b) == {<<s, b>> : s \in UtxoStores}
Tip == <<"hst", Item>>
Tips == <<"tips", Item>>
Reach == <<"reachability", Item>>
StatusKey(b) == <<"statuses", b>>
KeysAt(b, at, tip) ==
  LET in(stage, steps) == at.stage = stage /\ at.step \in steps
  IN {k \in HeaderKeys(b) : in("header", {"staging", "hst", "relations", "status", "commit", "flush"})}
     \cup {k \in {Tip} : in("header", {"relations", "status", "commit", "flush"}) /\ b > tip}
     \cup {k \in RelationKeys(b) : in("header", {"status", "commit", "flush"})}
     \cup {k \in {StatusKey(b)} : in("header", {"commit"})}
     \cup {k \in {Reach} : in("header", {"flush"})}
     \cup {k \in {<<"transactions", b>>} : in("body", {"tips", "status", "flush"})}
     \cup {k \in {Tips} : in("body", {"status", "flush"})}
     \cup {k \in UtxoKeys(b) : in("utxo", {"status", "flush"})}
     \cup {k \in {StatusKey(b)} : at.step = "flush"}
Keys(b) == KeysAt(b, pc[b], disk[Tip])

\* The values that are not Data: what is on disk now with the block added.
Values(b) ==
  /\ Tip \in DOMAIN batch[b] => batch[b][Tip] = b
  /\ In(b, "header", {"status", "commit", "flush"}) =>
       /\ batch[b][<<"children", b>>] = {}
       /\ b \in Blocks => \A p \in Parents[b] :
            batch[b][<<"children", p>>] = disk[<<"children", p>>] \cup {b}
  /\ Reach \in DOMAIN batch[b] => batch[b][Reach] = disk[Reach] \cup {b}
  /\ Tips \in DOMAIN batch[b] => batch[b][Tips] = (disk[Tips] \ ParentsOf(b)) \cup {b}
  /\ StatusKey(b) \in DOMAIN batch[b] => batch[b][StatusKey(b)] = StageStatus[pc[b].stage]

BatchInv == \A b \in All : DOMAIN batch[b] = Keys(b) /\ Values(b)

\* A cached entry is the one of the batch that has its key, or of the disk.
Batched(key) == \E b \in All : key \in DOMAIN batch[b]
OnDiskNow(key, value) == key \in DOMAIN disk /\ disk[key] = value
CacheInv ==
  \A key \in DOMAIN cache :
    /\ Batched(key) \/ OnDiskNow(key, cache[key])
    /\ \A b \in All : key \in DOMAIN batch[b] => cache[key] = batch[b][key]

\* A reader's copy is still what is on disk, and nobody is replacing it.
ReaderInv == reader # None => OnDiskNow(reader.key, reader.value) /\ ~Batched(reader.key)

\* What the node found out before a task began is still so until the flush.
TaskInv(b) ==
  /\ In(b, "header", HeaderSteps \ {"drop"}) =>
       /\ DiskStatus(b) = None /\ OnDisk("hst", Item)
       /\ b \in Blocks => ~Fails(b, "header") /\ Parents[b] \subseteq Accepted
  /\ In(b, "body", BodySteps \ {"drop"}) =>
       /\ DiskStatus(b) = "HeaderOnly" /\ OnDisk("tips", Item)
       /\ b \in Blocks => Parents[b] \subseteq Bodies
  /\ In(b, "utxo", UtxoSteps \ {"drop"}) => DiskStatus(b) \in {"UTXOPending", "Disqualified"}

\* The disk, beyond what DiskConsistent says.
DiskKeys(b) ==
  /\ DiskStatus(b) \in Statuses \cup {None}
  /\ \A s \in HeaderStores \cup {"parents", "children"} : OnDisk(s, b) <=> b \in Accepted
  /\ OnDisk("transactions", b) <=> b \in Bodies
  /\ \A s \in UtxoStores : OnDisk(s, b) <=> DiskStatus(b) = "UTXOValid"
  /\ OnDisk("children", b) => disk[<<"children", b>>] = {c \in Accepted : b \in ParentsOf(c)}
DiskItems ==
  /\ OnDisk("reachability", Item) => disk[Reach] = Accepted
  /\ OnDisk("hst", Item) => disk[Tip] \in All /\ \A b \in Accepted : b <= disk[Tip]
  /\ OnDisk("tips", Item) => disk[Tips] = {b \in Bodies : \A c \in Bodies : b \notin ParentsOf(c)}
  /\ \A key \in DOMAIN disk : key[1] \in {"pruning", "virtual"} => disk[key] = Genesis
DiskClosed ==
  /\ Accepted # {} => Genesis \in Accepted /\ OnDisk("hst", Item) /\ OnDisk("reachability", Item)
  /\ Bodies # {} => Genesis \in Bodies /\ OnDisk("tips", Item)
  /\ \A b \in Accepted \ {Genesis} : Parents[b] \subseteq Accepted
  /\ \A b \in Bodies \ {Genesis} : Parents[b] \subseteq Bodies
DiskInv == (\A b \in All : DiskKeys(b)) /\ DiskItems /\ DiskClosed

\* How far the start of the node has come.
Done == pc[Genesis] = Idle \/ pc[Genesis].step = "drop"
NodeInv ==
  /\ node # "down" => OnDisk("reachability", Item)
  /\ node \notin {"running", "panicked"} => \A b \in Blocks : pc[b] = Idle
  /\ pc[Genesis].stage = "header" => node = "body"
  /\ pc[Genesis].stage = "body" => node = "virtual"
  /\ pc[Genesis].stage = "utxo" => node = "past_pps"
  /\ DiskStatus(Genesis) \in {None, "HeaderOnly", "UTXOPending", "UTXOValid"}
  /\ node = "pruning" => DiskStatus(Genesis) = None /\ OnDisk("hst", Item)
  /\ node = "body" /\ Done => DiskStatus(Genesis) # None
  /\ node = "virtual" /\ Done => DiskStatus(Genesis) \in {"UTXOPending", "UTXOValid"}
  /\ node = "past_pps" /\ Done => DiskStatus(Genesis) = "UTXOValid"
  /\ node \in {"running", "panicked"} => DiskStatus(Genesis) = "UTXOValid"
\* How far it has come when it was never stopped.
FirstStart ==
  crashes = 0 =>
    /\ node \in {"down", "header"} => DiskStatus(Genesis) = None
    /\ node = "body" /\ Done => DiskStatus(Genesis) = "HeaderOnly"
    /\ node = "virtual" /\ Done => DiskStatus(Genesis) = "UTXOPending"
    /\ node \in {"running", "panicked"} => OnDisk("past_pps", 0)

Inv ==
  /\ TypeInv /\ BatchInv /\ CacheInv /\ ReaderInv /\ DiskInv /\ NodeInv /\ FirstStart
  /\ \A b \in All : Guarded(b) /\ TaskInv(b)
-----------------------------------------------------------------------------
(* Keys, guards and values.                                                *)

(* A key is a pair.                                                        *)
LEMMA KeyFacts ==
  ASSUME NEW s, NEW x
  PROVE  /\ <<s, x>>[1] = s /\ <<s, x>>[2] = x
         /\ \A t, y : <<s, x>> = <<t, y>> <=> s = t /\ x = y
OBVIOUS

(* The guard of each store, if it has one.                                 *)
LEMMA LockFacts ==
  /\ LockOf("parents") = "relations" /\ LockOf("children") = "relations"
  /\ LockOf("hst") = "hst" /\ LockOf("tips") = "tips" /\ LockOf("statuses") = "statuses"
  /\ LockOf("reachability") = "reachability" /\ LockOf("reindex_root") = "reachability"
  /\ \A s \in AppendOnly \ {"parents"} : LockOf(s) = s /\ s \notin Locks
  /\ Locks = {"reachability", "hst", "relations", "statuses", "tips"}
<1>1. \A s : s \notin {"parents", "children", "reindex_root"} => LockOf(s) = s
  BY DEF LockOf
<1>2. LockOf("parents") = "relations" /\ LockOf("children") = "relations" /\ LockOf("reindex_root") = "reachability"
  BY DEF LockOf
<1>3. \A s \in AppendOnly \ {"parents"} : s \notin {"parents", "children", "reindex_root"} /\ s \notin Locks
  BY DEF AppendOnly, Locks
<1> QED BY SMT, <1>1, <1>2, <1>3 DEF Locks

(* The values of f, and where it has none those of g.                      *)
LEMMA Overlay ==
  ASSUME NEW f, NEW g
  PROVE  /\ \A k : k \in DOMAIN (f ++ g) <=> k \in DOMAIN f \/ k \in DOMAIN g
         /\ \A k \in DOMAIN f : (f ++ g)[k] = f[k]
         /\ \A k \in DOMAIN g : k \notin DOMAIN f => (f ++ g)[k] = g[k]
BY DEF ++

(* One entry.                                                              *)
LEMMA Single ==
  ASSUME NEW key, NEW value
  PROVE  DOMAIN (key :> value) = {key} /\ (key :> value)[key] = value
BY DEF :>

(* A write adds its entries to the cache, which may drop some.             *)
LEMMA Cached ==
  ASSUME NEW ws, cache' \in CacheInsert(cache, ws)
  PROVE  /\ \A k \in DOMAIN cache' : k \in DOMAIN ws \/ k \in DOMAIN cache
         /\ \A k \in DOMAIN cache' : k \in DOMAIN ws => cache'[k] = ws[k]
         /\ \A k \in DOMAIN cache' : k \notin DOMAIN ws => cache'[k] = cache[k]
<1>1. PICK dropped \in Evictions(cache, ws) :
        cache' = [k \in DOMAIN (ws ++ cache) \ dropped |-> (ws ++ cache)[k]]
  BY DEF CacheInsert
<1>2. /\ \A k \in DOMAIN cache' : k \in DOMAIN (ws ++ cache)
      /\ \A k \in DOMAIN cache' : cache'[k] = (ws ++ cache)[k]
  BY <1>1
<1> QED BY SMT, <1>2, Overlay

(* What a task has in its batch is under a guard it holds, or is data of   *)
(* its own block.                                                          *)
LEMMA KeyOwner ==
  ASSUME TypeInv, NEW b \in All, Guarded(b), NEW key \in Keys(b)
  PROVE  \/ LockOf(key[1]) \in Locks \ {"reachability"} /\ owner[LockOf(key[1])] = b
         \/ LockOf(key[1]) = "reachability" /\ owner["reachability"] = b /\ pc[b].step = "flush"
         \/ key[1] \in AppendOnly \ {"parents"} /\ key[2] = b /\ key = <<key[1], b>>
<1> USE DEF In
<1>1. CASE key \in HeaderKeys(b) \cup UtxoKeys(b) \cup {<<"transactions", b>>}
  <2>1. PICK s \in HeaderStores \cup UtxoStores \cup {"transactions"} : key = <<s, b>>
    BY <1>1 DEF HeaderKeys, UtxoKeys
  <2>2. s \in AppendOnly \ {"parents"}
    BY DEF HeaderStores, UtxoStores, AppendOnly
  <2> QED BY <2>1, <2>2, KeyFacts
<1>2. CASE key = Tip /\ In(b, "header", {"relations", "status", "commit", "flush"})
  BY <1>2, KeyFacts, LockFacts DEF Tip, Guarded, Locks
<1>3. CASE key \in RelationKeys(b) /\ In(b, "header", {"status", "commit", "flush"})
  <2>1. LockOf(key[1]) = "relations"
    BY SMT, <1>3, KeyFacts, LockFacts DEF RelationKeys
  <2> QED BY <1>3, <2>1 DEF Guarded, Locks
<1>4. CASE key = StatusKey(b) /\ (In(b, "header", {"commit"}) \/ pc[b].step = "flush")
  <2>1. owner["statuses"] = b
    BY SMT, <1>4, NoneAssumption DEF Guarded, TypeInv, Task, Idle, HeaderSteps, BodySteps, UtxoSteps, Steps
  <2> QED BY <1>4, <2>1, KeyFacts, LockFacts DEF StatusKey, Locks
<1>5. CASE key = Reach /\ In(b, "header", {"flush"})
  BY <1>5, KeyFacts, LockFacts DEF Reach, Guarded
<1>6. CASE key = Tips /\ In(b, "body", {"status", "flush"})
  BY <1>6, KeyFacts, LockFacts DEF Tips, Guarded, Locks
<1> QED BY <1>1, <1>2, <1>3, <1>4, <1>5, <1>6 DEF Keys, KeysAt

\* What the invariant says of the batches and the guards.
Tasks == TypeInv /\ BatchInv /\ \A b \in All : Guarded(b)

(* No key is in two batches.                                               *)
LEMMA Exclusive ==
  ASSUME Tasks, NEW b \in All, NEW c \in All, NEW key,
         key \in DOMAIN batch[b], key \in DOMAIN batch[c]
  PROVE  b = c
<1>1. key \in Keys(b) /\ key \in Keys(c)
  BY DEF Tasks, BatchInv
<1>2. \A d \in {b, c} :
        \/ LockOf(key[1]) \in Locks /\ owner[LockOf(key[1])] = d
        \/ LockOf(key[1]) \notin Locks /\ key[2] = d
  <2>1. SUFFICES ASSUME NEW d \in {b, c}
                 PROVE  \/ LockOf(key[1]) \in Locks /\ owner[LockOf(key[1])] = d
                        \/ LockOf(key[1]) \notin Locks /\ key[2] = d
    OBVIOUS
  <2>2. TypeInv /\ d \in All /\ Guarded(d) /\ key \in Keys(d)
    BY <1>1, <2>1 DEF Tasks
  <2>3. \/ LockOf(key[1]) \in Locks \ {"reachability"} /\ owner[LockOf(key[1])] = d
        \/ LockOf(key[1]) = "reachability" /\ owner["reachability"] = d
        \/ key[1] \in AppendOnly \ {"parents"} /\ key[2] = d
    BY <2>2, KeyOwner
  <2>4. "reachability" \in Locks /\ (key[1] \in AppendOnly \ {"parents"} => LockOf(key[1]) \notin Locks)
    BY LockFacts DEF Locks
  <2> QED BY <2>3, <2>4
<1> QED BY SMT, <1>2

(* No batch has an entry of a store whose guard is free, nor reachability  *)
(* before the guard is upgraded and the entry written.                     *)
LEMMA FreeStore ==
  ASSUME Tasks, NEW key, LockOf(key[1]) \in Locks,
         owner[LockOf(key[1])] = None \/ (LockOf(key[1]) = "reachability" /\ ~Upgraded)
  PROVE  ~Batched(key)
<1> SUFFICES ASSUME NEW b \in All, key \in DOMAIN batch[b] PROVE FALSE
  BY DEF Batched
<1>1. key \in Keys(b)
  BY DEF Tasks, BatchInv
<1>2. \/ LockOf(key[1]) # "reachability" /\ owner[LockOf(key[1])] = b
      \/ LockOf(key[1]) = "reachability" /\ owner["reachability"] = b /\ pc[b].step = "flush"
  <2>1. TypeInv /\ Guarded(b)
    BY DEF Tasks
  <2>2. \/ LockOf(key[1]) \in Locks \ {"reachability"} /\ owner[LockOf(key[1])] = b
        \/ LockOf(key[1]) = "reachability" /\ owner["reachability"] = b /\ pc[b].step = "flush"
        \/ key[1] \in AppendOnly \ {"parents"}
    BY <1>1, <2>1, KeyOwner
  <2>3. key[1] \in AppendOnly \ {"parents"} => LockOf(key[1]) \notin Locks
    BY LockFacts
  <2> QED BY <2>2, <2>3
<1>3. b # None
  BY NoneAssumption
<1> QED BY SMT, <1>2, <1>3 DEF Upgraded

(* Data of a block is in the batch of its own task only.                   *)
LEMMA OwnData ==
  ASSUME Tasks, NEW b \in All, NEW s \in AppendOnly \ {"parents"}, NEW c \in All,
         <<s, b>> \in DOMAIN batch[c]
  PROVE  b = c
<1>1. <<s, b>> \in Keys(c)
  BY DEF Tasks, BatchInv
<1>2. LockOf(<<s, b>>[1]) \notin Locks /\ "reachability" \in Locks
  BY KeyFacts, LockFacts DEF Locks
<1>3. <<s, b>>[2] = c
  BY <1>1, <1>2, KeyOwner DEF Tasks
<1> QED BY <1>3, KeyFacts

(* What no batch has is read as it is on disk.                             *)
LEMMA CurrentRead ==
  ASSUME CacheInv, NEW key, ~Batched(key)
  PROVE  /\ has(key) <=> key \in DOMAIN disk
         /\ key \in DOMAIN disk => read(key) = disk[key]
<1>1. key \in DOMAIN cache => key \in DOMAIN disk /\ disk[key] = cache[key]
  BY DEF CacheInv, OnDiskNow
<1> QED BY <1>1 DEF has, read

(* While the guard of the statuses is free they are read as on disk.       *)
LEMMA StatusRead ==
  ASSUME Tasks, CacheInv, owner["statuses"] = None, NEW b
  PROVE  Status(b) = DiskStatus(b)
<1>1. LockOf(<<"statuses", b>>[1]) = "statuses" /\ "statuses" \in Locks
  BY KeyFacts, LockFacts DEF Locks
<1>2. ~Batched(<<"statuses", b>>)
  BY <1>1, FreeStore
<1> QED BY <1>2, CurrentRead DEF Status, DiskStatus, OnDisk

(* Writes of new keys into a batch keep the caches exact.                  *)
LEMMA BatchedWrite ==
  ASSUME TypeInv, CacheInv, NEW b \in All, NEW ws, WriteBatched(b, ws),
         \A key \in DOMAIN ws : \A c \in All \ {b} : key \notin DOMAIN batch[c]
  PROVE  /\ DOMAIN batch' = All /\ \A c \in All \ {b} : batch'[c] = batch[c]
         /\ batch'[b] = ws ++ batch[b]
         /\ disk' = disk
         /\ CacheInv'
<1>1. /\ batch' = [batch EXCEPT ![b] = ws ++ batch[b]] /\ disk' = disk
      /\ cache' \in CacheInsert(cache, ws)
  BY DEF WriteBatched
<1>2. DOMAIN batch' = All /\ batch'[b] = ws ++ batch[b] /\ \A c \in All \ {b} : batch'[c] = batch[c]
  BY <1>1 DEF TypeInv
<1>3. ASSUME NEW key \in DOMAIN cache'
      PROVE  /\ Batched(key)' \/ OnDiskNow(key, cache[key])'
             /\ \A c \in All : key \in DOMAIN batch'[c] => cache'[key] = batch'[c][key]
  <2>1. CASE key \in DOMAIN ws
    <3>1. key \in DOMAIN batch'[b] /\ batch'[b][key] = ws[key] /\ cache'[key] = ws[key]
      BY SMT, <1>1, <1>2, <1>3, <2>1, Overlay, Cached
    <3> QED BY <1>2, <2>1, <3>1 DEF Batched
  <2>2. CASE key \notin DOMAIN ws
    <3>1. key \in DOMAIN cache /\ cache'[key] = cache[key]
      BY <1>1, <1>3, <2>2, Cached
    <3>2. /\ key \in DOMAIN batch'[b] <=> key \in DOMAIN batch[b]
          /\ key \in DOMAIN batch[b] => batch'[b][key] = batch[b][key]
      BY SMT, <1>2, <2>2, Overlay
    <3>3. \A c \in All : /\ key \in DOMAIN batch'[c] <=> key \in DOMAIN batch[c]
                         /\ key \in DOMAIN batch[c] => batch'[c][key] = batch[c][key]
      BY <1>2, <3>2
    <3> QED BY <1>1, <3>1, <3>3 DEF CacheInv, Batched, OnDiskNow
  <2> QED BY <2>1, <2>2
<1>4. CacheInv'
  BY <1>3 DEF CacheInv
<1> QED BY <1>1, <1>2, <1>4

(* So do direct writes of keys that no batch has.                          *)
LEMMA DirectWrite ==
  ASSUME CacheInv, NEW ws, WriteDirect(ws), \A key \in DOMAIN ws : ~Batched(key)
  PROVE  /\ batch' = batch /\ disk' = ws ++ disk
         /\ CacheInv'
<1>1. batch' = batch /\ disk' = ws ++ disk /\ cache' \in CacheInsert(cache, ws)
  BY DEF WriteDirect
<1>2. ASSUME NEW key \in DOMAIN cache'
      PROVE  /\ Batched(key)' \/ OnDiskNow(key, cache[key])'
             /\ \A c \in All : key \in DOMAIN batch'[c] => cache'[key] = batch'[c][key]
  <2>1. CASE key \in DOMAIN ws
    <3>1. key \in DOMAIN disk' /\ disk'[key] = ws[key] /\ cache'[key] = ws[key]
      BY SMT, <1>1, <1>2, <2>1, Overlay, Cached
    <3> QED BY <1>1, <2>1, <3>1 DEF Batched, OnDiskNow
  <2>2. CASE key \notin DOMAIN ws
    <3>1. key \in DOMAIN cache /\ cache'[key] = cache[key]
      BY <1>1, <1>2, <2>2, Cached
    <3>2. key \in DOMAIN disk => key \in DOMAIN disk' /\ disk'[key] = disk[key]
      BY SMT, <1>1, <2>2, Overlay
    <3> QED BY <1>1, <3>1, <3>2 DEF CacheInv, Batched, OnDiskNow
  <2> QED BY <2>1, <2>2
<1>3. CacheInv'
  BY <1>2 DEF CacheInv
<1> QED BY <1>1, <1>3
-----------------------------------------------------------------------------
(* The steps of a commit that write to its batch.                          *)

(* What is on disk is the same when the disk is.                           *)
LEMMA DiskFrame ==
  ASSUME disk' = disk, bad' = bad
  PROVE  /\ \A s, x : OnDisk(s, x)' <=> OnDisk(s, x)
         /\ \A x : DiskStatus(x)' = DiskStatus(x)
         /\ \A x, s : Fails(x, s)' <=> Fails(x, s)
         /\ Accepted' = Accepted /\ Bodies' = Bodies
         /\ DiskInv => DiskInv'
<1>1. \A s, x : OnDisk(s, x)' <=> OnDisk(s, x)
  BY DEF OnDisk
<1>2. \A x : DiskStatus(x)' = DiskStatus(x)
  BY <1>1 DEF DiskStatus
<1>3. \A x, s : Fails(x, s)' <=> Fails(x, s)
  BY DEF Fails
<1>4. Accepted' = Accepted
  BY <1>2, <1>3 DEF Accepted
<1>5. Bodies' = Bodies
  BY <1>2, <1>4 DEF Bodies
<1>6. ASSUME NEW b \in All, DiskKeys(b) PROVE DiskKeys(b)'
  BY <1>1, <1>2, <1>4, <1>5, <1>6 DEF DiskKeys
<1>7. DiskItems => DiskItems'
  BY <1>1, <1>4, <1>5 DEF DiskItems
<1>8. DiskClosed => DiskClosed'
  BY <1>1, <1>4, <1>5 DEF DiskClosed
<1> QED BY <1>1, <1>2, <1>3, <1>4, <1>5, <1>6, <1>7, <1>8 DEF DiskInv

(* The facts a task rests on stay when neither the disk nor the task       *)
(* changes.                                                                *)
LEMMA TaskFrame ==
  ASSUME disk' = disk, bad' = bad, NEW c \in All, pc'[c] = pc[c], TaskInv(c)
  PROVE  TaskInv(c)'
<1>1. \A stage, steps : In(c, stage, steps)' <=> In(c, stage, steps)
  BY DEF In
<1> QED BY <1>1, DiskFrame DEF TaskInv

(* So do its batch and its guards, when other tasks only take free ones.   *)
LEMMA BatchFrame ==
  ASSUME disk' = disk, NEW c \in All, pc'[c] = pc[c], batch'[c] = batch[c],
         DOMAIN batch[c] = Keys(c), Values(c)
  PROVE  DOMAIN batch'[c] = Keys(c)' /\ Values(c)'
<1>1. \A stage, steps : In(c, stage, steps)' <=> In(c, stage, steps)
  BY DEF In
<1>2. Keys(c)' = Keys(c)
  BY DEF Keys
<1>3. Values(c)'
  BY <1>1 DEF Values
<1> QED BY <1>2, <1>3

(* A task's guards stay while nobody takes them from it.                   *)
LEMMA GuardFrame ==
  ASSUME NEW c \in All, pc'[c] = pc[c], Guarded(c),
         \A l \in Locks : owner[l] = c => owner'[l] = c
  PROVE  Guarded(c)'
<1>1. \A stage, steps : In(c, stage, steps)' <=> In(c, stage, steps)
  BY DEF In
<1>2. {"reachability", "hst", "relations", "statuses", "tips"} \subseteq Locks
  BY DEF Locks
<1> QED BY <1>1, <1>2 DEF Guarded

(* The stage of a task that is at some step, and the steps of the stage.   *)
LEMMA TaskFacts ==
  ASSUME NEW at \in Task
  PROVE  /\ at = Idle \/ at.stage \in Stages
         /\ at.stage = "header" => at.step \in HeaderSteps
         /\ at.stage = "body" => at.step \in BodySteps
         /\ at.stage = "utxo" => at.step \in UtxoSteps
         /\ at = Idle <=> at.step = None
         /\ at = Idle <=> at.stage = None
         /\ at # Idle => at.step \in Steps /\ at = [stage |-> at.stage, step |-> at.step]
<1>1. Idle.stage = None /\ Idle.step = None
  BY DEF Idle
<1>2. None \notin Stages /\ None \notin Steps /\ "header" \in Stages /\ "body" \in Stages /\ "utxo" \in Stages
  BY NoneAssumption DEF Stages
<1>3. HeaderSteps \subseteq Steps /\ BodySteps \subseteq Steps /\ UtxoSteps \subseteq Steps
  BY DEF HeaderSteps, BodySteps, UtxoSteps, Steps
<1>4. CASE at = Idle
  BY SMT, <1>1, <1>2, <1>4 DEF Stages
<1>5. CASE at \in [stage : {"header"}, step : HeaderSteps]
  BY SMT, <1>1, <1>2, <1>3, <1>5 DEF Stages
<1>6. CASE at \in [stage : {"body"}, step : BodySteps]
  BY SMT, <1>1, <1>2, <1>3, <1>6 DEF Stages
<1>7. CASE at \in [stage : {"utxo"}, step : UtxoSteps]
  BY SMT, <1>1, <1>2, <1>3, <1>7 DEF Stages
<1> QED BY <1>4, <1>5, <1>6, <1>7 DEF Task

(* A step of a commit changes the step only.                               *)
LEMMA Gone ==
  ASSUME pc \in [All -> Task], NEW b \in All, NEW stage, NEW step, NEW next, At(b, stage, step), GoTo(b, next),
         [stage |-> stage, step |-> next] \in Task
  PROVE  /\ pc' \in [All -> Task] /\ pc'[b] = [stage |-> stage, step |-> next]
         /\ pc[b].stage = stage /\ pc[b].step = step
         /\ pc'[b].stage = stage /\ pc'[b].step = next
         /\ \A c \in All \ {b} : pc'[c] = pc[c]
<1>1. pc[b] = [stage |-> stage, step |-> step]
  BY DEF At
<1>2. pc' = [pc EXCEPT ![b] = [stage |-> stage, step |-> next]]
  <2>1. [[stage |-> stage, step |-> step] EXCEPT !.step = next] = [stage |-> stage, step |-> next]
    BY SMT
  <2>2. pc' = [pc EXCEPT ![b] = [pc[b] EXCEPT !.step = next]]
    BY DEF GoTo
  <2> QED BY <1>1, <2>1, <2>2
<1> QED BY SMT, <1>1, <1>2

(* The start of the node rests on the disk and on whether the task of      *)
(* genesis is under way.                                                   *)
LEMMA NodeFrame ==
  ASSUME Inv, disk' = disk, UNCHANGED <<node, crashes, bad>>, NEW b \in All,
         \A c \in All \ {b} : pc'[c] = pc[c], pc'[b].stage = pc[b].stage,
         pc[b] # Idle, pc'[b] # Idle, pc[b].step # "drop", pc'[b].step # "drop"
  PROVE  NodeInv' /\ FirstStart'
<1>1. (Done <=> Done') /\ pc'[Genesis].stage = pc[Genesis].stage
  <2>1. CASE b = Genesis
    BY <2>1 DEF Done
  <2>2. CASE b # Genesis
    <3>1. pc'[Genesis] = pc[Genesis]
      BY <2>2 DEF All
    <3> QED BY <3>1 DEF Done
  <2> QED BY <2>1, <2>2
<1>2. node \notin {"running", "panicked"} => \A c \in Blocks : pc'[c] = Idle
  BY DEF Inv, NodeInv, All
<1>3. NodeInv'
  BY <1>1, <1>2, DiskFrame DEF Inv, NodeInv
<1>4. FirstStart'
  BY <1>1, DiskFrame DEF Inv, FirstStart
<1> QED BY <1>3, <1>4

(* A step that adds to its batch what is due at the next step, under free  *)
(* or own guards and beside every reader, keeps the invariant.             *)
LEMMA Advance ==
  ASSUME Inv, NEW b \in All, NEW ws, WriteBatched(b, ws),
         pc' \in [All -> Task], \A c \in All \ {b} : pc'[c] = pc[c], pc'[b].stage = pc[b].stage,
         pc[b].step \in Steps \ {"drop"}, pc'[b].step \in Steps \ {"drop"},
         owner' \in [Locks -> All \cup {None}],
         \A l \in Locks : owner'[l] = owner[l] \/ (owner[l] = None /\ owner'[l] = b),
         UNCHANGED <<reader, node, crashes, bad>>,
         \A key \in DOMAIN ws : \A c \in All \ {b} : key \notin DOMAIN batch[c],
         reader # None => reader.key \notin DOMAIN ws,
         DOMAIN (ws ++ batch[b]) = Keys(b)', Values(b)', Guarded(b)'
  PROVE  Inv'
<1>1. /\ DOMAIN batch' = All /\ batch'[b] = ws ++ batch[b] /\ disk' = disk /\ CacheInv'
      /\ \A c \in All \ {b} : batch'[c] = batch[c]
  BY BatchedWrite DEF Inv
<1>2. TypeInv'
  BY <1>1 DEF Inv, TypeInv
<1>3. BatchInv'
  <2>1. ASSUME NEW c \in All \ {b} PROVE DOMAIN batch'[c] = Keys(c)' /\ Values(c)'
    BY <1>1, <2>1, BatchFrame DEF Inv, BatchInv
  <2> QED BY <1>1, <2>1 DEF BatchInv
<1>4. ReaderInv'
  <2>1. ASSUME reader # None PROVE ~Batched(reader.key)'
    <3>1. \A c \in All : reader.key \notin DOMAIN batch[c]
      BY <2>1 DEF Inv, ReaderInv, Batched
    <3>2. reader.key \notin DOMAIN batch'[b]
      BY SMT, <1>1, <2>1, <3>1, Overlay
    <3> QED BY <1>1, <3>1, <3>2 DEF Batched
  <2> QED BY <1>1, <2>1 DEF Inv, ReaderInv, OnDiskNow
<1>5. ASSUME NEW c \in All PROVE Guarded(c)'
  <2>1. CASE c # b
    <3>1. c # None
      BY NoneAssumption
    <3>2. \A l \in Locks : owner[l] = c => owner'[l] = c
      BY <3>1
    <3> QED BY <2>1, <3>2, GuardFrame DEF Inv
  <2> QED BY <2>1
<1>6. pc[b] # Idle /\ pc'[b] # Idle
  <2>1. pc[b] \in Task /\ pc'[b] \in Task /\ None \notin Steps
    BY NoneAssumption DEF Inv, TypeInv
  <2> QED BY <2>1, TaskFacts
<1>7. ASSUME NEW c \in All PROVE TaskInv(c)'
  <2>1. CASE c # b
    BY <1>1, <2>1, TaskFrame DEF Inv
  <2>2. CASE c = b
    <3>1. /\ In(b, "header", HeaderSteps \ {"drop"})' => In(b, "header", HeaderSteps \ {"drop"})
          /\ In(b, "body", BodySteps \ {"drop"})' => In(b, "body", BodySteps \ {"drop"})
          /\ In(b, "utxo", UtxoSteps \ {"drop"})' => In(b, "utxo", UtxoSteps \ {"drop"})
      BY TaskFacts DEF In, Inv, TypeInv
    <3> QED BY <1>1, <2>2, <3>1, DiskFrame DEF Inv, TaskInv
  <2> QED BY <2>1, <2>2
<1>8. NodeInv' /\ FirstStart'
  BY <1>1, <1>6, NodeFrame
<1>9. DiskInv'
  BY <1>1, DiskFrame DEF Inv
<1> QED BY <1>1, <1>2, <1>3, <1>4, <1>5, <1>7, <1>8, <1>9 DEF Inv

\* A task's place.
Place(stage, step) == [stage |-> stage, step |-> step]

(* The keys in a batch at each step.                                       *)
LEMMA KeysHeader ==
  ASSUME NEW b, NEW t
  PROVE  /\ KeysAt(b, Place("header", "insert"), t) = {}
         /\ KeysAt(b, Place("header", "staging"), t) = HeaderKeys(b)
         /\ KeysAt(b, Place("header", "hst"), t) = HeaderKeys(b)
         /\ KeysAt(b, Place("header", "relations"), t) = HeaderKeys(b) \cup {k \in {Tip} : b > t}
         /\ KeysAt(b, Place("header", "status"), t) = HeaderKeys(b) \cup {k \in {Tip} : b > t} \cup RelationKeys(b)
         /\ KeysAt(b, Place("header", "commit"), t) =
              HeaderKeys(b) \cup {k \in {Tip} : b > t} \cup RelationKeys(b) \cup {StatusKey(b)}
         /\ KeysAt(b, Place("header", "flush"), t) =
              HeaderKeys(b) \cup {k \in {Tip} : b > t} \cup RelationKeys(b) \cup {StatusKey(b), Reach}
         /\ KeysAt(b, Place("header", "drop"), t) = {}
<1> USE DEF KeysAt, Place
<1>1. KeysAt(b, Place("header", "insert"), t) = {}
  OBVIOUS
<1>2. KeysAt(b, Place("header", "staging"), t) = HeaderKeys(b)
  OBVIOUS
<1>3. KeysAt(b, Place("header", "hst"), t) = HeaderKeys(b)
  OBVIOUS
<1>4. KeysAt(b, Place("header", "relations"), t) = HeaderKeys(b) \cup {k \in {Tip} : b > t}
  OBVIOUS
<1>5. KeysAt(b, Place("header", "status"), t) = HeaderKeys(b) \cup {k \in {Tip} : b > t} \cup RelationKeys(b)
  OBVIOUS
<1>6. KeysAt(b, Place("header", "commit"), t) =
        HeaderKeys(b) \cup {k \in {Tip} : b > t} \cup RelationKeys(b) \cup {StatusKey(b)}
  OBVIOUS
<1>7. KeysAt(b, Place("header", "flush"), t) =
        HeaderKeys(b) \cup {k \in {Tip} : b > t} \cup RelationKeys(b) \cup {StatusKey(b), Reach}
  OBVIOUS
<1>8. KeysAt(b, Place("header", "drop"), t) = {}
  OBVIOUS
<1> QED BY <1>1, <1>2, <1>3, <1>4, <1>5, <1>6, <1>7, <1>8

(* The same for bodies, UTXO data and no task.                             *)
LEMMA KeysOther ==
  ASSUME NEW b, NEW t
  PROVE  /\ KeysAt(b, Place("body", "insert"), t) = {}
         /\ KeysAt(b, Place("body", "tips"), t) = {<<"transactions", b>>}
         /\ KeysAt(b, Place("body", "status"), t) = {<<"transactions", b>>, Tips}
         /\ KeysAt(b, Place("body", "flush"), t) = {<<"transactions", b>>, Tips, StatusKey(b)}
         /\ KeysAt(b, Place("body", "drop"), t) = {}
         /\ KeysAt(b, Place("utxo", "insert"), t) = {}
         /\ KeysAt(b, Place("utxo", "status"), t) = UtxoKeys(b)
         /\ KeysAt(b, Place("utxo", "flush"), t) = UtxoKeys(b) \cup {StatusKey(b)}
         /\ KeysAt(b, Place("utxo", "drop"), t) = {}
         /\ KeysAt(b, Idle, t) = {}
<1> USE DEF KeysAt, Place
<1>1. KeysAt(b, Place("body", "insert"), t) = {} /\ KeysAt(b, Place("body", "tips"), t) = {<<"transactions", b>>}
  OBVIOUS
<1>2. KeysAt(b, Place("body", "status"), t) = {<<"transactions", b>>, Tips}
  OBVIOUS
<1>3. KeysAt(b, Place("body", "flush"), t) = {<<"transactions", b>>, Tips, StatusKey(b)}
  OBVIOUS
<1>4. KeysAt(b, Place("body", "drop"), t) = {}
  OBVIOUS
<1>5. KeysAt(b, Place("utxo", "insert"), t) = {} /\ KeysAt(b, Place("utxo", "drop"), t) = {}
  OBVIOUS
<1>6. KeysAt(b, Place("utxo", "status"), t) = UtxoKeys(b)
  OBVIOUS
<1>7. KeysAt(b, Place("utxo", "flush"), t) = UtxoKeys(b) \cup {StatusKey(b)}
  OBVIOUS
<1>8. KeysAt(b, Idle, t) = {}
  <2>1. Idle.stage = None /\ Idle.step = None
    BY DEF Idle
  <2>2. None \notin {"header", "body", "utxo", "flush"}
    BY NoneAssumption DEF Stages, Steps
  <2> QED BY <2>1, <2>2
<1> QED BY <1>1, <1>2, <1>3, <1>4, <1>5, <1>6, <1>7, <1>8

(* The store of each key.                                                  *)
LEMMA KeyKinds ==
  ASSUME NEW b
  PROVE  /\ \A k \in HeaderKeys(b) : k[1] \in {"ghostdag", "daa", "headers", "depth"}
         /\ \A k \in UtxoKeys(b) : k[1] \in {"diffs", "multisets", "acceptance"}
         /\ \A k \in RelationKeys(b) : k[1] \in {"parents", "children"}
         /\ Tip[1] = "hst" /\ Tips[1] = "tips" /\ Reach[1] = "reachability"
         /\ StatusKey(b)[1] = "statuses" /\ <<"transactions", b>>[1] = "transactions"
<1>1. \A k \in HeaderKeys(b) : k[1] \in {"ghostdag", "daa", "headers", "depth"}
  BY SMT DEF HeaderKeys, HeaderStores
<1>2. \A k \in UtxoKeys(b) : k[1] \in {"diffs", "multisets", "acceptance"}
  BY SMT DEF UtxoKeys, UtxoStores
<1>3. \A k \in RelationKeys(b) : k[1] \in {"parents", "children"}
  BY SMT DEF RelationKeys
<1> QED BY <1>1, <1>2, <1>3, KeyFacts DEF Tip, Tips, Reach, StatusKey

(* So keys of different stores are different.                              *)
LEMMA KeysDiffer ==
  ASSUME NEW b
  PROVE  /\ Tip # Tips /\ Tip # Reach /\ Tip # StatusKey(b) /\ Tip # <<"transactions", b>>
         /\ Tips # Reach /\ Tips # StatusKey(b) /\ Tips # <<"transactions", b>>
         /\ Reach # StatusKey(b) /\ Reach # <<"transactions", b>> /\ StatusKey(b) # <<"transactions", b>>
         /\ \A k \in {Tip, Tips, Reach, StatusKey(b), <<"transactions", b>>} :
              k \notin HeaderKeys(b) /\ k \notin UtxoKeys(b) /\ k \notin RelationKeys(b)
<1>1. \A s, t, x, y : s # t => <<s, x>> # <<t, y>>
  BY KeyFacts
<1>2. \A k \in {Tip, Tips, Reach, StatusKey(b), <<"transactions", b>>} :
        k[1] \in {"hst", "tips", "reachability", "statuses", "transactions"}
  BY KeyKinds
<1> QED BY <1>1, <1>2, KeyKinds DEF Tip, Tips, Reach, StatusKey

(* New data of a task's own block is in no other batch, and not what a     *)
(* reader has found.                                                       *)
LEMMA NewData ==
  ASSUME Inv, NEW b \in All, NEW ws, Insertable(ws),
         \A key \in DOMAIN ws : \E s \in AppendOnly \ {"parents"} : key = <<s, b>>
  PROVE  /\ \A key \in DOMAIN ws : \A c \in All \ {b} : key \notin DOMAIN batch[c]
         /\ reader # None => reader.key \notin DOMAIN ws
<1>1. Tasks
  BY DEF Inv, Tasks
<1>2. ASSUME NEW key \in DOMAIN ws, NEW c \in All \ {b} PROVE key \notin DOMAIN batch[c]
  <2>1. PICK s \in AppendOnly \ {"parents"} : key = <<s, b>>
    OBVIOUS
  <2>2. <<s, b>> \in DOMAIN batch[c] => b = c
    BY <1>1, OwnData
  <2> QED BY <2>1, <2>2
<1>3. ASSUME reader # None, reader.key \in DOMAIN ws PROVE FALSE
  <2>1. reader.key[1] \in AppendOnly
    <3>1. PICK s \in AppendOnly \ {"parents"} : reader.key = <<s, b>>
      BY <1>3
    <3> QED BY SMT, <3>1
  <2>2. reader.key \in DOMAIN disk
    BY <1>3 DEF Inv, ReaderInv, OnDiskNow
  <2> QED BY <1>3, <2>1, <2>2 DEF Insertable, has
<1> QED BY <1>2, <1>3

(* What is written under a guard of its own is in no batch either, is not  *)
(* what a reader has found, and what is read under the guard is what is on *)
(* disk.                                                                   *)
LEMMA NewLocked ==
  ASSUME Inv, NEW lock \in Locks, ~ReaderHolds(lock),
         owner[lock] = None \/ (lock = "reachability" /\ ~Upgraded)
  PROVE  \A key : LockOf(key[1]) = lock =>
           /\ ~Batched(key) /\ \A c \in All : key \notin DOMAIN batch[c]
           /\ reader # None => reader.key # key
           /\ has(key) <=> key \in DOMAIN disk
           /\ key \in DOMAIN disk => read(key) = disk[key]
<1> SUFFICES ASSUME NEW key, LockOf(key[1]) = lock
             PROVE  /\ ~Batched(key) /\ \A c \in All : key \notin DOMAIN batch[c]
                    /\ reader # None => reader.key # key
                    /\ has(key) <=> key \in DOMAIN disk
                    /\ key \in DOMAIN disk => read(key) = disk[key]
  OBVIOUS
<1>1. Tasks
  BY DEF Inv, Tasks
<1>2. ~Batched(key)
  BY <1>1, FreeStore
<1>3. reader # None => reader.key # key
  BY DEF ReaderHolds
<1>4. (has(key) <=> key \in DOMAIN disk) /\ (key \in DOMAIN disk => read(key) = disk[key])
  BY <1>2, CurrentRead DEF Inv
<1> QED BY <1>2, <1>3, <1>4 DEF Batched

(* The task's own batch before a step.                                     *)
LEMMA Before ==
  ASSUME Inv, NEW b \in All, NEW stage, NEW step, At(b, stage, step)
  PROVE  /\ pc[b].stage = stage /\ pc[b].step = step
         /\ DOMAIN batch[b] = KeysAt(b, Place(stage, step), disk[Tip]) /\ Values(b)
         /\ pc \in [All -> Task] /\ owner \in [Locks -> All \cup {None}] /\ DOMAIN batch = All
         /\ Guarded(b) /\ TaskInv(b) /\ Tasks
<1>1. pc[b].stage = stage /\ pc[b].step = step
  BY SMT DEF At
<1> QED BY <1>1 DEF Inv, BatchInv, Keys, At, Place, TypeInv, Tasks

(* Every place of a commit is one of a task.                               *)
LEMMA Places ==
  /\ \A step \in HeaderSteps : Place("header", step) \in Task
  /\ \A step \in BodySteps : Place("body", step) \in Task
  /\ \A step \in UtxoSteps : Place("utxo", step) \in Task
BY SMT DEF Place, Task

\* What a step that writes ws to a batch leaves.
After(b, stage, step, next, ws) ==
  /\ pc' \in [All -> Task] /\ \A c \in All \ {b} : pc'[c] = pc[c]
  /\ pc[b].stage = stage /\ pc[b].step = step /\ pc'[b].stage = stage /\ pc'[b].step = next
  /\ disk' = disk /\ batch'[b] = ws ++ batch[b]
  /\ DOMAIN (ws ++ batch[b]) = DOMAIN ws \cup KeysAt(b, Place(stage, step), disk[Tip])
  /\ Keys(b)' = KeysAt(b, Place(stage, next), disk[Tip])
  /\ \A key \in DOMAIN ws : batch'[b][key] = ws[key]
  /\ \A key \in DOMAIN batch[b] : key \notin DOMAIN ws => batch'[b][key] = batch[b][key]

(* It leaves that.                                                         *)
LEMMA Written ==
  ASSUME Inv, NEW b \in All, NEW stage, NEW step, NEW next, At(b, stage, step), GoTo(b, next),
         Place(stage, next) \in Task, NEW ws, WriteBatched(b, ws)
  PROVE  After(b, stage, step, next, ws)
<1>1. /\ pc \in [All -> Task] /\ DOMAIN batch[b] = KeysAt(b, Place(stage, step), disk[Tip])
      /\ DOMAIN batch = All
  BY Before
<1>2. /\ pc' \in [All -> Task] /\ pc'[b] = Place(stage, next)
      /\ \A c \in All \ {b} : pc'[c] = pc[c]
      /\ pc[b].stage = stage /\ pc[b].step = step
      /\ pc'[b].stage = stage /\ pc'[b].step = next
  BY SMT, <1>1, Gone DEF Place
<1>3. disk' = disk /\ batch'[b] = ws ++ batch[b]
  BY <1>1 DEF WriteBatched
<1>4. DOMAIN (ws ++ batch[b]) = DOMAIN ws \cup KeysAt(b, Place(stage, step), disk[Tip])
  BY <1>1 DEF ++
<1>5. Keys(b)' = KeysAt(b, Place(stage, next), disk[Tip])
  BY <1>2, <1>3 DEF Keys
<1>6. /\ \A key \in DOMAIN ws : batch'[b][key] = ws[key]
      /\ \A key \in DOMAIN batch[b] : key \notin DOMAIN ws => batch'[b][key] = batch[b][key]
  BY SMT, <1>3, Overlay
<1> QED BY <1>2, <1>3, <1>4, <1>5, <1>6 DEF After

(* What taking a free guard leaves.                                        *)
LEMMA Took ==
  ASSUME Inv, NEW b \in All, NEW lock \in Locks, Take(b, lock)
  PROVE  /\ owner' \in [Locks -> All \cup {None}]
         /\ \A l \in Locks : owner'[l] = owner[l] \/ (owner[l] = None /\ owner'[l] = b)
         /\ owner'[lock] = b /\ \A l \in Locks \ {lock} : owner'[l] = owner[l]
         /\ owner[lock] = None /\ ~ReaderHolds(lock)
<1>1. owner \in [Locks -> All \cup {None}]
  BY DEF Inv, TypeInv
<1> QED BY <1>1 DEF Take, MayWrite

(* The first writes of a header.                                           *)
LEMMA HeaderInsertStep ==
  ASSUME Inv, NEW b \in All, HeaderInsert(b)
  PROVE  Inv'
<1> DEFINE ws == ghostdag_insert(b) ++ daa_insert(b) ++ headers_insert(b) ++ depth_insert(b)
<1>1. /\ At(b, "header", "insert") /\ WriteBatched(b, ws) /\ GoTo(b, "staging")
      /\ UNCHANGED <<owner, reader, node, crashes, bad>>
  BY DEF HeaderInsert
<1>2. DOMAIN ws = HeaderKeys(b)
  <2>1. DOMAIN ws = {<<"ghostdag", b>>} \cup {<<"daa", b>>} \cup {<<"headers", b>>} \cup {<<"depth", b>>}
    BY DEF ghostdag_insert, daa_insert, headers_insert, depth_insert, :>, ++
  <2> QED BY SMT, <2>1 DEF HeaderKeys, HeaderStores
<1> HIDE DEF ws
<1>3. Place("header", "staging") \in Task
  BY Places DEF HeaderSteps
<1>4. After(b, "header", "insert", "staging", ws)
  BY <1>1, <1>3, Written
<1>5. /\ \A key \in DOMAIN ws : \A c \in All \ {b} : key \notin DOMAIN batch[c]
      /\ reader # None => reader.key \notin DOMAIN ws
  <2>1. \A key \in DOMAIN ws : \E s \in AppendOnly \ {"parents"} : key = <<s, b>>
    BY <1>2 DEF HeaderKeys, HeaderStores, AppendOnly
  <2> QED BY <1>1, <2>1, NewData DEF WriteBatched
<1>6. DOMAIN (ws ++ batch[b]) = HeaderKeys(b) /\ Keys(b)' = HeaderKeys(b)
  BY <1>2, <1>4, KeysHeader DEF After
<1>7. Values(b)' /\ Guarded(b)'
  <2>1. {Tip, Tips, Reach, StatusKey(b)} \cap DOMAIN batch'[b] = {}
    BY <1>4, <1>6, KeyKinds DEF After
  <2> QED BY <1>4, <2>1 DEF Values, Guarded, In, After
<1>8. owner' \in [Locks -> All \cup {None}] /\ \A l \in Locks : owner'[l] = owner[l]
  BY <1>1, Before
<1>9. pc[b].step \in Steps \ {"drop"} /\ pc'[b].step \in Steps \ {"drop"}
  BY <1>4 DEF After, Steps
<1> QED BY <1>1, <1>4, <1>5, <1>6, <1>7, <1>8, <1>9, Advance DEF After

(* The transactions of a body.                                             *)
LEMMA BodyInsertStep ==
  ASSUME Inv, NEW b \in All, BodyInsert(b)
  PROVE  Inv'
<1> DEFINE ws == block_transactions_insert(b)
<1>1. /\ At(b, "body", "insert") /\ WriteBatched(b, ws) /\ GoTo(b, "tips")
      /\ UNCHANGED <<owner, reader, node, crashes, bad>>
  BY DEF BodyInsert
<1>2. DOMAIN ws = {<<"transactions", b>>}
  BY DEF block_transactions_insert, :>
<1> HIDE DEF ws
<1>3. Place("body", "tips") \in Task
  BY Places DEF BodySteps
<1>4. After(b, "body", "insert", "tips", ws)
  BY <1>1, <1>3, Written
<1>5. /\ \A key \in DOMAIN ws : \A c \in All \ {b} : key \notin DOMAIN batch[c]
      /\ reader # None => reader.key \notin DOMAIN ws
  <2>1. \A key \in DOMAIN ws : \E s \in AppendOnly \ {"parents"} : key = <<s, b>>
    BY <1>2 DEF AppendOnly
  <2> QED BY <1>1, <2>1, NewData DEF WriteBatched
<1>6. DOMAIN (ws ++ batch[b]) = {<<"transactions", b>>} /\ Keys(b)' = {<<"transactions", b>>}
  BY <1>2, <1>4, KeysOther DEF After
<1>7. Values(b)' /\ Guarded(b)'
  <2>1. {Tip, Tips, Reach, StatusKey(b)} \cap DOMAIN batch'[b] = {}
    BY <1>4, <1>6, KeysDiffer DEF After
  <2> QED BY <1>4, <2>1 DEF Values, Guarded, In, After
<1>8. owner' \in [Locks -> All \cup {None}] /\ \A l \in Locks : owner'[l] = owner[l]
  BY <1>1, Before
<1>9. pc[b].step \in Steps \ {"drop"} /\ pc'[b].step \in Steps \ {"drop"}
  BY <1>4 DEF After, Steps
<1> QED BY <1>1, <1>4, <1>5, <1>6, <1>7, <1>8, <1>9, Advance DEF After

(* The UTXO data of a block.                                               *)
LEMMA UtxoInsertStep ==
  ASSUME Inv, NEW b \in All, UtxoInsert(b)
  PROVE  Inv'
<1> DEFINE ws == utxo_diffs_insert(b) ++ utxo_multisets_insert(b) ++ acceptance_data_insert(b)
<1>1. /\ At(b, "utxo", "insert") /\ WriteBatched(b, ws) /\ GoTo(b, "status")
      /\ UNCHANGED <<owner, reader, node, crashes, bad>>
  BY DEF UtxoInsert
<1>2. DOMAIN ws = UtxoKeys(b)
  <2>1. DOMAIN ws = {<<"diffs", b>>} \cup {<<"multisets", b>>} \cup {<<"acceptance", b>>}
    BY DEF utxo_diffs_insert, utxo_multisets_insert, acceptance_data_insert, :>, ++
  <2> QED BY SMT, <2>1 DEF UtxoKeys, UtxoStores
<1> HIDE DEF ws
<1>3. Place("utxo", "status") \in Task
  BY Places DEF UtxoSteps
<1>4. After(b, "utxo", "insert", "status", ws)
  BY <1>1, <1>3, Written
<1>5. /\ \A key \in DOMAIN ws : \A c \in All \ {b} : key \notin DOMAIN batch[c]
      /\ reader # None => reader.key \notin DOMAIN ws
  <2>1. \A key \in DOMAIN ws : \E s \in AppendOnly \ {"parents"} : key = <<s, b>>
    BY <1>2 DEF UtxoKeys, UtxoStores, AppendOnly
  <2> QED BY <1>1, <2>1, NewData DEF WriteBatched
<1>6. DOMAIN (ws ++ batch[b]) = UtxoKeys(b) /\ Keys(b)' = UtxoKeys(b)
  BY <1>2, <1>4, KeysOther DEF After
<1>7. Values(b)' /\ Guarded(b)'
  <2>1. {Tip, Tips, Reach, StatusKey(b)} \cap DOMAIN batch'[b] = {}
    BY <1>4, <1>6, KeyKinds DEF After
  <2> QED BY <1>4, <2>1 DEF Values, Guarded, In, After
<1>8. owner' \in [Locks -> All \cup {None}] /\ \A l \in Locks : owner'[l] = owner[l]
  BY <1>1, Before
<1>9. pc[b].step \in Steps \ {"drop"} /\ pc'[b].step \in Steps \ {"drop"}
  BY <1>4 DEF After, Steps
<1> QED BY <1>1, <1>4, <1>5, <1>6, <1>7, <1>8, <1>9, Advance DEF After

(* The headers selected tip.                                               *)
LEMMA SelectTipStep ==
  ASSUME Inv, NEW b \in All, SelectTip(b)
  PROVE  Inv'
<1> DEFINE ws == IF b > read(<<"hst", Item>>) THEN headers_selected_tip_set(b) ELSE NoWrites
<1>1. /\ At(b, "header", "hst") /\ WriteBatched(b, ws) /\ GoTo(b, "relations")
      /\ Take(b, "hst") /\ UNCHANGED <<reader, node, crashes, bad>>
  BY DEF SelectTip
<1>2. "hst" \in Locks /\ LockOf(Tip[1]) = "hst"
  BY LockFacts, KeyKinds DEF Locks
<1>3. Place("header", "relations") \in Task
  BY Places DEF HeaderSteps
<1>4. /\ owner' \in [Locks -> All \cup {None}]
      /\ \A l \in Locks : owner'[l] = owner[l] \/ (owner[l] = None /\ owner'[l] = b)
      /\ owner'["hst"] = b /\ \A l \in Locks \ {"hst"} : owner'[l] = owner[l]
      /\ owner["hst"] = None /\ ~ReaderHolds("hst")
  BY <1>1, <1>2, Took
<1>5. /\ \A c \in All : Tip \notin DOMAIN batch[c]
      /\ reader # None => reader.key # Tip
      /\ read(Tip) = disk[Tip]
  <2>1. Tip \in DOMAIN disk
    <3>1. pc[b].stage = "header" /\ pc[b].step = "hst" /\ TaskInv(b)
      BY <1>1, Before
    <3> QED BY <3>1 DEF TaskInv, In, HeaderSteps, OnDisk, Tip
  <2> QED BY <1>2, <1>4, <2>1, NewLocked
<1>6. DOMAIN ws = {k \in {Tip} : b > disk[Tip]} /\ (Tip \in DOMAIN ws => ws[Tip] = b)
  BY <1>5 DEF headers_selected_tip_set, NoWrites, :>, Tip
<1> HIDE DEF ws
<1>7. After(b, "header", "hst", "relations", ws)
  BY <1>1, <1>3, Written
<1>8. /\ DOMAIN (ws ++ batch[b]) = HeaderKeys(b) \cup {k \in {Tip} : b > disk[Tip]}
      /\ Keys(b)' = HeaderKeys(b) \cup {k \in {Tip} : b > disk[Tip]}
  <2>1. KeysAt(b, Place("header", "hst"), disk[Tip]) = HeaderKeys(b)
    BY KeysHeader
  <2>2. KeysAt(b, Place("header", "relations"), disk[Tip]) = HeaderKeys(b) \cup {k \in {Tip} : b > disk[Tip]}
    BY KeysHeader
  <2> QED BY <1>6, <1>7, <2>1, <2>2 DEF After
<1>9. Values(b)'
  <2>1. {Tips, Reach, StatusKey(b)} \cap DOMAIN batch'[b] = {}
    BY <1>7, <1>8, KeysDiffer DEF After
  <2>2. Tip \in DOMAIN batch'[b] => batch'[b][Tip] = b
    BY <1>6, <1>7, <1>8, KeyKinds DEF After
  <2> QED BY <1>7, <2>1, <2>2 DEF Values, In, After
<1>10. Guarded(b)'
  BY <1>1, <1>2, <1>4, <1>7, Before, LockFacts DEF Guarded, In, After
<1>11. pc[b].step \in Steps \ {"drop"} /\ pc'[b].step \in Steps \ {"drop"}
  BY <1>7 DEF After, Steps
<1>12. /\ \A key \in DOMAIN ws : \A c \in All \ {b} : key \notin DOMAIN batch[c]
       /\ reader # None => reader.key \notin DOMAIN ws
  BY <1>5, <1>6
<1>13. /\ pc' \in [All -> Task] /\ \A c \in All \ {b} : pc'[c] = pc[c]
       /\ pc'[b].stage = pc[b].stage /\ DOMAIN (ws ++ batch[b]) = Keys(b)'
  BY <1>7, <1>8 DEF After
<1> QED BY <1>1, <1>4, <1>9, <1>10, <1>11, <1>12, <1>13, Advance

(* The tips.                                                               *)
LEMMA UpdateTipsStep ==
  ASSUME Inv, NEW b \in All, UpdateTips(b)
  PROVE  Inv'
<1> DEFINE ws == tips_add(b)
<1>1. /\ At(b, "body", "tips") /\ WriteBatched(b, ws) /\ GoTo(b, "status")
      /\ Take(b, "tips") /\ UNCHANGED <<reader, node, crashes, bad>>
  BY DEF UpdateTips
<1>2. "tips" \in Locks /\ LockOf(Tips[1]) = "tips"
  BY LockFacts, KeyKinds DEF Locks
<1>3. Place("body", "status") \in Task
  BY Places DEF BodySteps
<1>4. /\ owner' \in [Locks -> All \cup {None}]
      /\ \A l \in Locks : owner'[l] = owner[l] \/ (owner[l] = None /\ owner'[l] = b)
      /\ owner'["tips"] = b
      /\ owner["tips"] = None /\ ~ReaderHolds("tips")
  BY <1>1, <1>2, Took
<1>5. /\ \A c \in All : Tips \notin DOMAIN batch[c]
      /\ reader # None => reader.key # Tips
      /\ read(Tips) = disk[Tips]
  <2>1. Tips \in DOMAIN disk
    <3>1. pc[b].stage = "body" /\ pc[b].step = "tips" /\ TaskInv(b)
      BY <1>1, Before
    <3> QED BY <3>1 DEF TaskInv, In, BodySteps, OnDisk, Tips
  <2> QED BY <1>2, <1>4, <2>1, NewLocked
<1>6. DOMAIN ws = {Tips} /\ ws[Tips] = (disk[Tips] \ ParentsOf(b)) \cup {b}
  BY <1>5 DEF tips_add, :>, Tips
<1> HIDE DEF ws
<1>7. After(b, "body", "tips", "status", ws)
  BY <1>1, <1>3, Written
<1>8. /\ DOMAIN (ws ++ batch[b]) = {<<"transactions", b>>, Tips}
      /\ Keys(b)' = {<<"transactions", b>>, Tips}
  <2>1. KeysAt(b, Place("body", "tips"), disk[Tip]) = {<<"transactions", b>>}
    BY KeysOther
  <2>2. KeysAt(b, Place("body", "status"), disk[Tip]) = {<<"transactions", b>>, Tips}
    BY KeysOther
  <2> QED BY <1>6, <1>7, <2>1, <2>2 DEF After
<1>9. Values(b)'
  <2>1. {Tip, Reach, StatusKey(b)} \cap DOMAIN batch'[b] = {}
    BY <1>7, <1>8, KeysDiffer DEF After
  <2>2. batch'[b][Tips] = (disk'[Tips] \ ParentsOf(b)) \cup {b}
    BY <1>6, <1>7 DEF After
  <2> QED BY <1>7, <2>1, <2>2 DEF Values, In, After
<1>10. Guarded(b)'
  BY <1>4, <1>7 DEF Guarded, In, After
<1>11. pc[b].step \in Steps \ {"drop"} /\ pc'[b].step \in Steps \ {"drop"}
  BY <1>7 DEF After, Steps
<1>12. /\ \A key \in DOMAIN ws : \A c \in All \ {b} : key \notin DOMAIN batch[c]
       /\ reader # None => reader.key \notin DOMAIN ws
  BY <1>5, <1>6
<1>13. /\ pc' \in [All -> Task] /\ \A c \in All \ {b} : pc'[c] = pc[c]
       /\ pc'[b].stage = pc[b].stage /\ DOMAIN (ws ++ batch[b]) = Keys(b)'
  BY <1>7, <1>8 DEF After
<1> QED BY <1>1, <1>4, <1>9, <1>10, <1>11, <1>12, <1>13, Advance

(* The children in the batch stay while only other keys are written.       *)
LEMMA ChildrenKept ==
  ASSUME Inv, NEW b \in All, NEW step, NEW next, NEW ws, After(b, "header", step, next, ws),
         step \in {"status", "commit"}, \A key \in RelationKeys(b) : key \notin DOMAIN ws
  PROVE  /\ batch'[b][<<"children", b>>] = {}
         /\ b \in Blocks => \A p \in Parents[b] :
              batch'[b][<<"children", p>>] = disk'[<<"children", p>>] \cup {b}
<1>1. In(b, "header", {"status", "commit", "flush"}) /\ pc[b].stage = "header" /\ pc[b].step = step
  BY DEF After, In
<1>2. RelationKeys(b) \subseteq Keys(b)
  BY <1>1 DEF Keys, KeysAt
<1>3. RelationKeys(b) \subseteq DOMAIN batch[b] /\ Values(b)
  BY <1>2 DEF Inv, BatchInv
<1>4. <<"children", b>> \in RelationKeys(b) /\ (b \in Blocks => \A p \in Parents[b] : <<"children", p>> \in RelationKeys(b))
  <2>1. b \in Blocks => b # Genesis
    BY BlocksAssumption
  <2> QED BY <2>1 DEF RelationKeys, ParentsOf
<1>5. \A key \in RelationKeys(b) : batch'[b][key] = batch[b][key]
  BY <1>3 DEF After
<1>6. disk' = disk
  BY DEF After
<1> QED BY <1>1, <1>3, <1>4, <1>5, <1>6 DEF Values

(* The status of a block.                                                  *)
LEMMA SetStatusStep ==
  ASSUME Inv, NEW b \in All, SetStatus(b)
  PROVE  Inv'
<1> DEFINE stage == pc[b].stage
           next == IF stage = "header" THEN "commit" ELSE "flush"
           ws == statuses_set(b, StageStatus[stage])
<1>1. /\ pc[b].step = "status" /\ WriteBatched(b, ws) /\ GoTo(b, next)
      /\ Take(b, "statuses") /\ UNCHANGED <<reader, node, crashes, bad>>
  BY DEF SetStatus
<1>2. At(b, stage, "status") /\ stage \in Stages
  <2>1. pc[b] \in Task
    BY DEF Inv, TypeInv
  <2>2. pc[b] # Idle
    <3>1. None # "status"
      BY NoneAssumption DEF Steps
    <3> QED BY <1>1, <2>1, <3>1, TaskFacts
  <2> QED BY <1>1, <2>1, <2>2, TaskFacts DEF At
<1>3. "statuses" \in Locks /\ LockOf(StatusKey(b)[1]) = "statuses"
  BY LockFacts, KeyKinds DEF Locks
<1>4. Place(stage, next) \in Task
  BY <1>2, Places DEF HeaderSteps, BodySteps, UtxoSteps, Stages
<1>5. /\ owner' \in [Locks -> All \cup {None}]
      /\ \A l \in Locks : owner'[l] = owner[l] \/ (owner[l] = None /\ owner'[l] = b)
  BY <1>1, <1>3, Took
<1>6. owner'["statuses"] = b /\ owner["statuses"] = None /\ ~ReaderHolds("statuses")
  BY <1>1, <1>3, Took
<1>7. /\ \A c \in All : StatusKey(b) \notin DOMAIN batch[c]
      /\ reader # None => reader.key # StatusKey(b)
  BY <1>3, <1>6, NewLocked
<1>8. DOMAIN ws = {StatusKey(b)} /\ ws[StatusKey(b)] = StageStatus[stage]
  BY DEF statuses_set, :>, StatusKey
<1> HIDE DEF ws, next
<1>9. After(b, stage, "status", next, ws)
  BY <1>1, <1>2, <1>4, Written
<1>10. DOMAIN (ws ++ batch[b]) = Keys(b)'
  <2>1. stage = "header" => next = "commit"
    BY DEF next
  <2>2. stage # "header" => next = "flush"
    BY DEF next
  <2>3. KeysAt(b, Place(stage, "status"), disk[Tip]) \cup {StatusKey(b)} = KeysAt(b, Place(stage, next), disk[Tip])
    <3>1. CASE stage = "header"
      BY <2>1, <3>1, KeysHeader
    <3>2. CASE stage = "body"
      BY <2>2, <3>2, KeysOther
    <3>3. CASE stage = "utxo"
      BY <2>2, <3>3, KeysOther
    <3> QED BY <1>2, <3>1, <3>2, <3>3 DEF Stages
  <2> QED BY <1>8, <1>9, <2>3 DEF After
<1>11. Values(b)'
  <2>1. \A key \in DOMAIN batch'[b] :
          key # StatusKey(b) => key \in DOMAIN batch[b] /\ batch'[b][key] = batch[b][key]
    BY SMT, <1>8, <1>9, Overlay DEF After
  <2>2. In(b, "header", {"status", "commit", "flush"})' =>
          /\ batch'[b][<<"children", b>>] = {}
          /\ b \in Blocks => \A p \in Parents[b] :
               batch'[b][<<"children", p>>] = disk'[<<"children", p>>] \cup {b}
    <3>1. In(b, "header", {"status", "commit", "flush"})' => stage = "header"
      BY <1>9 DEF In, After
    <3>2. \A key \in RelationKeys(b) : key \notin DOMAIN ws
      BY <1>8, KeysDiffer
    <3>3. stage = "header" => After(b, "header", "status", next, ws)
      BY <1>9
    <3> HIDE DEF stage
    <3>4. CASE stage = "header"
      BY <3>2, <3>3, <3>4, ChildrenKept
    <3> QED BY <3>1, <3>4
  <2>3. batch'[b][StatusKey(b)] = StageStatus[pc'[b].stage]
    BY <1>8, <1>9 DEF After
  <2>4. Tip # StatusKey(b) /\ Tips # StatusKey(b) /\ Reach # StatusKey(b)
    BY KeysDiffer
  <2>5. Values(b) /\ disk' = disk
    BY <1>9 DEF Inv, BatchInv, After
  <2> QED BY <2>1, <2>2, <2>3, <2>4, <2>5 DEF Values
<1>12. Guarded(b)'
  <2>1. Guarded(b)
    BY DEF Inv
  <2>2. \A l \in Locks : owner[l] = b => owner'[l] = b
    BY <1>5
  <2>3. next \in {"commit", "flush"}
    BY DEF next
  <2>4. pc[b].stage = stage /\ pc'[b].stage = stage /\ pc[b].step = "status" /\ pc'[b].step = next
    BY <1>9 DEF After
  <2> HIDE DEF stage
  <2>5. {"reachability", "hst", "relations", "statuses", "tips"} \subseteq Locks
    BY DEF Locks
  <2> QED BY <1>6, <2>1, <2>2, <2>3, <2>4, <2>5 DEF Guarded, In
<1>13. pc[b].step \in Steps \ {"drop"} /\ pc'[b].step \in Steps \ {"drop"}
  <2>1. next \in {"commit", "flush"}
    BY DEF next
  <2> QED BY <1>9, <2>1 DEF After, Steps
<1>14. /\ \A key \in DOMAIN ws : \A c \in All \ {b} : key \notin DOMAIN batch[c]
       /\ reader # None => reader.key \notin DOMAIN ws
  BY <1>7, <1>8
<1>15. /\ pc' \in [All -> Task] /\ \A c \in All \ {b} : pc'[c] = pc[c]
       /\ pc'[b].stage = pc[b].stage
  BY <1>9 DEF After
<1> QED BY <1>1, <1>5, <1>10, <1>11, <1>12, <1>13, <1>14, <1>15, Advance

(* A task is under way only on a node that has reachability data.          *)
LEMMA BusyNode ==
  ASSUME Inv, NEW b \in All, pc[b] # Idle
  PROVE  OnDisk("reachability", Item) /\ (b \in Blocks => node \in {"running", "panicked"})
<1>1. CASE b \in Blocks
  BY <1>1 DEF Inv, NodeInv
<1>2. CASE b = Genesis
  <2>1. pc[Genesis].stage \in Stages
    BY <1>2, TaskFacts DEF Inv, TypeInv
  <2> QED BY <1>2, <2>1, BlocksAssumption DEF Inv, NodeInv, Stages
<1> QED BY <1>1, <1>2 DEF All

(* The staged reachability data.                                           *)
LEMMA CommitStagingStep ==
  ASSUME Inv, NEW b \in All, CommitStaging(b)
  PROVE  Inv'
<1> DEFINE ws == reachability_commit(b)
<1>1. /\ At(b, "header", "commit") /\ WriteBatched(b, ws) /\ GoTo(b, "flush")
      /\ ~ReaderHolds("reachability") /\ UNCHANGED <<owner, reader, node, crashes, bad>>
  BY DEF CommitStaging
<1>2. "reachability" \in Locks /\ LockOf(Reach[1]) = "reachability"
  BY LockFacts, KeyKinds DEF Locks
<1>3. Place("header", "flush") \in Task
  BY Places DEF HeaderSteps
<1>4. pc[b].stage = "header" /\ pc[b].step = "commit" /\ Guarded(b) /\ Values(b) /\ pc \in [All -> Task]
  BY <1>1, Before
<1>5. ~Upgraded
  BY <1>4 DEF Guarded, In, Upgraded
<1>6. /\ \A c \in All : Reach \notin DOMAIN batch[c]
      /\ reader # None => reader.key # Reach
      /\ read(Reach) = disk[Reach]
  <2>1. pc[b] # Idle
    <3>1. None # "commit"
      BY NoneAssumption DEF Steps
    <3> QED BY <1>4, <3>1, TaskFacts
  <2>2. Reach \in DOMAIN disk
    BY <2>1, BusyNode DEF OnDisk, Reach
  <2> QED BY <1>1, <1>2, <1>5, <2>2, NewLocked
<1>7. DOMAIN ws = {Reach} /\ ws[Reach] = disk[Reach] \cup {b}
  BY <1>6 DEF reachability_commit, :>, Reach
<1> HIDE DEF ws
<1>8. After(b, "header", "commit", "flush", ws)
  BY <1>1, <1>3, Written
<1>9. DOMAIN (ws ++ batch[b]) = Keys(b)'
  <2>1. KeysAt(b, Place("header", "commit"), disk[Tip]) \cup {Reach} = KeysAt(b, Place("header", "flush"), disk[Tip])
    <3>1. KeysAt(b, Place("header", "commit"), disk[Tip]) =
            HeaderKeys(b) \cup {k \in {Tip} : b > disk[Tip]} \cup RelationKeys(b) \cup {StatusKey(b)}
      BY KeysHeader
    <3>2. KeysAt(b, Place("header", "flush"), disk[Tip]) =
            HeaderKeys(b) \cup {k \in {Tip} : b > disk[Tip]} \cup RelationKeys(b) \cup {StatusKey(b), Reach}
      BY KeysHeader
    <3> QED BY <3>1, <3>2
  <2> QED BY <1>7, <1>8, <2>1 DEF After
<1>10. Values(b)'
  <2>1. \A key \in DOMAIN batch'[b] :
          key # Reach => key \in DOMAIN batch[b] /\ batch'[b][key] = batch[b][key]
    BY SMT, <1>7, <1>8, Overlay DEF After
  <2>2. \A key \in RelationKeys(b) : key \notin DOMAIN ws
    BY <1>7, KeysDiffer
  <2>3. /\ batch'[b][<<"children", b>>] = {}
        /\ b \in Blocks => \A p \in Parents[b] :
             batch'[b][<<"children", p>>] = disk'[<<"children", p>>] \cup {b}
    BY <1>8, <2>2, ChildrenKept
  <2>4. batch'[b][Reach] = disk'[Reach] \cup {b}
    BY <1>7, <1>8 DEF After
  <2>5. Tip # Reach /\ Tips # Reach /\ StatusKey(b) # Reach
    BY KeysDiffer
  <2>6. Values(b) /\ disk' = disk /\ pc'[b].stage = pc[b].stage
    BY <1>4, <1>8 DEF After
  <2> QED BY <2>1, <2>3, <2>4, <2>5, <2>6 DEF Values
<1>11. Guarded(b)'
  BY <1>1, <1>4, <1>8 DEF Guarded, In, After
<1>12. pc[b].step \in Steps \ {"drop"} /\ pc'[b].step \in Steps \ {"drop"}
  BY <1>8 DEF After, Steps
<1>13. /\ \A key \in DOMAIN ws : \A c \in All \ {b} : key \notin DOMAIN batch[c]
       /\ reader # None => reader.key \notin DOMAIN ws
  BY <1>6, <1>7
<1>14. /\ pc' \in [All -> Task] /\ \A c \in All \ {b} : pc'[c] = pc[c]
       /\ pc'[b].stage = pc[b].stage
  BY <1>8 DEF After
<1>15. owner' \in [Locks -> All \cup {None}] /\ \A l \in Locks : owner'[l] = owner[l]
  BY <1>1, Before
<1> QED BY <1>1, <1>9, <1>10, <1>11, <1>12, <1>13, <1>14, <1>15, Advance

(* The relations: the block has no children and is one of each parent.     *)
LEMMA RelateStep ==
  ASSUME Inv, NEW b \in All, Relate(b)
  PROVE  Inv'
<1> DEFINE ws == relations_insert(b, ParentsOf(b))
<1>1. /\ At(b, "header", "relations") /\ WriteBatched(b, ws) /\ GoTo(b, "status")
      /\ Take(b, "relations") /\ UNCHANGED <<reader, node, crashes, bad>>
  BY DEF Relate
<1>2. "relations" \in Locks /\ \A key \in RelationKeys(b) : LockOf(key[1]) = "relations"
  BY LockFacts, KeyKinds DEF Locks
<1>3. Place("header", "status") \in Task
  BY Places DEF HeaderSteps
<1>4. /\ owner' \in [Locks -> All \cup {None}]
      /\ \A l \in Locks : owner'[l] = owner[l] \/ (owner[l] = None /\ owner'[l] = b)
  BY <1>1, <1>2, Took
<1>5. /\ owner'["relations"] = b /\ \A l \in Locks \ {"relations"} : owner'[l] = owner[l]
      /\ owner["relations"] = None /\ ~ReaderHolds("relations")
  BY <1>1, <1>2, Took
<1>6. \A key \in RelationKeys(b) :
        /\ \A c \in All : key \notin DOMAIN batch[c]
        /\ reader # None => reader.key # key
        /\ key \in DOMAIN disk => read(key) = disk[key]
  BY <1>2, <1>5, NewLocked
<1>7. DOMAIN ws = RelationKeys(b)
  BY DEF relations_insert, :>, ++, RelationKeys
<1>8. /\ ws[<<"children", b>>] = {}
      /\ b \in Blocks => \A p \in Parents[b] : ws[<<"children", p>>] = disk[<<"children", p>>] \cup {b}
  <2> DEFINE own == (<<"parents", b>> :> Data) ++ (<<"children", b>> :> {})
             more == [key \in {<<"children", p>> : p \in ParentsOf(b)} |-> read(key) \cup {b}]
  <2>1. DOMAIN own = {<<"parents", b>>, <<"children", b>>} /\ own[<<"children", b>>] = {}
    BY KeyFacts DEF :>, ++
  <2>2. ws = own ++ more
    BY DEF relations_insert
  <2>3. \A key \in {<<"children", p>> : p \in ParentsOf(b)} : key \in DOMAIN more /\ more[key] = read(key) \cup {b}
    OBVIOUS
  <2> HIDE DEF own, more, ws
  <2>4. ws[<<"children", b>>] = {}
    BY SMT, <2>1, <2>2, Overlay
  <2>5. ASSUME b \in Blocks, NEW p \in Parents[b] PROVE ws[<<"children", p>>] = disk[<<"children", p>>] \cup {b}
    <3> DEFINE key == <<"children", p>>
    <3>1. p \in All /\ p # b /\ p \in ParentsOf(b)
      BY SMT, <2>5, BlocksAssumption, ParentsAssumption DEF ParentsOf, All
    <3>2. key \notin DOMAIN own
      BY <2>1, <3>1, KeyFacts
    <3>3. key \in DOMAIN more /\ more[key] = read(key) \cup {b}
      BY <2>3, <3>1
    <3>4. p \in Accepted
      <4>1. pc[b].stage = "header" /\ pc[b].step = "relations" /\ TaskInv(b)
        BY <1>1, Before
      <4> QED BY <2>5, <4>1 DEF TaskInv, In, HeaderSteps
    <3>5. key \in DOMAIN disk
      BY <3>1, <3>4 DEF Inv, DiskInv, DiskKeys, OnDisk
    <3>6. key \in RelationKeys(b)
      BY <3>1 DEF RelationKeys
    <3> HIDE DEF key
    <3>7. ws[key] = more[key]
      BY SMT, <2>2, <3>2, <3>3, Overlay
    <3>8. ws[key] = disk[key] \cup {b}
      BY <1>6, <3>3, <3>5, <3>6, <3>7
    <3> QED BY <3>8 DEF key
  <2> QED BY <2>4, <2>5
<1> HIDE DEF ws
<1>9. After(b, "header", "relations", "status", ws)
  BY <1>1, <1>3, Written
<1>10. DOMAIN (ws ++ batch[b]) = Keys(b)'
  <2>1. KeysAt(b, Place("header", "relations"), disk[Tip]) \cup RelationKeys(b) = KeysAt(b, Place("header", "status"), disk[Tip])
    BY KeysHeader
  <2> QED BY <1>7, <1>9, <2>1 DEF After
<1>11. Values(b)'
  <2>1. \A key \in DOMAIN batch'[b] :
          key \notin RelationKeys(b) => key \in DOMAIN batch[b] /\ batch'[b][key] = batch[b][key]
    BY SMT, <1>7, <1>9, Overlay DEF After
  <2>2. <<"children", b>> \in RelationKeys(b) /\ (b \in Blocks => \A p \in Parents[b] : <<"children", p>> \in RelationKeys(b))
    <3>1. b \in Blocks => b # Genesis
      BY BlocksAssumption
    <3> QED BY <3>1 DEF RelationKeys, ParentsOf
  <2>3. \A key \in RelationKeys(b) : batch'[b][key] = ws[key]
    BY <1>7, <1>9 DEF After
  <2>4. /\ batch'[b][<<"children", b>>] = {}
        /\ b \in Blocks => \A p \in Parents[b] :
             batch'[b][<<"children", p>>] = disk[<<"children", p>>] \cup {b}
    BY <1>8, <2>2, <2>3
  <2>5. {Tip, Tips, Reach, StatusKey(b)} \cap RelationKeys(b) = {}
    BY KeysDiffer
  <2>6. Values(b) /\ disk' = disk /\ pc'[b].stage = pc[b].stage
    BY <1>1, <1>9, Before DEF After
  <2> QED BY <2>1, <2>4, <2>5, <2>6 DEF Values
<1>12. Guarded(b)'
  BY <1>1, <1>2, <1>5, <1>9, Before, LockFacts DEF Guarded, In, After
<1>13. pc[b].step \in Steps \ {"drop"} /\ pc'[b].step \in Steps \ {"drop"}
  BY <1>9 DEF After, Steps
<1>14. /\ \A key \in DOMAIN ws : \A c \in All \ {b} : key \notin DOMAIN batch[c]
       /\ reader # None => reader.key \notin DOMAIN ws
  BY <1>6, <1>7
<1>15. /\ pc' \in [All -> Task] /\ \A c \in All \ {b} : pc'[c] = pc[c]
       /\ pc'[b].stage = pc[b].stage
  BY <1>9 DEF After
<1> QED BY <1>1, <1>4, <1>10, <1>11, <1>12, <1>13, <1>14, <1>15, Advance
-----------------------------------------------------------------------------
(* The steps that write nothing.                                           *)

(* The rest of the invariant stays when one task moves on with the batch   *)
(* it has.                                                                 *)
LEMMA Quiet ==
  ASSUME Inv, NEW b \in All, UNCHANGED <<disk, cache, batch, reader, crashes, bad>>,
         pc' \in [All -> Task], \A c \in All \ {b} : pc'[c] = pc[c],
         owner' \in [Locks -> All \cup {None}],
         \A l \in Locks : \A c \in All \ {b} : owner[l] = c => owner'[l] = c,
         DOMAIN batch[b] = Keys(b)', Values(b)', Guarded(b)', TaskInv(b)',
         NodeInv', FirstStart',
         node' \in {"down", "header", "pruning", "body", "virtual", "past_pps", "running", "panicked"}
  PROVE  Inv'
<1>1. TypeInv'
  BY DEF Inv, TypeInv
<1>2. BatchInv'
  <2>1. ASSUME NEW c \in All \ {b} PROVE DOMAIN batch'[c] = Keys(c)' /\ Values(c)'
    BY <2>1, BatchFrame DEF Inv, BatchInv
  <2> QED BY <2>1 DEF BatchInv
<1>3. CacheInv' /\ ReaderInv'
  BY DEF Inv, CacheInv, ReaderInv, Batched, OnDiskNow
<1>4. ASSUME NEW c \in All PROVE Guarded(c)' /\ TaskInv(c)'
  <2>1. CASE c # b
    BY <2>1, GuardFrame, TaskFrame DEF Inv
  <2> QED BY <2>1
<1>5. DiskInv'
  BY DiskFrame DEF Inv
<1> QED BY <1>1, <1>2, <1>3, <1>4, <1>5 DEF Inv

(* The upgradable guard of reachability.                                   *)
LEMMA StagingStep ==
  ASSUME Inv, NEW b \in All, Staging(b)
  PROVE  Inv'
<1>1. /\ At(b, "header", "staging") /\ GoTo(b, "hst") /\ owner["reachability"] = None
      /\ owner' = [owner EXCEPT !["reachability"] = b]
      /\ UNCHANGED <<disk, cache, batch, reader, node, crashes, bad>>
  BY DEF Staging
<1>2. Place("header", "hst") \in Task
  BY Places DEF HeaderSteps
<1>3. /\ pc \in [All -> Task] /\ owner \in [Locks -> All \cup {None}]
      /\ DOMAIN batch[b] = KeysAt(b, Place("header", "staging"), disk[Tip]) /\ Values(b) /\ TaskInv(b)
  BY <1>1, Before
<1>4. /\ pc' \in [All -> Task] /\ pc'[b] = Place("header", "hst")
      /\ pc[b].stage = "header" /\ pc[b].step = "staging"
      /\ pc'[b].stage = "header" /\ pc'[b].step = "hst"
      /\ \A c \in All \ {b} : pc'[c] = pc[c]
  BY SMT, <1>1, <1>2, <1>3, Gone DEF Place
<1>5. DOMAIN batch[b] = HeaderKeys(b) /\ Keys(b)' = HeaderKeys(b)
  <2>1. Keys(b)' = KeysAt(b, Place("header", "hst"), disk[Tip])
    BY <1>1, <1>4 DEF Keys
  <2>2. Keys(b)' = HeaderKeys(b)
    BY <2>1, KeysHeader
  <2>3. DOMAIN batch[b] = HeaderKeys(b)
    BY <1>3, KeysHeader
  <2> QED BY <2>2, <2>3
<1>6. Values(b)'
  <2>1. {Tip, Tips, Reach, StatusKey(b)} \cap DOMAIN batch'[b] = {}
    BY <1>1, <1>5, KeysDiffer
  <2> QED BY <1>4, <2>1 DEF Values, In
<1>7. "reachability" \in Locks
  BY DEF Locks
<1>8. Guarded(b)'
  BY <1>1, <1>3, <1>4, <1>7 DEF Guarded, In
<1>9. TaskInv(b)'
  BY <1>1, <1>3, <1>4, DiskFrame DEF TaskInv, In, HeaderSteps
<1>10. /\ owner' \in [Locks -> All \cup {None}]
       /\ \A l \in Locks : \A c \in All \ {b} : owner[l] = c => owner'[l] = c
  BY <1>1, <1>3, NoneAssumption
<1>11. pc[b] # Idle /\ pc'[b] # Idle /\ pc[b].step # "drop" /\ pc'[b].step # "drop"
  <2>1. None # "staging" /\ None # "hst"
    BY NoneAssumption DEF Steps
  <2>2. pc[b] \in Task /\ pc'[b] \in Task
    BY <1>3, <1>4
  <2> QED BY <1>4, <2>1, <2>2, TaskFacts
<1>12. NodeInv' /\ FirstStart'
  BY <1>1, <1>4, <1>11, NodeFrame
<1>13. node' \in {"down", "header", "pruning", "body", "virtual", "past_pps", "running", "panicked"}
  BY <1>1 DEF Inv, TypeInv
<1> QED BY <1>1, <1>4, <1>5, <1>6, <1>8, <1>9, <1>10, <1>12, <1>13, Quiet

(* A task at rest holds nothing.                                           *)
LEMMA AtRest ==
  ASSUME NEW b \in All, pc'[b] = Idle
  PROVE  /\ Keys(b)' = {} /\ Guarded(b)' /\ TaskInv(b)'
         /\ DOMAIN batch'[b] = {} => Values(b)'
<1>1. pc'[b].stage = None /\ pc'[b].step = None
  <2>1. Idle.stage = None /\ Idle.step = None
    BY DEF Idle
  <2> QED BY <2>1
<1>2. None # "header" /\ None # "body" /\ None # "utxo"
  BY NoneAssumption DEF Stages
<1>3. Keys(b)' = {}
  BY KeysOther DEF Keys
<1> QED BY <1>1, <1>2, <1>3 DEF Guarded, TaskInv, Values, In

(* The end of a task.                                                      *)
LEMMA DropStep ==
  ASSUME Inv, NEW b \in All, Drop(b)
  PROVE  Inv'
<1>1. /\ pc[b].step = "drop"
      /\ owner' = [l \in Locks |-> IF owner[l] = b THEN None ELSE owner[l]]
      /\ pc' = [pc EXCEPT ![b] = Idle]
      /\ UNCHANGED <<disk, cache, batch, reader, node, crashes, bad>>
  BY DEF Drop
<1>2. /\ pc \in [All -> Task] /\ owner \in [Locks -> All \cup {None}] /\ DOMAIN batch[b] = Keys(b)
      /\ node \in {"down", "header", "pruning", "body", "virtual", "past_pps", "running", "panicked"}
  BY DEF Inv, TypeInv, BatchInv
<1>3. pc' \in [All -> Task] /\ pc'[b] = Idle /\ \A c \in All \ {b} : pc'[c] = pc[c]
  <2>1. Idle \in Task
    BY DEF Task
  <2> QED BY <1>1, <1>2, <2>1
<1>4. DOMAIN batch[b] = {}
  BY <1>1, <1>2 DEF Keys, KeysAt
<1>5. DOMAIN batch[b] = Keys(b)' /\ Values(b)' /\ Guarded(b)' /\ TaskInv(b)'
  BY <1>1, <1>3, <1>4, AtRest
<1>6. /\ owner' \in [Locks -> All \cup {None}]
      /\ \A l \in Locks : \A c \in All \ {b} : owner[l] = c => owner'[l] = c
  BY <1>1, <1>2
<1>7. NodeInv' /\ FirstStart'
  <2>1. (Done <=> Done') /\ (pc'[Genesis].stage = pc[Genesis].stage \/ pc'[Genesis].stage = None)
    <3>1. Genesis \in All /\ Idle.stage = None
      BY DEF All, Idle
    <3> QED BY <1>1, <1>3, <3>1 DEF Done
  <2>2. node \notin {"running", "panicked"} => \A c \in Blocks : pc'[c] = Idle
    BY <1>3 DEF Inv, NodeInv, All
  <2>3. None # "header" /\ None # "body" /\ None # "utxo"
    BY NoneAssumption DEF Stages
  <2>4. NodeInv'
    BY <1>1, <2>1, <2>2, <2>3, DiskFrame DEF Inv, NodeInv
  <2>5. FirstStart'
    BY <1>1, <2>1, DiskFrame DEF Inv, FirstStart
  <2> QED BY <2>4, <2>5
<1> QED BY <1>1, <1>2, <1>3, <1>5, <1>6, <1>7, Quiet

(* The begin of a task.                                                    *)
LEMMA Began ==
  ASSUME Inv, NEW b \in All, NEW stage \in Stages, Begin(b, stage)
  PROVE  /\ pc' \in [All -> Task] /\ \A c \in All \ {b} : pc'[c] = pc[c]
         /\ pc[b] = Idle /\ pc'[b].stage = stage /\ pc'[b].step = "insert" /\ pc'[b] # Idle
         /\ DOMAIN batch[b] = {} /\ Keys(b)' = {} /\ Guarded(b)'
         /\ DOMAIN batch'[b] = {} => Values(b)'
<1>1. pc[b] = Idle /\ pc' = [pc EXCEPT ![b] = Place(stage, "insert")] /\ pc \in [All -> Task]
  BY DEF Begin, Place, Inv, TypeInv
<1>2. Place(stage, "insert") \in Task
  BY Places DEF Stages, HeaderSteps, BodySteps, UtxoSteps
<1>3. pc' \in [All -> Task] /\ pc'[b] = Place(stage, "insert") /\ \A c \in All \ {b} : pc'[c] = pc[c]
  BY <1>1, <1>2
<1>4. Place(stage, "insert").stage = stage /\ Place(stage, "insert").step = "insert"
  BY DEF Place
<1>5. pc'[b].stage = stage /\ pc'[b].step = "insert"
  BY <1>3, <1>4
<1>6. pc'[b] # Idle
  <2>1. None # "insert" /\ Idle.step = None
    BY NoneAssumption DEF Steps, Idle
  <2> QED BY <1>5, <2>1
<1>7. DOMAIN batch[b] = {}
  <2>1. DOMAIN batch[b] = KeysAt(b, Idle, disk[Tip])
    BY <1>1 DEF Inv, BatchInv, Keys
  <2> QED BY <2>1, KeysOther
<1>8. Keys(b)' = {}
  <2>1. Keys(b)' = KeysAt(b, Place(stage, "insert"), disk'[Tip])
    BY <1>3 DEF Keys
  <2> QED BY <2>1, KeysHeader, KeysOther DEF Stages
<1>9. Guarded(b)' /\ (DOMAIN batch'[b] = {} => Values(b)')
  BY <1>5 DEF Guarded, Values, In
<1> QED BY <1>1, <1>3, <1>5, <1>6, <1>7, <1>8, <1>9

(* What a running node has on disk.                                        *)
LEMMA RunningNode ==
  ASSUME Inv, node \in {"running", "panicked"}
  PROVE  /\ Genesis \in Accepted /\ Genesis \in Bodies
         /\ OnDisk("hst", Item) /\ OnDisk("reachability", Item) /\ OnDisk("tips", Item)
<1>1. DiskStatus(Genesis) = "UTXOValid" /\ Genesis \in All
  BY DEF Inv, NodeInv, All
<1>2. "UTXOValid" # None
  BY NoneAssumption DEF Statuses
<1>3. Genesis \in Accepted
  BY <1>1, <1>2 DEF Accepted
<1>4. Genesis \in Bodies
  BY <1>1, <1>3 DEF Bodies, HasBody
<1> QED BY <1>3, <1>4 DEF Inv, DiskInv, DiskClosed

(* The task of a block starts on a running node.                           *)
LEMMA StartStep ==
  ASSUME Inv, NEW b \in Blocks, NEW stage \in Stages, node = "running", Begin(b, stage),
         UNCHANGED <<disk, cache, batch, owner, reader, node, crashes, bad>>,
         TaskInv(b)'
  PROVE  Inv'
<1>1. b \in All /\ b # Genesis
  BY BlocksAssumption DEF All
<1>2. /\ pc' \in [All -> Task] /\ \A c \in All \ {b} : pc'[c] = pc[c]
      /\ DOMAIN batch[b] = {} /\ Keys(b)' = {} /\ Guarded(b)' /\ (DOMAIN batch'[b] = {} => Values(b)')
  BY <1>1, Began
<1>3. NodeInv' /\ FirstStart'
  <2>1. pc'[Genesis] = pc[Genesis]
    BY <1>1, <1>2 DEF All
  <2>2. Done' <=> Done
    BY <2>1 DEF Done
  <2> QED BY <2>1, <2>2, DiskFrame DEF Inv, NodeInv, FirstStart
<1>4. /\ owner' \in [Locks -> All \cup {None}]
      /\ \A l \in Locks : \A c \in All \ {b} : owner[l] = c => owner'[l] = c
  BY DEF Inv, TypeInv
<1>5. node' \in {"down", "header", "pruning", "body", "virtual", "past_pps", "running", "panicked"}
  OBVIOUS
<1> QED BY <1>1, <1>2, <1>3, <1>4, <1>5, Quiet

(* A header whose parents are accepted.                                    *)
LEMMA StartHeaderStep ==
  ASSUME Inv, NEW b \in Blocks, StartHeader(b)
  PROVE  Inv'
<1>1. /\ node = "running" /\ owner["statuses"] = None /\ Status(b) = None
      /\ \A p \in Parents[b] : Status(p) \notin {None, "Invalid"}
      /\ ~Fails(b, "header")
      /\ UNCHANGED <<disk, cache, batch, owner, reader, crashes, bad>>
  BY DEF StartHeader
<1>2. b \in All /\ \A x : Status(x) = DiskStatus(x)
  BY <1>1, StatusRead DEF Inv, Tasks, All
<1>3. CASE node' = "panicked" /\ pc' = pc
  <2>1. NodeInv' /\ FirstStart'
    <3>1. Done' <=> Done
      BY <1>3 DEF Done
    <3> QED BY <1>1, <1>3, <3>1, DiskFrame DEF Inv, NodeInv, FirstStart
  <2>2. DOMAIN batch[b] = Keys(b)' /\ Values(b)'
    BY <1>1, <1>2, <1>3, BatchFrame DEF Inv, BatchInv
  <2>3. Guarded(b)' /\ TaskInv(b)'
    BY <1>1, <1>2, <1>3, GuardFrame, TaskFrame DEF Inv
  <2>4. pc' \in [All -> Task] /\ owner' \in [Locks -> All \cup {None}]
    BY <1>1, <1>3 DEF Inv, TypeInv
  <2>5. /\ \A c \in All \ {b} : pc'[c] = pc[c]
        /\ \A l \in Locks : \A c \in All \ {b} : owner[l] = c => owner'[l] = c
    BY <1>1, <1>3
  <2>6. node' \in {"down", "header", "pruning", "body", "virtual", "past_pps", "running", "panicked"}
    BY <1>3
  <2> QED BY <1>1, <1>2, <2>1, <2>2, <2>3, <2>4, <2>5, <2>6, Quiet
<1>4. CASE Begin(b, "header") /\ node' = node
  <2>1. pc'[b].stage = "header"
    BY <1>2, <1>4, Began DEF Stages
  <2>2. Parents[b] \subseteq Accepted
    <3>1. Parents[b] \subseteq All
      BY ParentsAssumption
    <3> QED BY <1>1, <1>2, <3>1 DEF Accepted
  <2>3. DiskStatus(b) = None /\ OnDisk("hst", Item)
    BY <1>1, <1>2, RunningNode
  <2>4. TaskInv(b)'
    BY <1>1, <2>1, <2>2, <2>3, DiskFrame DEF TaskInv, In
  <2> QED BY <1>1, <1>4, <2>4, StartStep DEF Stages
<1> QED BY <1>3, <1>4 DEF StartHeader

(* A body whose parents have theirs.                                       *)
LEMMA StartBodyStep ==
  ASSUME Inv, NEW b \in Blocks, StartBody(b)
  PROVE  Inv'
<1>1. /\ node = "running" /\ owner["statuses"] = None /\ Status(b) = "HeaderOnly"
      /\ \A p \in Parents[b] : HasBody(Status(p))
      /\ Begin(b, "body")
      /\ UNCHANGED <<disk, cache, batch, owner, reader, node, crashes, bad>>
  BY DEF StartBody
<1>2. b \in All /\ \A x : Status(x) = DiskStatus(x)
  BY <1>1, StatusRead DEF Inv, Tasks, All
<1>3. pc'[b].stage = "body"
  BY <1>1, <1>2, Began DEF Stages
<1>4. Parents[b] \subseteq Bodies
  <2>1. Parents[b] \subseteq All
    BY ParentsAssumption
  <2>2. \A status : HasBody(status) => status # None /\ status # "Invalid"
    BY NoneAssumption DEF HasBody, Statuses
  <2> QED BY <1>1, <1>2, <2>1, <2>2 DEF Bodies, Accepted
<1>5. DiskStatus(b) = "HeaderOnly" /\ OnDisk("tips", Item)
  BY <1>1, <1>2, RunningNode
<1>6. TaskInv(b)'
  BY <1>1, <1>3, <1>4, <1>5, DiskFrame DEF TaskInv, In
<1> QED BY <1>1, <1>6, StartStep DEF Stages

(* A block of a chain that is being resolved.                              *)
LEMMA StartUtxoStep ==
  ASSUME Inv, NEW b \in Blocks, StartUtxo(b)
  PROVE  Inv'
<1>1. /\ node = "running" /\ owner["statuses"] = None /\ HasBody(Status(b)) /\ ~has(<<"diffs", b>>)
      /\ Begin(b, "utxo")
      /\ UNCHANGED <<disk, cache, batch, owner, reader, node, crashes, bad>>
  BY DEF StartUtxo, Resolving
<1>2. b \in All /\ Status(b) = DiskStatus(b)
  BY <1>1, StatusRead DEF Inv, Tasks, All
<1>3. pc'[b].stage = "utxo"
  BY <1>1, <1>2, Began DEF Stages
<1>4. DiskStatus(b) # "UTXOValid"
  <2>1. ~OnDisk("diffs", b)
    BY <1>1 DEF has, OnDisk
  <2> QED BY <1>2, <2>1 DEF Inv, DiskInv, DiskKeys, UtxoStores
<1>5. DiskStatus(b) \in {"UTXOPending", "Disqualified"}
  BY <1>1, <1>2, <1>4 DEF HasBody
<1>6. TaskInv(b)'
  BY <1>1, <1>3, <1>5, DiskFrame DEF TaskInv, In
<1> QED BY <1>1, <1>6, StartStep DEF Stages
-----------------------------------------------------------------------------
(* Readers and crashes.                                                    *)

(* Data that is in a batch is not on disk yet.                             *)
LEMMA OnlyNew ==
  ASSUME Inv, NEW c \in All, NEW key \in DOMAIN batch[c], key[1] \in AppendOnly \ {"parents"}
  PROVE  key \notin DOMAIN disk
<1>1. key \in KeysAt(c, pc[c], disk[Tip]) /\ TaskInv(c) /\ DiskKeys(c)
  BY DEF Inv, BatchInv, Keys, DiskInv
<1>2. key[1] \notin {"hst", "tips", "reachability", "statuses", "parents", "children"}
  BY DEF AppendOnly
<1>3. key \notin {Tip, Tips, Reach, StatusKey(c)} /\ key \notin RelationKeys(c)
  BY <1>2, KeyKinds
<1>4. \/ key \in HeaderKeys(c) /\ In(c, "header", HeaderSteps \ {"drop"})
      \/ key = <<"transactions", c>> /\ In(c, "body", BodySteps \ {"drop"})
      \/ key \in UtxoKeys(c) /\ In(c, "utxo", UtxoSteps \ {"drop"})
  BY <1>1, <1>3 DEF KeysAt, In, HeaderSteps, BodySteps, UtxoSteps
<1>5. CASE key \in HeaderKeys(c) /\ In(c, "header", HeaderSteps \ {"drop"})
  <2>1. c \notin Accepted
    BY <1>1, <1>5 DEF TaskInv, Accepted
  <2>2. PICK s \in HeaderStores : key = <<s, c>>
    BY <1>5 DEF HeaderKeys
  <2> QED BY <1>1, <2>1, <2>2 DEF DiskKeys, OnDisk
<1>6. CASE key = <<"transactions", c>> /\ In(c, "body", BodySteps \ {"drop"})
  <2>1. c \notin Bodies
    BY <1>1, <1>6 DEF TaskInv, Bodies, HasBody
  <2> QED BY <1>1, <1>6, <2>1 DEF DiskKeys, OnDisk
<1>7. CASE key \in UtxoKeys(c) /\ In(c, "utxo", UtxoSteps \ {"drop"})
  <2>1. DiskStatus(c) # "UTXOValid"
    BY <1>1, <1>7 DEF TaskInv
  <2>2. PICK s \in UtxoStores : key = <<s, c>>
    BY <1>7 DEF UtxoKeys
  <2> QED BY <1>1, <2>1, <2>2 DEF DiskKeys, OnDisk
<1> QED BY <1>4, <1>5, <1>6, <1>7

(* What a reader may read and finds on disk, nobody is replacing.          *)
LEMMA Readable ==
  ASSUME Inv, NEW key \in DOMAIN disk, MayRead(LockOf(key[1]))
  PROVE  ~Batched(key)
<1>1. Tasks
  BY DEF Inv, Tasks
<1>2. CASE LockOf(key[1]) \in Locks
  BY <1>1, <1>2, FreeStore DEF MayRead
<1>3. CASE LockOf(key[1]) \notin Locks
  <2> SUFFICES ASSUME NEW c \in All, key \in DOMAIN batch[c] PROVE FALSE
    BY DEF Batched
  <2>1. key \in Keys(c) /\ "reachability" \in Locks
    BY DEF Inv, BatchInv, Locks
  <2>2. key[1] \in AppendOnly \ {"parents"}
    BY <1>1, <1>3, <2>1, KeyOwner DEF Tasks
  <2> QED BY <2>2, OnlyNew
<1> QED BY <1>2, <1>3

(* The invariant stays when neither the disk, the batches nor the tasks    *)
(* change.                                                                 *)
LEMMA CacheOnly ==
  ASSUME Inv, UNCHANGED <<disk, batch, owner, pc, node, crashes, bad>>, CacheInv', ReaderInv'
  PROVE  Inv'
<1>1. TypeInv'
  BY DEF Inv, TypeInv
<1>2. ASSUME NEW c \in All PROVE DOMAIN batch'[c] = Keys(c)' /\ Values(c)' /\ Guarded(c)' /\ TaskInv(c)'
  <2>1. DOMAIN batch'[c] = Keys(c)' /\ Values(c)'
    BY <1>2, BatchFrame DEF Inv, BatchInv
  <2>2. Guarded(c)' /\ TaskInv(c)'
    BY <1>2, GuardFrame, TaskFrame DEF Inv
  <2> QED BY <2>1, <2>2
<1>3. BatchInv'
  BY <1>2 DEF BatchInv
<1>4. NodeInv' /\ FirstStart' /\ DiskInv'
  <2>1. Done' <=> Done
    BY DEF Done
  <2> QED BY <2>1, DiskFrame DEF Inv, NodeInv, FirstStart
<1> QED BY <1>1, <1>2, <1>3, <1>4 DEF Inv

(* A reader's miss.                                                        *)
LEMMA ReadMissStep ==
  ASSUME Inv, NEW key, ReadMiss(key)
  PROVE  Inv'
<1>1. /\ key \in DOMAIN disk /\ MayRead(LockOf(key[1]))
      /\ reader' = [key |-> key, value |-> disk[key]]
      /\ UNCHANGED <<disk, cache, batch, owner, pc, node, crashes, bad>>
  BY DEF ReadMiss
<1>2. reader'.key = key /\ reader'.value = disk[key]
  BY SMT, <1>1
<1>3. ~Batched(key)
  BY <1>1, Readable
<1>4. ReaderInv'
  BY <1>1, <1>2, <1>3 DEF ReaderInv, OnDiskNow, Batched
<1>5. CacheInv'
  BY <1>1 DEF Inv, CacheInv, OnDiskNow, Batched
<1> QED BY <1>1, <1>4, <1>5, CacheOnly

(* Its answer goes to the cache.                                           *)
LEMMA ReadFillStep ==
  ASSUME Inv, ReadFill
  PROVE  Inv'
<1> DEFINE ws == reader.key :> reader.value
<1>1. /\ reader # None /\ cache' \in CacheInsert(cache, ws) /\ reader' = None
      /\ UNCHANGED <<disk, batch, owner, pc, node, crashes, bad>>
  BY DEF ReadFill
<1>2. DOMAIN ws = {reader.key} /\ ws[reader.key] = reader.value
  BY Single
<1> HIDE DEF ws
<1>3. OnDiskNow(reader.key, reader.value) /\ ~Batched(reader.key)
  BY <1>1 DEF Inv, ReaderInv
<1>4. ASSUME NEW key \in DOMAIN cache'
      PROVE  /\ Batched(key)' \/ OnDiskNow(key, cache[key])'
             /\ \A b \in All : key \in DOMAIN batch'[b] => cache'[key] = batch'[b][key]
  <2>1. CASE key = reader.key
    <3>1. cache'[key] = reader.value
      BY <1>1, <1>2, <1>4, <2>1, Cached
    <3> QED BY <1>1, <1>3, <2>1, <3>1 DEF OnDiskNow, Batched
  <2>2. CASE key # reader.key
    <3>1. key \in DOMAIN cache /\ cache'[key] = cache[key]
      BY <1>1, <1>2, <1>4, <2>2, Cached
    <3> QED BY <1>1, <3>1 DEF Inv, CacheInv, OnDiskNow, Batched
  <2> QED BY <2>1, <2>2
<1>5. CacheInv'
  BY <1>4 DEF CacheInv
<1>6. ReaderInv'
  BY <1>1 DEF ReaderInv
<1> QED BY <1>1, <1>5, <1>6, CacheOnly

(* A crash leaves the disk.                                                *)
LEMMA CrashStep ==
  ASSUME Inv, Crash
  PROVE  Inv'
<1>1. /\ crashes' = crashes + 1 /\ cache' = NoWrites /\ batch' = [b \in All |-> NoWrites]
      /\ owner' = [l \in Locks |-> None] /\ pc' = [b \in All |-> Idle]
      /\ reader' = None /\ node' = "down" /\ disk' = disk /\ bad' = bad
  BY DEF Crash
<1>2. crashes' \in Nat /\ crashes' # 0
  BY SMT, <1>1 DEF Inv, TypeInv
<1>3. TypeInv'
  BY <1>1, <1>2 DEF TypeInv, Task
<1>4. DOMAIN NoWrites = {}
  BY DEF NoWrites
<1>5. ASSUME NEW b \in All PROVE DOMAIN batch'[b] = Keys(b)' /\ Values(b)' /\ Guarded(b)' /\ TaskInv(b)'
  <2>1. pc'[b] = Idle /\ DOMAIN batch'[b] = {}
    BY <1>1, <1>4
  <2> QED BY <2>1, AtRest
<1>6. BatchInv' /\ CacheInv' /\ ReaderInv'
  BY <1>1, <1>4, <1>5 DEF BatchInv, CacheInv, ReaderInv
<1>7. DiskInv'
  BY <1>1, DiskFrame DEF Inv
<1>8. NodeInv'
  <2>1. pc'[Genesis] = Idle /\ \A b \in Blocks : pc'[b] = Idle
    BY <1>1 DEF All
  <2>2. pc'[Genesis].stage \notin {"header", "body", "utxo"}
    <3>1. Idle.stage = None /\ None \notin Stages
      BY NoneAssumption DEF Idle
    <3> QED BY <2>1, <3>1 DEF Stages
  <2> QED BY <1>1, <2>1, <2>2, DiskFrame DEF Inv, NodeInv
<1>9. FirstStart'
  BY <1>2 DEF FirstStart
<1> QED BY <1>3, <1>5, <1>6, <1>7, <1>8, <1>9 DEF Inv
-----------------------------------------------------------------------------
(* The flush of a batch.                                                   *)

(* A batch is flushed at the end of one of the three stages.               *)
LEMMA FlushPlace ==
  ASSUME Inv, NEW b \in All, pc[b].step = "flush"
  PROVE  pc[b].stage \in Stages /\ At(b, pc[b].stage, "flush")
<1>1. pc[b] \in Task
  BY DEF Inv, TypeInv
<1>2. pc[b] # Idle
  <2>1. None # "flush"
    BY NoneAssumption DEF Steps
  <2> QED BY <1>1, <2>1, TaskFacts
<1> QED BY <1>1, <1>2, TaskFacts DEF At

(* What the flush leaves on disk and in the batches.                       *)
LEMMA Flushed ==
  ASSUME Inv, NEW b \in All, Flush(b)
  PROVE  /\ \A key : key \in DOMAIN disk' <=> key \in Keys(b) \/ key \in DOMAIN disk
         /\ \A key \in Keys(b) : disk'[key] = batch[b][key]
         /\ \A key \in DOMAIN disk : key \notin Keys(b) => disk'[key] = disk[key]
         /\ DOMAIN batch' = All /\ DOMAIN batch'[b] = {} /\ \A c \in All \ {b} : batch'[c] = batch[c]
         /\ pc' \in [All -> Task] /\ \A c \in All \ {b} : pc'[c] = pc[c]
         /\ pc'[b].stage = pc[b].stage /\ pc'[b].step = "drop" /\ pc'[b] = Place(pc[b].stage, "drop")
<1>1. /\ disk' = batch[b] ++ disk /\ batch' = [batch EXCEPT ![b] = NoWrites] /\ GoTo(b, "drop")
      /\ pc[b].step = "flush"
  BY DEF Flush
<1>2. DOMAIN batch[b] = Keys(b) /\ DOMAIN batch = All /\ pc \in [All -> Task]
  BY DEF Inv, BatchInv, TypeInv
<1>3. DOMAIN NoWrites = {}
  BY DEF NoWrites
<1>4. At(b, pc[b].stage, "flush") /\ pc[b].stage \in Stages
  BY <1>1, FlushPlace
<1>5. Place(pc[b].stage, "drop") \in Task
  BY <1>4, Places DEF HeaderSteps, BodySteps, UtxoSteps, Stages
<1>6. /\ pc' \in [All -> Task] /\ pc'[b] = Place(pc[b].stage, "drop") /\ \A c \in All \ {b} : pc'[c] = pc[c]
      /\ pc'[b].stage = pc[b].stage /\ pc'[b].step = "drop"
  <2> DEFINE stage == pc[b].stage
  <2>1. At(b, stage, "flush") /\ Place(stage, "drop") \in Task
    BY <1>4, <1>5
  <2> HIDE DEF stage
  <2>2. /\ pc' \in [All -> Task] /\ pc'[b] = Place(stage, "drop") /\ \A c \in All \ {b} : pc'[c] = pc[c]
        /\ pc'[b].stage = stage /\ pc'[b].step = "drop"
    BY SMT, <1>1, <1>2, <2>1, Gone DEF Place
  <2> QED BY <2>2 DEF stage
<1>7. /\ \A key : key \in DOMAIN disk' <=> key \in Keys(b) \/ key \in DOMAIN disk
      /\ \A key \in Keys(b) : disk'[key] = batch[b][key]
      /\ \A key \in DOMAIN disk : key \notin Keys(b) => disk'[key] = disk[key]
  BY SMT, <1>1, <1>2, Overlay
<1>8. DOMAIN batch' = All /\ DOMAIN batch'[b] = {} /\ \A c \in All \ {b} : batch'[c] = batch[c]
  BY <1>1, <1>2, <1>3
<1> QED BY <1>6, <1>7, <1>8

(* The caches and the reader do not notice.                                *)
LEMMA FlushCache ==
  ASSUME Inv, NEW b \in All, Flush(b)
  PROVE  CacheInv' /\ ReaderInv'
<1>1. cache' = cache /\ reader' = reader /\ Tasks /\ DOMAIN batch[b] = Keys(b)
  BY DEF Flush, Inv, Tasks, BatchInv
<1>2. ASSUME NEW key \in DOMAIN cache
      PROVE  /\ Batched(key)' \/ OnDiskNow(key, cache[key])'
             /\ \A c \in All : key \in DOMAIN batch'[c] => cache'[key] = batch'[c][key]
  <2>1. /\ Batched(key) \/ OnDiskNow(key, cache[key])
        /\ \A c \in All : key \in DOMAIN batch[c] => cache[key] = batch[c][key]
    BY <1>2 DEF Inv, CacheInv
  <2>2. \A c \in All : key \in DOMAIN batch'[c] => c # b /\ batch'[c] = batch[c]
    BY Flushed
  <2>3. CASE key \in Keys(b)
    <3>1. key \in DOMAIN disk' /\ disk'[key] = batch[b][key]
      BY <2>3, Flushed
    <3> QED BY <1>1, <2>1, <2>2, <2>3, <3>1 DEF OnDiskNow
  <2>4. CASE key \notin Keys(b)
    <3>1. OnDiskNow(key, cache[key]) => OnDiskNow(key, cache[key])'
      <4>1. key \in DOMAIN disk => key \in DOMAIN disk' /\ disk'[key] = disk[key]
        BY <2>4, Flushed
      <4> QED BY <1>1, <4>1 DEF OnDiskNow
    <3>2. Batched(key) => Batched(key)'
      <4>1. \A c \in All : key \in DOMAIN batch[c] => c # b
        BY <1>1, <2>4
      <4>2. \A c \in All \ {b} : batch'[c] = batch[c]
        BY Flushed
      <4> QED BY <4>1, <4>2 DEF Batched
    <3> QED BY <1>1, <2>1, <2>2, <3>1, <3>2
  <2> QED BY <2>3, <2>4
<1>3. CacheInv'
  BY <1>1, <1>2 DEF CacheInv
<1>4. ReaderInv'
  <2> SUFFICES ASSUME reader # None PROVE OnDiskNow(reader.key, reader.value)' /\ ~Batched(reader.key)'
    BY <1>1 DEF ReaderInv
  <2>1. OnDiskNow(reader.key, reader.value) /\ ~Batched(reader.key)
    BY DEF Inv, ReaderInv
  <2>2. reader.key \notin Keys(b)
    BY <1>1, <2>1 DEF Batched
  <2>3. \A c \in All : reader.key \notin DOMAIN batch'[c]
    <3>1. DOMAIN batch'[b] = {} /\ \A c \in All \ {b} : batch'[c] = batch[c]
      BY Flushed
    <3> QED BY <2>1, <3>1 DEF Batched
  <2>4. reader.key \in DOMAIN disk => reader.key \in DOMAIN disk' /\ disk'[reader.key] = disk[reader.key]
    BY <2>2, Flushed
  <2> QED BY <1>1, <2>1, <2>3, <2>4 DEF OnDiskNow, Batched
<1> QED BY <1>3, <1>4

(* Other tasks keep what they read: it is under their guards.              *)
LEMMA FlushOthers ==
  ASSUME Inv, NEW b \in All, Flush(b), NEW c \in All \ {b}
  PROVE  DOMAIN batch'[c] = Keys(c)' /\ Values(c)'
<1>1. /\ pc'[c] = pc[c] /\ batch'[c] = batch[c]
      /\ \A key \in DOMAIN disk : key \notin Keys(b) => disk'[key] = disk[key]
  BY Flushed
<1>2. /\ Tasks /\ DOMAIN batch[b] = Keys(b) /\ DOMAIN batch[c] = Keys(c) /\ Values(c)
      /\ Guarded(b) /\ Guarded(c) /\ TypeInv /\ TaskInv(c)
  BY DEF Inv, Tasks, BatchInv
<1>3. \A key \in Keys(c) : key \notin Keys(b)
  BY <1>2, Exclusive
<1>4. ASSUME In(c, "header", {"relations", "status", "commit", "flush"}) PROVE disk'[Tip] = disk[Tip]
  <2>1. owner["hst"] = c
    BY <1>2, <1>4 DEF Guarded, In
  <2>2. Tip \notin Keys(b)
    <3>1. LockOf(Tip[1]) = "hst" /\ Tip[1] = "hst" /\ "hst" \in Locks /\ "hst" \notin AppendOnly
      BY KeyKinds, LockFacts DEF Locks, AppendOnly
    <3>2. ASSUME Tip \in Keys(b) PROVE owner["hst"] = b
      <4>1. \/ LockOf(Tip[1]) \in Locks \ {"reachability"} /\ owner[LockOf(Tip[1])] = b
            \/ LockOf(Tip[1]) = "reachability" /\ owner["reachability"] = b /\ pc[b].step = "flush"
            \/ Tip[1] \in AppendOnly \ {"parents"} /\ Tip[2] = b /\ Tip = <<Tip[1], b>>
        BY <1>2, <3>2, KeyOwner
      <4> QED BY <3>1, <4>1
    <3> QED BY <2>1, <3>2
  <2>3. Tip \in DOMAIN disk
    BY <1>2, <1>4 DEF TaskInv, In, HeaderSteps, OnDisk, Tip
  <2> QED BY <1>1, <2>2, <2>3
<1>5. DOMAIN batch'[c] = Keys(c)'
  <2>1. KeysAt(c, pc[c], disk'[Tip]) = KeysAt(c, pc[c], disk[Tip])
    <3>1. CASE In(c, "header", {"relations", "status", "commit", "flush"})
      BY <1>4, <3>1
    <3>2. CASE ~In(c, "header", {"relations", "status", "commit", "flush"})
      BY <3>2 DEF KeysAt, In
    <3> QED BY <3>1, <3>2
  <2> QED BY <1>1, <1>2, <2>1 DEF Keys
<1>6. \A key \in Keys(c) : key \in DOMAIN disk => disk'[key] = disk[key]
  BY <1>1, <1>3
<1>7. In(c, "header", {"status", "commit", "flush"}) /\ c \in Blocks =>
        \A p \in Parents[c] : disk'[<<"children", p>>] = disk[<<"children", p>>]
  <2> SUFFICES ASSUME In(c, "header", {"status", "commit", "flush"}), c \in Blocks, NEW p \in Parents[c]
               PROVE  disk'[<<"children", p>>] = disk[<<"children", p>>]
    OBVIOUS
  <2>1. p \in Accepted /\ p \in All
    BY <1>2 DEF TaskInv, In, HeaderSteps, Accepted
  <2>2. <<"children", p>> \in DOMAIN disk
    BY <2>1 DEF Inv, DiskInv, DiskKeys, OnDisk
  <2>3. <<"children", p>> \in Keys(c)
    <3>1. c # Genesis
      BY BlocksAssumption
    <3>2. <<"children", p>> \in RelationKeys(c)
      BY <3>1 DEF RelationKeys, ParentsOf
    <3> QED BY <3>2 DEF Keys, KeysAt, In
  <2> QED BY <1>6, <2>2, <2>3
<1>8. Reach \in DOMAIN batch[c] => disk'[Reach] = disk[Reach]
  <2> SUFFICES ASSUME Reach \in Keys(c) PROVE disk'[Reach] = disk[Reach]
    BY <1>2
  <2>1. pc[c] # Idle
    <3>1. KeysAt(c, Idle, disk[Tip]) = {}
      BY KeysOther
    <3> QED BY <3>1 DEF Keys
  <2> QED BY <1>6, <2>1, BusyNode DEF OnDisk, Reach
<1>9. Tips \in DOMAIN batch[c] => disk'[Tips] = disk[Tips]
  <2> SUFFICES ASSUME Tips \in Keys(c) PROVE disk'[Tips] = disk[Tips]
    BY <1>2
  <2>1. In(c, "body", {"status", "flush"})
    BY KeysDiffer DEF Keys, KeysAt, In
  <2>2. Tips \in DOMAIN disk
    BY <1>2, <2>1 DEF TaskInv, In, BodySteps, OnDisk, Tips
  <2> QED BY <1>6, <2>2
<1>10. Values(c)'
  <2>1. \A stage, steps : In(c, stage, steps)' <=> In(c, stage, steps)
    BY <1>1 DEF In
  <2> QED BY <1>1, <1>2, <1>7, <1>8, <1>9, <2>1 DEF Values
<1> QED BY <1>5, <1>10

(* The status a block gets in each stage.                                  *)
LEMMA StageStatusFacts ==
  StageStatus["header"] = "HeaderOnly" /\ StageStatus["body"] = "UTXOPending" /\ StageStatus["utxo"] = "UTXOValid"
BY SMT DEF StageStatus

(* The status of the block is on disk, and no other status changes.        *)
LEMMA FlushStatus ==
  ASSUME Inv, NEW b \in All, Flush(b)
  PROVE  /\ DiskStatus(b)' = StageStatus[pc[b].stage]
         /\ \A c \in All \ {b} : DiskStatus(c)' = DiskStatus(c)
         /\ \A s, x : OnDisk(s, x) => OnDisk(s, x)'
         /\ \A x, s : Fails(x, s)' <=> Fails(x, s)
<1>1. pc[b].step = "flush" /\ bad' = bad
  BY DEF Flush
<1>2. DOMAIN batch[b] = Keys(b) /\ Values(b)
  BY DEF Inv, BatchInv
<1>3. StatusKey(b) \in Keys(b)
  BY <1>1 DEF Keys, KeysAt
<1>4. DiskStatus(b)' = StageStatus[pc[b].stage]
  <2>1. StatusKey(b) \in DOMAIN disk' /\ disk'[StatusKey(b)] = batch[b][StatusKey(b)]
    BY <1>3, Flushed
  <2> QED BY <1>2, <1>3, <2>1 DEF DiskStatus, OnDisk, StatusKey, Values
<1>5. ASSUME NEW c \in All \ {b} PROVE DiskStatus(c)' = DiskStatus(c)
  <2>1. StatusKey(c) \notin Keys(b)
    <3>1. StatusKey(c)[1] = "statuses"
      BY KeyKinds
    <3>2. StatusKey(c) # StatusKey(b)
      BY KeyFacts DEF StatusKey
    <3> QED BY <3>1, <3>2, KeyKinds DEF Keys, KeysAt
  <2>2. /\ StatusKey(c) \in DOMAIN disk' <=> StatusKey(c) \in DOMAIN disk
        /\ StatusKey(c) \in DOMAIN disk => disk'[StatusKey(c)] = disk[StatusKey(c)]
    BY <2>1, Flushed
  <2> QED BY <2>2 DEF DiskStatus, OnDisk, StatusKey
<1>6. \A s, x : OnDisk(s, x) => OnDisk(s, x)'
  BY Flushed DEF OnDisk
<1>7. \A x, s : Fails(x, s)' <=> Fails(x, s)
  BY <1>1 DEF Fails
<1> QED BY <1>4, <1>5, <1>6, <1>7

(* A header is accepted, a body is added, and UTXO data changes neither.   *)
LEMMA FlushSets ==
  ASSUME Inv, NEW b \in All, Flush(b)
  PROVE  /\ pc[b].stage = "header" => b \notin Accepted /\ Accepted' = Accepted \cup {b} /\ Bodies' = Bodies
         /\ pc[b].stage = "body" => b \notin Bodies /\ Accepted' = Accepted /\ Bodies' = Bodies \cup {b}
         /\ pc[b].stage = "utxo" => Accepted' = Accepted /\ Bodies' = Bodies
         /\ Accepted \subseteq Accepted' /\ Bodies \subseteq Bodies'
<1>1. pc[b].step = "flush" /\ TaskInv(b)
  BY DEF Flush, Inv
<1>2. None \notin Statuses
  BY NoneAssumption
<1>3. ASSUME NEW c \in All \ {b} PROVE (c \in Accepted' <=> c \in Accepted) /\ (c \in Bodies' <=> c \in Bodies)
  BY FlushStatus DEF Accepted, Bodies
<1>4. CASE pc[b].stage = "header"
  <2>1. DiskStatus(b) = None /\ DiskStatus(b)' = "HeaderOnly"
    BY <1>1, <1>4, FlushStatus, StageStatusFacts DEF TaskInv, In, HeaderSteps
  <2>2. b \notin Accepted /\ b \notin Bodies
    BY <2>1 DEF Accepted, Bodies
  <2>3. b \in Accepted' /\ b \notin Bodies'
    BY <1>2, <2>1 DEF Accepted, Bodies, HasBody, Statuses
  <2>4. Accepted' \subseteq All /\ Bodies' \subseteq All /\ Accepted \subseteq All /\ Bodies \subseteq All
    BY DEF Accepted, Bodies
  <2>5. Accepted' = Accepted \cup {b}
    BY <1>3, <2>3, <2>4
  <2>6. Bodies' = Bodies
    <3>1. \A c \in All : c \in Bodies' <=> c \in Bodies
      BY <1>3, <2>2, <2>3
    <3> QED BY <2>4, <3>1
  <2> QED BY <1>4, <2>2, <2>5, <2>6
<1>5. CASE pc[b].stage = "body"
  <2>1. DiskStatus(b) = "HeaderOnly" /\ DiskStatus(b)' = "UTXOPending"
    BY <1>1, <1>5, FlushStatus, StageStatusFacts DEF TaskInv, In, BodySteps
  <2>2. b \in Accepted /\ b \notin Bodies
    BY <1>2, <2>1 DEF Accepted, Bodies, HasBody, Statuses
  <2>3. b \in Accepted' /\ b \in Bodies'
    BY <1>2, <2>1 DEF Accepted, Bodies, HasBody, Statuses
  <2>4. Accepted' \subseteq All /\ Bodies' \subseteq All /\ Accepted \subseteq All /\ Bodies \subseteq All
    BY DEF Accepted, Bodies
  <2>5. Accepted' = Accepted
    <3>1. \A c \in All : c \in Accepted' <=> c \in Accepted
      BY <1>3, <2>2, <2>3
    <3> QED BY <2>4, <3>1
  <2>6. Bodies' = Bodies \cup {b}
    BY <1>3, <2>3, <2>4
  <2> QED BY <1>5, <2>2, <2>5, <2>6
<1>6. CASE pc[b].stage = "utxo"
  <2>1. DiskStatus(b) \in {"UTXOPending", "Disqualified"} /\ DiskStatus(b)' = "UTXOValid"
    BY <1>1, <1>6, FlushStatus, StageStatusFacts DEF TaskInv, In, UtxoSteps
  <2>2. b \in Accepted /\ b \in Bodies
    BY <1>2, <2>1 DEF Accepted, Bodies, HasBody, Statuses
  <2>3. b \in Accepted' /\ b \in Bodies'
    BY <1>2, <2>1 DEF Accepted, Bodies, HasBody, Statuses
  <2>4. Accepted' \subseteq All /\ Bodies' \subseteq All /\ Accepted \subseteq All /\ Bodies \subseteq All
    BY DEF Accepted, Bodies
  <2>5. Accepted' = Accepted
    <3>1. \A c \in All : c \in Accepted' <=> c \in Accepted
      BY <1>3, <2>2, <2>3
    <3> QED BY <2>4, <3>1
  <2>6. Bodies' = Bodies
    <3>1. \A c \in All : c \in Bodies' <=> c \in Bodies
      BY <1>3, <2>2, <2>3
    <3> QED BY <2>4, <3>1
  <2> QED BY <1>6, <2>5, <2>6
<1> QED BY <1>1, <1>4, <1>5, <1>6, FlushPlace DEF Stages

(* What other tasks rest on stays.                                         *)
LEMMA FlushTasks ==
  ASSUME Inv, NEW b \in All, Flush(b), NEW c \in All
  PROVE  TaskInv(c)' /\ Guarded(c)'
<1>1. owner' = owner /\ TaskInv(c) /\ Guarded(c)
  BY DEF Flush, Inv
<1>2. CASE c = b
  <2>1. pc'[b].stage = pc[b].stage /\ pc'[b].step = "drop" /\ pc[b].step = "flush"
    BY Flushed DEF Flush
  <2> QED BY <1>1, <1>2, <2>1 DEF TaskInv, Guarded, In
<1>3. CASE c # b
  <2>1. pc'[c] = pc[c]
    BY <1>3, Flushed
  <2>2. \A stage, steps : In(c, stage, steps)' <=> In(c, stage, steps)
    BY <2>1 DEF In
  <2>3. DiskStatus(c)' = DiskStatus(c) /\ (\A s, x : OnDisk(s, x) => OnDisk(s, x)') /\ (Fails(c, "header")' <=> Fails(c, "header"))
    BY <1>3, FlushStatus
  <2>4. Accepted \subseteq Accepted' /\ Bodies \subseteq Bodies'
    BY FlushSets
  <2>5. TaskInv(c)'
    BY <1>1, <2>2, <2>3, <2>4 DEF TaskInv
  <2>6. Guarded(c)'
    BY <1>1, <2>1, GuardFrame
  <2> QED BY <2>5, <2>6
<1> QED BY <1>2, <1>3

(* The start of the node goes on with the flush of genesis.                *)
LEMMA FlushNode ==
  ASSUME Inv, NEW b \in All, Flush(b)
  PROVE  NodeInv' /\ FirstStart'
<1>1. /\ UNCHANGED <<node, crashes>> /\ pc[b].step = "flush"
      /\ pc'[b].stage = pc[b].stage /\ pc'[b].step = "drop" /\ \A c \in All \ {b} : pc'[c] = pc[c]
  BY Flushed DEF Flush
<1>2. \A s, x : OnDisk(s, x) => OnDisk(s, x)'
  BY FlushStatus
<1>3. pc[b] # Idle
  <2>1. Idle.step = None /\ None # "flush"
    BY NoneAssumption DEF Idle, Steps
  <2> QED BY <1>1, <2>1
<1>4. CASE b = Genesis
  <2>1. pc[Genesis].stage \in Stages
    BY <1>1, <1>4, FlushPlace
  <2>2. DiskStatus(Genesis)' = StageStatus[pc[Genesis].stage]
    BY <1>4, FlushStatus
  <2>3. \A c \in Blocks : pc'[c] = pc[c]
    BY <1>1, <1>4, BlocksAssumption DEF All
  <2>4. None \notin Statuses
    BY NoneAssumption
  <2>5. CASE pc[Genesis].stage = "header"
    <3>1. DiskStatus(Genesis)' = "HeaderOnly" /\ node = "body" /\ pc'[Genesis].stage = "header"
      BY <1>1, <1>4, <2>2, <2>5, StageStatusFacts DEF Inv, NodeInv
    <3> QED BY <1>1, <1>2, <2>3, <2>4, <3>1 DEF Inv, NodeInv, FirstStart, Statuses
  <2>6. CASE pc[Genesis].stage = "body"
    <3>1. DiskStatus(Genesis)' = "UTXOPending" /\ node = "virtual" /\ pc'[Genesis].stage = "body"
      BY <1>1, <1>4, <2>2, <2>6, StageStatusFacts DEF Inv, NodeInv
    <3> QED BY <1>1, <1>2, <2>3, <2>4, <3>1 DEF Inv, NodeInv, FirstStart, Statuses
  <2>7. CASE pc[Genesis].stage = "utxo"
    <3>1. DiskStatus(Genesis)' = "UTXOValid" /\ node = "past_pps" /\ pc'[Genesis].stage = "utxo"
      BY <1>1, <1>4, <2>2, <2>7, StageStatusFacts DEF Inv, NodeInv
    <3> QED BY <1>1, <1>2, <2>3, <2>4, <3>1 DEF Inv, NodeInv, FirstStart, Statuses
  <2> QED BY <2>1, <2>5, <2>6, <2>7 DEF Stages
<1>5. CASE b # Genesis
  <2>1. pc'[Genesis] = pc[Genesis] /\ DiskStatus(Genesis)' = DiskStatus(Genesis)
    BY <1>1, <1>5, FlushStatus DEF All
  <2>2. Done' <=> Done
    BY <2>1 DEF Done
  <2>3. node \in {"running", "panicked"}
    BY <1>3, <1>5, BusyNode DEF All
  <2> QED BY <1>1, <1>2, <2>1, <2>2, <2>3 DEF Inv, NodeInv, FirstStart
<1> QED BY <1>4, <1>5

(* The keys that a flush puts on disk.                                     *)
LEMMA FlushKeys ==
  ASSUME Inv, NEW b \in All, Flush(b)
  PROVE  /\ pc[b].stage = "header" =>
              Keys(b) = HeaderKeys(b) \cup {k \in {Tip} : b > disk[Tip]} \cup RelationKeys(b) \cup {StatusKey(b), Reach}
         /\ pc[b].stage = "body" => Keys(b) = {<<"transactions", b>>, Tips, StatusKey(b)}
         /\ pc[b].stage = "utxo" => Keys(b) = UtxoKeys(b) \cup {StatusKey(b)}
<1>1. pc[b] = Place(pc[b].stage, "flush")
  BY FlushPlace DEF Flush, At, Place
<1>2. Keys(b) = KeysAt(b, Place(pc[b].stage, "flush"), disk[Tip])
  BY <1>1 DEF Keys
<1>3. CASE pc[b].stage = "header"
  BY <1>2, <1>3, KeysHeader
<1>4. CASE pc[b].stage = "body"
  BY <1>2, <1>4, KeysOther
<1>5. CASE pc[b].stage = "utxo"
  BY <1>2, <1>5, KeysOther
<1> QED BY <1>3, <1>4, <1>5

(* A status is one of the statuses.                                        *)
LEMMA FlushStatuses ==
  ASSUME Inv, NEW b \in All, Flush(b), NEW c \in All
  PROVE  DiskStatus(c)' \in Statuses \cup {None}
<1>1. DiskStatus(c) \in Statuses \cup {None}
  BY DEF Inv, DiskInv, DiskKeys
<1>2. pc[b].stage \in Stages
  BY FlushPlace DEF Flush
<1> QED BY <1>1, <1>2, FlushStatus, StageStatusFacts DEF Stages, Statuses

(* UTXO data.                                                              *)
LEMMA FlushUtxo ==
  ASSUME Inv, NEW b \in All, Flush(b), pc[b].stage = "utxo"
  PROVE  DiskInv'
<1>1. Accepted' = Accepted /\ Bodies' = Bodies
  BY FlushSets
<1>2. Keys(b) = UtxoKeys(b) \cup {StatusKey(b)}
  BY FlushKeys
<1>3. DiskStatus(b)' = "UTXOValid" /\ \A c \in All \ {b} : DiskStatus(c)' = DiskStatus(c)
  BY FlushStatus, StageStatusFacts
<1>4. \A key : key[1] \notin {"diffs", "multisets", "acceptance", "statuses"} =>
        /\ key \in DOMAIN disk' <=> key \in DOMAIN disk
        /\ key \in DOMAIN disk => disk'[key] = disk[key]
  <2>1. \A key \in Keys(b) : key[1] \in {"diffs", "multisets", "acceptance", "statuses"}
    BY <1>2, KeyKinds
  <2> QED BY <2>1, Flushed
<1>5. ASSUME NEW s, NEW x, s \notin {"diffs", "multisets", "acceptance", "statuses"}
      PROVE  /\ OnDisk(s, x)' <=> OnDisk(s, x)
             /\ OnDisk(s, x) => disk'[<<s, x>>] = disk[<<s, x>>]
  BY <1>4, <1>5, KeyFacts DEF OnDisk
<1>6. ASSUME NEW c \in All PROVE DiskKeys(c)'
  <2>1. DiskKeys(c)
    BY DEF Inv, DiskInv
  <2>2. \A s \in HeaderStores \cup {"parents", "children"} : OnDisk(s, c)' <=> c \in Accepted'
    BY <1>1, <1>5, <2>1 DEF DiskKeys, HeaderStores
  <2>3. OnDisk("transactions", c)' <=> c \in Bodies'
    BY <1>1, <1>5, <2>1 DEF DiskKeys
  <2>4. ASSUME NEW s \in UtxoStores PROVE OnDisk(s, c)' <=> DiskStatus(c)' = "UTXOValid"
    <3>1. OnDisk(s, c)' <=> <<s, c>> \in Keys(b) \/ OnDisk(s, c)
      BY Flushed DEF OnDisk
    <3>2. CASE c = b
      BY <1>2, <1>3, <3>1, <3>2 DEF UtxoKeys
    <3>3. CASE c # b
      <4>1. <<s, c>> \notin Keys(b)
        <5>1. s # "statuses"
          BY DEF UtxoStores
        <5> QED BY <1>2, <3>3, <5>1, KeyFacts DEF UtxoKeys, StatusKey
      <4> QED BY <1>3, <2>1, <3>1, <3>3, <4>1 DEF DiskKeys
    <3> QED BY <3>2, <3>3
  <2>5. OnDisk("children", c)' => disk'[<<"children", c>>] = {x \in Accepted' : c \in ParentsOf(x)}
    BY <1>1, <1>5, <2>1 DEF DiskKeys
  <2> QED BY <2>2, <2>3, <2>4, <2>5, FlushStatuses DEF DiskKeys
<1>7. DiskItems'
  <2>1. OnDisk("reachability", Item)' => disk'[Reach] = Accepted'
    BY <1>1, <1>5 DEF Inv, DiskInv, DiskItems, Reach
  <2>2. OnDisk("hst", Item)' => disk'[Tip] \in All /\ \A x \in Accepted' : x <= disk'[Tip]
    BY <1>1, <1>5 DEF Inv, DiskInv, DiskItems, Tip
  <2>3. OnDisk("tips", Item)' => disk'[Tips] = {x \in Bodies' : \A c \in Bodies' : x \notin ParentsOf(c)}
    BY <1>1, <1>5 DEF Inv, DiskInv, DiskItems, Tips
  <2>4. \A key \in DOMAIN disk' : key[1] \in {"pruning", "virtual"} => disk'[key] = Genesis
    BY <1>4 DEF Inv, DiskInv, DiskItems
  <2> QED BY <2>1, <2>2, <2>3, <2>4 DEF DiskItems
<1>8. DiskClosed'
  BY <1>1, <1>5 DEF Inv, DiskInv, DiskClosed
<1> QED BY <1>6, <1>7, <1>8 DEF DiskInv

(* No block is its own parent, and the parents of a block that are blocks. *)
LEMMA DagFacts ==
  ASSUME NEW b \in All
  PROVE  /\ b \notin ParentsOf(b)
         /\ \A c \in All : b \in ParentsOf(c) => c \in Blocks /\ c # Genesis /\ b \in Parents[c]
         /\ b \in Blocks => ParentsOf(b) = Parents[b] /\ b # Genesis
<1>1. \A c \in Blocks : c # Genesis
  BY BlocksAssumption
<1>2. \A c \in All : b \in ParentsOf(c) => c \in Blocks /\ c # Genesis /\ b \in Parents[c]
  BY <1>1, OriginAssumption DEF ParentsOf, All
<1>3. \A c \in Blocks : c \notin Parents[c]
  <2> SUFFICES ASSUME NEW c \in Blocks, c \in Parents[c] PROVE FALSE
    OBVIOUS
  <2>1. c \in Nat /\ c < c
    BY BlocksAssumption, ParentsAssumption
  <2> QED BY SMT, <2>1
<1> QED BY <1>1, <1>2, <1>3 DEF ParentsOf

(* A body.                                                                 *)
LEMMA FlushBody ==
  ASSUME Inv, NEW b \in All, Flush(b), pc[b].stage = "body"
  PROVE  DiskInv'
<1>1. b \notin Bodies /\ Accepted' = Accepted /\ Bodies' = Bodies \cup {b} /\ Bodies \subseteq All
  BY FlushSets DEF Bodies, Accepted
<1>2. Keys(b) = {<<"transactions", b>>, Tips, StatusKey(b)}
  BY FlushKeys
<1>3. DiskStatus(b)' = "UTXOPending" /\ \A c \in All \ {b} : DiskStatus(c)' = DiskStatus(c)
  BY FlushStatus, StageStatusFacts
<1>4. /\ DiskStatus(b) = "HeaderOnly" /\ OnDisk("tips", Item)
      /\ b \in Blocks => Parents[b] \subseteq Bodies
  <2>1. pc[b].step = "flush" /\ TaskInv(b)
    BY DEF Flush, Inv
  <2> QED BY <2>1 DEF TaskInv, In, BodySteps
<1>5. \A key : key[1] \notin {"transactions", "tips", "statuses"} =>
        /\ key \in DOMAIN disk' <=> key \in DOMAIN disk
        /\ key \in DOMAIN disk => disk'[key] = disk[key]
  <2>1. \A key \in Keys(b) : key[1] \in {"transactions", "tips", "statuses"}
    BY <1>2, KeyKinds
  <2> QED BY <2>1, Flushed
<1>6. ASSUME NEW s, NEW x, s \notin {"transactions", "tips", "statuses"}
      PROVE  /\ OnDisk(s, x)' <=> OnDisk(s, x)
             /\ OnDisk(s, x) => disk'[<<s, x>>] = disk[<<s, x>>]
  BY <1>5, <1>6, KeyFacts DEF OnDisk
<1>7. ASSUME NEW c \in All PROVE DiskKeys(c)'
  <2>1. DiskKeys(c)
    BY DEF Inv, DiskInv
  <2>2. \A s \in HeaderStores \cup {"parents", "children"} : OnDisk(s, c)' <=> c \in Accepted'
    BY <1>1, <1>6, <2>1 DEF DiskKeys, HeaderStores
  <2>3. OnDisk("transactions", c)' <=> c \in Bodies'
    <3>1. OnDisk("transactions", c)' <=> <<"transactions", c>> \in Keys(b) \/ OnDisk("transactions", c)
      BY Flushed DEF OnDisk
    <3>2. <<"transactions", c>> \in Keys(b) <=> c = b
      <4>1. <<"transactions", c>> # Tips /\ <<"transactions", c>> # StatusKey(b)
        BY KeyFacts DEF Tips, StatusKey
      <4>2. <<"transactions", c>> = <<"transactions", b>> <=> c = b
        BY KeyFacts
      <4> QED BY <1>2, <4>1, <4>2
    <3> QED BY <1>1, <2>1, <3>1, <3>2 DEF DiskKeys
  <2>4. \A s \in UtxoStores : OnDisk(s, c)' <=> DiskStatus(c)' = "UTXOValid"
    <3>1. DiskStatus(c)' = "UTXOValid" <=> DiskStatus(c) = "UTXOValid"
      BY <1>3, <1>4
    <3> QED BY <1>6, <2>1, <3>1 DEF DiskKeys, UtxoStores
  <2>5. OnDisk("children", c)' => disk'[<<"children", c>>] = {x \in Accepted' : c \in ParentsOf(x)}
    BY <1>1, <1>6, <2>1 DEF DiskKeys
  <2> QED BY <2>2, <2>3, <2>4, <2>5, FlushStatuses DEF DiskKeys
<1>8. \A c \in Bodies : b \notin ParentsOf(c)
  <2> SUFFICES ASSUME NEW c \in Bodies, b \in ParentsOf(c) PROVE FALSE
    OBVIOUS
  <2>1. c \in Blocks /\ c # Genesis /\ b \in Parents[c]
    BY <1>1, DagFacts
  <2>2. Parents[c] \subseteq Bodies
    BY <2>1 DEF Inv, DiskInv, DiskClosed
  <2> QED BY <1>1, <2>1, <2>2
<1>9. disk'[Tips] = {x \in Bodies' : \A c \in Bodies' : x \notin ParentsOf(c)}
  <2>1. Tips \in Keys(b) /\ DOMAIN batch[b] = Keys(b) /\ Values(b)
    BY <1>2 DEF Inv, BatchInv
  <2>2. disk'[Tips] = (disk[Tips] \ ParentsOf(b)) \cup {b}
    BY <2>1, Flushed DEF Values
  <2>3. disk[Tips] = {x \in Bodies : \A c \in Bodies : x \notin ParentsOf(c)}
    BY <1>4 DEF Inv, DiskInv, DiskItems
  <2>4. b \notin ParentsOf(b)
    BY DagFacts
  <2>5. \A x : x \in disk'[Tips] <=> x \in {y \in Bodies' : \A c \in Bodies' : y \notin ParentsOf(c)}
    BY <1>1, <1>8, <2>2, <2>3, <2>4
  <2>6. disk'[Tips] \subseteq Bodies'
    BY <1>1, <2>2, <2>3
  <2> QED BY <2>5, <2>6
<1>10. DiskItems'
  <2>1. OnDisk("reachability", Item)' => disk'[Reach] = Accepted'
    BY <1>1, <1>6 DEF Inv, DiskInv, DiskItems, Reach
  <2>2. OnDisk("hst", Item)' => disk'[Tip] \in All /\ \A x \in Accepted' : x <= disk'[Tip]
    BY <1>1, <1>6 DEF Inv, DiskInv, DiskItems, Tip
  <2>3. \A key \in DOMAIN disk' : key[1] \in {"pruning", "virtual"} => disk'[key] = Genesis
    BY <1>5 DEF Inv, DiskInv, DiskItems
  <2> QED BY <1>9, <2>1, <2>2, <2>3 DEF DiskItems
<1>11. DiskClosed'
  <2>1. OnDisk("tips", Item)'
    BY <1>4, FlushStatus
  <2>2. Genesis \in Bodies'
    <3>1. CASE b = Genesis
      BY <1>1, <3>1
    <3>2. CASE b # Genesis
      <4>1. pc[b] # Idle
        <5>1. Idle.step = None /\ None # "flush"
          BY NoneAssumption DEF Idle, Steps
        <5> QED BY <5>1 DEF Flush
      <4>2. node \in {"running", "panicked"}
        BY <3>2, <4>1, BusyNode DEF All
      <4> QED BY <1>1, <4>2, RunningNode
    <3> QED BY <3>1, <3>2
  <2>3. \A x \in Bodies' \ {Genesis} : Parents[x] \subseteq Bodies'
    <3>1. \A x \in Bodies \ {Genesis} : Parents[x] \subseteq Bodies
      BY DEF Inv, DiskInv, DiskClosed
    <3>2. b # Genesis => b \in Blocks
      BY DEF All
    <3> QED BY <1>1, <1>4, <3>1, <3>2
  <2>4. Accepted # {} => Genesis \in Accepted /\ OnDisk("hst", Item)' /\ OnDisk("reachability", Item)'
    BY <1>6 DEF Inv, DiskInv, DiskClosed
  <2>5. \A x \in Accepted \ {Genesis} : Parents[x] \subseteq Accepted
    BY DEF Inv, DiskInv, DiskClosed
  <2> QED BY <1>1, <2>1, <2>2, <2>3, <2>4, <2>5 DEF DiskClosed
<1> QED BY <1>7, <1>10, <1>11 DEF DiskInv

(* The children lists with a new header.                                   *)
LEMMA FlushChildren ==
  ASSUME Inv, NEW b \in All, Flush(b), pc[b].stage = "header", NEW c \in All
  PROVE  /\ OnDisk("children", c)' <=> c \in Accepted'
         /\ OnDisk("children", c)' => disk'[<<"children", c>>] = {x \in Accepted' : c \in ParentsOf(x)}
<1> DEFINE key == <<"children", c>>
<1>1. b \notin Accepted /\ Accepted' = Accepted \cup {b} /\ Accepted \subseteq All
  BY FlushSets DEF Accepted
<1>2. /\ pc[b].step = "flush" /\ DOMAIN batch[b] = Keys(b) /\ Values(b) /\ DiskKeys(c)
      /\ b \in Blocks => Parents[b] \subseteq Accepted
  <2>1. pc[b].step = "flush" /\ TaskInv(b) /\ DOMAIN batch[b] = Keys(b) /\ Values(b) /\ DiskKeys(c)
    BY DEF Flush, Inv, BatchInv, DiskInv
  <2> QED BY <2>1 DEF TaskInv, In, HeaderSteps
<1>3. key \in Keys(b) <=> c = b \/ c \in ParentsOf(b)
  <2>1. key \in Keys(b) <=> key \in RelationKeys(b)
    <3>1. key[1] = "children"
      BY KeyFacts
    <3>2. Keys(b) = HeaderKeys(b) \cup {k \in {Tip} : b > disk[Tip]} \cup RelationKeys(b) \cup {StatusKey(b), Reach}
      BY FlushKeys
    <3> HIDE DEF key
    <3> QED BY <3>1, <3>2, KeyKinds
  <2>2. key \in RelationKeys(b) <=> c = b \/ c \in ParentsOf(b)
    <3>1. key # <<"parents", b>> /\ \A p : key = <<"children", p>> <=> c = p
      BY KeyFacts
    <3>2. c = b \/ c \in ParentsOf(b) => key \in RelationKeys(b)
      BY DEF RelationKeys
    <3> HIDE DEF key
    <3>3. ASSUME key \in RelationKeys(b) PROVE c = b \/ c \in ParentsOf(b)
      <4>1. key = <<"children", b>> \/ \E p \in ParentsOf(b) : key = <<"children", p>>
        BY <3>1, <3>3 DEF RelationKeys
      <4> QED BY SMT, <3>1, <4>1
    <3> QED BY <3>2, <3>3
  <2> QED BY <2>1, <2>2
<1>4. c \in ParentsOf(b) => b \in Blocks /\ c \in Parents[b] /\ c \in Accepted
  BY <1>2, DagFacts
<1>5. OnDisk("children", c)' <=> c \in Accepted'
  <2>1. OnDisk("children", c)' <=> key \in Keys(b) \/ OnDisk("children", c)
    BY Flushed DEF OnDisk
  <2> QED BY <1>1, <1>2, <1>3, <1>4, <2>1 DEF DiskKeys
<1>6. ASSUME OnDisk("children", c)' PROVE disk'[key] = {x \in Accepted' : c \in ParentsOf(x)}
  <2>1. CASE c = b
    <3>1. disk'[key] = {}
      <4>1. disk'[key] = batch[b][<<"children", b>>]
        BY <1>3, <2>1, Flushed
      <4> QED BY <1>2, <4>1 DEF Values, In
    <3>2. \A x \in Accepted' : b \notin ParentsOf(x)
      <4> SUFFICES ASSUME NEW x \in Accepted', b \in ParentsOf(x) PROVE FALSE
        OBVIOUS
      <4>1. x # b /\ x \in Accepted
        BY <1>1, DagFacts
      <4>2. x # Genesis /\ b \in Parents[x]
        BY <1>1, <4>1, DagFacts
      <4>3. Parents[x] \subseteq Accepted
        BY <4>1, <4>2 DEF Inv, DiskInv, DiskClosed
      <4> QED BY <1>1, <4>2, <4>3
    <3> QED BY <2>1, <3>1, <3>2
  <2>2. CASE c \in ParentsOf(b) /\ c # b
    <3>1. disk'[key] = disk[key] \cup {b}
      <4>1. disk'[key] = batch[b][key]
        BY <1>3, <2>2, Flushed
      <4> QED BY <1>2, <1>4, <2>2, <4>1 DEF Values, In
    <3>2. disk[key] = {x \in Accepted : c \in ParentsOf(x)}
      BY <1>2, <1>4, <2>2 DEF DiskKeys
    <3> HIDE DEF key
    <3> QED BY <1>1, <2>2, <3>1, <3>2
  <2>3. CASE c \notin ParentsOf(b) /\ c # b
    <3>1. key \notin Keys(b)
      BY <1>3, <2>3
    <3>2. OnDisk("children", c)
      BY <1>6, <3>1, Flushed DEF OnDisk
    <3>3. disk'[key] = disk[key]
      BY <3>1, <3>2, Flushed DEF OnDisk
    <3>4. disk[key] = {x \in Accepted : c \in ParentsOf(x)}
      BY <1>2, <3>2 DEF DiskKeys
    <3> HIDE DEF key
    <3> QED BY <1>1, <2>3, <3>3, <3>4
  <2> QED BY <2>1, <2>2, <2>3
<1> QED BY <1>5, <1>6

(* A header.                                                               *)
LEMMA FlushHeader ==
  ASSUME Inv, NEW b \in All, Flush(b), pc[b].stage = "header"
  PROVE  DiskInv'
<1>1. b \notin Accepted /\ Accepted' = Accepted \cup {b} /\ Bodies' = Bodies /\ Accepted \subseteq All
  BY FlushSets DEF Accepted
<1>2. Keys(b) = HeaderKeys(b) \cup {k \in {Tip} : b > disk[Tip]} \cup RelationKeys(b) \cup {StatusKey(b), Reach}
  BY FlushKeys
<1>3. DiskStatus(b)' = "HeaderOnly" /\ \A c \in All \ {b} : DiskStatus(c)' = DiskStatus(c)
  BY FlushStatus, StageStatusFacts
<1>4. /\ DiskStatus(b) = None /\ OnDisk("hst", Item)
      /\ b \in Blocks => Parents[b] \subseteq Accepted
  <2>1. pc[b].step = "flush" /\ TaskInv(b)
    BY DEF Flush, Inv
  <2> QED BY <2>1 DEF TaskInv, In, HeaderSteps
<1>5. pc[b] # Idle /\ OnDisk("reachability", Item) /\ (b \in Blocks => node \in {"running", "panicked"})
  <2>1. Idle.step = None /\ None # "flush"
    BY NoneAssumption DEF Idle, Steps
  <2> QED BY <2>1, BusyNode DEF Flush
<1> DEFINE written == {"ghostdag", "daa", "headers", "depth", "hst", "parents", "children", "statuses", "reachability"}
<1>6. \A key : key[1] \notin written =>
        /\ key \in DOMAIN disk' <=> key \in DOMAIN disk
        /\ key \in DOMAIN disk => disk'[key] = disk[key]
  <2>1. \A key \in Keys(b) : key[1] \in written
    BY <1>2, KeyKinds
  <2> HIDE DEF written
  <2> QED BY <2>1, Flushed
<1>7. ASSUME NEW s, NEW x, s \notin written
      PROVE  /\ OnDisk(s, x)' <=> OnDisk(s, x)
             /\ OnDisk(s, x) => disk'[<<s, x>>] = disk[<<s, x>>]
  BY <1>6, <1>7, KeyFacts DEF OnDisk
<1>8. ASSUME NEW c \in All PROVE DiskKeys(c)'
  <2>1. DiskKeys(c)
    BY DEF Inv, DiskInv
  <2>2. ASSUME NEW s \in HeaderStores \cup {"parents"} PROVE OnDisk(s, c)' <=> c \in Accepted'
    <3>1. OnDisk(s, c)' <=> <<s, c>> \in Keys(b) \/ OnDisk(s, c)
      BY Flushed DEF OnDisk
    <3>2. <<s, c>> \in Keys(b) <=> c = b
      <4>1. c = b => <<s, c>> \in Keys(b)
        BY <1>2 DEF HeaderKeys, RelationKeys
      <4>2. s \notin {"hst", "children", "statuses", "reachability"}
        BY DEF HeaderStores
      <4>3. <<s, c>> \notin {Tip, StatusKey(b), Reach}
        BY <4>2, KeyFacts DEF Tip, StatusKey, Reach
      <4>4. <<s, c>> \in HeaderKeys(b) => c = b
        BY KeyFacts DEF HeaderKeys
      <4>5. <<s, c>> \in RelationKeys(b) => c = b
        BY <4>2, KeyFacts DEF RelationKeys
      <4> QED BY <1>2, <4>1, <4>3, <4>4, <4>5
    <3> QED BY <1>1, <2>1, <3>1, <3>2 DEF DiskKeys
  <2>3. OnDisk("transactions", c)' <=> c \in Bodies'
    BY <1>1, <1>7, <2>1 DEF DiskKeys
  <2>4. \A s \in UtxoStores : OnDisk(s, c)' <=> DiskStatus(c)' = "UTXOValid"
    <3>1. DiskStatus(c)' = "UTXOValid" <=> DiskStatus(c) = "UTXOValid"
      <4>1. None # "UTXOValid"
        BY NoneAssumption DEF Statuses
      <4> QED BY <1>3, <1>4, <4>1
    <3> QED BY <1>7, <2>1, <3>1 DEF DiskKeys, UtxoStores
  <2> QED BY <2>2, <2>3, <2>4, FlushStatuses, FlushChildren DEF DiskKeys
<1>9. disk'[Reach] = Accepted'
  <2>1. Reach \in Keys(b) /\ DOMAIN batch[b] = Keys(b) /\ Values(b)
    BY <1>2 DEF Inv, BatchInv
  <2>2. disk'[Reach] = disk[Reach] \cup {b}
    BY <2>1, Flushed DEF Values
  <2> QED BY <1>1, <1>5, <2>2 DEF Inv, DiskInv, DiskItems
<1>10. disk'[Tip] \in All /\ \A x \in Accepted' : x <= disk'[Tip]
  <2>1. disk[Tip] \in All /\ \A x \in Accepted : x <= disk[Tip]
    BY <1>4 DEF Inv, DiskInv, DiskItems
  <2>2. All \subseteq Nat
    BY SMT, BlocksAssumption DEF All, Genesis
  <2>3. Tip \in Keys(b) <=> b > disk[Tip]
    BY <1>2, KeysDiffer
  <2>4. CASE b > disk[Tip]
    <3>1. disk'[Tip] = b
      <4>1. Tip \in DOMAIN batch[b] /\ Values(b) /\ disk'[Tip] = batch[b][Tip]
        BY <2>3, <2>4, Flushed DEF Inv, BatchInv
      <4> QED BY <4>1 DEF Values
    <3>2. \A x, t \in Nat : x <= t /\ b > t => x <= b
      BY SMT, <2>2
    <3>3. b <= b
      BY SMT, <2>2
    <3> QED BY <1>1, <2>1, <2>2, <2>4, <3>1, <3>2, <3>3
  <2>5. CASE ~(b > disk[Tip])
    <3>1. disk'[Tip] = disk[Tip]
      <4>1. Tip \in DOMAIN disk
        BY <1>4 DEF OnDisk, Tip
      <4> QED BY <2>3, <2>5, <4>1, Flushed
    <3>2. \A t \in Nat : ~(b > t) => b <= t
      BY SMT, <2>2
    <3> QED BY <1>1, <2>1, <2>2, <2>5, <3>1, <3>2
  <2> QED BY <2>4, <2>5
<1>11. DiskItems'
  <2>1. OnDisk("tips", Item)' => disk'[Tips] = {x \in Bodies' : \A c \in Bodies' : x \notin ParentsOf(c)}
    BY <1>1, <1>7 DEF Inv, DiskInv, DiskItems, Tips
  <2>2. \A key \in DOMAIN disk' : key[1] \in {"pruning", "virtual"} => disk'[key] = Genesis
    BY <1>6 DEF Inv, DiskInv, DiskItems
  <2> QED BY <1>9, <1>10, <2>1, <2>2 DEF DiskItems
<1>12. DiskClosed'
  <2>1. OnDisk("hst", Item)' /\ OnDisk("reachability", Item)'
    BY <1>4, <1>5, FlushStatus
  <2>2. Genesis \in Accepted'
    <3>1. CASE b = Genesis
      BY <1>1, <3>1
    <3>2. CASE b # Genesis
      <4>1. node \in {"running", "panicked"}
        BY <1>5, <3>2 DEF All
      <4> QED BY <1>1, <4>1, RunningNode
    <3> QED BY <3>1, <3>2
  <2>3. \A x \in Accepted' \ {Genesis} : Parents[x] \subseteq Accepted'
    <3>1. \A x \in Accepted \ {Genesis} : Parents[x] \subseteq Accepted
      BY DEF Inv, DiskInv, DiskClosed
    <3>2. b # Genesis => b \in Blocks
      BY DEF All
    <3> QED BY <1>1, <1>4, <3>1, <3>2
  <2>4. Bodies # {} => Genesis \in Bodies /\ OnDisk("tips", Item)'
    BY <1>7 DEF Inv, DiskInv, DiskClosed
  <2>5. \A x \in Bodies \ {Genesis} : Parents[x] \subseteq Bodies
    BY DEF Inv, DiskInv, DiskClosed
  <2> QED BY <1>1, <2>1, <2>2, <2>3, <2>4, <2>5 DEF DiskClosed
<1> QED BY <1>8, <1>11, <1>12 DEF DiskInv

(* The flush of a batch keeps the invariant.                               *)
LEMMA FlushStep ==
  ASSUME Inv, NEW b \in All, Flush(b)
  PROVE  Inv'
<1>1. TypeInv'
  <2>1. UNCHANGED <<owner, node, crashes>>
    BY DEF Flush
  <2>2. pc' \in [All -> Task] /\ DOMAIN batch' = All
    BY Flushed
  <2> QED BY <2>1, <2>2 DEF Inv, TypeInv
<1>2. DOMAIN batch'[b] = Keys(b)' /\ Values(b)'
  <2>1. DOMAIN batch'[b] = {} /\ pc'[b] = Place(pc[b].stage, "drop") /\ pc'[b].step = "drop"
    BY Flushed
  <2>2. Keys(b)' = {}
    BY <2>1 DEF Keys, KeysAt
  <2> QED BY <2>1, <2>2 DEF Values, In
<1>3. BatchInv'
  BY <1>2, FlushOthers DEF BatchInv
<1>4. DiskInv'
  <2>1. pc[b].stage \in Stages
    BY FlushPlace DEF Flush
  <2> QED BY <2>1, FlushHeader, FlushBody, FlushUtxo DEF Stages
<1> QED BY <1>1, <1>3, <1>4, FlushCache, FlushTasks, FlushNode DEF Inv
-----------------------------------------------------------------------------
(* The statuses that are written at once.                                  *)

(* What such a write changes on disk.                                      *)
LEMMA StatusOnDisk ==
  ASSUME NEW b \in All, NEW status, status # None, bad' = bad,
         disk' = statuses_set(b, status) ++ disk
  PROVE  /\ \A key : key # StatusKey(b) =>
              /\ key \in DOMAIN disk' <=> key \in DOMAIN disk
              /\ key \in DOMAIN disk => disk'[key] = disk[key]
         /\ DiskStatus(b)' = status /\ \A c \in All \ {b} : DiskStatus(c)' = DiskStatus(c)
         /\ \A x, s : Fails(x, s)' <=> Fails(x, s)
         /\ \A s, x : s # "statuses" => /\ OnDisk(s, x)' <=> OnDisk(s, x)
                                        /\ OnDisk(s, x) => disk'[<<s, x>>] = disk[<<s, x>>]
<1> DEFINE ws == statuses_set(b, status)
<1>1. DOMAIN ws = {StatusKey(b)} /\ ws[StatusKey(b)] = status
  BY Single DEF statuses_set, StatusKey
<1> HIDE DEF ws
<1>2. disk' = ws ++ disk
  BY DEF ws
<1>3. \A key : key # StatusKey(b) =>
        /\ key \in DOMAIN disk' <=> key \in DOMAIN disk
        /\ key \in DOMAIN disk => disk'[key] = disk[key]
  BY SMT, <1>1, <1>2, Overlay
<1>4. StatusKey(b) \in DOMAIN disk' /\ disk'[StatusKey(b)] = status
  BY SMT, <1>1, <1>2, Overlay
<1>5. DiskStatus(b)' = status
  BY <1>4 DEF DiskStatus, OnDisk, StatusKey
<1>6. ASSUME NEW c \in All \ {b} PROVE DiskStatus(c)' = DiskStatus(c)
  <2>1. StatusKey(c) # StatusKey(b)
    BY KeyFacts DEF StatusKey
  <2> QED BY <1>3, <2>1 DEF DiskStatus, OnDisk, StatusKey
<1>7. \A x, s : Fails(x, s)' <=> Fails(x, s)
  BY DEF Fails
<1>8. ASSUME NEW s, NEW x, s # "statuses"
      PROVE  (OnDisk(s, x)' <=> OnDisk(s, x)) /\ (OnDisk(s, x) => disk'[<<s, x>>] = disk[<<s, x>>])
  <2>1. <<s, x>> # StatusKey(b)
    BY <1>8, KeyFacts DEF StatusKey
  <2> QED BY <1>3, <2>1 DEF OnDisk
<1> QED BY <1>3, <1>5, <1>6, <1>7, <1>8

(* A status that neither accepts a block nor adds a body keeps the         *)
(* invariant.                                                              *)
LEMMA StatusWrite ==
  ASSUME Inv, NEW b \in Blocks, NEW status \in Statuses, node = "running", MayWrite("statuses"),
         WriteDirect(statuses_set(b, status)), UNCHANGED <<owner, pc, reader, node, crashes, bad>>,
         b \in Accepted <=> (status = "Invalid" => Fails(b, "body")),
         b \in Bodies <=> b \in Accepted /\ HasBody(status),
         status # "UTXOValid", DiskStatus(b) # "UTXOValid", TaskInv(b)'
  PROVE  Inv'
<1> DEFINE ws == statuses_set(b, status)
<1>1. DOMAIN ws = {StatusKey(b)} /\ b \in All /\ b # Genesis /\ status # None
  BY Single, BlocksAssumption, NoneAssumption DEF statuses_set, StatusKey, All
<1>2. "statuses" \in Locks /\ LockOf(StatusKey(b)[1]) = "statuses"
  BY LockFacts, KeyKinds DEF Locks
<1>3. ~Batched(StatusKey(b)) /\ (reader # None => reader.key # StatusKey(b))
  BY <1>2, NewLocked DEF MayWrite
<1>4. batch' = batch /\ disk' = ws ++ disk /\ CacheInv'
  <2> HIDE DEF ws
  <2>1. WriteDirect(ws)
    BY DEF ws
  <2> QED BY <1>1, <1>3, <2>1, DirectWrite DEF Inv
<1> HIDE DEF ws
<1>5. /\ \A key : key # StatusKey(b) =>
           /\ key \in DOMAIN disk' <=> key \in DOMAIN disk
           /\ key \in DOMAIN disk => disk'[key] = disk[key]
      /\ DiskStatus(b)' = status /\ \A c \in All \ {b} : DiskStatus(c)' = DiskStatus(c)
      /\ \A x, s : Fails(x, s)' <=> Fails(x, s)
  BY <1>1, <1>4, StatusOnDisk DEF ws
<1>6. ASSUME NEW s, NEW x, s # "statuses"
      PROVE  (OnDisk(s, x)' <=> OnDisk(s, x)) /\ (OnDisk(s, x) => disk'[<<s, x>>] = disk[<<s, x>>])
  BY <1>1, <1>4, <1>6, StatusOnDisk DEF ws
<1>7. Accepted' = Accepted
  <2>1. \A c \in All : c \in Accepted' <=> c \in Accepted
    BY <1>1, <1>5 DEF Accepted
  <2>2. Accepted \subseteq All /\ Accepted' \subseteq All
    BY DEF Accepted
  <2> QED BY <2>1, <2>2
<1>8. Bodies' = Bodies
  <2>1. \A c \in All : c \in Bodies' <=> c \in Bodies
    BY <1>1, <1>5, <1>7 DEF Bodies
  <2>2. Bodies \subseteq All /\ Bodies' \subseteq All
    BY DEF Bodies, Accepted
  <2> QED BY <2>1, <2>2
<1>9. /\ OnDisk("hst", Item) /\ OnDisk("reachability", Item) /\ OnDisk("tips", Item)
      /\ disk'[Tip] = disk[Tip] /\ disk'[Reach] = disk[Reach] /\ disk'[Tips] = disk[Tips]
  <2>1. OnDisk("hst", Item) /\ OnDisk("reachability", Item) /\ OnDisk("tips", Item)
    BY RunningNode
  <2> QED BY <1>6, <2>1 DEF Tip, Reach, Tips
<1>10. ASSUME NEW c \in All PROVE DOMAIN batch'[c] = Keys(c)' /\ Values(c)'
  <2>1. DOMAIN batch[c] = Keys(c) /\ Values(c) /\ TaskInv(c)
    BY DEF Inv, BatchInv
  <2>2. Keys(c)' = Keys(c)
    BY <1>9 DEF Keys
  <2>3. \A stage, steps : In(c, stage, steps)' <=> In(c, stage, steps)
    BY DEF In
  <2>4. In(c, "header", {"status", "commit", "flush"}) /\ c \in Blocks =>
          \A p \in Parents[c] : disk'[<<"children", p>>] = disk[<<"children", p>>]
    <3> SUFFICES ASSUME In(c, "header", {"status", "commit", "flush"}), c \in Blocks, NEW p \in Parents[c]
                 PROVE  disk'[<<"children", p>>] = disk[<<"children", p>>]
      OBVIOUS
    <3>1. p \in Accepted /\ p \in All
      BY <2>1 DEF TaskInv, In, HeaderSteps, Accepted
    <3>2. OnDisk("children", p)
      BY <3>1 DEF Inv, DiskInv, DiskKeys
    <3> QED BY <1>6, <3>2
  <2>5. Values(c)'
    BY <1>4, <1>9, <2>1, <2>3, <2>4 DEF Values
  <2> QED BY <1>4, <2>1, <2>2, <2>5
<1>11. ReaderInv'
  <2>1. reader # None => OnDiskNow(reader.key, reader.value) /\ ~Batched(reader.key)
    BY DEF Inv, ReaderInv
  <2> QED BY <1>3, <1>4, <1>5, <2>1 DEF ReaderInv, OnDiskNow, Batched
<1>12. ASSUME NEW c \in All PROVE Guarded(c)' /\ TaskInv(c)'
  <2>1. Guarded(c) /\ TaskInv(c)
    BY DEF Inv
  <2>2. \A stage, steps : In(c, stage, steps)' <=> In(c, stage, steps)
    BY DEF In
  <2>3. c # b => TaskInv(c)'
    BY <1>5, <1>6, <1>7, <1>8, <2>1, <2>2 DEF TaskInv
  <2> QED BY <2>1, <2>3, GuardFrame
<1>13. ASSUME NEW c \in All PROVE DiskKeys(c)'
  <2>1. DiskKeys(c)
    BY DEF Inv, DiskInv
  <2>2. DiskStatus(c)' \in Statuses \cup {None} /\ (DiskStatus(c)' = "UTXOValid" <=> DiskStatus(c) = "UTXOValid")
    BY <1>5, <2>1 DEF DiskKeys
  <2> QED BY <1>6, <1>7, <1>8, <2>1, <2>2 DEF DiskKeys, HeaderStores, UtxoStores
<1>14. DiskItems'
  <2>1. \A key \in DOMAIN disk' : key[1] \in {"pruning", "virtual"} => disk'[key] = Genesis
    <3>1. StatusKey(b)[1] \notin {"pruning", "virtual"}
      BY KeyKinds
    <3>2. \A key \in DOMAIN disk : key[1] \in {"pruning", "virtual"} => disk[key] = Genesis
      BY DEF Inv, DiskInv, DiskItems
    <3> SUFFICES ASSUME NEW key \in DOMAIN disk', key[1] \in {"pruning", "virtual"} PROVE disk'[key] = Genesis
      OBVIOUS
    <3>3. key # StatusKey(b)
      BY <3>1
    <3>4. key \in DOMAIN disk /\ disk'[key] = disk[key]
      BY <1>5, <3>3
    <3> QED BY <3>2, <3>4
  <2> QED BY <1>7, <1>8, <1>9, <2>1 DEF Inv, DiskInv, DiskItems
<1>15. DiskClosed'
  BY <1>6, <1>7, <1>8 DEF Inv, DiskInv, DiskClosed
<1>16. NodeInv' /\ FirstStart'
  <2>1. DiskStatus(Genesis)' = DiskStatus(Genesis) /\ (Done' <=> Done)
    BY <1>1, <1>5 DEF All, Done
  <2> QED BY <1>6, <2>1 DEF Inv, NodeInv, FirstStart
<1>17. TypeInv'
  BY <1>4 DEF Inv, TypeInv
<1> QED BY <1>4, <1>10, <1>11, <1>12, <1>13, <1>14, <1>15, <1>16, <1>17 DEF Inv, BatchInv, DiskInv

(* A header that fails is never accepted.                                  *)
LEMMA InvalidHeaderStep ==
  ASSUME Inv, NEW b \in Blocks, InvalidHeader(b)
  PROVE  Inv'
<1>1. /\ node = "running" /\ MayWrite("statuses") /\ Status(b) = None /\ Fails(b, "header")
      /\ WriteDirect(statuses_set(b, "Invalid")) /\ UNCHANGED <<owner, pc, reader, node, crashes, bad>>
  BY DEF InvalidHeader
<1>2. b \in All /\ DiskStatus(b) = None
  BY <1>1, StatusRead DEF Inv, Tasks, All, MayWrite
<1>3. ~Fails(b, "body") /\ "Invalid" \in Statuses /\ None # "UTXOValid" /\ ~HasBody("Invalid") /\ None \notin Statuses
  BY <1>1, NoneAssumption DEF Fails, Statuses, HasBody
<1>4. b \notin Accepted /\ b \notin Bodies
  BY <1>2 DEF Accepted, Bodies
<1>5. TaskInv(b)'
  <2>1. TaskInv(b)
    BY <1>2 DEF Inv
  <2>2. /\ ~In(b, "header", HeaderSteps \ {"drop"}) /\ ~In(b, "body", BodySteps \ {"drop"})
        /\ ~In(b, "utxo", UtxoSteps \ {"drop"})
    BY <1>1, <1>2, <1>3, <2>1 DEF TaskInv, Statuses
  <2> QED BY <1>1, <2>2 DEF TaskInv, In
<1> QED BY <1>1, <1>2, <1>3, <1>4, <1>5, StatusWrite

(* A block with an invalid body keeps its header.                          *)
LEMMA InvalidBodyStep ==
  ASSUME Inv, NEW b \in Blocks, InvalidBody(b)
  PROVE  Inv'
<1>1. /\ node = "running" /\ MayWrite("statuses") /\ pc[b] = Idle /\ Status(b) = "HeaderOnly" /\ Fails(b, "body")
      /\ WriteDirect(statuses_set(b, "Invalid")) /\ UNCHANGED <<owner, pc, reader, node, crashes, bad>>
  BY DEF InvalidBody
<1>2. b \in All /\ DiskStatus(b) = "HeaderOnly"
  BY <1>1, StatusRead DEF Inv, Tasks, All, MayWrite
<1>3. "Invalid" \in Statuses /\ ~HasBody("Invalid") /\ ~HasBody("HeaderOnly") /\ None \notin Statuses
  BY NoneAssumption DEF Statuses, HasBody
<1>4. b \in Accepted /\ b \notin Bodies
  BY <1>2, <1>3 DEF Accepted, Bodies, Statuses
<1>5. TaskInv(b)'
  BY <1>1, <1>2, AtRest
<1> QED BY <1>1, <1>2, <1>3, <1>4, <1>5, StatusWrite

(* A block that the chain cannot have keeps its body.                      *)
LEMMA DisqualifyStep ==
  ASSUME Inv, NEW b \in Blocks, Disqualify(b)
  PROVE  Inv'
<1>1. /\ node = "running" /\ MayWrite("statuses") /\ pc[b].stage # "utxo" /\ HasBody(Status(b)) /\ ~has(<<"diffs", b>>)
      /\ WriteDirect(statuses_set(b, "Disqualified")) /\ UNCHANGED <<owner, pc, reader, node, crashes, bad>>
  BY DEF Disqualify, Resolving, All
<1>2. b \in All /\ Status(b) = DiskStatus(b)
  BY <1>1, StatusRead DEF Inv, Tasks, All, MayWrite
<1>3. DiskStatus(b) \in {"UTXOPending", "Disqualified"}
  <2>1. ~OnDisk("diffs", b)
    BY <1>1 DEF has, OnDisk
  <2>2. DiskStatus(b) # "UTXOValid"
    BY <1>2, <2>1 DEF Inv, DiskInv, DiskKeys, UtxoStores
  <2> QED BY <1>1, <1>2, <2>2 DEF HasBody
<1>4. "Disqualified" \in Statuses /\ HasBody("Disqualified") /\ None \notin Statuses
  BY NoneAssumption DEF Statuses, HasBody
<1>5. b \in Accepted /\ b \in Bodies
  BY <1>2, <1>3, <1>4 DEF Accepted, Bodies, Statuses, HasBody
<1>6. TaskInv(b)'
  <2>1. TaskInv(b)
    BY <1>2 DEF Inv
  <2>2. /\ ~In(b, "header", HeaderSteps \ {"drop"}) /\ ~In(b, "body", BodySteps \ {"drop"})
        /\ ~In(b, "utxo", UtxoSteps \ {"drop"})
    BY <1>1, <1>3, <1>4, <2>1 DEF TaskInv, In, Statuses
  <2> QED BY <1>1, <2>2 DEF TaskInv, In
<1> QED BY <1>1, <1>2, <1>3, <1>4, <1>5, <1>6, StatusWrite
-----------------------------------------------------------------------------
(* The start of the node.                                                  *)

(* Between its commits the start is alone: no batch has an entry, and      *)
(* reads are those of the disk.                                            *)
LEMMA Alone ==
  ASSUME Inv, node \notin {"running", "panicked"}, node \in {"down", "header", "pruning"} \/ pc[Genesis] = Idle
  PROVE  /\ \A c \in All : pc[c] = Idle /\ DOMAIN batch[c] = {}
         /\ \A key : ~Batched(key) /\ (has(key) <=> key \in DOMAIN disk)
         /\ Status(Genesis) = DiskStatus(Genesis)
<1>1. pc[Genesis] = Idle
  <2>1. pc[Genesis] \in Task
    BY DEF Inv, TypeInv, All
  <2>2. node \in {"down", "header", "pruning"} => pc[Genesis].stage \notin Stages
    BY DEF Inv, NodeInv, Stages
  <2> QED BY <2>1, <2>2, TaskFacts
<1>2. ASSUME NEW c \in All PROVE pc[c] = Idle /\ DOMAIN batch[c] = {}
  <2>1. pc[c] = Idle
    BY <1>1 DEF Inv, NodeInv, All
  <2>2. DOMAIN batch[c] = KeysAt(c, Idle, disk[Tip])
    BY <2>1 DEF Inv, BatchInv, Keys
  <2> QED BY <2>1, <2>2, KeysOther
<1>3. \A key : ~Batched(key)
  BY <1>2 DEF Batched
<1>4. \A key : (has(key) <=> key \in DOMAIN disk) /\ (key \in DOMAIN disk => read(key) = disk[key])
  BY <1>3, CurrentRead DEF Inv
<1>5. Status(Genesis) = DiskStatus(Genesis)
  BY <1>4 DEF Status, DiskStatus, OnDisk
<1> QED BY <1>2, <1>3, <1>4, <1>5

\* The names of the phases.
Phases == {"down", "header", "pruning", "body", "virtual", "past_pps", "running", "panicked"}

(* A phase that writes nothing.                                            *)
LEMMA PhaseQuiet ==
  ASSUME Inv, UNCHANGED <<disk, cache, batch, owner, pc, reader, crashes, bad>>,
         NodeInv', FirstStart', node' \in Phases
  PROVE  Inv'
<1>1. Genesis \in All
  BY DEF All
<1>2. DOMAIN batch[Genesis] = Keys(Genesis)' /\ Values(Genesis)'
  BY <1>1, BatchFrame DEF Inv, BatchInv
<1>3. Guarded(Genesis)' /\ TaskInv(Genesis)'
  BY <1>1, GuardFrame, TaskFrame DEF Inv
<1>4. pc' \in [All -> Task] /\ owner' \in [Locks -> All \cup {None}]
  BY DEF Inv, TypeInv
<1>5. /\ \A c \in All \ {Genesis} : pc'[c] = pc[c]
      /\ \A l \in Locks : \A c \in All \ {Genesis} : owner[l] = c => owner'[l] = c
  OBVIOUS
<1> QED BY <1>1, <1>2, <1>3, <1>4, <1>5, Quiet DEF Phases

(* What a phase that writes ws does to the disk.                           *)
LEMMA PhaseDisk ==
  ASSUME NEW ws, disk' = ws ++ disk, bad' = bad, \A key \in DOMAIN ws : key[1] # "statuses"
  PROVE  /\ \A c \in All : DiskStatus(c)' = DiskStatus(c)
         /\ Accepted' = Accepted /\ Bodies' = Bodies
         /\ \A s, x : OnDisk(s, x)' <=> <<s, x>> \in DOMAIN ws \/ OnDisk(s, x)
         /\ \A key \in DOMAIN ws : disk'[key] = ws[key]
         /\ \A key \in DOMAIN disk : key \notin DOMAIN ws => disk'[key] = disk[key]
<1>1. /\ \A key : key \in DOMAIN disk' <=> key \in DOMAIN ws \/ key \in DOMAIN disk
      /\ \A key \in DOMAIN ws : disk'[key] = ws[key]
      /\ \A key \in DOMAIN disk : key \notin DOMAIN ws => disk'[key] = disk[key]
  BY SMT, Overlay
<1>2. \A s, x : OnDisk(s, x)' <=> <<s, x>> \in DOMAIN ws \/ OnDisk(s, x)
  BY <1>1 DEF OnDisk
<1>3. ASSUME NEW c \in All PROVE DiskStatus(c)' = DiskStatus(c)
  <2>1. StatusKey(c) \notin DOMAIN ws
    BY KeyKinds
  <2> QED BY <1>1, <2>1 DEF DiskStatus, OnDisk, StatusKey
<1>4. \A x, s : Fails(x, s)' <=> Fails(x, s)
  BY DEF Fails
<1>5. Accepted' = Accepted
  BY <1>3, <1>4 DEF Accepted
<1>6. Bodies' = Bodies
  <2>1. \A c \in All : c \in Bodies' <=> c \in Bodies
    BY <1>3, <1>5 DEF Bodies
  <2>2. Bodies \subseteq All /\ Bodies' \subseteq All
    BY DEF Bodies, Accepted
  <2> QED BY <2>1, <2>2
<1> QED BY <1>1, <1>2, <1>3, <1>5, <1>6

(* A phase that writes ws, and may begin the task of genesis.              *)
LEMMA PhaseWrite ==
  ASSUME Inv, \A c \in All : pc[c] = Idle /\ DOMAIN batch[c] = {},
         NEW ws, WriteDirect(ws), UNCHANGED <<owner, reader, crashes, bad>>,
         pc' = pc \/ \E stage \in Stages : Begin(Genesis, stage),
         reader # None /\ reader.key \in DOMAIN ws => ws[reader.key] = reader.value,
         TaskInv(Genesis)', DiskInv', NodeInv', FirstStart', node' \in Phases
  PROVE  Inv'
<1>1. \A key : ~Batched(key)
  BY DEF Batched
<1>2. batch' = batch /\ disk' = ws ++ disk /\ CacheInv'
  BY <1>1, DirectWrite DEF Inv
<1>3. Genesis \in All
  BY DEF All
<1>4. pc' \in [All -> Task] /\ \A c \in All \ {Genesis} : pc'[c] = pc[c]
  <2>1. CASE pc' = pc
    BY <2>1 DEF Inv, TypeInv
  <2>2. CASE \E stage \in Stages : Begin(Genesis, stage)
    BY <1>3, <2>2, Began
  <2> QED BY <2>1, <2>2
<1>5. ASSUME NEW c \in All PROVE DOMAIN batch'[c] = Keys(c)' /\ Values(c)' /\ Guarded(c)' /\ TaskInv(c)'
  <2>1. DOMAIN batch'[c] = {}
    BY <1>2
  <2>2. CASE pc'[c] = Idle
    BY <2>1, <2>2, AtRest
  <2>3. CASE pc'[c] # Idle
    <3>1. c = Genesis /\ \E stage \in Stages : Begin(Genesis, stage)
      BY <1>4, <2>3
    <3> QED BY <1>3, <2>1, <3>1, Began
  <2> QED BY <2>2, <2>3
<1>6. ReaderInv'
  <2> SUFFICES ASSUME reader # None PROVE OnDiskNow(reader.key, reader.value)' /\ ~Batched(reader.key)'
    BY DEF ReaderInv
  <2>1. OnDiskNow(reader.key, reader.value)
    BY DEF Inv, ReaderInv
  <2>2. /\ reader.key \in DOMAIN disk'
        /\ reader.key \in DOMAIN ws => disk'[reader.key] = ws[reader.key]
        /\ reader.key \notin DOMAIN ws => disk'[reader.key] = disk[reader.key]
    BY SMT, <1>2, <2>1, Overlay DEF OnDiskNow
  <2> QED BY <1>1, <1>2, <2>1, <2>2 DEF OnDiskNow, Batched
<1>7. TypeInv'
  BY <1>2, <1>4 DEF Inv, TypeInv, Phases
<1> QED BY <1>2, <1>5, <1>6, <1>7 DEF Inv, BatchInv

(* A phase writes no data of a block.                                      *)
LEMMA PhaseBlocks ==
  ASSUME Inv, NEW ws, disk' = ws ++ disk, bad' = bad, \A key \in DOMAIN ws : key[1] # "statuses",
         \A s, c : <<s, c>> \in DOMAIN ws /\ c \in All =>
           s \notin HeaderStores \cup UtxoStores \cup {"parents", "children", "transactions"}
  PROVE  (\A c \in All : DiskKeys(c)') /\ DiskClosed'
<1>1. /\ \A c \in All : DiskStatus(c)' = DiskStatus(c)
      /\ Accepted' = Accepted /\ Bodies' = Bodies
  BY PhaseDisk
<1>2. /\ \A s, x : OnDisk(s, x)' <=> <<s, x>> \in DOMAIN ws \/ OnDisk(s, x)
      /\ \A key \in DOMAIN disk : key \notin DOMAIN ws => disk'[key] = disk[key]
  BY PhaseDisk
<1>3. ASSUME NEW c \in All PROVE DiskKeys(c)'
  <2>1. DiskKeys(c)
    BY DEF Inv, DiskInv
  <2>2. ASSUME NEW s \in HeaderStores \cup UtxoStores \cup {"parents", "children", "transactions"}
        PROVE  (OnDisk(s, c)' <=> OnDisk(s, c)) /\ (OnDisk(s, c) => disk'[<<s, c>>] = disk[<<s, c>>])
    <3>1. <<s, c>> \notin DOMAIN ws
      BY <2>2
    <3> QED BY <1>2, <3>1 DEF OnDisk
  <2> QED BY <1>1, <2>1, <2>2 DEF DiskKeys
<1>4. DiskClosed'
  BY <1>1, <1>2 DEF Inv, DiskInv, DiskClosed
<1> QED BY <1>3, <1>4

(* The items that a phase does not write stay.                             *)
LEMMA PhaseItems ==
  ASSUME Inv, NEW ws, disk' = ws ++ disk, bad' = bad, \A key \in DOMAIN ws : key[1] # "statuses"
  PROVE  /\ Reach \notin DOMAIN ws => (OnDisk("reachability", Item)' => disk'[Reach] = Accepted')
         /\ Tip \notin DOMAIN ws =>
              (OnDisk("hst", Item)' => disk'[Tip] \in All /\ \A b \in Accepted' : b <= disk'[Tip])
         /\ Tips \notin DOMAIN ws =>
              (OnDisk("tips", Item)' => disk'[Tips] = {b \in Bodies' : \A c \in Bodies' : b \notin ParentsOf(c)})
         /\ (\A key \in DOMAIN ws : key[1] \in {"pruning", "virtual"} => ws[key] = Genesis) =>
              \A key \in DOMAIN disk' : key[1] \in {"pruning", "virtual"} => disk'[key] = Genesis
<1>1. Accepted' = Accepted /\ Bodies' = Bodies
  BY PhaseDisk
<1>2. /\ \A s, x : OnDisk(s, x)' <=> <<s, x>> \in DOMAIN ws \/ OnDisk(s, x)
      /\ \A key \in DOMAIN ws : disk'[key] = ws[key]
      /\ \A key \in DOMAIN disk : key \notin DOMAIN ws => disk'[key] = disk[key]
  BY PhaseDisk
<1>3. Reach \notin DOMAIN ws => (OnDisk("reachability", Item)' => disk'[Reach] = Accepted')
  BY <1>1, <1>2 DEF Inv, DiskInv, DiskItems, OnDisk, Reach
<1>4. Tip \notin DOMAIN ws =>
        (OnDisk("hst", Item)' => disk'[Tip] \in All /\ \A b \in Accepted' : b <= disk'[Tip])
  BY <1>1, <1>2 DEF Inv, DiskInv, DiskItems, OnDisk, Tip
<1>5. Tips \notin DOMAIN ws =>
        (OnDisk("tips", Item)' => disk'[Tips] = {b \in Bodies' : \A c \in Bodies' : b \notin ParentsOf(c)})
  BY <1>1, <1>2 DEF Inv, DiskInv, DiskItems, OnDisk, Tips
<1>6. ASSUME \A key \in DOMAIN ws : key[1] \in {"pruning", "virtual"} => ws[key] = Genesis
      PROVE  \A key \in DOMAIN disk' : key[1] \in {"pruning", "virtual"} => disk'[key] = Genesis
  <2>1. \A key : key \in DOMAIN disk' => key \in DOMAIN ws \/ key \in DOMAIN disk
    BY SMT, Overlay
  <2>2. \A key \in DOMAIN disk : key[1] \in {"pruning", "virtual"} => disk[key] = Genesis
    BY DEF Inv, DiskInv, DiskItems
  <2> QED BY <1>2, <1>6, <2>1, <2>2
<1> QED BY <1>3, <1>4, <1>5, <1>6

(* The first entries of reachability.                                      *)
LEMMA InitReachabilityStep ==
  ASSUME Inv, InitReachability
  PROVE  Inv'
<1>1. /\ node = "down" /\ node' = "header" /\ ~ReaderHolds("reachability")
      /\ UNCHANGED <<owner, reader, crashes, bad, pc>>
  BY DEF InitReachability, Phase, MayWrite, Unlocked
<1>2. /\ \A c \in All : pc[c] = Idle /\ DOMAIN batch[c] = {}
      /\ has(Reach) <=> Reach \in DOMAIN disk
  BY <1>1, Alone
<1>3. pc[Genesis] = Idle /\ pc'[Genesis] = Idle /\ pc'[Genesis].stage \notin {"header", "body", "utxo"}
  <2>1. Idle.stage = None /\ None \notin Stages
    BY NoneAssumption DEF Idle
  <2> QED BY <1>1, <1>2, <2>1 DEF All, Stages
<1>4. ASSUME DiskStatus(Genesis)' = DiskStatus(Genesis), OnDisk("reachability", Item)'
      PROVE  NodeInv' /\ FirstStart'
  <2>1. \A b \in Blocks : pc'[b] = Idle
    BY <1>1, <1>2 DEF All
  <2> QED BY <1>1, <1>3, <1>4, <2>1 DEF Inv, NodeInv, FirstStart
<1>5. CASE has(Reach) /\ UNCHANGED <<disk, cache, batch>>
  <2>1. DiskStatus(Genesis)' = DiskStatus(Genesis) /\ OnDisk("reachability", Item)'
    BY <1>2, <1>5 DEF DiskStatus, OnDisk, Reach
  <2> QED BY <1>1, <1>4, <1>5, <2>1, PhaseQuiet DEF Phases
<1>6. CASE ~has(Reach) /\ WriteDirect(reachability_init)
  <2> DEFINE ws == reachability_init
             root == <<"reindex_root", Item>>
  <2>1. DOMAIN ws = {Reach, root} /\ ws[Reach] = {}
    <3>1. DOMAIN ws = {Reach} \cup {root}
      BY DEF reachability_init, :>, ++, Reach
    <3>2. DOMAIN (Reach :> {}) = {Reach} /\ (Reach :> {})[Reach] = {} /\ ws = (Reach :> {}) ++ (root :> ORIGIN)
      BY Single DEF reachability_init, Reach
    <3>3. ws[Reach] = {}
      BY SMT, <3>2, Overlay
    <3> QED BY <3>1, <3>3
  <2>2. WriteDirect(ws) /\ disk' = ws ++ disk
    BY <1>6 DEF WriteDirect
  <2>3. \A key \in DOMAIN ws : key[1] \in {"reachability", "reindex_root"} /\ LockOf(key[1]) = "reachability"
    <3>1. root[1] = "reindex_root"
      BY KeyFacts
    <3> HIDE DEF root
    <3> QED BY <2>1, <3>1, KeyKinds, LockFacts
  <2> HIDE DEF ws, root
  <2>4. Reach \notin DOMAIN disk
    BY <1>2, <1>6
  <2>5. Accepted = {} /\ Bodies = {}
    <3>1. Accepted = {}
      BY <2>4 DEF Inv, DiskInv, DiskClosed, OnDisk, Reach
    <3> QED BY <3>1 DEF Bodies
  <2>6. \A key \in DOMAIN ws : key[1] # "statuses"
    BY <2>3
  <2>7. /\ Accepted' = Accepted /\ Bodies' = Bodies /\ DiskStatus(Genesis)' = DiskStatus(Genesis)
        /\ \A s, x : OnDisk(s, x)' <=> <<s, x>> \in DOMAIN ws \/ OnDisk(s, x)
        /\ \A key \in DOMAIN ws : disk'[key] = ws[key]
        /\ \A key \in DOMAIN disk : key \notin DOMAIN ws => disk'[key] = disk[key]
    BY <1>1, <2>2, <2>6, PhaseDisk DEF All
  <2>8. DiskInv'
    <3>1. \A s, c : <<s, c>> \in DOMAIN ws /\ c \in All =>
            s \notin HeaderStores \cup UtxoStores \cup {"parents", "children", "transactions"}
      <4>1. \A s, c : <<s, c>> \in DOMAIN ws => s \in {"reachability", "reindex_root"}
        BY <2>3, KeyFacts
      <4> QED BY <4>1 DEF HeaderStores, UtxoStores
    <3>2. (\A c \in All : DiskKeys(c)') /\ DiskClosed'
      BY <1>1, <2>2, <2>6, <3>1, PhaseBlocks
    <3>3. disk'[Reach] = Accepted'
      BY <2>1, <2>5, <2>7
    <3>4. Tip \notin DOMAIN ws /\ Tips \notin DOMAIN ws /\ \A key \in DOMAIN ws : key[1] \notin {"pruning", "virtual"}
      BY <2>3, KeyKinds
    <3> QED BY <1>1, <2>2, <2>6, <3>2, <3>3, <3>4, PhaseItems DEF DiskInv, DiskItems
  <2>9. NodeInv' /\ FirstStart'
    BY <1>4, <2>1, <2>7 DEF Reach
  <2>10. reader # None /\ reader.key \in DOMAIN ws => ws[reader.key] = reader.value
    BY <1>1, <2>3 DEF ReaderHolds
  <2>11. TaskInv(Genesis)'
    BY <1>3, AtRest DEF All
  <2> QED BY <1>1, <1>2, <2>2, <2>8, <2>9, <2>10, <2>11, PhaseWrite DEF Phases
<1> QED BY <1>5, <1>6 DEF InitReachability, Reach

(* The relations of the origin and the first headers selected tip.         *)
LEMMA GenesisRelationsStep ==
  ASSUME Inv, GenesisRelations
  PROVE  Inv'
<1>1. node = "header" /\ UNCHANGED <<owner, reader, crashes, bad, pc>>
  BY DEF GenesisRelations, Unlocked
<1>2. (\A c \in All : pc[c] = Idle /\ DOMAIN batch[c] = {}) /\ Status(Genesis) = DiskStatus(Genesis)
  BY <1>1, Alone
<1>3. /\ pc[Genesis] = Idle /\ pc'[Genesis] = Idle /\ pc'[Genesis].stage \notin {"header", "body", "utxo"}
      /\ \A b \in Blocks : pc'[b] = Idle
  <2>1. Idle.stage = None /\ None \notin Stages
    BY NoneAssumption DEF Idle
  <2> QED BY <1>1, <1>2, <2>1 DEF All, Stages
<1>4. CASE Status(Genesis) # None /\ node' = "body" /\ UNCHANGED <<disk, cache, batch>>
  <2>1. DiskStatus(Genesis)' = DiskStatus(Genesis) /\ \A s, x : OnDisk(s, x)' <=> OnDisk(s, x)
    BY <1>4 DEF DiskStatus, OnDisk
  <2>2. NodeInv' /\ FirstStart'
    BY <1>1, <1>2, <1>3, <1>4, <2>1 DEF Inv, NodeInv, FirstStart
  <2> QED BY <1>1, <1>4, <2>2, PhaseQuiet DEF Phases
<1> DEFINE first == IF has(<<"parents", ORIGIN>>) THEN NoWrites ELSE relations_insert(ORIGIN, {})
           ws == first ++ headers_selected_tip_set(Genesis)
<1>5. CASE /\ Status(Genesis) = None /\ node' = "pruning" /\ MayWrite("relations") /\ MayWrite("hst")
           /\ WriteDirect(ws)
  <2>1. DOMAIN first \subseteq {<<"parents", ORIGIN>>, <<"children", ORIGIN>>}
    BY DEF NoWrites, relations_insert, :>, ++
  <2>2. DOMAIN headers_selected_tip_set(Genesis) = {Tip} /\ headers_selected_tip_set(Genesis)[Tip] = Genesis
    BY Single DEF headers_selected_tip_set, Tip
  <2>3. Tip \notin DOMAIN first
    <3>1. Tip # <<"parents", ORIGIN>> /\ Tip # <<"children", ORIGIN>>
      BY KeyFacts DEF Tip
    <3> QED BY <2>1, <3>1
  <2> HIDE DEF first
  <2>4. /\ DOMAIN ws \subseteq {<<"parents", ORIGIN>>, <<"children", ORIGIN>>, Tip}
        /\ Tip \in DOMAIN ws /\ ws[Tip] = Genesis
    <3>1. DOMAIN ws = DOMAIN first \cup {Tip}
      BY <2>2 DEF ++
    <3>2. ws[Tip] = Genesis
      BY SMT, <2>2, <2>3, Overlay
    <3> QED BY <2>1, <3>1, <3>2
  <2>5. WriteDirect(ws) /\ disk' = ws ++ disk
    BY <1>5 DEF WriteDirect
  <2> HIDE DEF ws
  <2>6. \A key \in DOMAIN ws : key[1] \in {"parents", "children", "hst"} /\ LockOf(key[1]) \in {"relations", "hst"}
    <3>1. <<"parents", ORIGIN>>[1] = "parents" /\ <<"children", ORIGIN>>[1] = "children" /\ Tip[1] = "hst"
      BY KeyFacts, KeyKinds
    <3> QED BY <2>4, <3>1, LockFacts
  <2>7. \A key \in DOMAIN ws : key[1] # "statuses" /\ key[1] \notin {"pruning", "virtual"}
    BY <2>6
  <2>8. Accepted = {} /\ Bodies = {}
    <3>1. Genesis \notin Accepted
      BY <1>2, <1>5 DEF Accepted
    <3>2. Accepted = {}
      BY <3>1 DEF Inv, DiskInv, DiskClosed
    <3> QED BY <3>2 DEF Bodies
  <2>9. /\ Accepted' = Accepted /\ DiskStatus(Genesis)' = DiskStatus(Genesis)
        /\ \A s, x : OnDisk(s, x)' <=> <<s, x>> \in DOMAIN ws \/ OnDisk(s, x)
        /\ \A key \in DOMAIN ws : disk'[key] = ws[key]
    BY <1>1, <2>5, <2>7, PhaseDisk DEF All
  <2>10. DiskInv'
    <3>1. \A s, c : <<s, c>> \in DOMAIN ws /\ c \in All =>
            s \notin HeaderStores \cup UtxoStores \cup {"parents", "children", "transactions"}
      <4>1. \A s, c : <<s, c>> \in DOMAIN ws => s = "hst" \/ c = ORIGIN
        BY <2>4, KeyFacts DEF Tip
      <4> QED BY <4>1, OriginAssumption DEF HeaderStores, UtxoStores
    <3>2. (\A c \in All : DiskKeys(c)') /\ DiskClosed'
      BY <1>1, <2>5, <2>7, <3>1, PhaseBlocks
    <3>3. Reach \notin DOMAIN ws /\ Tips \notin DOMAIN ws
      BY <2>6, KeyKinds
    <3>4. disk'[Tip] \in All /\ \A b \in Accepted' : b <= disk'[Tip]
      BY <2>4, <2>8, <2>9 DEF All
    <3> QED BY <1>1, <2>5, <2>7, <3>2, <3>3, <3>4, PhaseItems DEF DiskInv, DiskItems
  <2>11. NodeInv' /\ FirstStart'
    <3>1. OnDisk("hst", Item)' /\ (OnDisk("reachability", Item) => OnDisk("reachability", Item)')
      BY <2>4, <2>9 DEF Tip
    <3> QED BY <1>1, <1>2, <1>3, <1>5, <2>9, <3>1 DEF Inv, NodeInv, FirstStart
  <2>12. reader # None /\ reader.key \in DOMAIN ws => ws[reader.key] = reader.value
    BY <1>5, <2>6 DEF ReaderHolds, MayWrite
  <2>13. TaskInv(Genesis)'
    BY <1>3, AtRest DEF All
  <2> QED BY <1>1, <1>2, <1>5, <2>5, <2>10, <2>11, <2>12, <2>13, PhaseWrite DEF Phases
<1> QED BY <1>4, <1>5 DEF GenesisRelations

(* What a phase reads and then writes itself does not mislead a reader.    *)
LEMMA SameItem ==
  ASSUME Inv, NEW s \in {"pruning", "virtual"}, NEW ws, DOMAIN ws = {<<s, Item>>}, ws[<<s, Item>>] = Genesis
  PROVE  /\ reader # None /\ reader.key \in DOMAIN ws => ws[reader.key] = reader.value
         /\ \A key \in DOMAIN ws : key[1] = s /\ ws[key] = Genesis
         /\ Reach \notin DOMAIN ws /\ Tip \notin DOMAIN ws /\ Tips \notin DOMAIN ws
         /\ \A key \in DOMAIN ws : key[1] # "statuses"
         /\ \A t, c : <<t, c>> \in DOMAIN ws /\ c \in All =>
              t \notin HeaderStores \cup UtxoStores \cup {"parents", "children", "transactions"}
<1>1. <<s, Item>>[1] = s
  BY KeyFacts
<1>2. ASSUME reader # None, reader.key \in DOMAIN ws PROVE ws[reader.key] = reader.value
  <2>1. reader.key = <<s, Item>>
    BY <1>2
  <2>2. OnDiskNow(reader.key, reader.value)
    BY <1>2 DEF Inv, ReaderInv
  <2>3. \A key \in DOMAIN disk : key[1] \in {"pruning", "virtual"} => disk[key] = Genesis
    BY DEF Inv, DiskInv, DiskItems
  <2>4. disk[<<s, Item>>] = Genesis
    BY <1>1, <2>1, <2>2, <2>3 DEF OnDiskNow
  <2> QED BY <2>1, <2>2, <2>4 DEF OnDiskNow
<1>3. Reach # <<s, Item>> /\ Tip # <<s, Item>> /\ Tips # <<s, Item>>
  BY <1>1, KeyKinds
<1>4. \A t, c : <<t, c>> \in DOMAIN ws => t = s
  BY KeyFacts
<1>5. s \notin HeaderStores \cup UtxoStores \cup {"parents", "children", "transactions", "statuses"}
  BY DEF HeaderStores, UtxoStores
<1> QED BY <1>1, <1>2, <1>3, <1>4, <1>5

(* The pruning point, and the commit of the header of genesis.             *)
LEMMA GenesisHeaderStep ==
  ASSUME Inv, GenesisHeader
  PROVE  Inv'
<1> DEFINE ws == pruning_set(Genesis)
<1>1. /\ node = "pruning" /\ node' = "body" /\ WriteDirect(ws) /\ Begin(Genesis, "header")
      /\ UNCHANGED <<owner, reader, crashes, bad>>
  BY DEF GenesisHeader, Phase, Unlocked
<1>2. DOMAIN ws = {<<"pruning", Item>>} /\ ws[<<"pruning", Item>>] = Genesis /\ disk' = ws ++ disk
  BY <1>1, Single DEF pruning_set, WriteDirect
<1> HIDE DEF ws
<1>3. /\ reader # None /\ reader.key \in DOMAIN ws => ws[reader.key] = reader.value
      /\ \A key \in DOMAIN ws : key[1] = "pruning" /\ ws[key] = Genesis
      /\ Reach \notin DOMAIN ws /\ Tip \notin DOMAIN ws /\ Tips \notin DOMAIN ws
      /\ \A key \in DOMAIN ws : key[1] # "statuses"
  BY <1>2, SameItem
<1>4. \A t, c : <<t, c>> \in DOMAIN ws /\ c \in All =>
        t \notin HeaderStores \cup UtxoStores \cup {"parents", "children", "transactions"}
  BY <1>2, SameItem
<1>5. \A c \in All : pc[c] = Idle /\ DOMAIN batch[c] = {}
  BY <1>1, Alone
<1>6. Genesis \in All /\ "header" \in Stages
  BY DEF All, Stages
<1>7. /\ pc'[Genesis].stage = "header" /\ pc'[Genesis].step = "insert" /\ pc'[Genesis] # Idle
      /\ \A b \in Blocks : pc'[b] = Idle
  <2>1. \A c \in All \ {Genesis} : pc'[c] = pc[c]
    BY <1>1, <1>6, Began
  <2> QED BY <1>1, <1>5, <1>6, <2>1, Began, BlocksAssumption DEF All
<1>8. /\ DiskStatus(Genesis)' = DiskStatus(Genesis)
      /\ \A s, x : OnDisk(s, x) => OnDisk(s, x)'
  BY <1>1, <1>2, <1>3, <1>6, PhaseDisk
<1>9. DiskInv'
  <2>1. (\A c \in All : DiskKeys(c)') /\ DiskClosed'
    BY <1>1, <1>2, <1>3, <1>4, PhaseBlocks
  <2> QED BY <1>1, <1>2, <1>3, <2>1, PhaseItems DEF DiskInv, DiskItems
<1>10. TaskInv(Genesis)'
  <2>1. Genesis \notin Blocks
    BY BlocksAssumption
  <2> QED BY <1>1, <1>7, <1>8, <2>1 DEF Inv, NodeInv, TaskInv, In
<1>11. NodeInv' /\ FirstStart'
  BY <1>1, <1>7, <1>8 DEF Inv, NodeInv, FirstStart, Done
<1> QED BY <1>1, <1>3, <1>5, <1>6, <1>9, <1>10, <1>11, PhaseWrite DEF Phases

(* The empty tips, and the commit of the body of genesis.                  *)
LEMMA GenesisBodyStep ==
  ASSUME Inv, GenesisBody
  PROVE  Inv'
<1>1. node = "body" /\ node' = "virtual" /\ pc[Genesis] = Idle /\ UNCHANGED <<owner, reader, crashes, bad>>
  BY DEF GenesisBody, Phase, Unlocked
<1>2. (\A c \in All : pc[c] = Idle /\ DOMAIN batch[c] = {}) /\ Status(Genesis) = DiskStatus(Genesis)
  BY <1>1, Alone
<1>3. DiskStatus(Genesis) \in {"HeaderOnly", "UTXOPending", "UTXOValid"} /\ OnDisk("reachability", Item)
  BY <1>1 DEF Inv, NodeInv, Done
<1>4. Idle.stage = None /\ None \notin {"header", "body", "utxo"} /\ Genesis \in All
  BY NoneAssumption DEF Idle, All, Stages
<1>5. CASE Status(Genesis) # "HeaderOnly" /\ UNCHANGED <<disk, cache, batch, pc>>
  <2>1. DiskStatus(Genesis)' = DiskStatus(Genesis) /\ \A s, x : OnDisk(s, x)' <=> OnDisk(s, x)
    BY <1>5 DEF DiskStatus, OnDisk
  <2>2. pc'[Genesis].stage \notin {"header", "body", "utxo"} /\ \A b \in Blocks : pc'[b] = Idle
    BY <1>1, <1>2, <1>4, <1>5 DEF All
  <2>3. NodeInv'
    BY <1>1, <1>2, <1>3, <1>5, <2>1, <2>2 DEF NodeInv
  <2>4. FirstStart'
    BY <1>1, <1>2, <1>5 DEF Inv, FirstStart, Done
  <2> QED BY <1>1, <1>5, <2>3, <2>4, PhaseQuiet DEF Phases
<1> DEFINE ws == tips_init
<1>6. CASE Status(Genesis) = "HeaderOnly" /\ MayWrite("tips") /\ WriteDirect(ws) /\ Begin(Genesis, "body")
  <2>1. DOMAIN ws = {Tips} /\ ws[Tips] = {} /\ disk' = ws ++ disk
    BY <1>6, Single DEF tips_init, Tips, WriteDirect
  <2>2. WriteDirect(ws) /\ "body" \in Stages
    BY <1>6 DEF Stages
  <2> HIDE DEF ws
  <2>3. \A key \in DOMAIN ws : key[1] = "tips" /\ LockOf(key[1]) = "tips" /\ key[1] # "statuses"
    <3>1. Tips[1] = "tips" /\ LockOf("tips") = "tips"
      BY KeyFacts, LockFacts DEF Tips
    <3> QED BY <2>1, <3>1
  <2>4. Bodies = {}
    <3>1. Genesis \notin Bodies
      BY <1>2, <1>6 DEF Bodies, HasBody
    <3> QED BY <3>1 DEF Inv, DiskInv, DiskClosed
  <2>5. /\ Bodies' = Bodies /\ DiskStatus(Genesis)' = DiskStatus(Genesis)
        /\ \A s, x : OnDisk(s, x)' <=> <<s, x>> \in DOMAIN ws \/ OnDisk(s, x)
        /\ \A key \in DOMAIN ws : disk'[key] = ws[key]
    BY <1>1, <1>4, <2>1, <2>3, PhaseDisk
  <2>6. DiskInv'
    <3>1. \A s, c : <<s, c>> \in DOMAIN ws /\ c \in All =>
            s \notin HeaderStores \cup UtxoStores \cup {"parents", "children", "transactions"}
      <4>1. \A s, c : <<s, c>> \in DOMAIN ws => s = "tips"
        BY <2>1, KeyFacts DEF Tips
      <4> QED BY <4>1 DEF HeaderStores, UtxoStores
    <3>2. (\A c \in All : DiskKeys(c)') /\ DiskClosed'
      BY <1>1, <2>1, <2>3, <3>1, PhaseBlocks
    <3>3. Reach \notin DOMAIN ws /\ Tip \notin DOMAIN ws /\ \A key \in DOMAIN ws : key[1] \notin {"pruning", "virtual"}
      BY <2>3, KeyKinds
    <3>4. disk'[Tips] = {b \in Bodies' : \A c \in Bodies' : b \notin ParentsOf(c)}
      BY <2>1, <2>4, <2>5
    <3> QED BY <1>1, <2>1, <2>3, <3>2, <3>3, <3>4, PhaseItems DEF DiskInv, DiskItems
  <2>7. /\ pc'[Genesis].stage = "body" /\ pc'[Genesis].step = "insert" /\ pc'[Genesis] # Idle
        /\ \A b \in Blocks : pc'[b] = Idle
    <3>1. \A c \in All \ {Genesis} : pc'[c] = pc[c]
      BY <1>4, <1>6, <2>2, Began
    <3> QED BY <1>2, <1>4, <1>6, <2>2, <3>1, Began, BlocksAssumption DEF All
  <2>8. TaskInv(Genesis)'
    <3>1. OnDisk("tips", Item)' /\ DiskStatus(Genesis)' = "HeaderOnly" /\ Genesis \notin Blocks
      BY <1>2, <1>6, <2>1, <2>5, BlocksAssumption DEF Tips
    <3> QED BY <2>7, <3>1 DEF TaskInv, In
  <2>9. NodeInv' /\ FirstStart'
    BY <1>1, <1>3, <2>5, <2>7 DEF NodeInv, FirstStart, Done
  <2>10. reader # None /\ reader.key \in DOMAIN ws => ws[reader.key] = reader.value
    BY <1>6, <2>3 DEF ReaderHolds, MayWrite
  <2> QED BY <1>1, <1>2, <1>6, <2>2, <2>6, <2>8, <2>9, <2>10, PhaseWrite DEF Phases
<1> QED BY <1>5, <1>6 DEF GenesisBody

(* The virtual state, and the commit of the UTXO state of genesis.         *)
LEMMA GenesisVirtualStep ==
  ASSUME Inv, GenesisVirtual
  PROVE  Inv'
<1>1. node = "virtual" /\ pc[Genesis] = Idle /\ UNCHANGED <<owner, reader, crashes, bad>>
  BY DEF GenesisVirtual, Unlocked
<1>2. (\A c \in All : pc[c] = Idle /\ DOMAIN batch[c] = {}) /\ Status(Genesis) = DiskStatus(Genesis)
  BY <1>1, Alone
<1>3. DiskStatus(Genesis) \in {"UTXOPending", "UTXOValid"} /\ OnDisk("reachability", Item)
  BY <1>1 DEF Inv, NodeInv, Done
<1>4. Idle.stage = None /\ None \notin {"header", "body", "utxo"} /\ Genesis \in All
  BY NoneAssumption DEF Idle, All, Stages
<1>5. CASE Status(Genesis) # "UTXOPending" /\ node' = "running" /\ UNCHANGED <<disk, cache, batch, pc>>
  <2>1. DiskStatus(Genesis)' = DiskStatus(Genesis) /\ \A s, x : OnDisk(s, x)' <=> OnDisk(s, x)
    BY <1>5 DEF DiskStatus, OnDisk
  <2>2. pc'[Genesis].stage \notin {"header", "body", "utxo"} /\ \A b \in Blocks : pc'[b] = Idle
    BY <1>1, <1>2, <1>4, <1>5 DEF All
  <2>3. NodeInv'
    BY <1>2, <1>3, <1>5, <2>1, <2>2 DEF NodeInv
  <2>4. FirstStart'
    BY <1>1, <1>2, <1>5 DEF Inv, FirstStart, Done
  <2> QED BY <1>1, <1>5, <2>3, <2>4, PhaseQuiet DEF Phases
<1> DEFINE ws == virtual_state_set(Genesis)
<1>6. CASE Status(Genesis) = "UTXOPending" /\ node' = "past_pps" /\ WriteDirect(ws) /\ Begin(Genesis, "utxo")
  <2>1. DOMAIN ws = {<<"virtual", Item>>} /\ ws[<<"virtual", Item>>] = Genesis /\ disk' = ws ++ disk
    BY <1>6, Single DEF virtual_state_set, WriteDirect
  <2>2. WriteDirect(ws) /\ "utxo" \in Stages
    BY <1>6 DEF Stages
  <2> HIDE DEF ws
  <2>3. /\ reader # None /\ reader.key \in DOMAIN ws => ws[reader.key] = reader.value
        /\ \A key \in DOMAIN ws : key[1] = "virtual" /\ ws[key] = Genesis
        /\ Reach \notin DOMAIN ws /\ Tip \notin DOMAIN ws /\ Tips \notin DOMAIN ws
        /\ \A key \in DOMAIN ws : key[1] # "statuses"
    BY <2>1, SameItem
  <2>4. \A t, c : <<t, c>> \in DOMAIN ws /\ c \in All =>
          t \notin HeaderStores \cup UtxoStores \cup {"parents", "children", "transactions"}
    BY <2>1, SameItem
  <2>5. DiskStatus(Genesis)' = DiskStatus(Genesis) /\ \A s, x : OnDisk(s, x) => OnDisk(s, x)'
    BY <1>1, <1>4, <2>1, <2>3, PhaseDisk
  <2>6. DiskInv'
    <3>1. (\A c \in All : DiskKeys(c)') /\ DiskClosed'
      BY <1>1, <2>1, <2>3, <2>4, PhaseBlocks
    <3> QED BY <1>1, <2>1, <2>3, <3>1, PhaseItems DEF DiskInv, DiskItems
  <2>7. /\ pc'[Genesis].stage = "utxo" /\ pc'[Genesis].step = "insert" /\ pc'[Genesis] # Idle
        /\ \A b \in Blocks : pc'[b] = Idle
    <3>1. \A c \in All \ {Genesis} : pc'[c] = pc[c]
      BY <1>4, <1>6, <2>2, Began
    <3> QED BY <1>2, <1>4, <1>6, <2>2, <3>1, Began, BlocksAssumption DEF All
  <2>8. TaskInv(Genesis)'
    BY <1>2, <1>6, <2>5, <2>7 DEF TaskInv, In
  <2>9. NodeInv' /\ FirstStart'
    BY <1>3, <1>6, <2>5, <2>7 DEF NodeInv, FirstStart, Done
  <2> QED BY <1>1, <1>2, <1>4, <1>6, <2>2, <2>3, <2>6, <2>8, <2>9, PhaseWrite DEF Phases
<1> QED BY <1>5, <1>6 DEF GenesisVirtual

(* Past pruning point 0, unless an earlier start wrote it.                  *)
LEMMA GenesisPastPruningPointStep ==
  ASSUME Inv, GenesisPastPruningPoint
  PROVE  Inv'
<1>1. /\ node = "past_pps" /\ node' = "running" /\ pc[Genesis] = Idle
      /\ UNCHANGED <<owner, reader, crashes, bad, pc>>
  BY DEF GenesisPastPruningPoint, Phase, Unlocked
<1>2. /\ \A c \in All : pc[c] = Idle /\ DOMAIN batch[c] = {}
      /\ has(<<"past_pps", 0>>) <=> OnDisk("past_pps", 0)
  BY <1>1, Alone DEF OnDisk
<1>3. DiskStatus(Genesis) = "UTXOValid" /\ OnDisk("reachability", Item)
  BY <1>1 DEF Inv, NodeInv, Done
<1>4. Idle.stage = None /\ None \notin {"header", "body", "utxo"} /\ Genesis \in All
  BY NoneAssumption DEF Idle, All, Stages
<1>5. pc'[Genesis] = Idle /\ pc'[Genesis].stage \notin {"header", "body", "utxo"} /\ \A b \in Blocks : pc'[b] = Idle
  BY <1>1, <1>2, <1>4 DEF All
<1>6. CASE has(<<"past_pps", 0>>) /\ UNCHANGED <<disk, cache, batch>>
  <2>1. DiskStatus(Genesis)' = DiskStatus(Genesis) /\ \A s, x : OnDisk(s, x)' <=> OnDisk(s, x)
    BY <1>6 DEF DiskStatus, OnDisk
  <2>2. NodeInv' /\ FirstStart'
    BY <1>1, <1>2, <1>3, <1>5, <1>6, <2>1 DEF NodeInv, FirstStart
  <2> QED BY <1>1, <1>6, <2>2, PhaseQuiet DEF Phases
<1> DEFINE ws == past_pruning_points_insert(0, Genesis)
<1>7. CASE ~has(<<"past_pps", 0>>) /\ WriteDirect(ws)
  <2>1. DOMAIN ws = {<<"past_pps", 0>>} /\ disk' = ws ++ disk /\ WriteDirect(ws)
    BY <1>7, Single DEF past_pruning_points_insert, WriteDirect
  <2> HIDE DEF ws
  <2>2. \A key \in DOMAIN ws : key[1] = "past_pps" /\ key[1] \notin {"statuses", "pruning", "virtual"}
    <3>1. <<"past_pps", 0>>[1] = "past_pps"
      BY KeyFacts
    <3>2. ASSUME NEW key \in DOMAIN ws PROVE key[1] = "past_pps"
      BY <2>1, <3>1
    <3> QED BY <3>2
  <2>3. /\ DiskStatus(Genesis)' = DiskStatus(Genesis)
        /\ \A s, x : OnDisk(s, x)' <=> <<s, x>> \in DOMAIN ws \/ OnDisk(s, x)
    BY <1>1, <1>4, <2>1, <2>2, PhaseDisk
  <2>4. DiskInv'
    <3>1. \A s, c : <<s, c>> \in DOMAIN ws /\ c \in All =>
            s \notin HeaderStores \cup UtxoStores \cup {"parents", "children", "transactions"}
      <4>1. \A s, c : <<s, c>> \in DOMAIN ws => s = "past_pps"
        BY <2>1, KeyFacts
      <4> QED BY <4>1 DEF HeaderStores, UtxoStores
    <3>2. (\A c \in All : DiskKeys(c)') /\ DiskClosed'
      BY <1>1, <2>1, <2>2, <3>1, PhaseBlocks
    <3>3. Reach \notin DOMAIN ws /\ Tip \notin DOMAIN ws /\ Tips \notin DOMAIN ws
      BY <2>2, KeyKinds
    <3> QED BY <1>1, <2>1, <2>2, <3>2, <3>3, PhaseItems DEF DiskInv, DiskItems
  <2>5. NodeInv' /\ FirstStart'
    BY <1>1, <1>3, <1>5, <2>1, <2>3 DEF NodeInv, FirstStart
  <2>6. reader # None /\ reader.key \in DOMAIN ws => ws[reader.key] = reader.value
    <3>1. <<"past_pps", 0>> \notin DOMAIN disk
      BY <1>2, <1>7 DEF OnDisk
    <3> QED BY <2>1, <3>1 DEF Inv, ReaderInv, OnDiskNow
  <2>7. TaskInv(Genesis)'
    BY <1>4, <1>5, AtRest
  <2> QED BY <1>1, <1>2, <2>1, <2>4, <2>5, <2>6, <2>7, PhaseWrite DEF Phases
<1> QED BY <1>6, <1>7 DEF GenesisPastPruningPoint
-----------------------------------------------------------------------------
(* The theorems.                                                           *)

(* An empty database satisfies the invariant.                              *)
LEMMA InvInit == Init => Inv
<1> SUFFICES ASSUME Init PROVE Inv
  OBVIOUS
<1>1. /\ disk = NoWrites /\ cache = NoWrites /\ batch = [b \in All |-> NoWrites] /\ owner = [l \in Locks |-> None]
      /\ pc = [b \in All |-> Idle] /\ reader = None /\ node = "down" /\ crashes = 0
  BY DEF Init
<1>2. DOMAIN disk = {} /\ DOMAIN cache = {} /\ \A b \in All : DOMAIN batch[b] = {}
  BY <1>1 DEF NoWrites
<1>3. \A s, x : ~OnDisk(s, x)
  BY <1>2 DEF OnDisk
<1>4. \A b \in All : DiskStatus(b) = None
  BY <1>3 DEF DiskStatus
<1>5. Accepted = {} /\ Bodies = {}
  BY <1>4 DEF Accepted, Bodies
<1>6. None \notin Statuses /\ None # "UTXOValid"
  BY NoneAssumption DEF Statuses
<1>7. DiskInv
  BY <1>2, <1>3, <1>4, <1>5, <1>6 DEF DiskInv, DiskKeys, DiskItems, DiskClosed
<1>8. ASSUME NEW b \in All
      PROVE  pc[b] = Idle /\ Keys(b) = {} /\ Guarded(b) /\ TaskInv(b) /\ Values(b)
  <2>1. pc[b].stage = None /\ pc[b].step = None /\ pc[b] = Idle
    BY <1>1 DEF Idle
  <2>2. None # "header" /\ None # "body" /\ None # "utxo"
    BY NoneAssumption DEF Stages
  <2>3. Keys(b) = {}
    BY <2>1, KeysOther DEF Keys
  <2> QED BY <1>2, <2>1, <2>2, <2>3 DEF Guarded, TaskInv, Values, In
<1>9. TypeInv
  <2>1. crashes \in Nat
    BY SMT, <1>1
  <2> QED BY <1>1, <2>1 DEF TypeInv, Task
<1>10. NodeInv /\ FirstStart
  <2>1. pc[Genesis].stage \notin {"header", "body", "utxo"} /\ Genesis \in All
    BY <1>1, NoneAssumption DEF Idle, All, Stages
  <2> QED BY <1>1, <1>3, <1>4, <1>8, <2>1 DEF NodeInv, FirstStart, All
<1> QED BY <1>1, <1>2, <1>7, <1>8, <1>9, <1>10 DEF Inv, BatchInv, CacheInv, ReaderInv

(* Every step, or none, keeps the invariant.                               *)
LEMMA InvStep == Inv /\ [Next]_vars => Inv'
<1> SUFFICES ASSUME Inv, [Next]_vars PROVE Inv'
  OBVIOUS
<1>1. CASE Start
  BY <1>1, InitReachabilityStep, GenesisRelationsStep, GenesisHeaderStep, GenesisBodyStep, GenesisVirtualStep,
     GenesisPastPruningPointStep DEF Start
<1>2. CASE Crash
  BY <1>2, CrashStep
<1>3. CASE ReadFill
  BY <1>3, ReadFillStep
<1>4. CASE \E key \in DOMAIN disk \cap ReadKeys : ReadMiss(key)
  BY <1>4, ReadMissStep
<1>5. ASSUME NEW b \in All, CommitStep(b) PROVE Inv'
  <2>1. CASE HeaderInsert(b) \/ Staging(b) \/ SelectTip(b) \/ Relate(b) \/ SetStatus(b) \/ CommitStaging(b)
    BY <2>1, HeaderInsertStep, StagingStep, SelectTipStep, RelateStep, SetStatusStep, CommitStagingStep
  <2>2. CASE BodyInsert(b) \/ UpdateTips(b) \/ UtxoInsert(b)
    BY <2>2, BodyInsertStep, UpdateTipsStep, UtxoInsertStep
  <2>3. CASE Flush(b) \/ Drop(b)
    BY <2>3, FlushStep, DropStep
  <2> QED BY <1>5, <2>1, <2>2, <2>3 DEF CommitStep
<1>6. ASSUME NEW b \in Blocks, Process(b) PROVE Inv'
  BY <1>6, StartHeaderStep, InvalidHeaderStep, StartBodyStep, InvalidBodyStep, StartUtxoStep, DisqualifyStep DEF Process
<1>7. CASE UNCHANGED vars
  <2>1. /\ disk' = disk /\ cache' = cache /\ batch' = batch /\ owner' = owner /\ pc' = pc /\ reader' = reader
        /\ node' = node /\ crashes' = crashes /\ bad' = bad
    BY <1>7 DEF vars
  <2>2. \A b : DiskStatus(b)' = DiskStatus(b) /\ \A s : OnDisk(s, b)' = OnDisk(s, b)
    BY <2>1 DEF DiskStatus, OnDisk
  <2>3. /\ TypeInv' /\ BatchInv' /\ CacheInv' /\ ReaderInv' /\ \A b \in All : Guarded(b)'
    <3>1. \A b : Keys(b)' = Keys(b) /\ (Values(b)' <=> Values(b)) /\ (Guarded(b)' <=> Guarded(b))
      <4>1. \A b : Keys(b)' = Keys(b)
        BY <2>1 DEF Keys
      <4>2. \A b : Values(b)' <=> Values(b)
        BY <2>1 DEF Values, In
      <4>3. \A b : Guarded(b)' <=> Guarded(b)
        BY <2>1 DEF Guarded, In
      <4> QED BY <4>1, <4>2, <4>3
    <3>2. TypeInv'
      BY <2>1 DEF Inv, TypeInv
    <3>3. BatchInv'
      BY <2>1, <3>1 DEF Inv, BatchInv
    <3>4. CacheInv' /\ ReaderInv'
      BY <2>1 DEF Inv, CacheInv, Batched, OnDiskNow, ReaderInv
    <3>5. \A b \in All : Guarded(b)'
      BY <3>1 DEF Inv
    <3> QED BY <3>2, <3>3, <3>4, <3>5
  <2>4. Accepted' = Accepted /\ Bodies' = Bodies /\ \A b, s : Fails(b, s)' = Fails(b, s)
    BY <2>1, <2>2 DEF Accepted, Bodies, Fails
  <2>5. DiskInv'
    BY <2>1, <2>2, <2>4 DEF Inv, DiskInv, DiskKeys, DiskItems, DiskClosed
  <2>6. NodeInv' /\ FirstStart'
    BY <2>1, <2>2 DEF Inv, NodeInv, FirstStart, Done
  <2>7. \A b \in All : TaskInv(b)'
    BY <2>1, <2>2, <2>4 DEF Inv, TaskInv, In
  <2> QED BY <2>3, <2>5, <2>6, <2>7 DEF Inv
<1> QED BY <1>1, <1>2, <1>3, <1>4, <1>5, <1>6, <1>7 DEF Next

(* What the invariant says of the disk is what DiskConsistent says.        *)
LEMMA InvDisk == Inv => DiskConsistent
<1> SUFFICES ASSUME Inv PROVE DiskConsistent
  OBVIOUS
<1>1. \A b \in All : DiskKeys(b)
  BY DEF Inv, DiskInv
<1>2. Accepted # {} => \A b \in Accepted : b <= disk[Tip]
  BY DEF Inv, DiskInv, DiskItems, DiskClosed
<1>3. Bodies # {} => disk[Tips] = {b \in Bodies : \A c \in Bodies : b \notin ParentsOf(c)}
  BY DEF Inv, DiskInv, DiskItems, DiskClosed
<1>4. OnDisk("reachability", Item) => disk[Reach] = Accepted
  BY DEF Inv, DiskInv, DiskItems
<1>5. node = "running" => DiskStatus(Genesis) = "UTXOValid"
  BY DEF Inv, NodeInv
<1>6. node = "running" /\ crashes = 0 => OnDisk("past_pps", 0)
  BY DEF Inv, FirstStart
<1> QED BY <1>1, <1>2, <1>3, <1>4, <1>5, <1>6 DEF DiskConsistent, DiskKeys, Tip, Tips, Reach

(* What can be read is current.                                            *)
LEMMA InvReads == Inv => ReadsCurrent
<1> SUFFICES ASSUME Inv PROVE ReadsCurrent
  OBVIOUS
<1>1. Tasks /\ CacheInv
  BY DEF Inv, Tasks
<1>2. ASSUME NEW key \in DOMAIN cache, MayRead(LockOf(key[1]))
      PROVE  \/ key \in DOMAIN disk /\ disk[key] = cache[key]
             \/ LockOf(key[1]) \notin Locks /\ key[2] \in All /\ key \in DOMAIN batch[key[2]]
  <2>1. CASE ~Batched(key)
    BY <1>1, <2>1 DEF CacheInv, OnDiskNow
  <2>2. ASSUME NEW b \in All, key \in DOMAIN batch[b]
        PROVE  LockOf(key[1]) \notin Locks /\ key[2] = b
    <3>1. LockOf(key[1]) \notin Locks
      BY <1>1, <1>2, <2>2, FreeStore DEF MayRead, Batched
    <3>2. key \in Keys(b) /\ "reachability" \in Locks
      BY <1>1, <2>2 DEF Tasks, BatchInv, Locks
    <3> QED BY <1>1, <3>1, <3>2, KeyOwner DEF Tasks
  <2> QED BY <2>1, <2>2 DEF Batched
<1>3. ASSUME NEW b \in All, owner["statuses"] = None, Status(b) \notin {None, "Invalid"}
      PROVE  /\ \A s \in HeaderStores : has(<<s, b>>)
             /\ HasBody(Status(b)) => has(<<"transactions", b>>)
             /\ Status(b) = "UTXOValid" => \A s \in UtxoStores : has(<<s, b>>)
  <2>1. Status(b) = DiskStatus(b)
    BY <1>1, <1>3, StatusRead
  <2>2. b \in Accepted /\ (HasBody(Status(b)) => b \in Bodies)
    BY <1>3, <2>1 DEF Accepted, Bodies
  <2>3. DiskKeys(b)
    BY DEF Inv, DiskInv
  <2>4. \A s : OnDisk(s, b) => has(<<s, b>>)
    BY DEF OnDisk, has
  <2> QED BY <2>1, <2>2, <2>3, <2>4 DEF DiskKeys
<1> QED BY <1>2, <1>3 DEF ReadsCurrent

(* The invariant holds at every moment: of commit_header, commit_body and  *)
(* commit_utxo_state on any number of threads, with their readers, crashes *)
(* and the initialisation that follows a start.                            *)
THEOREM StorageInvariant == Spec => []Inv
  BY InvInit, InvStep, PTL DEF Spec

(* What is on disk is a whole state at every moment, so that a crash never *)
(* leaves a part of a block: the batches of commit_header, commit_body and *)
(* commit_utxo_state, written by several threads in any order, keep the    *)
(* stores consistent with the statuses.                                    *)
THEOREM DiskIsConsistent == Spec => []DiskConsistent
  BY StorageInvariant, InvDisk, PTL

(* No read is stale or comes too early, although the caches are filled     *)
(* before the batch that has the same entries is written, and by readers   *)
(* that looked at the disk some time ago.                                  *)
THEOREM ReadsAreCurrent == Spec => []ReadsCurrent
  BY StorageInvariant, InvReads, PTL
=============================================================================
