------------------------------- MODULE Storage ------------------------------
(***************************************************************************)
(* The stores of the consensus: what is on disk, the caches in front of    *)
(* it, the batches the three processors write, the locks they hold until   *)
(* a batch is flushed, and the start of the node over what a crash left.   *)
(*                                                                         *)
(* A key is a pair of a store and an entry.  disk, cache and a batch map   *)
(* keys to values.  An append-only entry is written once, with the value   *)
(* Data; the lists that change (statuses, children, tips, the headers      *)
(* selected tip, reachability) have their values.  Reachability data is    *)
(* abstracted to the set of the blocks it covers.                          *)
(***************************************************************************)
EXTENDS Naturals, FiniteSetsExt

CONSTANTS Blocks,      \* naturals, in the order of blue work
          Parents,     \* of each block but genesis
          Bads,        \* which blocks may fail, each mapped to the stage it fails in
          CacheSize,   \* of each store behind a bounded cache
          ReadKeys,    \* the entries that readers miss: a bound
          MaxCrashes,  \* bound
          ORIGIN,
          Item,        \* the one entry of a CachedDbItem, and of reachability
          None

Genesis == 0
Data == "data"
All == Blocks \union {Genesis}
ParentsOf(b) == IF b = Genesis THEN {ORIGIN} ELSE Parents[b]

Stages == {"header", "body", "utxo"}
Steps == {"insert", "staging", "hst", "relations", "tips", "status", "commit", "flush", "drop"}
Statuses == {"Invalid", "HeaderOnly", "UTXOPending", "UTXOValid", "Disqualified"}

\* Blue work grows from parents to children, and genesis has the least.
ASSUME BlocksAssumption == Blocks \subseteq Nat \ {Genesis}
ASSUME ParentsAssumption ==
  /\ Parents \in [Blocks -> SUBSET All]
  /\ \A b \in Blocks : Parents[b] # {} /\ \A p \in Parents[b] : p < b
ASSUME OriginAssumption == ORIGIN \notin All
ASSUME NoneAssumption == None \notin All /\ None \notin Stages \cup Steps \cup Statuses

VARIABLES disk, cache,
          batch,     \* each task's WriteBatch
          owner,     \* of each lock: the task with the write or upgradable guard
          pc,        \* of each block's task: its stage and step
          reader,    \* a reader between its miss and the filling of the cache
          node,      \* "down", a step of Consensus::init, "running" or "panicked"
          crashes,
          bad        \* the blocks that fail, with the stage

vars == <<disk, cache, batch, owner, pc, reader, node, crashes, bad>>

Locks == {"reachability", "hst", "relations", "statuses", "tips"}
LockOf(store) ==
  CASE store \in {"parents", "children"} -> "relations"
    [] store = "reindex_root" -> "reachability"
    [] OTHER -> store
Idle == [stage |-> None, step |-> None]

\* Values for keys: none, one, and f where it has one and otherwise g.
NoWrites == [key \in {} |-> Data]
key :> value == [k \in {key} |-> value]
f ++ g == [k \in DOMAIN f \cup DOMAIN g |-> IF k \in DOMAIN f THEN f[k] ELSE g[k]]
-----------------------------------------------------------------------------
(* CachedDbAccess and CachedDbItem                                         *)

has(key) == key \in DOMAIN cache \/ key \in DOMAIN disk
read(key) == IF key \in DOMAIN cache THEN cache[key] ELSE disk[key]

\* Cache::insert and insert_many of the entries ws: a full cache drops an entry
\* at random, even when the key is there already, and then has the new one.
\* Which ones several entries for one store drop is left open, up to their
\* number; a cache of size 0 has none.
OfStore(keys, store) == {k \in keys : k[1] = store}
Full(c, ws) ==
  {s \in DOMAIN CacheSize : /\ OfStore(DOMAIN ws, s) # {}
                            /\ Cardinality(OfStore(DOMAIN c, s)) + Cardinality(OfStore(DOMAIN ws, s)) > CacheSize[s]}
Evictions(c, ws) ==
  LET all == DOMAIN ws \cup DOMAIN c
      full == Full(c, ws)
  IN {dropped \in SUBSET UNION {OfStore(all, s) : s \in full} :
        \A s \in full :
          /\ Cardinality(OfStore(all \ dropped, s)) <= CacheSize[s]
          /\ CacheSize[s] > 0 => /\ Cardinality(OfStore(dropped, s)) <= Cardinality(OfStore(DOMAIN ws, s))
                                 /\ ~(OfStore(DOMAIN ws, s) \subseteq dropped)}
CacheInsert(c, ws) ==
  LET new == ws ++ c IN {[k \in DOMAIN new \ dropped |-> new[k]] : dropped \in Evictions(c, ws)}

\* The entries that are written once: their insert and insert_batch fail on
\* an existing key, and the callers unwrap the failure.
AppendOnly == {"ghostdag", "daa", "headers", "depth", "parents", "transactions", "diffs", "multisets", "acceptance", "past_pps"}
Insertable(ws) == \A k \in DOMAIN ws : k[1] \in AppendOnly => ~has(k)

\* The writes ws, a value for each key, through BatchDbWriter: the cache now,
\* the disk with the batch.
WriteBatched(t, ws) ==
  /\ Insertable(ws)
  /\ cache' \in CacheInsert(cache, ws)
  /\ batch' = [batch EXCEPT ![t] = ws ++ @]
  /\ UNCHANGED disk

\* Through DirectDbWriter, or a batch that is flushed at once by the only thread.
WriteDirect(ws) ==
  /\ Insertable(ws)
  /\ cache' \in CacheInsert(cache, ws)
  /\ disk' = ws ++ disk
  /\ UNCHANGED batch
-----------------------------------------------------------------------------
(* What each store writes for a block                                      *)

ghostdag_insert(b) == <<"ghostdag", b>> :> Data
daa_insert(b) == <<"daa", b>> :> Data
headers_insert(b) == <<"headers", b>> :> Data
depth_insert(b) == <<"depth", b>> :> Data
block_transactions_insert(b) == <<"transactions", b>> :> Data
utxo_diffs_insert(b) == <<"diffs", b>> :> Data
utxo_multisets_insert(b) == <<"multisets", b>> :> Data
acceptance_data_insert(b) == <<"acceptance", b>> :> Data
past_pruning_points_insert(index, pp) == <<"past_pps", index>> :> pp
statuses_set(b, status) == <<"statuses", b>> :> status
headers_selected_tip_set(b) == <<"hst", Item>> :> b
pruning_set(pp) == <<"pruning", Item>> :> pp
virtual_state_set(b) == <<"virtual", Item>> :> b
tips_init == <<"tips", Item>> :> {}
tips_add(b) == <<"tips", Item>> :> (read(<<"tips", Item>>) \ ParentsOf(b)) \cup {b}
reachability_init == (<<"reachability", Item>> :> {}) ++ (<<"reindex_root", Item>> :> ORIGIN)
reachability_commit(b) == <<"reachability", Item>> :> read(<<"reachability", Item>>) \cup {b}

\* The parents of the block, no children yet, and the block among the
\* children of each parent.
relations_insert(b, ps) ==
  (<<"parents", b>> :> Data) ++ (<<"children", b>> :> {})
    ++ [key \in {<<"children", p>> : p \in ps} |-> read(key) \cup {b}]
-----------------------------------------------------------------------------
(* Guards                                                                  *)

ReaderHolds(lock) == reader # None /\ LockOf(reader.key[1]) = lock
MayWrite(lock) == owner[lock] = None /\ ~ReaderHolds(lock)
\* Readers share the reachability store with the staging of one commit.
Upgraded == owner["reachability"] # None /\ pc[owner["reachability"]].step \in {"flush", "drop"}
MayRead(lock) ==
  lock \in Locks => IF lock = "reachability" THEN ~Upgraded ELSE owner[lock] = None

Status(b) == IF has(<<"statuses", b>>) THEN read(<<"statuses", b>>) ELSE None
HasBody(status) == status \in {"UTXOPending", "UTXOValid", "Disqualified"}
Fails(b, stage) == b \in DOMAIN bad /\ bad[b] = stage

At(b, stage, step) == pc[b] = [stage |-> stage, step |-> step]
GoTo(b, step) == pc' = [pc EXCEPT ![b].step = step]
Take(b, lock) == MayWrite(lock) /\ owner' = [owner EXCEPT ![lock] = b]
Begin(b, stage) == pc[b] = Idle /\ pc' = [pc EXCEPT ![b] = [stage |-> stage, step |-> "insert"]]
-----------------------------------------------------------------------------
(* commit_header                                                           *)

HeaderInsert(b) ==
  /\ At(b, "header", "insert")
  /\ WriteBatched(b, ghostdag_insert(b) ++ daa_insert(b) ++ headers_insert(b) ++ depth_insert(b))
  /\ GoTo(b, "staging")
  /\ UNCHANGED <<owner, reader, node, crashes, bad>>

\* upgradable_read: readers may stay.
Staging(b) ==
  /\ At(b, "header", "staging")
  /\ owner["reachability"] = None
  /\ owner' = [owner EXCEPT !["reachability"] = b]
  /\ GoTo(b, "hst")
  /\ UNCHANGED <<disk, cache, batch, reader, node, crashes, bad>>

SelectTip(b) ==
  /\ At(b, "header", "hst")
  /\ Take(b, "hst")
  /\ WriteBatched(b, IF b > read(<<"hst", Item>>) THEN headers_selected_tip_set(b) ELSE NoWrites)
  /\ GoTo(b, "relations")
  /\ UNCHANGED <<reader, node, crashes, bad>>

Relate(b) ==
  /\ At(b, "header", "relations")
  /\ Take(b, "relations")
  /\ WriteBatched(b, relations_insert(b, ParentsOf(b)))
  /\ GoTo(b, "status")
  /\ UNCHANGED <<reader, node, crashes, bad>>

StageStatus == [header |-> "HeaderOnly", body |-> "UTXOPending", utxo |-> "UTXOValid"]

BugSetStatus(b) ==   \* the guard is dropped before the batch is flushed
  /\ pc[b].step = "status"
  /\ MayWrite("statuses")
  /\ WriteBatched(b, statuses_set(b, StageStatus[pc[b].stage]))
  /\ GoTo(b, IF pc[b].stage = "header" THEN "commit" ELSE "flush")
  /\ UNCHANGED <<owner, reader, node, crashes, bad>>

\* statuses_store.set_batch, the last store of each of the three commits.
SetStatus(b) ==
  /\ pc[b].step = "status"
  /\ Take(b, "statuses")
  /\ WriteBatched(b, statuses_set(b, StageStatus[pc[b].stage]))
  /\ GoTo(b, IF pc[b].stage = "header" THEN "commit" ELSE "flush")
  /\ UNCHANGED <<reader, node, crashes, bad>>

BugCommitStaging(b) ==   \* a write guard of its own instead of the upgrade
  /\ At(b, "header", "commit")
  /\ Take(b, "reachability")
  /\ WriteBatched(b, reachability_commit(b))
  /\ GoTo(b, "flush")
  /\ UNCHANGED <<reader, node, crashes, bad>>

\* StagingReachabilityStore::commit: the guard is upgraded, once readers left.
CommitStaging(b) ==
  /\ At(b, "header", "commit")
  /\ ~ReaderHolds("reachability")
  /\ WriteBatched(b, reachability_commit(b))
  /\ GoTo(b, "flush")
  /\ UNCHANGED <<owner, reader, node, crashes, bad>>

BugFlush(b) ==   \* the stores are written one after the other
  /\ pc[b].step = "flush"
  /\ \E k \in DOMAIN batch[b] :
       /\ disk' = (k :> batch[b][k]) ++ disk
       /\ batch' = [batch EXCEPT ![b] = [j \in DOMAIN batch[b] \ {k} |-> batch[b][j]]]
  /\ IF Cardinality(DOMAIN batch[b]) = 1 THEN GoTo(b, "drop") ELSE UNCHANGED pc
  /\ UNCHANGED <<cache, owner, reader, node, crashes, bad>>

\* db.write(batch)
Flush(b) ==
  /\ pc[b].step = "flush"
  /\ disk' = batch[b] ++ disk
  /\ batch' = [batch EXCEPT ![b] = NoWrites]
  /\ GoTo(b, "drop")
  /\ UNCHANGED <<cache, owner, reader, node, crashes, bad>>

Drop(b) ==
  /\ pc[b].step = "drop"
  /\ owner' = [l \in Locks |-> IF owner[l] = b THEN None ELSE owner[l]]
  /\ pc' = [pc EXCEPT ![b] = Idle]
  /\ UNCHANGED <<disk, cache, batch, reader, node, crashes, bad>>
-----------------------------------------------------------------------------
(* commit_body and commit_utxo_state                                       *)

BodyInsert(b) ==
  /\ At(b, "body", "insert")
  /\ WriteBatched(b, block_transactions_insert(b))
  /\ GoTo(b, "tips")
  /\ UNCHANGED <<owner, reader, node, crashes, bad>>

UpdateTips(b) ==
  /\ At(b, "body", "tips")
  /\ Take(b, "tips")
  /\ WriteBatched(b, tips_add(b))
  /\ GoTo(b, "status")
  /\ UNCHANGED <<reader, node, crashes, bad>>

UtxoInsert(b) ==
  /\ At(b, "utxo", "insert")
  /\ WriteBatched(b, utxo_diffs_insert(b) ++ utxo_multisets_insert(b) ++ acceptance_data_insert(b))
  /\ GoTo(b, "status")
  /\ UNCHANGED <<owner, reader, node, crashes, bad>>

CommitStep(b) ==
  \/ HeaderInsert(b) \/ Staging(b) \/ SelectTip(b) \/ Relate(b) \/ SetStatus(b) \/ CommitStaging(b)
  \/ BodyInsert(b) \/ UpdateTips(b) \/ UtxoInsert(b) \/ Flush(b) \/ Drop(b)
-----------------------------------------------------------------------------
(* The processors start on a block when its parents are done.              *)

\* expected_header_pruning_point reads past pruning point 0 for a block that
\* is not on genesis itself.
Panics(b) == Parents[b] # {Genesis} /\ ~has(<<"past_pps", 0>>)

StartHeader(b) ==
  /\ node = "running" /\ owner["statuses"] = None
  /\ Status(b) = None
  /\ \A p \in Parents[b] : Status(p) \notin {None, "Invalid"}
  /\ ~Fails(b, "header")
  /\ IF Panics(b) THEN node' = "panicked" /\ UNCHANGED pc ELSE Begin(b, "header") /\ UNCHANGED node
  /\ UNCHANGED <<disk, cache, batch, owner, reader, crashes, bad>>

\* statuses_store.write().set(hash, StatusInvalid)
InvalidHeader(b) ==
  /\ node = "running" /\ MayWrite("statuses")
  /\ Status(b) = None
  /\ \A p \in Parents[b] : Status(p) \notin {None, "Invalid"}
  /\ Fails(b, "header")
  /\ WriteDirect(statuses_set(b, "Invalid"))
  /\ UNCHANGED <<owner, pc, reader, node, crashes, bad>>

StartBody(b) ==
  /\ node = "running" /\ owner["statuses"] = None
  /\ Status(b) = "HeaderOnly"
  /\ \A p \in Parents[b] : HasBody(Status(p))
  /\ ~Fails(b, "body")
  /\ Begin(b, "body")
  /\ UNCHANGED <<disk, cache, batch, owner, reader, node, crashes, bad>>

\* The body is invalid by itself, whatever the parents.
InvalidBody(b) ==
  /\ node = "running" /\ MayWrite("statuses")
  /\ pc[b] = Idle
  /\ Status(b) = "HeaderOnly"
  /\ Fails(b, "body")
  /\ WriteDirect(statuses_set(b, "Invalid"))
  /\ UNCHANGED <<owner, pc, reader, node, crashes, bad>>

\* One thread resolves virtual: it verifies the blocks of a selected chain from
\* its bottom.  Any chain may become the selected one.
Resolving(b) ==
  /\ node = "running"
  /\ \A c \in All : pc[c].stage # "utxo"
  /\ HasBody(Status(b)) /\ ~has(<<"diffs", b>>)

StartUtxo(b) ==
  /\ Resolving(b) /\ owner["statuses"] = None
  /\ Status(Max(Parents[b])) = "UTXOValid" /\ ~Fails(b, "utxo")
  /\ Begin(b, "utxo")
  /\ UNCHANGED <<disk, cache, batch, owner, reader, node, crashes, bad>>

\* The block, or its selected parent already, does not stand the test.
Disqualify(b) ==
  /\ Resolving(b) /\ MayWrite("statuses")
  /\ \/ Status(Max(Parents[b])) = "Disqualified"
     \/ Status(Max(Parents[b])) = "UTXOValid" /\ Fails(b, "utxo")
  /\ WriteDirect(statuses_set(b, "Disqualified"))
  /\ UNCHANGED <<owner, pc, reader, node, crashes, bad>>
-----------------------------------------------------------------------------
(* A read that misses the cache fills it in a second step, under the read  *)
(* guard of its store, or under none where the store is append-only.       *)

ReadMiss(key) ==
  /\ reader = None
  /\ key \in DOMAIN disk \ DOMAIN cache
  /\ MayRead(LockOf(key[1]))
  /\ reader' = [key |-> key, value |-> disk[key]]
  /\ UNCHANGED <<disk, cache, batch, owner, pc, node, crashes, bad>>

ReadFill ==
  /\ reader # None
  /\ cache' \in CacheInsert(cache, reader.key :> reader.value)
  /\ reader' = None
  /\ UNCHANGED <<disk, batch, owner, pc, node, crashes, bad>>
-----------------------------------------------------------------------------
(* Consensus::init, and crashes                                            *)

Init ==
  /\ disk = NoWrites /\ cache = NoWrites
  /\ batch = [b \in All |-> NoWrites]
  /\ owner = [l \in Locks |-> None]
  /\ pc = [b \in All |-> Idle]
  /\ reader = None /\ node = "down" /\ crashes = 0 /\ bad \in Bads

Phase(from, to) == node = from /\ node' = to
Unlocked == UNCHANGED <<owner, reader, crashes, bad>>

\* reachability::init
InitReachability ==
  /\ Phase("down", "header") /\ MayWrite("reachability")
  /\ IF has(<<"reachability", Item>>) THEN UNCHANGED <<disk, cache, batch>>
     ELSE WriteDirect(reachability_init)
  /\ Unlocked /\ UNCHANGED pc

\* HeaderProcessor::process_genesis_if_needed: the first batch; an existing
\* entry of ORIGIN is left as it is.
GenesisRelations ==
  /\ node = "header"
  /\ IF Status(Genesis) # None
     THEN node' = "body" /\ UNCHANGED <<disk, cache, batch>>
     ELSE /\ node' = "pruning" /\ MayWrite("relations") /\ MayWrite("hst")
          /\ WriteDirect((IF has(<<"parents", ORIGIN>>) THEN NoWrites ELSE relations_insert(ORIGIN, {}))
                         ++ headers_selected_tip_set(Genesis))
  /\ Unlocked /\ UNCHANGED pc

\* pruning_store.set, then commit_header.
GenesisHeader ==
  /\ Phase("pruning", "body")
  /\ WriteDirect(pruning_set(Genesis))
  /\ Begin(Genesis, "header")
  /\ Unlocked

\* BlockBodyProcessor::process_genesis_if_needed: the tips, then commit_body.
GenesisBody ==
  /\ Phase("body", "virtual") /\ pc[Genesis] = Idle
  /\ IF Status(Genesis) = "HeaderOnly"
     THEN MayWrite("tips") /\ WriteDirect(tips_init) /\ Begin(Genesis, "body")
     ELSE UNCHANGED <<disk, cache, batch, pc>>
  /\ Unlocked

\* VirtualStateProcessor::process_genesis_if_needed: the virtual state, then
\* commit_utxo_state.
GenesisVirtual ==
  /\ node = "virtual" /\ pc[Genesis] = Idle
  /\ IF Status(Genesis) = "UTXOPending"
     THEN /\ node' = "past_pps"
          /\ WriteDirect(virtual_state_set(Genesis))
          /\ Begin(Genesis, "utxo")
     ELSE node' = "running" /\ UNCHANGED <<disk, cache, batch, pc>>
  /\ Unlocked

\* Its last write.
GenesisPastPruningPoint ==
  /\ Phase("past_pps", "running") /\ pc[Genesis] = Idle
  /\ IF has(<<"past_pps", 0>>) THEN UNCHANGED <<disk, cache, batch>>
     ELSE WriteDirect(past_pruning_points_insert(0, Genesis))
  /\ Unlocked /\ UNCHANGED pc

Crash ==
  /\ node \notin {"down", "panicked"} /\ crashes < MaxCrashes
  /\ crashes' = crashes + 1
  /\ cache' = NoWrites /\ batch' = [b \in All |-> NoWrites]
  /\ owner' = [l \in Locks |-> None] /\ pc' = [b \in All |-> Idle]
  /\ reader' = None /\ node' = "down"
  /\ UNCHANGED <<disk, bad>>

Start ==
  \/ InitReachability \/ GenesisRelations \/ GenesisHeader
  \/ GenesisBody \/ GenesisVirtual \/ GenesisPastPruningPoint
Process(b) == StartHeader(b) \/ InvalidHeader(b) \/ StartBody(b) \/ InvalidBody(b) \/ StartUtxo(b) \/ Disqualify(b)

Next ==
  \/ Start \/ Crash \/ ReadFill
  \/ \E key \in DOMAIN disk \cap ReadKeys : ReadMiss(key)
  \/ \E b \in All : CommitStep(b)
  \/ \E b \in Blocks : Process(b)

Spec == Init /\ [][Next]_vars
-----------------------------------------------------------------------------
HeaderStores == {"ghostdag", "daa", "headers", "depth"}
UtxoStores == {"diffs", "multisets", "acceptance"}
OnDisk(store, b) == <<store, b>> \in DOMAIN disk
DiskStatus(b) == IF OnDisk("statuses", b) THEN disk[<<"statuses", b>>] ELSE None
Accepted == {b \in All : DiskStatus(b) # None /\ (DiskStatus(b) = "Invalid" => Fails(b, "body"))}
Bodies == {b \in Accepted : HasBody(DiskStatus(b))}

(* What is on disk is a whole state at every moment, so that a crash loses  *)
(* blocks but never a part of one: the status of a block says which of its  *)
(* data is there, children are the inverse of parents, and reachability,    *)
(* the selected tip and the tips cover exactly the blocks on disk, although *)
(* the batches of several threads are flushed in any order.  Past pruning   *)
(* point 0 is there for a node that was never stopped only: a stop just     *)
(* before the last write of the genesis initialisation loses it for good.   *)
DiskConsistent ==
  LET accepted == Accepted
      bodies == Bodies
  IN /\ \A b \in All :
          /\ \A s \in HeaderStores \union {"parents", "children"} : OnDisk(s, b) <=> b \in accepted
          /\ OnDisk("transactions", b) <=> b \in bodies
          /\ \A s \in UtxoStores : OnDisk(s, b) <=> DiskStatus(b) = "UTXOValid"
          /\ OnDisk("children", b) => disk[<<"children", b>>] = {c \in accepted : b \in ParentsOf(c)}
     /\ OnDisk("reachability", Item) => disk[<<"reachability", Item>>] = accepted
     /\ accepted # {} => \A b \in accepted : b <= disk[<<"hst", Item>>]
     /\ bodies # {} => disk[<<"tips", Item>>] = {b \in bodies : \A c \in bodies : b \notin ParentsOf(c)}
     /\ node = "running" => DiskStatus(Genesis) = "UTXOValid"
     /\ (node = "running" /\ crashes = 0) => OnDisk("past_pps", 0)

(* No read is stale or comes too early: a cached entry is what the disk     *)
(* holds whenever a reader can get at it, except for the append-only data   *)
(* of a block that is being committed, and of a block whose status can be   *)
(* read all the data that goes with the status can be read.                 *)
ReadsCurrent ==
  /\ \A key \in DOMAIN cache :
       MayRead(LockOf(key[1])) =>
         \/ key \in DOMAIN disk /\ disk[key] = cache[key]
         \/ LockOf(key[1]) \notin Locks /\ key[2] \in All /\ key \in DOMAIN batch[key[2]]
  /\ \A b \in All :
       (owner["statuses"] = None /\ Status(b) \notin {None, "Invalid"}) =>
         /\ \A s \in HeaderStores : has(<<s, b>>)
         /\ HasBody(Status(b)) => has(<<"transactions", b>>)
         /\ Status(b) = "UTXOValid" => \A s \in UtxoStores : has(<<s, b>>)

(* The commits never wait for each other in a circle: while one is under   *)
(* way, one of them or a reader can go on, although each takes up to four   *)
(* guards and upgrades one of them while it holds the others.               *)
NeverStuck ==
  LET underway == {b \in All : pc[b] # Idle}
  IN underway # {} => ENABLED ReadFill \/ \E b \in underway : ENABLED CommitStep(b)
=============================================================================
