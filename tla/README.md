# Verification of rusty-kaspa

TLA+ models of the node in this repository: how blocks pass through the consensus
pipeline, how the DAG is ordered and queried, what headers, bodies and transactions
must satisfy, how the UTXO set follows the selected chain, how it all is stored, and
how RPC clients are served and notified. Small instances are checked with TLC; the
safety of a pipeline stage, of the whole pipeline, of the stores, of the UTXO diffs and
of the notifiers is proved for every instance with TLAPS. `PROJECT.json` maps each
definition to the lines it models and lists the runs, the theorems and the hazards.
Below, `c/` stands for `src/consensus/src/`.

## The system

A block enters through `Consensus::validate_and_insert_block` (`c/consensus/mod.rs`),
which puts it, with a one-shot result channel, into the channel of the header
processor. Three stages follow, joined by unbounded channels:

| part | state | operations | what is hard about it |
|---|---|---|---|
| task dependency manager `c/pipeline/deps_manager.rs` | map of pending tasks with result transmitters and dependents, idle condition | register, try_begin, end, wait_for_idle | a task must wait for pending parents without being lost or run twice; a second submission merges into a task that may be running; the exit waits without a loop |
| header processor `c/pipeline/header_processor` | headers, relations, GHOSTDAG data, reachability, statuses | worker, queue_block, process_header, commit_header | many pool threads; several stores under several locks, one batch |
| body processor `c/pipeline/body_processor` | block transactions, body tips, statuses | worker, queue_block, process_block_body, commit_body | status and parents are read before the commit; concurrent updates of the tips |
| virtual processor `c/pipeline/virtual_processor` | UTXO set, diffs, multisets, virtual state, statuses | worker, resolve_virtual, commit_utxo_state, templates, pruning advance | stale snapshot of the tips; reorganisations on diffs; restarts between its commits |
| GHOSTDAG `c/processes/ghostdag` | blues, reds, anticone sizes, blue work | ghostdag, mergeset, ordering | partial size maps along the chain; shortcuts at K |
| reachability `c/processes/reachability` | interval tree, future covering sets, reindex root | add_block, hint_virtual_selected_parent, queries | reindexing moves the intervals that answer the queries |
| UTXO algebra `src/consensus/core/src/utxo` | collections of added and removed entries | with_diff, diff_from, add_transaction, reversal | one outpoint with several DAA scores |
| pruning, depth, windows, parents by level `c/processes` | stores of depth, pruning points, window cache | functions of a block and its past | incremental against defined values, boundaries, dependence on the node's own state |
| transaction and body rules, coinbase, mass `c/processes`, `c/pipeline/body_processor` | signature cache | checks of a transaction, a body, a coinbase | validation in parallel; reused partial hashes; limits that the node's own coinbase must meet |
| stores `c/model/stores` | RocksDB column prefixes behind caches | read, write, batch | the cache is filled before the batch is written |
| notifiers `src/rpc/core/src/notify` | listeners, one dispatcher per event, collector, subscriber | register, start, stop, notify, shutdown | chains of queues; first and last listener switch the upper subscription |
| gRPC server and client `src/rpc/grpc/src` | connections and their tasks, pending calls | requests, notifications, timeouts | late answers, full channels, a lock held while waiting |
| conversions `src/rpc/core/src/convert`, `src/rpc/grpc/src/convert` | none | consensus types to RPC types to messages and back | narrowing, missing fields, errors |
| arithmetic and hashing `src/math`, `src/crypto`, `src/consensus/core/src/hashing` | none | big integers, targets, multiset hash, addresses, signature hashes | carries, representatives, what a hash covers |
| node core `src/core`, `src/kaspad` | services, runtime | start, shutdown, join | order of the stops |

The list with every source file, modelled or not, is `components` in `PROJECT.json`;
the hazards met while reading are `hazards`, each at its line.

## Modules

| module | models |
|---|---|
| `DepsManager` | the four operations of the manager, as actions on the map of pending tasks. Each holds the mutex, so each is one step. Closures on the pool are counted per hash, so running one twice would show |
| `DepsManagerProofs` | what each operation of the manager does to its map and its closures, as lemmas for the modules that use it |
| `Stage` | one stage: callers, channel, worker thread, a pool of `NumThreads`, exit |
| `StageProofs` | theorems about `Stage` |
| `Pipeline` | the three processors: two instances of `DepsManager` sharing one pool, and the virtual worker, over the statuses and tips stores |
| `BlockService` | the promise of `validate_and_insert_block`, without stages; `Pipeline` implements it |
| `PipelineInvariant`, `ServiceInvariant`, `PipelineProofs` | the inductive invariants of `Pipeline`, in this order of extension, and the theorems about it |
| `Ghostdag` | `GhostdagManager::ghostdag` on a growing DAG |
| `HeaderRules` | what a header must state and how the node derives it: windows, DAA score and median time, depth roots, pruning point, parents by level, the validations of the header processor, and the parents of virtual. Extends `Ghostdag` |
| `Reachability` | intervals, tree, reindexing, future covering sets, queries |
| `UtxoDiff` | `utxo_collection.rs` and `utxo_diff.rs` as operators on functions from outpoints to DAA scores |
| `UtxoAlgebra` | how `resolve_virtual` uses these operators, beside the full UTXO set the code never has |
| `UtxoProofs` | theorems about `UtxoAlgebra` |
| `VirtualUtxo` | `resolve_virtual` with its verification and commits, arrivals of bodies, stops and restarts |
| `Storage` | the stores: disk, caches that evict, batches, the guards each commit holds until its flush, readers, the genesis initialisation, crashes |
| `StorageProofs` | theorems about `Storage` |
| `TxHashing`, `TxRules`, `Coinbase` | what is written to each hash and signature hash; the checks of transactions and bodies, mass, the signature cache, validation in parallel and for the mempool; the expected coinbase and its payload |
| `Uint`, `Target`, `MuHash`, `Pow`, `Address` | the word loops of the big integers; compact targets, work and the next difficulty; the residues modulo a prime and the multiset hash; the heavy hash; the text of addresses |
| `RpcConvert` | blocks, responses and notifications from consensus types to RPC types to messages, and back |
| `Notifier` | two notifiers in a row, the core one and the gRPC one, from registration to stop |
| `NotifierProofs` | theorems about `Notifier` |
| `GrpcStream`, `GrpcClient`, `GrpcServer`, `Grpc` | the streams of each connection; the resolver of a client with its pending calls, receiver and timeout monitor; the server's handler, forwarder and collecting task of each connection and the locked manager; their composition |
| `MC...` | instances for TLC. `MCArithmetic` and `MCAlgorithms` enumerate the inputs of the pure algorithms as states, beside the reference definitions they are compared with; `MCAlgorithms` also runs `UtxoAlgebra`, `MuHash` and `Reachability`, and `MCStores` runs `Storage` and `VirtualUtxo`, each as a machine of its own: a behaviour is of one machine |

Definitions named `Bug...` are plausible mistakes in the code next to them. Each
property is known to fail when one of them takes the place of the real definition;
no specification uses them.

**Atomicity.** A step is what the code does under one lock or in one batch. In
`Pipeline`, reading a block's status, checking its parents and committing are separate
steps of a header, so other threads come between; the body's status read and the
commit are one step only because nothing else changes that block's own status or
takes away a parent's body in between. In `VirtualUtxo` every chain block walked is a
step, since each is committed on its own. In `Reachability` an addition is one step,
as `commit_header` holds the upgradable lock from staging to commit. `Storage` looks
inside the commits: each write to a store, each guard taken or upgraded and the flush
are steps of their own, and a read that misses the cache is two. In the gRPC modules
a step lies between two awaits: a push to the pending calls and the send of the
request are two steps, and a task that waits for a lock, for room in a channel or for
another task waits in a state of its own.

**Abstraction.** A block in `Pipeline` has a verdict, the first check its content
fails, chosen at the start; which check looks at the stores, and when, is modelled. A
transaction list is a name that fits the merkle root or not. `Ghostdag` takes
ancestry from the true past, which `Reachability` shows its queries return.
`VirtualUtxo` has blocks with a coinbase and at most one transaction, coinbase
maturity and missing inputs, commitments to multisets as the multisets themselves;
amounts and scripts are in `TxRules`. `Storage` keeps of a store's data what a status
must imply: an append-only entry is there or not, the entries that change have their
values; which blocks fail, and at which stage, is chosen at the start, and one reader at
a time is between its miss and its filling of the cache. `Notifier` has two event types, since the code tells only `UtxosChanged` apart
from the other eight; `GrpcServer` reduces it to a set of subscribed listeners with
their channels. Hash functions are injective and signatures ideal. Words, bytes and
digits are scaled down (words of 4 to 6 bits, bytes of 2) with the loops of
the code unchanged, so that every carry and boundary occurs among the values that are
enumerated. The rank of the proof-of-work matrix is computed, as in the code, on floats
that are rounded after every operation and compared with a tolerance; size, precision
and tolerance are scaled down.

## Runs

| run | instance | shows |
|---|---|---|
| `stage` | diamond of 4 hashes, 4 calls with or without transactions, 2 threads | `OneHome`: each pending task has one closure. `ParentsFirst`: it does not run before a parent it found pending. `ExitIsLast` |
| `pipeline_chain` | chain of 2 over genesis, 2 calls, 2 threads, five pairs of verdicts, mismatching transactions, exit at any time | a block is invalid only for its own content; refinement of `BlockService`; calls before the exit are answered, the three workers return |
| `pipeline_merge` | two blocks and their merge, 3 calls | `NoPanic`: no unwrap fails, bodies are closed under parents. In-order submission suffices. `VirtualSettled`: tips exact, virtual ends on the best tip unless it is disqualified, its chain is valid |
| `dag` | every DAG of 6 blocks in every order of hashes, K = 1, one heavy block; and DAGs of 8 blocks over a chain of 5 and of 7 over a fork, with header rules and virtual resolved at any time | `ColoringExact`: merge set, k-cluster with exact sizes, every red justified. Windows, depth roots, pruning points and parents by level equal their definitions, and the node accepts the template it builds |
| `stores` | two blocks and their merge, all valid or one or two of them failing in some stage, a status cache of one entry, readers of a status and of the reachability store, one crash at any step; and 6 blocks in 3 shapes, conflicting and chained transactions, a dishonest block, one restart anywhere | `DiskConsistent`, `ReadsCurrent`, and no circle of guards (`NeverStuck`); no unwrap fails, and UTXO set, commitments and verdicts equal those of a replay from genesis |
| `algorithms` | enumerated inputs, a MuHash of up to 4 operations, diffs over 2 outpoints and 3 scores; all DAGs of 6 headers over genesis, at most 2 parents, capacity 40, depth 1, slack 2 | the arithmetic, the hashes, the rules and the conversions against reference definitions; `DiffExact`; no reindexing fails, searched sets are ordered, reachability queries exact |
| `uint_mul` | the values of `algorithms` | expected to fail, see Findings |
| `tx_id` | the transactions of `algorithms` | expected to fail, see Findings |
| `notifier` | 2 clients that come and go with 3 calls; and 1 client, both events, 2 calls, exit at any time; 1 notification, start at any time | tables follow registrations, the core registration follows the tables, a linked client gets its notification, both services stop |
| `notifier_mutation` | 1 client, `UtxosChanged` | expected to fail, see Findings |
| `grpc` | 1 connection, two concurrent calls of four kinds, timeouts, lost link, shutdown | a response fits its call, calls return, connections end |
| `grpc_full` | 2 connections, response channels of one entry | expected to fail, see Findings |

**What the properties of `algorithms` say.** `ArithmeticExact`: sums, products,
quotients, shifts, byte and decimal forms, compact targets, work and the next
difficulty are those of the integers, and the overflow flags of sums and of products
with a word are exact. The flag of a full product is never a false alarm, and is exact
when no two words whose product lies beyond the last word are both set. A matrix of the
model's size is accepted exactly if it is invertible; this shows that the elimination is
right and says nothing about rounding errors of 64 by 64 doubles against 1e-9.
`MuHashExact`: equal multisets have equal hashes however they were reached, also for
elements at and above the prime. `AddressDetects`: an address is read back from its text; with one
character replaced, under another network's prefix, or cut short, a text is never read as
some address, and it says which texts are refused and which make the parser panic.
`HashesExact`: a hash determines what it must,
a signature hash covers exactly the fields of its type, and reusing partial hashes never
changes it. `ParallelSound`: for a body that passed isolation, the transactions accepted
in parallel are those accepted one by one in any order, and no coins appear.
`LocksMonotone`: what time has unlocked stays so, and a sequence lock opens at the score
the code's subtraction gives. `CoinbaseAccepted`: the coinbase the node expects passes
its own rules and its payload is read back, unless the miner's extra data exceed the
payload limit; then the node refuses the block it asked for. `WireFaithful`: what arrives
is what was sent, with the exceptions the code makes, which it names: among them a text
of a hash that is longer than a hash, which is cut, and upper-case digits, which are read
like lower-case ones.

**Why the bounds are enough to be interesting.** A diamond has a task with two pending
parents and a parent with two dependents, and with four calls some merge; the theorems
cover all sizes. Two threads allow every pairwise race. Capacity 40 for seven
blocks makes nearly every addition reindex, on both sides of the reindex root and with
it moving; a smaller one runs out of room, which 2^64 - 2 does not. The depths of `dag`
are 1, 2 and 3, so that a chain of five crosses them all, and its window of three
blocks overflows; over the fork a side chain is merged whose blocks have parents of
their own at higher levels. The scenarios of `VirtualUtxo` have a fork that is merged, one that is
left, and two branches whose coinbases have equal ids. The status cache of one entry in
`stores` evicts at nearly every write. In `grpc` the request and the stream channels
hold one message, so that every sender waits at times, and the response channel has
room for all that the instance can send; `grpc_full` takes that room away. Symmetry is
used for callers, in runs without liveness only. In `notifier` the two families
keep apart what would multiply: two clients whose calls cross each other's messages, and
a shutdown that cuts through what one client has queued for two dispatchers.

**Deadlock** is checked in `stage` and `pipeline_merge`, where `Terminated` allows the
quiet state alone. It is off where a bounded system
simply ends: the DAG is complete, the services are down, or no more calls are allowed;
in the runs with liveness the properties themselves exclude getting stuck, and in
`stores` `NeverStuck` does.

**Fairness** in `Pipeline` is weak fairness of worker threads and of pool closures per
hash: all are threads that run whenever they can. A closure that waits for a pool thread
gets one since the calls of an instance, and so the closures before it, are finitely many.
In `Notifier` and `Grpc` it is weak fairness of `Progress`, the disjunction of what tasks
do on their own, which is less than the runtime gives: it polls every task that can go
on. A timeout is part of it, as the monitor ticks for ever. Nothing is assumed of
callers, clients, the exit signal, lost links or crashes.

## Theorems

All proofs rest on the named assumptions of the modules: no block is its own parent and
only genesis has none (`ParentsAssumption`), a body is not the empty list
(`ContentsAssumption`), `None` is not a value of the sets it is added to, there is at
least one thread, any set of blocks has one of highest rank (`RankAssumption`, true of
finite sets; the rank is blue work with the hash as tie break), and the gRPC service's
id in the core notifier is none of its clients' (`NotifierAssumption`). The DAG need
not be finite, and the bounds on calls and notifications may be any numbers. In `Storage`
blocks are numbered in an order of their work, above their parents.

`StageProofs`, for every set of hashes, parent relation, set of callers and pool size:

- `TypeCorrect`: the types; no count of closures goes below zero.
- `NoTaskLost` (`OneHome`): inductive together with the types. `Home(h)` says that the
  closures waiting, those running and the entries in the dependents of pending tasks
  add up to one for a pending hash and to none otherwise. `register` creates the one,
  `try_begin` moves it, `end` removes its own and respawns the dependents.
- `ParentsProcessedFirst` (`ParentsFirst`): needs `AwaitsPending`, that the parents a
  task awaits are still pending, since `try_begin` looks at the pending map only.
- `BodyNeverDropped` (`BodyKept`) and `ExitComesLast` (`ExitIsLast`): from `MailInv`.
  A transmitter is in one place (`OnePlace`), messages and tasks carry what their
  callers sent (`QueuedAsSubmitted`, `HeldAsSubmitted`), what is queued behind Exit was
  sent after it (`ExitOrder`), and a worker past its wait has an empty map (`Drained`).
  The last shows that `wait_for_idle` needs no loop around its wait: only the worker
  registers tasks, and it is the one waiting.

`UtxoProofs`, for every set of outpoints and scores:

- `AccumulatedDiffExact` (`DiffExact`): the accumulated diff leads from the stored set
  to the view reached, in normal form, and no `unwrap` on the way fails. The lemma
  `WithDiffCorrect` says that two consecutive diffs compose.
- `DiffFromIsStep` (`DiffFromExact`): two diffs of one base have an exact difference.
- `ReverseRestores` (`ReverseUndoes`): a diff and its reverse restore the accumulated
  diff itself, since a diff in normal form is unique (`DiffUnique`).

The pipeline, for every DAG, set of callers, content of the blocks and pool size:

- `PipelineInvariant`: `Inv` of `PipelineInvariant.tla` is inductive. Beside the types it
  says that a header closure between its parents check and its commit works on an
  unknown block and one that found no error on a known one (`HeaderInv`); that what is
  on its way to the body stage has transactions and a known header, and that a task has
  one closure (`BodyInv`, with `OneHome` of the manager, which `PipelineProofs` takes
  from `DepsManagerProofs` for both stages); that bodies are closed under parents, the
  tips exact and the statuses along selected chains consistent (`StoreInv`); that the
  walk of `resolve_virtual` leaves nothing undecided behind (`WalkInv`); and that a body
  virtual has not looked at is announced to it by a task still to come (`SettledInv`).
- `PipelineNeverPanics` (`NoPanic`), `InvalidIsJustified` (`InvalidJustified`) and
  `PipelineSettles` (`VirtualSettled`) follow from it.
- `PipelineImplementsService` (`ImplementsService`): every behaviour of the pipeline is
  one of `BlockService`, so each call has at most one answer, about what is stored when
  it is given, and the stores only grow, parents first. The mapping is that of the run.
  It needs `ServiceInv` on top of `Inv`: the transmitter of a call is in exactly one
  message, task or batch, or used (`TransmitterInv`, in `PipelineInvariant.tla`); what
  travels is what the callers asked for (`CallInv`); only stored bodies go on to virtual
  (`StoredInv`); and what a closure found out before its last step is still true when
  it answers, since statuses never go back (`FindingsInv`). `ServiceInvariant` proves
  these, and `PipelineProofs` that each action is then a call, a commit, an answer or
  nothing to the service. The fairness of the two specifications is not part of it.
- `ParentsFirstIsEnough` (`NoSpuriousMissing`): a caller that sends a block after the
  blocks of its parents, as the only one to send it, never hears `MissingParents`. It
  needs `OrderInv`: of two calls the earlier one is ahead in the channel of each stage,
  or past it (`HeaderOrder`, `BodyOrder`); a task whose parents are on their way waits for
  them (`HeaderPassed`, `BodyPassed`); a call that is past a stage has left its result in
  the stores or failed (`KnownInv`); so a closure that misses a parent had nobody ahead
  who sent it (`MissingInv`).

`StorageProofs`, for every DAG, cache sizes, failing blocks and number of crashes:

- `StorageInvariant`: `Inv` is inductive. A task holds the guards of the stores it has
  written (`Guarded`), and its batch has exactly the keys of its step, with what is on
  disk now plus the block as values (`BatchInv`): so no two batches share a key, and the
  order of the flushes does not matter. A cached entry is that of the one batch with its
  key, or of the disk (`CacheInv`); a reader's copy is still on disk and in no batch
  (`ReaderInv`), since readers hold the guard of the store. What a task found out before
  it began holds until its flush (`TaskInv`). The disk itself is described store by store
  from the statuses (`DiskInv`), and the start of the node by how far genesis has come
  (`NodeInv`, `FirstStart`).
- `DiskIsConsistent` (`DiskConsistent`) and `ReadsAreCurrent` (`ReadsCurrent`) follow.

`NotifierProofs`, for any clients, addresses, events and numbers of calls:

- `NotifierInvariant`: `Inv` is inductive. Both halves of it are one statement,
  `Tracks`, about a flag that a sender tells a receiver of through a channel: the last
  message about the flag still in the channel tells the sender's value, and when there
  is none the receiver has it. `TableInv` says so of each registered listener and the
  table of its dispatcher, `FeedbackInv` of the gRPC notifier's table being empty and
  the service's registration with the core notifier. Four lemmas say how `Append` and
  `Tail` keep `Tracks`; the rest shows that every change of a flag is told, and only then.
- `TablesAreExact` (`TableExact`) and `FeedbackIsExact` (`FeedbackExact`) are the case of
  no message left.

The inductive invariants were model-checked on the instances of the runs before they
were proved.

Only model-checked:

- all liveness (`Answered`, `Stops`, `StopsCleanly`, `Delivered`, `CallsReturn`,
  `ConnectionsEnd`) and `NeverStuck`, which is about `ENABLED`: out of TLAPS's reach;
- what recursive definitions and folds compute (`Ghostdag`, `HeaderRules`,
  `Reachability`, `VirtualUtxo`, and all of `MCArithmetic` and `MCAlgorithms`): it needs induction over data, which is out of the prover's reach too;
- `AnswersFit` of `Grpc`, not proved yet.

## Findings

`notifier_mutation`: `Listener::toggle` (`src/rpc/core/src/notify/listener.rs:78`)
overwrites `changed` with the result of the comparison of addresses. A start of
`UtxosChanged` with the list the listener already has, at first the empty one, makes
it active without telling the dispatcher, against the comment in `start_notify`. The
subscriber asks the core notifier with an empty list, so it meets this case each time.
`TableExact`, `FeedbackExact` and `Delivered` are therefore stated for the other events.

`grpc_full`: `unregister` (`src/rpc/grpc/src/server/connection.rs:121`) holds the lock of
the connection manager while it waits for the collecting task. That task may be waiting
for room in the connection's channel, which only the forwarder drains, and the forwarder
may be waiting for the lock in order to unregister the connection itself. Then no
connection is ever removed or added again, against the comment "If sending failed, then
remove the connection from connection manager" (`src/rpc/grpc/src/server/service.rs:140`).
`ConnectionsEnd` holds as long as the channel has room.

`uint_mul`: `overflowing_mul` (`src/math/src/uint.rs:176`) never forms the products of
words whose place lies beyond the last word, and sets its flag from the carries alone. Two
values with one high bit each may so have a product that does not fit, is cut to zero
and is not flagged, against the comment on the assertion of `Mul`, "Check in debug that it
didn't overflow" (`src/math/src/uint.rs:462`). `ArithmeticExact` states the flag as it is.

`tx_id`: the comment in `id` (`src/consensus/core/src/hashing/tx.rs:21`) says "cut off
payload and hash the result"; `write_transaction` writes the payload always, so the id
depends on it. `HashesExact` states the ids as they are.

Met while modelling, and stated in the properties as they are:

- A node that is stopped after genesis became UTXO valid and before past pruning point 0
  was written (`c/pipeline/virtual_processor/processor.rs:633`) never writes it, and
  panics on a later header. `DiskConsistent` claims the entry for a node that was never
  stopped.
- An error of `SubmitBlock` is read as success by the client
  (`src/rpc/grpc/src/convert/message.rs:146`), and notifications other than `BlockAdded`
  are not recognised by it (`src/rpc/grpc/src/ext/kaspad.rs:50`): exceptions in
  `WireFaithful`.
- A response carries no id. After a timeout, or between concurrent calls of one
  operation, it may be given to another call of the same kind: `AnswersFit` says when.
- When the heaviest tip is disqualified, virtual stays where it is until a heavier tip
  arrives (`c/pipeline/virtual_processor/processor.rs:351`, marked TODO);
  `VirtualSettled` says so.
- `Address::try_from` panics on texts with a character beyond "z", with fewer than eight
  characters, or with nothing but a right checksum (`src/crypto/addresses/src/bech32.rs:116`,
  `:125`, `:136`); `AddressDetects` says when.
- An invalid signature panics the node, which the code marks as temporary
  (`c/processes/transaction_validator/transaction_validator_populated.rs:107`);
  `ParallelSound` treats it as an outcome.

## Not modelled

- Keccak, blake2b and Schnorr signatures are out of a model checker's reach; they are
  ideal where they are used.
- The simulator is a benchmark of one thread, the node binary wires the parts, the
  wallet and browser crates are empty.
- Header version and future time compare one field with a constant or the clock.
- Pruned data is never deleted by this code, so nothing is pruned in `HeaderRules`;
  reorganisations of finality depth, which the code does not handle yet, do not occur.
- A service is started and stopped once; the code marks repeated cycles as TODO.
- The request messages other than `SubmitBlock` copy a field or two.
- In `VirtualUtxo` the parents of virtual are any tips with the selected one; `HeaderRules`
  picks them.

## Next

`MutationDispatched`, `SendFailureRemoves`, `MulOverflowFlagged` and `IdCutsPayload` become
invariants of passing runs once the code and its comments agree. `AnswersFit` of `Grpc` is
the next candidate for a proof: it needs an invariant about the order of requests and
responses.
