---------------------------- MODULE VirtualUtxo ----------------------------
(***************************************************************************)
(* The UTXO side of the virtual processor: resolve_virtual walks from the  *)
(* previous selected tip down to the fork and up to the new one, on diffs  *)
(* alone, verifies the chain blocks it meets for the first time, and       *)
(* writes the UTXO set and the virtual state in one batch.  Bodies arrive  *)
(* meanwhile, and the process may stop between any two writes and restart. *)
(*                                                                         *)
(* The blocks that arrive, their parents, their order by blue work and     *)
(* what they contain is any of the given Scenarios; bodies arrive in any   *)
(* order that has parents first.  A block carries at most one transaction  *)
(* besides its coinbase.  The DAA window never fills, so the DAA score of  *)
(* a block counts its past without genesis.                                *)
(***************************************************************************)
EXTENDS UtxoDiff, Integers, SequencesExt

CONSTANTS Scenarios,         \* pairs of a DAG and its blocks by blue work
          MaxCrashes,        \* restarts
          Txs,               \* transactions
          TxInputs(_),       \* the outpoints a transaction spends ...
          TxOutputs(_),      \* ... and creates
          CoinbaseOutpoints, \* the outpoints that coinbases create
          CoinbaseMaturity

VARIABLES
    block,    \* block[b]: parents, transactions and honesty of a block
    order,    \* the blocks by increasing blue work
    truth,    \* truth[b]: the true UTXO set over the parents of b
    status,   \* statuses_store, of the blocks whose body arrived
    diffs,    \* utxo_diffs_store
    sets,     \* utxo_multisets_store
    utxoSet,  \* virtual_stores.utxo_set
    virtual,  \* virtual_stores.state
    task,     \* the call of resolve_virtual under way, or Idle
    queued,   \* some body was handed to the virtual processor since
    crashes,
    panicked  \* an unwrap, expect or panic of the virtual processor was met

dag     == <<block, order, truth>>
stores  == <<status, diffs, sets, utxoSet, virtual>>
vars    == <<dag, stores, task, queued, crashes, panicked>>

Genesis == 0
Idle    == None

----------------------------------------------------------------------------
(* The DAG *)

Known == DOMAIN status

Past(b) ==
    LET p[x \in DOMAIN block] == block[x].parents \cup UNION {p[q] : q \in block[x].parents}
    IN  p[b]

PastOf(ps) == ps \cup UNION {Past(p) : p \in ps}

Work(b) == CHOOSE i \in DOMAIN order : order[i] = b

\* find_selected_parent
Heaviest(S) == CHOOSE b \in S : \A c \in S : Work(c) <= Work(b)

SelectedParent(b) == Heaviest(block[b].parents)

Tips == {b \in Known : \A c \in Known : b \notin block[c].parents}

\* b and the selected chain under it.
Chain(b) ==
    LET c[x \in DOMAIN block] == {x} \cup (IF x = Genesis THEN {} ELSE c[SelectedParent(x)])
    IN  c[b]

\* The blocks of S by blue work.
Upwards(S)   == SelectSeq(order, LAMBDA b : b \in S)
Downwards(S) == Reverse(Upwards(S))

\* The selected parent of a block with parents ps, then the rest of its
\* mergeset: consensus_ordered_mergeset_without_selected_parent.
MergeOrder(ps) ==
    LET sp == Heaviest(ps)
    IN  <<sp>> \o Upwards(PastOf(ps) \ (Past(sp) \cup {sp}))

DaaScore(ps) == Cardinality(PastOf(ps) \ {Genesis})

\* The outputs of the coinbase of b pay for its mergeset, of which genesis is
\* no part; the payload has the blue score of b.
Coinbase(b) ==
    {o \in CoinbaseOutpoints : b # Genesis /\ block[b].parents # {Genesis}
                               /\ o[2] = Cardinality(Past(b))}

----------------------------------------------------------------------------
(* What the UTXO set over parents ps should be, by replaying the selected  *)
(* chain from genesis on full sets.                                        *)

Mature(o, score, pov) == o \in CoinbaseOutpoints => score + CoinbaseMaturity <= pov

\* validate_transaction_in_utxo_context
ValidTx(t, view, pov) ==
    \A o \in TxInputs(t) : view[o] # None /\ Mature(o, view[o], pov)

Spend(set, t, score) ==
    [o \in Outpoints |-> IF o \in TxOutputs(t) THEN score
                         ELSE IF o \in TxInputs(t) THEN None ELSE set[o]]

Replayed(base, ps) ==
    LET pov    == DaaScore(ps)
        seq    == MergeOrder(ps)
        first  == [o \in Outpoints |-> IF o \in Coinbase(seq[1]) THEN pov ELSE base[o]]
        Accept(set, b) ==
            LET ok == {t \in block[b].txs : ValidTx(t, set, pov)}
            IN  IF ok = {} THEN set ELSE Spend(set, CHOOSE t \in ok : TRUE, pov)
    IN  FoldLeft(Accept, first, seq)

\* The sets that the transactions of each block are checked against.
Views ==
    LET v[x \in DOMAIN block] ==
            IF x = Genesis THEN NoEntries ELSE Replayed(v[SelectedParent(x)], block[x].parents)
    IN  v

ViewOver(ps) == Replayed(truth[Heaviest(ps)], ps)

----------------------------------------------------------------------------
(* The multiset hash: elements are added and removed in any order.         *)

EmptySet == [e \in Outpoints \X Scores |-> 0]

SetOf(view) == [e \in Outpoints \X Scores |-> IF view[e[1]] = e[2] THEN 1 ELSE 0]

MuHashAdd(set, inputs, outputs, score) ==
    [e \in Outpoints \X Scores |->
        set[e] - (IF inputs[e[1]] = e[2] THEN 1 ELSE 0)
               + (IF e[1] \in outputs /\ e[2] = score THEN 1 ELSE 0)]

----------------------------------------------------------------------------
(* utxo_validation.rs *)

\* ctx.mergeset_diff and ctx.multiset_hash after add_transaction of both.
AddTx(ctx, inputs, outputs, pov) ==
    [diff  |-> AddTransaction(ctx.diff, inputs, outputs, pov),
     set   |-> MuHashAdd(ctx.set, inputs, outputs, pov),
     fails |-> ctx.fails \/ AddTransactionFails(ctx.diff, inputs, outputs, pov)]

\* calculate_utxo_state over the view of the selected parent.
CalculateUtxoState(spView, spSet, ps) ==
    LET pov  == DaaScore(ps)
        seq  == MergeOrder(ps)
        ctx0 == AddTx([diff |-> EmptyDiff, set |-> spSet, fails |-> FALSE],
                      NoEntries, Coinbase(seq[1]), pov)
        Merge(ctx, b) ==
            LET composed == Compose(spView, ctx.diff)
                valid    == {t \in block[b].txs : ValidTx(t, composed, pov)}
                Add(c, t) == AddTx(c, [o \in Outpoints |-> IF o \in TxInputs(t) THEN composed[o] ELSE None],
                                   TxOutputs(t), pov)
            IN  FoldLeft(Add, ctx, SetToSeq(valid))
    IN  FoldLeft(Merge, ctx0, seq)

\* Mutant: the transactions of the block itself are not checked.
BugVerify(ctx, spView, b) == block[b].honest /\ ctx.set = SetOf(truth[b])

\* verify_expected_utxo_state.  The header of an honest block commits to the
\* UTXO set over its parents, and its coinbase and merkle root are right.
VerifyExpectedUtxoState(ctx, spView, b) ==
    /\ block[b].honest
    /\ ctx.set = SetOf(truth[b])
    /\ \A t \in block[b].txs :
          ValidTx(t, Compose(spView, ctx.diff), DaaScore(block[b].parents))

----------------------------------------------------------------------------
(* Actions *)

\* After process_genesis_if_needed of the three processors.
Init ==
    /\ \E s \in Scenarios : block = s.block /\ order = s.order
    /\ truth = Views
    /\ status = [b \in {Genesis} |-> "UTXOValid"]
    /\ diffs = [b \in {Genesis} |-> EmptyDiff]
    /\ sets = [b \in {Genesis} |-> EmptySet]
    /\ utxoSet = NoEntries
    /\ virtual = [parents |-> {Genesis}, diff |-> EmptyDiff, set |-> EmptySet]
    /\ task = Idle
    /\ queued = FALSE
    /\ crashes = 0
    /\ panicked = FALSE

\* commit_body: the body of a block with known parents is stored, and the
\* block is passed on.
AddBody(b) ==
    /\ b \notin Known
    /\ block[b].parents \subseteq Known
    /\ status' = [x \in Known \cup {b} |-> IF x = b THEN "UTXOPendingVerification" ELSE status[x]]
    /\ queued' = TRUE
    /\ UNCHANGED <<dag, diffs, sets, utxoSet, virtual, task, crashes, panicked>>

\* The accumulated diff after one more, or a failed unwrap.
Accumulated(acc, d) ==
    IF acc.fails \/ WithDiffFails(acc.diff, d) THEN [acc EXCEPT !.fails = TRUE]
    ELSE [acc EXCEPT !.diff = WithDiffInPlace(acc.diff, d)]

\* Mutant: the old virtual diff is applied once more instead of undone.
BugUndoVirtual == virtual.diff

UndoVirtual == Reversed(virtual.diff)

\* resolve_virtual up to the fork: the tips are read once, and the diffs of
\* the old chain are applied in reverse.
WalkDown ==
    LET new  == Heaviest(Tips)
        prev == Heaviest(virtual.parents)
        down == Downwards(Chain(prev) \ Chain(new))
        acc0 == [diff |-> UndoVirtual, fails |-> \E i \in DOMAIN down : down[i] \notin DOMAIN diffs]
        acc  == FoldLeft(LAMBDA a, b : IF a.fails THEN a ELSE Accumulated(a, Reversed(diffs[b])), acc0, down)
    IN  /\ task = Idle /\ queued /\ ~panicked
        /\ queued' = FALSE
        /\ task' = [new |-> new, tips |-> Tips, acc |-> acc.diff, up |-> Upwards(Chain(new) \ Chain(prev))]
        /\ panicked' = acc.fails
        /\ UNCHANGED <<dag, stores, crashes>>

Stepping(b) == task # Idle /\ ~panicked /\ task.up # <<>> /\ b = Head(task.up)

Stepped(acc) == task' = [task EXCEPT !.acc = acc, !.up = Tail(@)]

\* A chain block that was verified before: its stored diff is applied.
WalkUpKnown(b) ==
    LET acc == Accumulated([diff |-> task.acc, fails |-> FALSE], diffs[b])
    IN  /\ Stepping(b) /\ b \in DOMAIN diffs
        /\ Stepped(acc.diff)
        /\ panicked' = acc.fails
        /\ UNCHANGED <<dag, stores, queued, crashes>>

\* A chain block over a disqualified one.
WalkUpDisqualified(b) ==
    /\ Stepping(b) /\ b \notin DOMAIN diffs
    /\ status[SelectedParent(b)] = "DisqualifiedFromChain"
    /\ status' = [status EXCEPT ![b] = "DisqualifiedFromChain"]
    /\ Stepped(task.acc)
    /\ UNCHANGED <<dag, diffs, sets, utxoSet, virtual, queued, crashes, panicked>>

Put(f, b, v) == [x \in DOMAIN f \cup {b} |-> IF x = b THEN v ELSE f[x]]

\* Mutant: the diff is kept for later.
BugCommitUtxoState(b, ctx) ==
    /\ status' = [status EXCEPT ![b] = "UTXOValid"]
    /\ sets' = Put(sets, b, ctx.set)
    /\ UNCHANGED diffs

CommitUtxoState(b, ctx) ==
    /\ status' = [status EXCEPT ![b] = "UTXOValid"]
    /\ diffs' = Put(diffs, b, ctx.diff)
    /\ sets' = Put(sets, b, ctx.set)

\* A chain block met for the first time is verified; if it is valid its UTXO
\* data and status are committed in one batch.
WalkUpNew(b) ==
    LET sp    == SelectedParent(b)
        view  == Compose(utxoSet, task.acc)
        ctx   == CalculateUtxoState(view, sets[sp], block[b].parents)
        acc   == Accumulated([diff |-> task.acc, fails |-> ctx.fails], ctx.diff)
    IN  /\ Stepping(b) /\ b \notin DOMAIN diffs
        /\ status[sp] # "DisqualifiedFromChain"
        /\ IF sp \notin DOMAIN sets
           THEN panicked' = TRUE /\ UNCHANGED <<stores, task>>
           ELSE IF VerifyExpectedUtxoState(ctx, view, b)
           THEN /\ CommitUtxoState(b, ctx)
                /\ Stepped(acc.diff)
                /\ panicked' = acc.fails
                /\ UNCHANGED <<utxoSet, virtual>>
           ELSE /\ status' = [status EXCEPT ![b] = "DisqualifiedFromChain"]
                /\ Stepped(task.acc)
                /\ panicked' = ctx.fails
                /\ UNCHANGED <<diffs, sets, utxoSet, virtual>>
        /\ UNCHANGED <<dag, queued, crashes>>

\* The end of resolve_virtual over a valid tip: the virtual block gets parents
\* among the tips, and the UTXO set and the virtual state are written together.
CommitVirtual(ps) ==
    LET view == Compose(utxoSet, task.acc)
        ctx  == CalculateUtxoState(view, sets[task.new], ps)
        acc  == Accumulated([diff |-> task.acc, fails |-> ctx.fails], ctx.diff)
    IN  /\ ~panicked /\ task.up = <<>>
        /\ status[task.new] = "UTXOValid"
        /\ task.new \in ps
        /\ utxoSet' = Compose(utxoSet, acc.diff)
        /\ virtual' = [parents |-> ps, diff |-> ctx.diff, set |-> ctx.set]
        /\ panicked' = acc.fails
        /\ task' = Idle
        /\ UNCHANGED <<dag, status, diffs, sets, queued, crashes>>

\* Over a disqualified tip nothing is written; any other status is a panic.
LeaveVirtual ==
    /\ task # Idle /\ ~panicked /\ task.up = <<>>
    /\ status[task.new] # "UTXOValid"
    /\ panicked' = (status[task.new] # "DisqualifiedFromChain")
    /\ task' = Idle
    /\ UNCHANGED <<dag, stores, queued, crashes>>

\* The process stops and restarts: queued tasks and the walk are lost.
Crash ==
    /\ crashes < MaxCrashes
    /\ crashes' = crashes + 1
    /\ task' = Idle
    /\ queued' = FALSE
    /\ UNCHANGED <<dag, stores, panicked>>

Next ==
    \/ \E b \in DOMAIN block : AddBody(b)
    \/ WalkDown
    \/ \E b \in Known : WalkUpKnown(b) \/ WalkUpDisqualified(b) \/ WalkUpNew(b)
    \/ task # Idle /\ \E ps \in SUBSET task.tips : CommitVirtual(ps)
    \/ LeaveVirtual
    \/ Crash

Spec == Init /\ [][Next]_vars

----------------------------------------------------------------------------
(* Properties *)

\* No unwrap or panic of the virtual processor is met: diffs compose, every
\* chain block walked down has its diff, and a walked chain has a verdict.
NeverPanics == ~panicked

\* After any reorganisation and any restart the UTXO set on disk is what
\* replaying the selected chain of the virtual block gives, and the commitments
\* the node would put in a block template, and those stored for chain blocks,
\* are of the true UTXO sets.
UtxoSetExact ==
    /\ utxoSet = ViewOver(virtual.parents)
    /\ virtual.set = SetOf(utxoSet)
    /\ \A b \in DOMAIN sets : sets[b] = SetOf(truth[b])

\* A block is valid on its own: honest, its transactions valid over its
\* parents, on a valid selected chain.
Qualifies(b) ==
    LET q[x \in DOMAIN block] ==
            \/ x = Genesis
            \/ /\ q[SelectedParent(x)]
               /\ block[x].honest
               /\ \A t \in block[x].txs : ValidTx(t, truth[x], DaaScore(block[x].parents))
    IN  q[b]

\* Verdicts do not depend on the order of arrival, on the chains tried before
\* or on restarts, and exactly the valid blocks have UTXO data.
VerdictsExact ==
    /\ \A b \in Known : /\ status[b] = "UTXOValid" => Qualifies(b)
                        /\ status[b] = "DisqualifiedFromChain" => ~Qualifies(b)
    /\ DOMAIN diffs = {b \in Known : status[b] = "UTXOValid"}
    /\ DOMAIN sets = DOMAIN diffs

=============================================================================
