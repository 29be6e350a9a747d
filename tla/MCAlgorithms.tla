--------------------------- MODULE MCAlgorithms -----------------------------
(***************************************************************************)
(* The algorithms under the consensus rules: the arithmetic of             *)
(* MCArithmetic, what the hashes of a transaction commit to, the rules of  *)
(* a body, the coinbase, what RPC messages carry, and the diffs that       *)
(* accumulate over a UTXO set.  A state is a case (an input of one of      *)
(* them), a MuHash that elements are added to and removed from, or the     *)
(* accumulation of UtxoAlgebra.                                            *)
(***************************************************************************)
EXTENDS MCArithmetic, Coinbase, UtxoAlgebra, RpcConvert

Machine == [k |-> "utxo"]
Id(n) == H("TransactionID", update(n))
Tx(ins, outs, payload, subnetwork, lock) ==
  [version |-> TX_VERSION, inputs |-> ins, outputs |-> outs, lock_time |-> lock, subnetwork_id |-> subnetwork,
   gas |-> 0, payload |-> payload]
Spk(script) == [version |-> 0, script |-> script]
Out(v, script) == [value |-> v, script_public_key |-> Spk(script)]
Lists(S, Q) == {<<>>} \union {<<x>> : x \in S} \union {<<x, y>> : x, y \in Q}
-----------------------------------------------------------------------------
Inputs ==
  [previous_outpoint : [transaction_id : {Id(1)}, index : {0, 1}], signature_script : {<<>>, <<0>>, <<0, 1>>},
   sig_op_count : {0, 1}, sequence : {0, 1}]
Outs == {Out(v, s) : v \in {0, 1}, s \in {<<>>, <<0>>, <<1, 0>>}}
HashTxs ==
  {Tx(i, o, p, s, 0) : i \in Lists(Inputs, {x \in Inputs : x.sequence = 0 /\ x.sig_op_count = 0}), o \in Lists(Outs, Outs),
                       p \in {<<>>, <<0>>}, s \in {NATIVE, COINBASE}}
Unsigned(tx) == [tx EXCEPT !.inputs = [k \in DOMAIN @ |-> [@[k] EXCEPT !.signature_script = <<>>, !.sig_op_count = 0]]]
Utxos == [amount : {0, 1}, block_daa_score : {0, 1}, is_coinbase : BOOLEAN, script_public_key : {Spk(s) : s \in {<<>>, <<0>>, <<1, 0>>}}]
Headers ==
  [version : {0}, parents_by_level : Lists(Lists({ZERO_HASH}, {ZERO_HASH, Id(1)}), Lists({Id(1)}, {ZERO_HASH, Id(1)})),
   hash_merkle_root : {ZERO_HASH}, accepted_id_merkle_root : {ZERO_HASH}, utxo_commitment : {ZERO_HASH}, timestamp : {0, 1},
   bits : {0}, nonce : {0, 1}, daa_score : {0}, blue_score : {0}, blue_work : [1..3 -> {0, 1}], pruning_point : {ZERO_HASH}]
Injective(S, f(_)) == Cardinality({f(x) : x \in S}) = Cardinality(S)
SameOn(S, f(_), g(_)) ==   \* f identifies exactly what g identifies
  LET n == Cardinality({<<f(x), g(x)>> : x \in S})
  IN n = Cardinality({f(x) : x \in S}) /\ n = Cardinality({g(x) : x \in S})
\* The root of the padded complete tree over hashes, level by level.
Root(hashes) ==
  LET node[d \in 0..3, i \in 1..8] ==
        IF d = 0 THEN (IF i <= Len(hashes) THEN hashes[i] ELSE ZERO_HASH)
        ELSE IF node[d - 1, 2 * i - 1] = ZERO_HASH THEN ZERO_HASH
        ELSE merkle_hash(node[d - 1, 2 * i - 1], node[d - 1, 2 * i])
  IN node[CHOOSE d \in 0..3 : 2^d >= Len(hashes) /\ 2^d < 2 * Len(hashes), 1]
Leaves == UNION {[1..n -> {Id(1), Id(2)}] : n \in 1..6}

(* Equal transaction hashes mean equal transactions; equal ids mean equal   *)
(* but for the signature scripts and signature operation counts, and for a  *)
(* coinbase equal altogether; equal header hashes mean equal headers, and   *)
(* the proof-of-work hash leaves out the nonce and the time only; an        *)
(* element of the UTXO multiset determines outpoint and entry; the merkle   *)
(* root determines the list of leaves and is the root of the padded tree.   *)
(* That the id covers the payload is what write_transaction does, not what  *)
(* the comment in id says: see IdCutsPayload.                               *)
HashesCommit ==
  case.k = "hashing" =>
    /\ Injective(HashTxs, hash)
    /\ SameOn(HashTxs, id, LAMBDA tx : IF is_coinbase(tx) THEN tx ELSE Unsigned(tx))
    /\ Injective(Utxos \X {0, 1}, LAMBDA p : write_utxo(p[1], [transaction_id |-> Id(1), index |-> p[2]]))
    /\ Injective(Headers, header_hash)
    /\ SameOn(Headers, LAMBDA h : hash_override_nonce_time(h, 0, 0), LAMBDA h : [h EXCEPT !.nonce = 0, !.timestamp = 0])
    /\ Injective(Leaves, calc_merkle_root)
    /\ \A s \in Leaves : calc_merkle_root(s) = Root(s)
    /\ calc_merkle_root(<<>>) = ZERO_HASH

(* What the comment in id says, "cut off payload and hash the result": the  *)
(* id of a transaction that is no coinbase does not depend on its payload.  *)
IdCutsPayload ==
  case.k = "hashing" => \A tx \in HashTxs : is_coinbase(tx) \/ id(tx) = id([tx EXCEPT !.payload = <<>>])
-----------------------------------------------------------------------------
SigInput(n, q) == [previous_outpoint |-> [transaction_id |-> Id(n), index |-> 0], signature_script |-> <<>>,
                   sig_op_count |-> q, sequence |-> q]
SigTxs == {Tx(<<SigInput(1, a), SigInput(n, b)>>, o, <<0>>, s, 0) :
             a, b \in {0, 1}, n \in {1, 2}, o \in Lists({Out(1, <<0>>)}, {Out(1, <<0>>), Out(1, <<1, 0>>)}), s \in {NATIVE, 2}}
Entry(v, script) == [amount |-> v, script_public_key |-> Spk(script), block_daa_score |-> 0, is_coinbase |-> FALSE]
SigEntries == {<<Entry(a, <<>>), Entry(1, <<0>>)>> : a \in {0, 1}}
Calls == {1, 2} \X ALLOWED_SIG_HASH_TYPES_VALUES
SigHashCases ==
  [k : {"sighash"}, calls : [1..3 -> Calls],
   tx : {t \in SigTxs : /\ t.subnetwork_id = NATIVE /\ t.inputs[1].sequence = 0
                        /\ t.outputs \in {<<Out(1, <<0>>)>>, <<Out(1, <<0>>), Out(1, <<1, 0>>)>>}}]
SigHash(tx, entries, call, reused) == calc_schnorr_signature_hash(tx, entries, call[1], call[2], reused)

\* What a signature of the given type over input i is meant to cover.
Covered(tx, entries, i, t) ==
  LET all(f(_)) == [k \in DOMAIN tx.inputs |-> f(tx.inputs[k])]
      alone == is_sighash_anyone_can_pay(t)
  IN <<t, i, tx.inputs[i], entries[i], tx.lock_time, tx.subnetwork_id,
       IF tx.subnetwork_id = NATIVE THEN <<>> ELSE tx.payload,
       IF alone THEN <<>> ELSE all(LAMBDA x : x.previous_outpoint),
       IF alone \/ is_sighash_single(t) \/ is_sighash_none(t) THEN <<>> ELSE all(LAMBDA x : x.sequence),
       IF alone THEN <<>> ELSE all(LAMBDA x : x.sig_op_count),
       IF is_sighash_none(t) THEN <<>>
       ELSE IF is_sighash_single(t) THEN (IF i <= Len(tx.outputs) THEN <<tx.outputs[i]>> ELSE <<>>) ELSE tx.outputs>>

(* Reusing partial hashes between the inputs of a transaction, in whatever  *)
(* order and with whatever types they are signed, gives the hash a fresh    *)
(* computation gives; and a signature hash of a type covers exactly the     *)
(* fields of that type, so that two signature hashes of one type are equal  *)
(* when and only when those fields are.                                     *)
SigHashExact ==
  /\ case.k = "sighash" =>
       LET e == CHOOSE x \in SigEntries : TRUE
           r1 == SigHash(case.tx, e, case.calls[1], NoReusedValues)
           r2 == SigHash(case.tx, e, case.calls[2], r1.reused)
       IN /\ r2.hash = SigHash(case.tx, e, case.calls[2], NoReusedValues).hash
          /\ SigHash(case.tx, e, case.calls[3], r2.reused).hash = SigHash(case.tx, e, case.calls[3], NoReusedValues).hash
  /\ case.k = "covered" =>
       \A t \in ALLOWED_SIG_HASH_TYPES_VALUES :
         SameOn(SigTxs \X SigEntries,
                LAMBDA p : SigHash(p[1], p[2], <<1, t>>, NoReusedValues).hash,
                LAMBDA p : Covered(p[1], p[2], 1, t))

(* A hash covers exactly the fields it is meant to.                         *)
HashesExact == HashesCommit /\ SigHashExact
-----------------------------------------------------------------------------
\* A confirmed output and a coinbase output of score 2, with their keys.
Confirmed == [transaction_id |-> Id(1), index |-> 0]
Mined == [transaction_id |-> Id(2), index |-> 0]
Ledger == (Confirmed :> [amount |-> 3, script_public_key |-> Spk(<<1>>), block_daa_score |-> 0, is_coinbase |-> FALSE])
          @@ (Mined :> [amount |-> 4, script_public_key |-> Spk(<<2>>), block_daa_score |-> 2, is_coinbase |-> TRUE])

\* A transaction of the given inputs <<outpoint, entry, signing key, sequence>>,
\* each signed by its key.
Signed(ins, outs) ==
  LET entries == [k \in DOMAIN ins |-> ins[k][2]]
      sign(draft) ==
        [draft EXCEPT !.inputs = [k \in DOMAIN @ |-> [@[k] EXCEPT !.signature_script =
           <<Signature(ins[k][3], calc_schnorr_signature_hash(draft, entries, k, SIG_HASH_ALL, NoReusedValues).hash)>>]]]
  IN sign(Tx([k \in DOMAIN ins |-> [previous_outpoint |-> ins[k][1], signature_script |-> <<>>, sig_op_count |-> 1,
                                     sequence |-> ins[k][4]]], outs, <<>>, NATIVE, 0))
Spend(o, key, sequence) == <<o, Ledger[o], key, sequence>>
Final == U64 - 1

Pay == Signed(<<Spend(Confirmed, 1, Final)>>, <<Out(2, <<3>>)>>)
PayEntry == [amount |-> 2, script_public_key |-> Spk(<<3>>), block_daa_score |-> 3, is_coinbase |-> FALSE]
Pool ==
  {Pay,
   Signed(<<Spend(Confirmed, 1, Final)>>, <<Out(3, <<4>>)>>),                            \* the same output again
   Signed(<<<<Outpoint(Pay, 0), PayEntry, 3, Final>>>>, <<Out(1, <<3>>)>>),              \* chained on Pay
   Signed(<<Spend(Mined, 2, Final)>>, <<Out(1, <<3>>), Out(3, <<4>>)>>),
   Signed(<<Spend(Confirmed, 1, Final), Spend(Mined, 2, Final)>>, <<Out(7, <<3>>)>>),
   Signed(<<Spend(Confirmed, 1, Final)>>, <<Out(4, <<3>>)>>),                            \* spends too much
   Signed(<<Spend(Mined, 2, 3)>>, <<Out(4, <<3>>)>>),                                    \* locked for three scores
   Signed(<<Spend(Mined, 2, Final)>>, <<Out(8, <<3>>), Out(8, <<3>>)>>),                 \* total out of range
   Signed(<<Spend(Mined, 1, Final)>>, <<Out(4, <<4>>)>>)}                                \* another key's signature
CoinbaseTx == Tx(<<>>, <<Out(1, <<1>>)>>, <<0>>, COINBASE, 0)
Bodies == {<<CoinbaseTx>> \o s : s \in UNION {[1..n -> Pool] : n \in 1..3}}
BlockCases == [k : {"block"}, txs : Bodies, pov : {3, 5}]

\* Spending the inputs of tx and creating its outputs at score pov.
Applied(utxos, tx, pov) ==
  LET spent == {tx.inputs[k].previous_outpoint : k \in DOMAIN tx.inputs}
      made == {Outpoint(tx, n - 1) : n \in DOMAIN tx.outputs}
      entry(o) == LET out == tx.outputs[o.index + 1]
                  IN [amount |-> out.value, script_public_key |-> out.script_public_key,
                      block_daa_score |-> pov, is_coinbase |-> is_coinbase(tx)]
  IN [o \in (DOMAIN utxos \ spent) \union made |-> IF o \in made THEN entry(o) ELSE utxos[o]]
Judged(s, k, tx, pov, v) ==
  IF v.err # "Ok" THEN [s EXCEPT !.cache = v.cache, !.panics = @ \/ v.err = "Panic"]
  ELSE [s EXCEPT !.view = Applied(@, tx, pov), !.cache = v.cache, !.accepted = @ \union {k}, !.fees = @ + v.fee]
InOrder(txs, order, pov) ==
  FoldLeft(LAMBDA s, k : Judged(s, k, txs[k], pov, validate_transaction_in_utxo_context(txs[k], s.view, pov, s.cache)),
           [view |-> Ledger, cache |-> {}, accepted |-> {}, fees |-> 0, panics |-> FALSE], order)
Amount(utxos) == LET total[S \in SUBSET DOMAIN utxos] ==
                      IF S = {} THEN 0 ELSE LET o == CHOOSE o \in S : TRUE IN utxos[o].amount + total[S \ {o}]
                IN total[DOMAIN utxos]

(* "We can do this in parallel without complications since block body       *)
(* validation already ensured that all txs within each block are            *)
(* independent": for a body that passed its validation, validating every    *)
(* transaction against the same view accepts what validating and applying   *)
(* them one by one accepts, in any order and whatever signatures are        *)
(* already cached; and what leaves the view is what is paid as fees.  A     *)
(* mempool transaction populated from the view gets the same verdict, and   *)
(* again when it comes with those entries.                                  *)
ParallelSound ==
  case.k = "block" =>
    LET txs == case.txs  rest == 2..Len(txs)
        parallel(cache) == validate_transactions_in_parallel(txs, Ledger, case.pov, cache)
        agrees(s, par) == /\ s.accepted = par.accepted /\ s.panics = par.panics
                          /\ Amount(s.view) + s.fees = Amount(Ledger)
                          /\ parallel(s.cache) = par
        mempool(tx, known) == validate_mempool_transaction_in_utxo_context(tx, known, Ledger, case.pov, {})
        again(tx, first) == {first.result, mempool(tx, first.entries).result}
    IN validate_body_in_isolation([txs |-> txs, hash_merkle_root |-> calc_hash_merkle_root(txs)]) = "Ok" =>
         /\ \A order \in {f \in [1..Len(txs) - 1 -> rest] : IsInjective(f)} :
              agrees(InOrder(txs, order, case.pov), parallel({}))
         /\ \A k \in rest :
              again(txs[k], mempool(txs[k], [i \in DOMAIN txs[k].inputs |-> <<>>]))
                = {validate_transaction_in_utxo_context(txs[k], Ledger, case.pov, {})}

(* Time only unlocks: a transaction that is final, or whose sequence locks  *)
(* and coinbase maturity are met, stays so at every later DAA score and     *)
(* median time.  And a sequence lock is met at exactly as many scores above *)
(* the spent output as it says.                                             *)
LocksMonotone ==
  case.k = "locks" =>
    LET tx == Tx(<<[SigInput(1, 0) EXCEPT !.sequence = case.sequence]>>, <<>>, <<>>, NATIVE, case.lock)
        entries == <<[amount |-> 1, script_public_key |-> Spk(<<>>), block_daa_score |-> 2, is_coinbase |-> TRUE]>>
        ok(score, time) == First(<<check_tx_is_finalized(tx, score, time), check_sequence_lock(tx, entries, score),
                                   check_transaction_coinbase_maturity(entries, score)>>) = "Ok"
        confirmations == IF case.sequence >= U64 \div 2 THEN 0 ELSE case.sequence % LOCK_MASK
    IN /\ \A score \in 0..8, time \in 4..8 : ok(score, time) => ok(score + 1, time) /\ ok(score, time + 1)
       /\ \A score \in 2..8 : check_sequence_lock(tx, entries, score) = "Ok" <=> score - 2 >= confirmations
LockCases == [k : {"locks"}, lock : 0..8, sequence : 0..Final]
-----------------------------------------------------------------------------
MCTable == <<6, 3, 0>>
Miners == {[script_public_key |-> [version |-> v, script |-> s], extra_data |-> x] :
             v \in {0, 1}, s \in {<<>>, <<3, 2>>}, x \in {<<>>, <<0, 3, 1>>}}
CoinbaseCases ==
  [k : {"coinbase"}, miner : Miners, daa_score : {0, 3, 4, 6, 9}, blue_score : {0, 13},
   blues : {<<1>>, <<1, 2>>}, reds : {<<>>, <<3>>, <<3, 4>>}, paid : SUBSET {1, 2, 3, 4}, non_daa : {{}, {2}, {3}}]

(* The coinbase a miner builds for any mergeset is accepted by every check  *)
(* on the way: in isolation (with a blue output for each of the k + 1       *)
(* blues, and the reds' output), in a body, in context, and against the     *)
(* expected coinbase rebuilt from its own payload.  The payload is read     *)
(* back as written, and changing the miner data of a payload gives what     *)
(* writing the new data gives.  Only miner data that does not fit the       *)
(* payload's limit is written and then refused in context, since            *)
(* serialize_coinbase_payload checks the length of the script alone.        *)
CoinbaseAccepted ==
  case.k = "coinbase" =>
    LET gd == [mergeset_blues |-> case.blues, mergeset_reds |-> case.reds, blue_score |-> case.blue_score]
        rewards == [b \in 1..4 |-> [subsidy |-> IF b \in case.paid THEN 1 ELSE 0, total_fees |-> IF b = 3 /\ b \in case.paid THEN 2 ELSE 0,
                                    script_public_key |-> Spk(<<b, 0>>)]]
        c == expected_coinbase_transaction(case.daa_score, case.miner, gd, rewards, case.non_daa)
        data == [blue_score |-> case.blue_score, subsidy |-> calc_block_subsidy(case.daa_score), miner |-> case.miner]
        header == [blue_score |-> case.blue_score, daa_score |-> case.daa_score]
        fits == Len(case.miner.script_public_key.script) + Len(case.miner.extra_data) <= max_coinbase_payload_len - MIN_PAYLOAD_LENGTH
        paid == {b \in case.paid \ case.non_daa : \E i \in DOMAIN (case.blues \o case.reds) : (case.blues \o case.reds)[i] = b}
    IN /\ c.err = "Ok"
       /\ validate_tx_in_isolation(c.tx) = "Ok"
       /\ check_tx_is_finalized(c.tx, 0, 0) = "Ok"
       /\ validate_body_in_isolation([txs |-> <<c.tx>>, hash_merkle_root |-> hash(c.tx)]) = "Ok"
       /\ check_coinbase_blue_score_and_subsidy(c.tx, header) = IF fits THEN "Ok" ELSE "BadCoinbasePayload"
       /\ fits => verify_coinbase_transaction(c.tx, case.daa_score, gd, rewards, case.non_daa) = "Ok"
       /\ total_out(c.tx) = Cardinality(paid) + (IF 3 \in paid THEN 2 ELSE 0)
       /\ fits => deserialize_coinbase_payload(c.tx.payload) = [err |-> "Ok", data |-> data]
       /\ \A m2 \in Miners : modify_coinbase_payload(c.tx.payload, m2) = serialize_coinbase_payload([data EXCEPT !.miner = m2])
       /\ calc_block_subsidy(case.daa_score + 1) <= calc_block_subsidy(case.daa_score)
-----------------------------------------------------------------------------
RpcHeaders ==
  [version : {0, 2}, parents_by_level : {<<>>, <<<<0, 3>>>>, <<<<3>>, <<>>>>}, hash_merkle_root : {1}, accepted_id_merkle_root : {2},
   utxo_commitment : {3}, timestamp : {0, 1, 2}, bits : {1}, nonce : {2}, daa_score : {3}, blue_work : [0..1 -> 0..3],
   blue_score : {4}, pruning_point : {0}]
RpcInput == [previous_outpoint |-> [transaction_id |-> 2, index |-> 1], signature_script |-> <<3, 0>>, sig_op_count |-> 1, sequence |-> 2]
RpcTxs == {Tx(i, o, p, s, 1) : i \in {<<>>, <<RpcInput>>}, o \in {<<>>, <<Out(2, <<1>>), Out(0, <<>>)>>}, p \in {<<>>, <<0>>, <<1, 3>>}, s \in {0, 1, 3}}
RpcCases ==
  [k : {"rpc"}, block : {[header |-> HeaderNew(h), transactions |-> <<TransactionNew(t)>>] :
                           h \in RpcHeaders, t \in {x \in RpcTxs : x.payload = <<1, 3>>}}
                        \union {[header |-> HeaderNew(h), transactions |-> <<TransactionNew(t), TransactionNew(u)>>] :
                           h \in {x \in RpcHeaders : x.timestamp = 1 /\ x.blue_work = BW!MAX}, t \in RpcTxs,
                           u \in {x \in RpcTxs : x.payload = <<0>>}}]

\* Messages as a peer may write them, near one that is well formed: 2 is the
\* upper-case form of 1 and 3 no digit.
ShortTexts == UNION {[1..n -> 0..3] : n \in 0..2}
LongTexts == [1..3 -> {1, 2}] \union [1..4 -> {0, 2}] \union {<<1, 0, 3, 0>>, <<0, 1, 1, 2>>}
Texts == ShortTexts \union LongTexts
HashTexts == {<<>>, <<1>>, <<0, 1>>, <<1, 2>>, <<1, 3>>, <<1, 0, 1>>, <<1, 0, 1, 1>>, <<0, 2, 3, 0>>}
WireHeader == HeaderToProto(CHOOSE h \in RpcHeaders : h.timestamp = 1 /\ h.parents_by_level # <<>>)[1]
WireTx == TxToProto(RpcTransactionFrom(Tx(<<RpcInput>>, <<Out(2, <<1>>)>>, <<1, 3>>, 0, 1)))
WireHeaders ==
  {[WireHeader EXCEPT !.version = v, !.timestamp = t, !.blue_work = w] : v \in 0..4, t \in -1..1, w \in Texts \union [1..5 -> {0, 1}]}
  \union {[WireHeader EXCEPT !.parents_by_level = <<<<a>>, <<b, <<0, 1>>>>>>] : a \in Texts, b \in HashTexts}
WireTxs ==
  {[WireTx EXCEPT !.version = v, !.payload = x, !.subnetwork_id = y] : v \in {0, 5}, x \in Texts, y \in HashTexts}
  \union {[WireTx EXCEPT !.inputs[1].previous_outpoint = o, !.inputs[1].sig_op_count = n, !.inputs[1].signature_script = t] :
            o \in {<<>>} \union {<<[transaction_id |-> x, index |-> 0]>> : x \in HashTexts}, n \in 0..3, t \in Texts}
  \union {[WireTx EXCEPT !.outputs[1].script_public_key = s, !.outputs[1].verbose_data = v] :
            s \in {<<>>} \union {<<[version |-> n, script |-> t]>> : n \in {0, 3}, t \in Texts},
            v \in {<<>>} \union {<<[script_public_key_type |-> c, script_public_key_address |-> "a"]>> : c \in {"pubkey", "other"}}}
WireCases ==
  [k : {"wire"}, block : {[header |-> h, transactions |-> <<WireTx>>, verbose_data |-> <<>>] :
                            h \in {<<>>} \union {<<x>> : x \in WireHeaders}}
                         \union {[header |-> <<WireHeader>>, transactions |-> <<t, WireTx>>, verbose_data |-> <<>>] : t \in WireTxs}
                         \union {[header |-> <<WireHeader>>, transactions |-> <<>>,
                                  verbose_data |-> <<[hash |-> x, transaction_ids |-> <<<<0, 1>>, y>>, blue_score |-> 1]>>] : x \in Texts, y \in HashTexts}]
\* Without the leading zeroes of the blue work.
Shortest(text) ==
  LET nonzero == {k \in DOMAIN text : text[k] # 0}
  IN IF nonzero = {} THEN <<0>> ELSE SubSeq(text, CHOOSE k \in nonzero : \A j \in nonzero : k <= j, Len(text))

\* A message as it is written: digits in lower case, a hash as two of them.
Lower(text) == Map(text, LAMBDA c : IF c < DIGIT THEN c ELSE c - LETTERS)
Cut(text) == SubSeq(Lower(text), 1, 2)
CanonicalTx(tx) ==
  LET outpoint(o) == [o EXCEPT !.transaction_id = Cut(@)]
      input(i) == [i EXCEPT !.signature_script = Lower(@), !.previous_outpoint = Map(@, outpoint)]
      spk(s) == [s EXCEPT !.script = Lower(@)]
      output(o) == [o EXCEPT !.script_public_key = Map(@, spk)]
  IN [tx EXCEPT !.payload = Lower(@), !.subnetwork_id = Cut(@), !.inputs = Map(@, input), !.outputs = Map(@, output)]
Canonical(block) ==
  LET level(hashes) == Map(hashes, Cut)
      header(h) == [h EXCEPT !.blue_work = Shortest(Lower(@)), !.parents_by_level = Map(@, level)]
      verbose(v) == [v EXCEPT !.hash = Cut(@), !.transaction_ids = Map(@, Cut)]
  IN [header |-> Map(block.header, header), transactions |-> Map(block.transactions, CanonicalTx),
      verbose_data |-> Map(block.verbose_data, verbose)]

\* The results an operation may give for the block r.
Results(r) ==
  ({"SubmitBlock"} \X {Ok("Success"), Ok("BlockInvalid"), Ok("IsInIBD"), Err})
  \union ({"GetBlockTemplate"} \X ({Ok([block |-> r, is_synced |-> s]) : s \in BOOLEAN} \union {Err}))
  \union ({"GetInfo"} \X ({Ok([has_notify_command |-> s]) : s \in BOOLEAN} \union {Err}))
  \union ({"GetBlock"} \X {Ok([block |-> r]), Err}) \union ({"NotifyBlockAdded"} \X {Ok("done"), Err})
ReadAs(op, result) == IF op = "SubmitBlock" /\ result = Err THEN Ok("Success") ELSE result
Carried(block, r) ==
  /\ BlockFromProto(BlockToProto(r)[1]) = <<r>> /\ BlockFromRpc(r) = block
  /\ \A q \in [block : {r}, allow_non_daa_blocks : BOOLEAN] :
       SubmitBlockRequestFromProto(SubmitBlockRequestToProto(q)) = <<q>>
  /\ \A c \in Results(r) : ResponseFromProto(c[1], ResponseToProto(c[1], c[2])) = ReadAs(c[1], c[2])
  /\ \A n \in {[type |-> "BlockAdded", block |-> block], [type |-> "NewBlockTemplate"]} :
       NotificationFromProto(NotificationToProto(NotificationFrom(n)))
         = IF n.type = "BlockAdded" THEN <<[n EXCEPT !.block = r]>> ELSE <<>>
  /\ \A c \in {"Start", "Stop"} : SubscribeCommandFrom(from_notification_type("BlockAdded", c).command) = c

(* A block that is submitted, returned or announced over RPC arrives as it  *)
(* was, hash and ids included; a message is either refused or read as what  *)
(* it says: written again it is the same message, with its digits in lower  *)
(* case, the blue work without leading zeroes, and of a hash or subnetwork  *)
(* id that is too long the part that fits, since hex_decode reads no more.  *)
(* Every result is read as it was given, but that an error of SubmitBlock   *)
(* is read as a success.  Of the notifications only added blocks are        *)
(* passed on by a client.                                                   *)
WireFaithful ==
  /\ case.k = "rpc" => IF case.block.header.timestamp >= I64 THEN BlockToProto(RpcBlockFrom(case.block)) = <<>>
                       ELSE Carried(case.block, RpcBlockFrom(case.block))
  /\ case.k = "wire" =>
       LET rewritten(r) == r # <<>> => BlockToProto(r[1]) = <<Canonical(case.block)>>
       IN rewritten(BlockFromProto(case.block))
-----------------------------------------------------------------------------
\* A seed per kind of case, so that the workers share the cases.
Seeds == {"muhash", "utxo", "hashing", "covered", "signed", "uint", "text", "u3072", "target", "window", "address", "pow",
          "sighash", "block", "locks", "coinbase", "rpc", "wire", "reachability"}
Cases(seed) ==
  CASE seed = "signed" -> SignedCases [] seed = "uint" -> UintCases [] seed = "text" -> TextCases
    [] seed = "u3072" -> U3072Cases [] seed = "target" -> TargetCases [] seed = "window" -> WindowCases
    [] seed = "address" -> AddressCases [] seed = "pow" -> PowCases [] seed = "sighash" -> SigHashCases
    [] seed = "block" -> BlockCases [] seed = "locks" -> LockCases [] seed = "coinbase" -> CoinbaseCases
    [] seed = "rpc" -> RpcCases [] seed = "wire" -> WireCases
    [] OTHER -> {[k |-> seed]}

\* Seven blocks, in an index so small that it is reindexed again and again.
VARIABLES store, past, tip
indexvars == <<store, past, tip>>

R == INSTANCE Reachability WITH NBlocks <- 7, MaxParents <- 2, Capacity <- 40, Depth <- 1, Slack <- 2
IndexMachine == [k |-> "reachability"]

(* Adding a block to the index never fails, however often it is reindexed:  *)
(* R!NeverFails.                                                            *)
NeverFails == case = IndexMachine => R!NeverFails

(* The index answers exactly what the DAG and its tree say: R!QueriesExact. *)
QueriesExact == case = IndexMachine => R!QueriesExact
-----------------------------------------------------------------------------
MCInit ==
  /\ MuInit /\ Init /\ R!Init
  /\ case \in [k : {"seed"}, of : IF base = [o \in Outpoints |-> None] THEN Seeds ELSE {"utxo"}]

Pick == case.k = "seed" /\ case' \in Cases(case.of) /\ UNCHANGED <<vars, muvars, indexvars>>

MCNext ==
  \/ Pick
  \/ case = Machine /\ Next /\ UNCHANGED <<case, muvars, indexvars>>
  \/ case = MuMachine /\ MuNext /\ UNCHANGED <<case, vars, indexvars>>
  \/ case = IndexMachine /\ R!Next /\ UNCHANGED <<case, vars, muvars>>

MCSpec == MCInit /\ [][MCNext]_<<vars, muvars, case, indexvars>>
=============================================================================
