------------------------------ MODULE TxRules -------------------------------
(***************************************************************************)
(* The rules a transaction and a block body are checked against            *)
(* (processes/transaction_validator, processes/mass.rs, the body           *)
(* processor's validation in isolation, and the UTXO-context validation of *)
(* virtual_processor/utxo_validation.rs).  A check returns "Ok" or the     *)
(* name of its error; a chain of `?` is First, the first error of a list.  *)
(* u64 is scaled to 0..U64 - 1.  A signature is its signer's key and the   *)
(* hash it signs: secp256k1 is external and ideal.                         *)
(***************************************************************************)
EXTENDS TxHashing, FiniteSets

CONSTANTS U64,                  \* 2^64
          MAX_SOMPI, TX_VERSION, LOCK_TIME_THRESHOLD,
          LOCK_MASK,            \* SEQUENCE_LOCK_TIME_MASK + 1
          max_tx_inputs, max_tx_outputs, max_signature_script_len, max_script_public_key_len,
          ghostdag_k, spk_max_len, coinbase_maturity,
          max_block_mass, mass_per_tx_byte, mass_per_script_pub_key_byte, mass_per_sig_op

First(results) ==
  LET bad == {k \in DOMAIN results : results[k] # "Ok"}
  IN IF bad = {} THEN "Ok" ELSE results[CHOOSE k \in bad : \A j \in bad : k <= j]
Check(failed, err) == IF failed THEN err ELSE "Ok"
SumOf(seq, f(_)) == FoldSeq(LAMBDA x, acc : f(x) + acc, 0, seq)
-----------------------------------------------------------------------------
\* validate_tx_in_isolation
check_transaction_inputs_count(tx) ==
  First(<<Check(~is_coinbase(tx) /\ tx.inputs = <<>>, "NoTxInputs"),
          Check(Len(tx.inputs) > max_tx_inputs, "TooManyInputs")>>)
check_transaction_signature_scripts(tx) ==
  Check(\E i \in DOMAIN tx.inputs : Len(tx.inputs[i].signature_script) > max_signature_script_len, "TooBigSignatureScript")
check_transaction_outputs_count(tx) == Check(Len(tx.outputs) > max_tx_outputs, "TooManyOutputs")
check_transaction_script_public_keys(tx) ==
  Check(\E i \in DOMAIN tx.outputs : Len(tx.outputs[i].script_public_key.script) > max_script_public_key_len,
        "TooBigScriptPublicKey")
BugCoinbaseOutputs(tx) ==
  IF ~is_coinbase(tx) THEN "Ok" ELSE Check(Len(tx.outputs) > ghostdag_k + 1, "CoinbaseTooManyOutputs")
check_coinbase_in_isolation(tx) ==
  IF ~is_coinbase(tx) THEN "Ok"
  ELSE First(<<Check(tx.inputs # <<>>, "CoinbaseHasInputs"),
               Check(Len(tx.outputs) > ghostdag_k + 2, "CoinbaseTooManyOutputs"),
               Check(\E i \in DOMAIN tx.outputs : Len(tx.outputs[i].script_public_key.script) > spk_max_len,
                     "CoinbaseScriptPublicKeyTooLong")>>)

\* The running total of a list of amounts: each item is checked by `item`
\* before the checked addition, and the new total against MAX_SOMPI after it.
CheckedTotal(amounts, item(_), overflow, too_high) ==
  FoldLeft(LAMBDA acc, v :
             LET total == acc.total + v
                 err == First(<<item(v), Check(total >= U64, overflow), Check(total > MAX_SOMPI, too_high)>>)
             IN IF acc.err # "Ok" THEN acc ELSE [total |-> total, err |-> err],
           [total |-> 0, err |-> "Ok"], amounts)
check_transaction_output_value_ranges(tx) ==
  CheckedTotal([i \in DOMAIN tx.outputs |-> tx.outputs[i].value],
               LAMBDA v : First(<<Check(v = 0, "TxOutZero"), Check(v > MAX_SOMPI, "TxOutTooHigh")>>),
               "OutputsValueOverflow", "TotalTxOutTooHigh").err
check_duplicate_transaction_inputs(tx) ==
  Check(~IsInjective([i \in DOMAIN tx.inputs |-> tx.inputs[i].previous_outpoint]), "TxDuplicateInputs")
check_gas(tx) == Check(tx.gas > 0, "TxHasGas")
check_transaction_payload(tx) == Check(~is_coinbase(tx) /\ tx.payload # <<>>, "NonCoinbaseTxHasPayload")
check_transaction_version(tx) == Check(tx.version # TX_VERSION, "UnknownTxVersion")

validate_tx_in_isolation(tx) ==
  First(<<check_transaction_inputs_count(tx), check_transaction_signature_scripts(tx),
          check_transaction_outputs_count(tx), check_transaction_script_public_keys(tx),
          check_coinbase_in_isolation(tx), check_transaction_output_value_ranges(tx),
          check_duplicate_transaction_inputs(tx), check_gas(tx), check_transaction_payload(tx),
          check_transaction_version(tx)>>)

\* utxo_free_tx_validation: zero, an earlier score or time, or final inputs.
check_tx_is_finalized(tx, ctx_daa_score, ctx_block_time) ==
  LET reached == tx.lock_time < (IF tx.lock_time < LOCK_TIME_THRESHOLD THEN ctx_daa_score ELSE ctx_block_time)
  IN Check(tx.lock_time # 0 /\ ~reached /\ \E i \in DOMAIN tx.inputs : tx.inputs[i].sequence # U64 - 1, "NotFinalized")
-----------------------------------------------------------------------------
\* Mass, with the byte sizes of the estimated serialisation.
outpoint_size == 32 + 4
input_size(i) == outpoint_size + 8 + Len(i.signature_script) + 8
output_size(o) == 8 + 2 + 8 + Len(o.script_public_key.script)
transaction_estimated_serialized_size(tx) ==
  2 + 8 + SumOf(tx.inputs, input_size) + 8 + SumOf(tx.outputs, output_size) + 8 + 20 + 8 + 32 + 8 + Len(tx.payload)
calc_tx_mass(tx) ==
  IF is_coinbase(tx) THEN 0
  ELSE transaction_estimated_serialized_size(tx) * mass_per_tx_byte
       + SumOf(tx.outputs, LAMBDA o : 2 + Len(o.script_public_key.script)) * mass_per_script_pub_key_byte
       + SumOf(tx.inputs, LAMBDA i : i.sig_op_count) * mass_per_sig_op
-----------------------------------------------------------------------------
\* validate_body_in_isolation of a block [txs, hash_merkle_root].
BlockInputs(txs) == FlattenSeq([k \in DOMAIN txs |-> txs[k].inputs])
check_only_one_coinbase(txs) ==
  First(<<Check(~is_coinbase(txs[1]), "FirstTxNotCoinbase"),
          Check(\E k \in 2..Len(txs) : is_coinbase(txs[k]), "MultipleCoinbases")>>)
check_transactions_in_isolation(txs) ==
  Check(\E k \in DOMAIN txs : validate_tx_in_isolation(txs[k]) # "Ok", "TxInIsolationValidationFailed")
check_block_mass(txs) == Check(SumOf(txs, calc_tx_mass) > max_block_mass, "ExceedsMassLimit")
check_duplicate_transactions(txs) == Check(~IsInjective([k \in DOMAIN txs |-> id(txs[k])]), "DuplicateTransactions")
check_block_double_spends(txs) ==
  Check(~IsInjective([k \in DOMAIN BlockInputs(txs) |-> BlockInputs(txs)[k].previous_outpoint]), "DoubleSpendInSameBlock")
Outpoint(tx, index) == [transaction_id |-> id(tx), index |-> index]
BugChainedBefore(txs) ==   \* misses a transaction placed before the one it spends
  Check(\E j, k \in DOMAIN txs : j < k /\ \E i \in DOMAIN txs[k].inputs :
          txs[k].inputs[i].previous_outpoint \in {Outpoint(txs[j], n - 1) : n \in DOMAIN txs[j].outputs}, "ChainedTransaction")
check_no_chained_transactions(txs) ==
  LET created == UNION {{Outpoint(txs[k], n - 1) : n \in DOMAIN txs[k].outputs} : k \in DOMAIN txs}
  IN Check(\E k \in DOMAIN BlockInputs(txs) : BlockInputs(txs)[k].previous_outpoint \in created, "ChainedTransaction")

validate_body_in_isolation(block) ==
  LET txs == block.txs
  IN IF txs = <<>> THEN "NoTransactions"
     ELSE First(<<Check(calc_hash_merkle_root(txs) # block.hash_merkle_root, "BadMerkleRoot"),
                  check_only_one_coinbase(txs), check_transactions_in_isolation(txs), check_block_mass(txs),
                  check_duplicate_transactions(txs), check_block_double_spends(txs),
                  check_no_chained_transactions(txs)>>)
-----------------------------------------------------------------------------
\* validate_populated_transaction_and_get_fee; entries[i] is input i's entry.
check_transaction_coinbase_maturity(entries, pov) ==
  Check(\E i \in DOMAIN entries : entries[i].is_coinbase /\ entries[i].block_daa_score + coinbase_maturity > pov,
        "ImmatureCoinbaseSpend")
check_transaction_input_amounts(entries) ==
  CheckedTotal([i \in DOMAIN entries |-> entries[i].amount], LAMBDA v : "Ok", "InputAmountOverflow", "InputAmountTooHigh")
total_out(tx) == SumOf(tx.outputs, LAMBDA o : o.value)
BugSequenceLock(tx, entries, pov) ==   \* only at the lock's own score
  Check(\E i \in DOMAIN entries :
          /\ tx.inputs[i].sequence < U64 \div 2
          /\ entries[i].block_daa_score + (tx.inputs[i].sequence % LOCK_MASK) - 1 = pov, "SequenceLockConditionsAreNotMet")
check_sequence_lock(tx, entries, pov) ==
  Check(\E i \in DOMAIN entries :
          /\ tx.inputs[i].sequence < U64 \div 2      \* not SEQUENCE_LOCK_TIME_DISABLED
          /\ entries[i].block_daa_score + (tx.inputs[i].sequence % LOCK_MASK) - 1 >= pov,
        "SequenceLockConditionsAreNotMet")

\* Every input's signature, the hash it must sign and the entry's key form a
\* cache key; a key found in the cache is not verified again.  An invalid
\* signature is the code's unwrap: "Panic".
SIG_HASH_ALL == 1
Signature(key, msg) == <<key, msg>>
check_signature(s, sig, pk, h) ==
  [s EXCEPT !.reused = h.reused,
            !.err = Check(<<sig, pk, h.hash>> \notin s.cache /\ sig # Signature(pk, h.hash), "Panic"),
            !.cache = IF sig = Signature(pk, h.hash) THEN @ \union {<<sig, pk, h.hash>>} ELSE @]
check_scripts(tx, entries, sig_cache) ==
  FoldLeft(LAMBDA s, i :
             IF s.err # "Ok" THEN s
             ELSE check_signature(s, tx.inputs[i].signature_script[1], entries[i].script_public_key.script[1],
                                  calc_schnorr_signature_hash(tx, entries, i, SIG_HASH_ALL, s.reused)),
           [err |-> "Ok", reused |-> NoReusedValues, cache |-> sig_cache], [i \in DOMAIN entries |-> i])

\* The error or "Ok" with the fee, and the signature cache afterwards.
validate_populated_transaction_and_get_fee(tx, entries, pov, sig_cache) ==
  LET amounts == check_transaction_input_amounts(entries)
      cheap == First(<<check_transaction_coinbase_maturity(entries, pov), amounts.err,
                       Check(amounts.total < total_out(tx), "SpendTooHigh"), check_sequence_lock(tx, entries, pov)>>)
      outcome(scripts) == [err |-> scripts.err, fee |-> amounts.total - total_out(tx), cache |-> scripts.cache]
  IN IF cheap # "Ok" THEN [err |-> cheap, fee |-> 0, cache |-> sig_cache]
     ELSE outcome(check_scripts(tx, entries, sig_cache))

\* utxo_view is a function from the unspent outpoints to their entries.
validate_transaction_in_utxo_context(tx, utxo_view, pov, sig_cache) ==
  IF \E i \in DOMAIN tx.inputs : tx.inputs[i].previous_outpoint \notin DOMAIN utxo_view
  THEN [err |-> "MissingTxOutpoints", fee |-> 0, cache |-> sig_cache]
  ELSE validate_populated_transaction_and_get_fee(
         tx, [i \in DOMAIN tx.inputs |-> utxo_view[tx.inputs[i].previous_outpoint]], pov, sig_cache)

\* The indices of the accepted transactions (the coinbase is skipped), and
\* whether some thread panicked, which ends the call.
validate_transactions_in_parallel(txs, utxo_view, pov, sig_cache) ==
  LET outcome(errs) == [panics |-> \E k \in DOMAIN errs : errs[k] = "Panic", accepted |-> {k \in DOMAIN errs : errs[k] = "Ok"}]
  IN outcome([k \in 2..Len(txs) |-> validate_transaction_in_utxo_context(txs[k], utxo_view, pov, sig_cache).err])

\* A mempool transaction keeps the entries it was populated with earlier
\* (<<entry>>, or <<>> for none) and looks up the others; what it found stays.
validate_mempool_transaction_in_utxo_context(tx, known, utxo_view, pov, sig_cache) ==
  LET found(i) == IF known[i] # <<>> THEN known[i]
                  ELSE IF tx.inputs[i].previous_outpoint \in DOMAIN utxo_view
                       THEN <<utxo_view[tx.inputs[i].previous_outpoint]>> ELSE <<>>
      populated(entries) ==
        [entries |-> entries,
         result |-> IF \E i \in DOMAIN entries : entries[i] = <<>>
                    THEN [err |-> "MissingTxOutpoints", fee |-> 0, cache |-> sig_cache]
                    ELSE validate_populated_transaction_and_get_fee(tx, [i \in DOMAIN entries |-> entries[i][1]], pov, sig_cache)]
  IN populated([i \in DOMAIN tx.inputs |-> found(i)])
=============================================================================
