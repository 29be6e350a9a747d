----------------------------- MODULE TxHashing ------------------------------
(***************************************************************************)
(* What the hashes of transactions and headers commit to                   *)
(* (consensus/core/src/hashing, crypto/merkle).  The hash functions are    *)
(* ideal: a hash is its domain and its preimage.  A preimage is a sequence *)
(* of atoms; a field of fixed size is one atom whatever its type, so that  *)
(* only the length prefixes the code writes keep two encodings apart.  A   *)
(* reused-values cache holds <<>> (None) or <<hash>> in each field.        *)
(***************************************************************************)
EXTENDS Integers, Sequences, SequencesExt

H(domain, preimage) == <<domain, preimage>>
ZERO_HASH == H("zero", <<>>)
NATIVE == 0     \* SUBNETWORK_ID_NATIVE
COINBASE == 1   \* SUBNETWORK_ID_COINBASE

\* HasherExtensions: atoms of one fixed-size value, then the framed writers.
update(n) == <<<<n>>>>
write_hash(h) == <<h>>
write_len(n) == update(n)
write_var_bytes(bytes) == write_len(Len(bytes)) \o [k \in DOMAIN bytes |-> <<bytes[k]>>]
write_var_array(arr) == write_len(Len(arr)) \o arr
write_blue_work(be_bytes) ==   \* big endian, without the leading zeroes
  LET nonzero == {k \in DOMAIN be_bytes : be_bytes[k] # 0}
      start == IF nonzero = {} THEN Len(be_bytes) + 1 ELSE CHOOSE k \in nonzero : \A j \in nonzero : k <= j
  IN write_var_bytes(SubSeq(be_bytes, start, Len(be_bytes)))
WriteAll(seq, write(_)) == FlattenSeq([k \in DOMAIN seq |-> write(seq[k])])
-----------------------------------------------------------------------------
write_outpoint(o) == write_hash(o.transaction_id) \o update(o.index)
write_spk(spk) == update(spk.version) \o write_var_bytes(spk.script)
write_output(o) == update(o.value) \o write_spk(o.script_public_key)
write_input(i, exclude_script) ==
  write_outpoint(i.previous_outpoint)
  \o (IF exclude_script THEN write_var_bytes(<<>>)
      ELSE write_var_bytes(i.signature_script) \o update(i.sig_op_count))
  \o update(i.sequence)

write_transaction(tx, exclude_script) ==
  update(tx.version)
  \o write_len(Len(tx.inputs)) \o WriteAll(tx.inputs, LAMBDA i : write_input(i, exclude_script))
  \o write_len(Len(tx.outputs)) \o WriteAll(tx.outputs, write_output)
  \o update(tx.lock_time) \o update(tx.subnetwork_id) \o update(tx.gas) \o write_var_bytes(tx.payload)

is_coinbase(tx) == tx.subnetwork_id = COINBASE
hash(tx) == H("TransactionHash", write_transaction(tx, FALSE))
id(tx) == H("TransactionID", write_transaction(tx, ~is_coinbase(tx)))

\* The element of the multiset hash for an unspent output, and what a populated
\* transaction removes from and adds to the multiset.
write_utxo(entry, outpoint) ==
  write_outpoint(outpoint) \o update(entry.block_daa_score) \o update(entry.amount)
  \o update(IF entry.is_coinbase THEN 1 ELSE 0) \o write_spk(entry.script_public_key)
add_transaction(tx, entries, block_daa_score) ==
  [removed |-> {write_utxo(entries[i], tx.inputs[i].previous_outpoint) : i \in DOMAIN tx.inputs},
   added |-> {write_utxo([amount |-> tx.outputs[i].value, script_public_key |-> tx.outputs[i].script_public_key,
                          block_daa_score |-> block_daa_score, is_coinbase |-> is_coinbase(tx)],
                         [transaction_id |-> id(tx), index |-> i - 1]) : i \in DOMAIN tx.outputs}]

\* Nonce and timestamp are parameters: the proof-of-work hash overrides them.
hash_override_nonce_time(header, nonce, timestamp) ==
  H("BlockHash",
    update(header.version) \o write_len(Len(header.parents_by_level))
    \o WriteAll(header.parents_by_level, write_var_array)
    \o write_hash(header.hash_merkle_root) \o write_hash(header.accepted_id_merkle_root)
    \o write_hash(header.utxo_commitment) \o update(timestamp) \o update(header.bits) \o update(nonce)
    \o update(header.daa_score) \o update(header.blue_score) \o write_blue_work(header.blue_work)
    \o write_hash(header.pruning_point))
header_hash(header) == hash_override_nonce_time(header, header.nonce, header.timestamp)
-----------------------------------------------------------------------------
\* The tree in one array: the leaves, the level above them, and so on.
merkle_hash(left, right) == H("MerkleBranchHash", <<left, right>>)
calc_merkle_root(hashes) ==
  LET n == Len(hashes)
      next_pot == CHOOSE p \in {2^k : k \in 0..n} : p >= n /\ (p = 1 \/ p \div 2 < n)
      vec_len == 2 * next_pot - 1
      leaves == [i \in 0..vec_len - 1 |-> IF i < n THEN <<hashes[i + 1]>> ELSE <<>>]
      unwrap_or_zero(o) == IF o = <<>> THEN ZERO_HASH ELSE o[1]
      merkles[k \in 0..next_pot - 1] ==    \* after k iterations of the loop
        IF k = 0 THEN leaves
        ELSE LET m == merkles[k - 1]  i == 2 * (k - 1)
             IN [m EXCEPT ![next_pot + k - 1] =
                   IF m[i] = <<>> THEN <<>> ELSE <<merkle_hash(m[i][1], unwrap_or_zero(m[i + 1]))>>]
  IN IF n = 0 THEN ZERO_HASH ELSE merkles[next_pot - 1][vec_len - 1][1]
calc_hash_merkle_root(txs) == calc_merkle_root([k \in DOMAIN txs |-> hash(txs[k])])
-----------------------------------------------------------------------------
\* Signature hash types: the low three bits and the anyone-can-pay bit.
ALLOWED_SIG_HASH_TYPES_VALUES == {1, 2, 4, 129, 130, 132}
from_u8(val) == IF val \in ALLOWED_SIG_HASH_TYPES_VALUES THEN <<val>> ELSE <<>>
is_sighash_none(t) == t % 8 = 2
is_sighash_single(t) == t % 8 = 4
is_sighash_anyone_can_pay(t) == t \div 128 = 1

ReusedFields == {"previous_outputs", "sequences", "sig_op_counts", "outputs"}
NoReusedValues == [f \in ReusedFields |-> <<>>]
Sig(preimage) == H("TransactionSigningHash", preimage)

\* The value of a cached field, and the cache afterwards.
Reuse(reused, field, preimage) ==
  IF reused[field] # <<>> THEN [hash |-> reused[field][1], reused |-> reused]
  ELSE [hash |-> Sig(preimage), reused |-> [reused EXCEPT ![field] = <<Sig(preimage)>>]]
Skip(reused, h) == [hash |-> h, reused |-> reused]

previous_outputs_hash(tx, t, reused) ==
  IF is_sighash_anyone_can_pay(t) THEN Skip(reused, ZERO_HASH)
  ELSE Reuse(reused, "previous_outputs", WriteAll(tx.inputs, LAMBDA i : write_outpoint(i.previous_outpoint)))
sequences_hash(tx, t, reused) ==
  IF is_sighash_single(t) \/ is_sighash_anyone_can_pay(t) \/ is_sighash_none(t) THEN Skip(reused, ZERO_HASH)
  ELSE Reuse(reused, "sequences", WriteAll(tx.inputs, LAMBDA i : update(i.sequence)))
sig_op_counts_hash(tx, t, reused) ==
  IF is_sighash_anyone_can_pay(t) THEN Skip(reused, ZERO_HASH)
  ELSE Reuse(reused, "sig_op_counts", WriteAll(tx.inputs, LAMBDA i : update(i.sig_op_count)))
BugOutputsHash(tx, t, reused, input_index) ==   \* a single output cached as all of them
  IF is_sighash_none(t) THEN Skip(reused, ZERO_HASH)
  ELSE IF is_sighash_single(t) /\ input_index > Len(tx.outputs) THEN Skip(reused, ZERO_HASH)
  ELSE Reuse(reused, "outputs", IF is_sighash_single(t) THEN write_output(tx.outputs[input_index])
                                ELSE WriteAll(tx.outputs, write_output))
outputs_hash(tx, t, reused, input_index) ==
  IF is_sighash_none(t) THEN Skip(reused, ZERO_HASH)
  ELSE IF is_sighash_single(t)
       THEN Skip(reused, IF input_index > Len(tx.outputs) THEN ZERO_HASH ELSE Sig(write_output(tx.outputs[input_index])))
  ELSE Reuse(reused, "outputs", WriteAll(tx.outputs, write_output))
payload_hash(tx) ==
  IF tx.subnetwork_id = NATIVE THEN ZERO_HASH ELSE Sig(write_var_bytes(tx.payload))

\* entries[i] is the UTXO entry input i spends; indices are from 1.
calc_schnorr_signature_hash(tx, entries, input_index, t, reused) ==
  LET input == tx.inputs[input_index]  entry == entries[input_index]
      p == previous_outputs_hash(tx, t, reused)
      s == sequences_hash(tx, t, p.reused)
      c == sig_op_counts_hash(tx, t, s.reused)
      o == outputs_hash(tx, t, c.reused, input_index)
  IN [hash |-> Sig(update(tx.version) \o write_hash(p.hash) \o write_hash(s.hash) \o write_hash(c.hash)
                   \o write_outpoint(input.previous_outpoint) \o write_spk(entry.script_public_key)
                   \o update(entry.amount) \o update(input.sequence) \o update(input.sig_op_count)
                   \o write_hash(o.hash) \o update(tx.lock_time) \o update(tx.subnetwork_id) \o update(tx.gas)
                   \o write_hash(payload_hash(tx)) \o update(t)),
      reused |-> o.reused]
=============================================================================
