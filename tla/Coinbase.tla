------------------------------ MODULE Coinbase ------------------------------
(***************************************************************************)
(* processes/coinbase.rs: the coinbase a block must carry, and its         *)
(* payload.  A u64 takes SIZE_U64 bytes of the payload, the script version *)
(* and the script length one byte each; a byte is 0..BYTE - 1.  Integers   *)
(* are written little endian.  Results are [err] or [err |-> "Ok", ...].   *)
(***************************************************************************)
EXTENDS TxRules

CONSTANTS BYTE, SIZE_U64,
          max_coinbase_payload_len,
          deflationary_phase_daa_score, pre_deflationary_phase_base_subsidy,
          SECONDS_PER_MONTH, SUBSIDY_BY_MONTH_TABLE

MIN_PAYLOAD_LENGTH == SIZE_U64 + SIZE_U64 + 2

to_le(n) == [k \in 1..SIZE_U64 |-> (n \div BYTE^(k - 1)) % BYTE]
from_le(bytes) == FoldSeq(LAMBDA b, acc : b + BYTE * acc, 0, bytes)

calc_block_subsidy(daa_score) ==
  IF daa_score < deflationary_phase_daa_score THEN pre_deflationary_phase_base_subsidy
  ELSE LET months == (daa_score - deflationary_phase_daa_score) \div SECONDS_PER_MONTH
           last == Len(SUBSIDY_BY_MONTH_TABLE)
       IN SUBSIDY_BY_MONTH_TABLE[IF months >= last THEN last ELSE months + 1]

MinerBytes(miner) ==
  <<miner.script_public_key.version, Len(miner.script_public_key.script)>>
  \o miner.script_public_key.script \o miner.extra_data
serialize_coinbase_payload(data) ==
  IF Len(data.miner.script_public_key.script) > spk_max_len THEN [err |-> "PayloadScriptPublicKeyLenAboveMax"]
  ELSE [err |-> "Ok", payload |-> to_le(data.blue_score) \o to_le(data.subsidy) \o MinerBytes(data.miner)]

\* Keeps the blue score and the subsidy of an existing payload.
modify_coinbase_payload(payload, miner) ==
  IF Len(miner.script_public_key.script) > spk_max_len THEN [err |-> "PayloadScriptPublicKeyLenAboveMax"]
  ELSE [err |-> "Ok", payload |-> SubSeq(payload, 1, 2 * SIZE_U64) \o MinerBytes(miner)]

deserialize_coinbase_payload(payload) ==
  LET at(offset, n) == SubSeq(payload, offset + 1, offset + n)
      script_len == payload[MIN_PAYLOAD_LENGTH]
  IN IF Len(payload) < MIN_PAYLOAD_LENGTH THEN [err |-> "PayloadLenBelowMin"]
     ELSE IF Len(payload) > max_coinbase_payload_len THEN [err |-> "PayloadLenAboveMax"]
     ELSE IF script_len > spk_max_len THEN [err |-> "PayloadScriptPublicKeyLenAboveMax"]
     ELSE IF Len(payload) - MIN_PAYLOAD_LENGTH < script_len THEN [err |-> "PayloadCantContainScriptPublicKey"]
     ELSE [err |-> "Ok",
           data |-> [blue_score |-> from_le(at(0, SIZE_U64)), subsidy |-> from_le(at(SIZE_U64, SIZE_U64)),
                     miner |-> [script_public_key |-> [version |-> payload[2 * SIZE_U64 + 1],
                                                       script |-> at(MIN_PAYLOAD_LENGTH, script_len)],
                                extra_data |-> SubSeq(payload, MIN_PAYLOAD_LENGTH + script_len + 1, Len(payload))]]]

\* One output per rewarded blue block, one for all the reds; rewards maps a
\* merged block to [subsidy, total_fees, script_public_key].
expected_coinbase_transaction(daa_score, miner, gd, rewards, non_daa) ==
  LET reward(b) == rewards[b].subsidy + rewards[b].total_fees
      blues == SelectSeq(gd.mergeset_blues, LAMBDA b : b \notin non_daa /\ reward(b) > 0)
      reds == SelectSeq(gd.mergeset_reds, LAMBDA b : b \notin non_daa)
      red_reward == SumOf(reds, reward)
      output(v, spk) == [value |-> v, script_public_key |-> spk]
      ser == serialize_coinbase_payload([blue_score |-> gd.blue_score, subsidy |-> calc_block_subsidy(daa_score),
                                         miner |-> miner])
  IN IF ser.err # "Ok" THEN ser
     ELSE [err |-> "Ok", has_red_reward |-> red_reward > 0,
           tx |-> [version |-> TX_VERSION, inputs |-> <<>>,
                   outputs |-> [k \in DOMAIN blues |-> output(reward(blues[k]), rewards[blues[k]].script_public_key)]
                               \o (IF red_reward > 0 THEN <<output(red_reward, miner.script_public_key)>> ELSE <<>>),
                   lock_time |-> 0, subnetwork_id |-> COINBASE, gas |-> 0, payload |-> ser.payload]]

\* The body processor's context check of the coinbase, and virtual's.
check_coinbase_blue_score_and_subsidy(coinbase, header) ==
  LET d == deserialize_coinbase_payload(coinbase.payload)
  IN IF d.err # "Ok" THEN "BadCoinbasePayload"
     ELSE First(<<Check(d.data.blue_score # header.blue_score, "BadCoinbasePayloadBlueScore"),
                  Check(d.data.subsidy # calc_block_subsidy(header.daa_score), "WrongSubsidy")>>)
verify_coinbase_transaction(coinbase, daa_score, gd, rewards, non_daa) ==
  LET miner == deserialize_coinbase_payload(coinbase.payload).data.miner
      expected == expected_coinbase_transaction(daa_score, miner, gd, rewards, non_daa).tx
  IN Check(hash(coinbase) # hash(expected), "BadCoinbaseTransaction")
=============================================================================
